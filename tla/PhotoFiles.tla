------------------------------ MODULE PhotoFiles ------------------------------
(***************************************************************************)
(* Where the files of a photo are found.  The backend hands out URLs of    *)
(* the CDN, which a worker of its own answers: it looks the slug up in     *)
(* Workers KV, where ConfirmPhotoBatchHandler has put it, and fetches the  *)
(* file from storage.  The embedding worker is a client of that CDN; the   *)
(* download pages go to storage directly.                                  *)
(*                                                                         *)
(* An entity gets its id and its public slug together, so the id stands    *)
(* for the slug.  Originals are never deleted.  The slugs of retouched     *)
(* versions, the caches of the CDN and its check of the referer are left   *)
(* out.                                                                    *)
(***************************************************************************)
EXTENDS PhotoPipeline

VARIABLES
    kv,            \* Workers KV: slug to storage key
    embedding,     \* the job of each photo id in the embedding-generation queue
    embedded,      \* the photos with an embedding
    lost,          \* history: entities whose slug was never written to KV
    spoilt         \* history: photos whose retouched file may be gone

fileVars == <<kv, embedding, embedded, lost, spoilt>>
filesVars == <<pipelineVars, fileVars>>

FilesTypeOK ==
    /\ PipelineTypeOK
    /\ DOMAIN kv \subseteq PhotoIds
    /\ \A s \in DOMAIN kv : kv[s] \in Keys
    /\ embedding \in [PhotoIds -> Job]
    /\ embedded \subseteq DOMAIN photos
    /\ lost \subseteq PhotoIds
    /\ spoilt \subseteq PhotoIds

FilesInit ==
    /\ PipelineInit
    /\ kv = NoRows
    /\ embedding = [p \in PhotoIds |-> NoJob]
    /\ embedded = {} /\ lost = {} /\ spoilt = {}

-----------------------------------------------------------------------------
(* URLs: how the backend builds them and how the CDN worker answers.       *)

NoPreset == "original"
NotFound == "404"
Forbidden == "403"

\* A storage key is a path under events/.
ASSUME FilesAssumption == {NotFound, Forbidden} \cap Keys = {}

\* galleryUrl
GalleryUrl(s) == [prefix |-> "gallery", preset |-> NoPreset, slug |-> s]

\* internalUrl signs the path, preset included, and a time ten minutes away.
InternalUrl(s, preset) ==
    [prefix |-> "internal", preset |-> preset, slug |-> s, signed |-> <<preset, s>>]

InternalPreset == {"thumb", "workspace", "embedding"}

\* Seeded bug: the worker was deployed without the preset of embeddings.
InternalPresetsOld == {"thumb", "workspace"}

\* INTERNAL_PRESETS
InternalPresets == {"thumb", "workspace", "embedding"}

\* verifyHmacToken; a lapsed token is refused before it is verified.
Verified(url, lapsed) == ~lapsed /\ url.signed = <<url.preset, url.slug>>

\* Every route of a photo looks its slug up in KV, and fetches what it finds.
FetchFound(s) == IF s \in DOMAIN kv THEN kv[s] ELSE NotFound

\* The router of the worker, for photos: watermarked in the gallery, and
\* behind a token inside, as a preset or as it is.
Answer(url, lapsed) ==
    CASE url.prefix = "gallery" -> FetchFound(url.slug)
      [] url.prefix = "internal" ->
           IF ~Verified(url, lapsed) THEN Forbidden
           ELSE IF url.preset \notin InternalPresets \cup {NoPreset} THEN NotFound
           ELSE FetchFound(url.slug)

\* Every URL a projection of photo p carries.
UrlsOf(p) == {GalleryUrl(p)} \cup {InternalUrl(p, preset) : preset \in InternalPreset}

\* Original or retouched: GetPhotoDownloadUrlHandler.
DownloadUrl(p, type) ==
    IF type = "original" THEN photos[p].key
    ELSE IF photos[p].retouched = NoFile THEN NotFound
    ELSE photos[p].retouched

\* The delivery page: retouched_storage_key ?? storage_key.
DeliveryFile(p) == IF photos[p].retouched = NoFile THEN photos[p].key ELSE photos[p].retouched

\* GetDownloadManifestHandler
DownloadManifest(e) == {photos[p].key : p \in PhotosOf({e})}

\* findSimilar, before its limit.
FindSimilar(p) ==
    IF p \in embedded THEN {q \in PhotosOf({EventOf[photos[p].key]}) : q # p /\ q \in embedded}
    ELSE {}

-----------------------------------------------------------------------------
(* Slugs.                                                                  *)

\* The handler of a batch goes on to its jobs, or dies before.
Leaves(d) == desk[d].step = "enqueue" /\ desk'[d].step # "enqueue"

\* writeBulk: the slug of every entity of the batch.
Register(ids) ==
    kv' = [s \in DOMAIN kv \cup {ids[k] : k \in DOMAIN ids} |->
             IF s \in DOMAIN kv THEN kv[s] ELSE CHOOSE k \in DOMAIN ids : ids[k] = s]

\* A failure of KV is logged and the handler goes on; embedding jobs are put in
\* their queue before the classification jobs.
BatchEffects(d) ==
    /\ \/ Register(desk[d].ids) /\ UNCHANGED lost
       \/ UNCHANGED kv /\ lost' = lost \cup Enqueuing(d)
    /\ \/ embedding' = [p \in PhotoIds |->
            IF p \in Enqueuing(d) THEN [NoJob EXCEPT !.state = "waiting"] ELSE embedding[p]]
       \/ jobs' = jobs /\ UNCHANGED embedding

\* The script backfill-kv-slugs: every row, unless a bulk write fails.
Backfill ==
    /\ \E written \in SUBSET DOMAIN photos :
         /\ kv' = [s \in DOMAIN kv \cup written |-> IF s \in written THEN photos[s].key ELSE kv[s]]
         /\ lost' = lost \ written
    /\ UNCHANGED <<embedding, embedded, spoilt>>

-----------------------------------------------------------------------------
(* EmbeddingGenerationProcessor.  The URL is fetched at once, and what the *)
(* job writes is a column nobody else writes: the rest is one step.        *)

\* A job without a photo is done.
StartEmbedding(p) ==
    /\ embedding[p].state = "waiting"
    /\ embedding' = [embedding EXCEPT ![p].state = IF p \in DOMAIN photos THEN "active" ELSE "done"]
    /\ UNCHANGED embedded

Embed(p) ==
    /\ embedding[p].state = "active"
    /\ Answer(InternalUrl(p, "embedding"), FALSE) \in Keys
    /\ embedding' = [embedding EXCEPT ![p].state = "done"]
    /\ embedded' = embedded \cup {p}

\* The CDN answers with an error, or Voyage AI does, or the update fails.
EmbeddingThrows(p) ==
    /\ embedding[p].state = "active"
    /\ embedding' = [embedding EXCEPT ![p] = AfterFailure(embedding[p])]
    /\ UNCHANGED embedded

EmbeddingDies(p) ==
    /\ embedding[p].state = "active"
    /\ embedding' = [embedding EXCEPT ![p] = AfterStall(embedding[p])]
    /\ UNCHANGED embedded

\* What the worker does unless its process dies.
EmbeddingWorker(p) ==
    /\ StartEmbedding(p) \/ Embed(p) \/ EmbeddingThrows(p)
    /\ UNCHANGED <<pipelineVars, kv, lost, spoilt>>

-----------------------------------------------------------------------------
\* Handler d has a copy of photo p in memory.
HasCopy(d, p) == desk[d].step \in {"review", "delete", "retouch"} /\ desk[d].id = p

\* So have two handlers, or one and the worker.
Shared(p) ==
    \E d \in Desks :
        HasCopy(d, p) /\ (attempt[p] # Off \/ \E x \in Desks \ {d} : HasCopy(x, p))

\* Handler d has a file in hand that is to be the retouched version of photo p.
Replaces(d, p) == desk[d].step \in {"delete", "retouch"} /\ desk[d].id = p

\* File f is gone, or a handler is about to delete it.
Doomed(f) ==
    \/ f \notin bucket
    \/ \E d \in Desks : desk[d].step = "delete" /\ desk[d].photo.retouched = f

\* History: handlers of the photo overlap, one that replaces its retouched file
\* dies half way, or the new file is doomed, for it was confirmed before, for
\* this photo or for another.
Spoil ==
    spoilt' = spoilt
        \cup {p \in PhotoIds : Shared(p)'}
        \cup {p \in PhotoIds : \E d \in Desks :
                /\ desk[d].step = "retouch" /\ desk[d].id = p
                /\ desk'[d].step = "idle"}
        \cup {p \in PhotoIds : \E d \in Desks : (Replaces(d, p) /\ Doomed(desk[d].file))'}

\* Ids an entity has had, even one that has no row.
Known == DOMAIN kv \cup lost \cup {p \in PhotoIds : embedding[p] # NoJob}

\* What a step of the pipeline does to the files.
ItsFiles ==
    /\ \/ \E d \in Desks : Leaves(d) /\ BatchEffects(d)
       \/ (\A d \in Desks : ~Leaves(d)) /\ UNCHANGED <<kv, embedding, lost>>
    /\ Spoil
    /\ UNCHANGED embedded
    /\ \A d \in Desks : desk[d] = Idle => Enqueuing(d)' \cap Known = {}

ClassificationWorker(p) == WorkerStep(p) /\ Overlook /\ ItsFiles

FilesNext ==
    \/ PipelineNext /\ ItsFiles
    \/ Backfill /\ UNCHANGED pipelineVars
    \/ \E p \in PhotoIds : EmbeddingWorker(p)
    \/ \E p \in PhotoIds : EmbeddingDies(p) /\ UNCHANGED <<pipelineVars, kv, lost, spoilt>>

\* The workers of both queues are restarted when they die, and every call they
\* await returns or throws.
FilesSpec ==
    /\ FilesInit
    /\ [][FilesNext]_filesVars
    /\ \A p \in PhotoIds :
         /\ WF_filesVars(ClassificationWorker(p))
         /\ WF_filesVars(EmbeddingWorker(p))

-----------------------------------------------------------------------------
\* The row of p is stored, and the handler of its batch is at work.
Registering(p) == \E d \in Desks : p \in Enqueuing(d)

\* The handler that replaces the retouched file of p is between its two writes.
Replacing(p) == \E d \in Desks : desk[d].step = "retouch" /\ desk[d].id = p

\* Backend, KV, CDN worker and storage agree on the files of a photo, whoever
\* confirms its batch again.  Every URL handed out leads to its original,
\* unless KV failed for its batch or the handler died, until a backfill; what
\* the similar photos show is always there.  A customer's download exists, and
\* is the retouched version if there is one.
PhotosServed ==
    \A p \in DOMAIN photos :
        /\ p \in lost \/ Registering(p)
             \/ \A url \in UrlsOf(p) : Answer(url, FALSE) = photos[p].key
        /\ \A q \in FindSimilar(p) :
             Answer(InternalUrl(q, "thumb"), FALSE) = photos[q].key
        /\ DeliveryFile(p) \in DownloadManifest(EventOf[photos[p].key])
             \/ /\ DeliveryFile(p) = DownloadUrl(p, "retouched")
                /\ p \in spoilt \/ Replacing(p) \/ DeliveryFile(p) \in bucket

\* Every embedding job ends; unless it is given up the photo has its embedding,
\* or there is no photo: the upload was confirmed before.
EmbeddingsEnd ==
    \A p \in PhotoIds :
        (embedding[p].state \in {"waiting", "active"})
            ~> \/ embedding[p].state = "dead"
               \/ embedding[p].state = "done" /\ p \in embedded \cup (PhotoIds \ DOMAIN photos)

\* Both queues run empty, whatever throws or dies.
QueuesDrain == JobsEnd /\ EmbeddingsEnd
=============================================================================

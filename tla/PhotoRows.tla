------------------------------ MODULE PhotoRows ------------------------------
(***************************************************************************)
(* The photos table, the Photo entity and the bucket of retouched files.   *)
(* PhotoWriteRepository.save upserts the whole row of an entity loaded     *)
(* earlier, as the repositories of orders do; the columns that other       *)
(* statements write alone (requires_retouch, the embedding) are not part   *)
(* of it and are left out, and so are the file's name, size and type.      *)
(***************************************************************************)
EXTENDS Tables, Naturals

CONSTANTS
    PhotoIds,      \* ids handed out by Photo.create
    Keys,          \* storage keys of uploaded originals
    EventOf,       \* the event a key is under: events/<id>/...
    Files,         \* storage keys of uploaded retouched versions
    NoFile         \* a NULL retouched_storage_key

ASSUME PhotoAssumption == NoFile \notin Files /\ DOMAIN EventOf = Keys

VARIABLES
    photos,        \* table photos
    bucket         \* the retouched files that exist in storage

rowVars == <<photos, bucket>>

PhotoStatus == {"pending", "processing", "processed", "failed", "reviewed"}

\* processed and reviewed say whether processed_at and reviewed_at are set.
PhotoRow == [key : Keys, status : PhotoStatus, processed : BOOLEAN,
             reviewed : BOOLEAN, retouched : Files \cup {NoFile}]

\* The column event_id: ConfirmBatchHandler takes keys of its event only.
PhotosOf(events) == {p \in DOMAIN photos : EventOf[photos[p].key] \in events}

\* Photo.create
NewPhoto(k) == [key |-> k, status |-> "pending", processed |-> FALSE,
                reviewed |-> FALSE, retouched |-> NoFile]

\* Seeded bug: reviewed_at is not set.
ReviewedUnstamped(photo) == [photo EXCEPT !.status = "reviewed"]

\* The entity's mutators.
Processing(photo) == [photo EXCEPT !.status = "processing"]

Processed(photo) == [photo EXCEPT !.status = "processed", !.processed = TRUE]

Failed(photo) == [photo EXCEPT !.status = "failed", !.processed = TRUE]

Reviewed(photo) == [photo EXCEPT !.status = "reviewed", !.reviewed = TRUE]

SetRetouched(photo, f) == [photo EXCEPT !.retouched = f]

\* retouched_storage_key is unique: a save throws when another row names it.
FileFree(p, f) == \A q \in DOMAIN photos \ {p} : photos[q].retouched = f => f = NoFile

\* PhotoWriteRepository.save
SavePhoto(p, photo) ==
    /\ FileFree(p, photo.retouched)
    /\ photos' = Upsert(photos, p, photo)

\* Seeded bug: only the id makes a duplicate.
SaveManyById(ids) ==
    photos' = [p \in DOMAIN photos \cup {ids[k] : k \in DOMAIN ids} |->
                 IF p \in DOMAIN photos THEN photos[p]
                 ELSE NewPhoto(CHOOSE k \in DOMAIN ids : ids[k] = p)]

\* saveMany: rows of a new id each, but none for a key that has a row.
SaveMany(ids) ==
    LET taken == {photos[p].key : p \in DOMAIN photos}
        new == {k \in DOMAIN ids : k \notin taken}
    IN photos' = [p \in DOMAIN photos \cup {ids[k] : k \in new} |->
                    IF p \in DOMAIN photos THEN photos[p]
                    ELSE NewPhoto(CHOOSE k \in new : ids[k] = p)]

\* Every retouched version is uploaded, through a presigned URL with a key of
\* its own, before it is confirmed.
PhotoInit == photos = NoRows /\ bucket = Files
=============================================================================

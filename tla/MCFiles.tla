------------------------------- MODULE MCFiles -------------------------------
(***************************************************************************)
(* The small instance of PhotoFiles, in three parts:                       *)
(*   queue     one upload, confirmed by two clients, and every failure of  *)
(*             its classification jobs;                                    *)
(*   files     two uploads, one client, every failure of KV and of the     *)
(*             embedding of one of them, and the backfill;                 *)
(*   retouch   one upload, confirmed once; when its jobs are over, two     *)
(*             clients replace its retouched version.                      *)
(* Whatever a part does not say fails succeeds, and photos are classified  *)
(* after they are embedded, in the last two parts one job at a time.       *)
(***************************************************************************)
EXTENDS PhotoFiles, FiniteSets

CONSTANTS p1, k1, d1    \* members of PhotoIds, Keys and Desks

VARIABLE part

\* One event has all the photos.
OneEvent == [k \in Keys |-> "event"]

\* No job of a photo fails.
Smoothly(queue) == \A p \in DOMAIN photos : queue[p].stalls = 0 /\ queue[p].failures = 0

Classified ==
    Smoothly(jobs) /\ \A p \in PhotoIds : attempt[p].step \notin {"fail", "failed"}

Confirms(d, steps) == desk'[d].step \in {"idle", "enqueue"} \cup steps

Over(job) == job.state \in {"none", "done", "dead"}

OneJob ==
    Cardinality({p \in PhotoIds : jobs[p].state = "active"}
                \cup {p \in PhotoIds : embedding[p].state = "active"}) <= 1

OneUpload ==
    /\ \A p \in DOMAIN photos' : photos'[p].key = k1
    /\ \A d \in Desks : desk'[d].step = "enqueue" => DOMAIN desk'[d].ids = {k1}
    /\ Smoothly(embedding)'
    /\ lost' = {}

Queue ==
    /\ OneUpload
    /\ \A d \in Desks : Confirms(d, {})

FilesPart ==
    /\ Classified'
    /\ \A d \in Desks : Confirms(d, {}) /\ (d # d1 => desk'[d] = Idle)
    /\ \A p \in PhotoIds \ {p1} :
         /\ embedding'[p].stalls = 0
         /\ embedding'[p].failures = embedding[p].failures \/ p \in lost
    /\ Cardinality(lost') <= 1
    /\ OneJob'

Retouch ==
    /\ OneUpload
    /\ Classified'
    /\ OneJob'
    /\ \A d \in Desks : desk[d] = Idle /\ desk'[d].step = "enqueue" => photos = NoRows
    /\ \A d \in Desks : Confirms(d, {"delete", "retouch", "announce"})
    /\ \/ \A d \in Desks : Confirms(d, {})
       \/ /\ \A p \in PhotoIds : Over(jobs[p]) /\ Over(embedding[p])
          /\ \A d \in Desks : desk'[d].step # "enqueue"

Mine ==
    /\ \/ part = "queue" /\ Queue
       \/ part = "files" /\ FilesPart
       \/ part = "retouch" /\ Retouch
    /\ \A p \in PhotoIds : jobs'[p].state = "active" => Over(embedding'[p])
    /\ UNCHANGED part

PartNext == FilesNext /\ Mine

PartInit ==
    /\ FilesInit
    /\ part \in {"queue", "files", "retouch"}

PartSpec ==
    /\ PartInit
    /\ [][PartNext]_<<filesVars, part>>
    /\ \A p \in PhotoIds :
         /\ WF_<<filesVars, part>>(ClassificationWorker(p) /\ Mine)
         /\ WF_<<filesVars, part>>(EmbeddingWorker(p) /\ Mine)
=============================================================================

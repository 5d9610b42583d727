------------------------------- MODULE MCStudio -------------------------------
(***************************************************************************)
(* The small instance of Dashboard.  One instance with everything in it is *)
(* out of reach, so a run explores five parts of it:                       *)
(*   queue     one photo and file, every failure of the attempts, two      *)
(*             desks, one of which reviews or retouches the photo; no      *)
(*             attributes, no orders;                                      *)
(*   answer    one photo with a failed attempt at most, the worker, and    *)
(*             two handlers that review it or edit its bibs;               *)
(*   sheet     one photo, once it is classified: two editors of its bibs   *)
(*             and colours;                                                *)
(*   retouch   two photos, once they are classified: two desks that retouch*)
(*             them and review one, an order of both, and dismissals;      *)
(*   desk      two photos, of one event or of two, once they are           *)
(*             classified: one handler at a time reviews or retouches them;*)
(*             an order, a dismissal, and an operator who comes and goes.  *)
(* The first four have one batch of one event, which nobody changes.       *)
(***************************************************************************)
EXTENDS Dashboard, TLC

\* Members of PhotoIds, Keys, Files, BibNumbers, Values and EventIds; blur is no number.
CONSTANTS p1, k1, k2, f1, v1, blur, e1, e2

VARIABLE part

\* k1 and k2 are of one event.
KeyEvents == [k \in Keys |-> IF k \in {k1, k2} THEN e1 ELSE e2]

KeyNames == [k \in Keys |-> IF k = k1 THEN 1 ELSE IF k = k2 THEN 2 ELSE 3]

Busy == {d \in Desks : desk[d] # Idle} \cup {e \in Editors : edits[e] # Resting}

\* One batch, and in the parts that look at what follows, all of it classified.
OneBatch ==
    \A d \in Desks : desk'[d].step = "enqueue" /\ desk[d].step # "enqueue" => photos = NoRows

Classified ==
    \/ <<jobs, attempt>>' # <<jobs, attempt>>
    \/ \A p \in DOMAIN photos : jobs[p].state = "done"

AtMost(failures) == \A p \in PhotoIds : jobs'[p].stalls = 0 /\ jobs'[p].failures <= failures

OnePhoto ==
    \A p \in DOMAIN photos' : p = p1 /\ photos'[p].key = k1

Queue ==
    /\ OnePhoto
    /\ \A d \in Desks : desk'[d].step \in {"delete", "retouch"} => desk'[d].file = f1
    /\ Cardinality({d \in Desks : desk'[d].step \notin {"idle", "enqueue"}}) <= 1

\* A bib v1 or one that is no number, or a colour v1 without a second one.
FewReadings(original) ==
    \A f \in DOMAIN original :
        original[f] \in CASE f = "digits" -> {v1, blur}
                          [] f = "primary_color" -> {v1}
                          [] f = "secondary_color" -> {NoValue}

Answer ==
    /\ OnePhoto
    /\ AtMost(1)
    /\ Cardinality(Busy') <= 2
    /\ \A a \in DOMAIN attributes' : attributes'[a].original = [f \in {"digits"} |-> v1]
    /\ \A e \in Editors :
         /\ edits'[e].step \in {"idle", "insert", "delete"}
         /\ edits'[e].step = "insert" => edits'[e].original = [f \in {"digits"} |-> v1]
    /\ \A d \in Desks : desk'[d].step \in {"idle", "enqueue", "review"}

ASheet ==
    /\ OnePhoto
    /\ AtMost(0)
    /\ Classified
    /\ \A d \in Desks : desk'[d].step \in {"idle", "enqueue"}
    /\ overlapped' => Cardinality(DOMAIN attributes') <= 1
    /\ \A a \in DOMAIN attributes' : FewReadings(attributes'[a].original)
    /\ \A e \in Editors : edits'[e].step = "insert" =>
         FewReadings(edits'[e].original) /\ Cardinality(Busy') = 1

Retouch ==
    /\ AtMost(0)
    /\ Classified
    /\ Cardinality(DOMAIN photos') # 1
    /\ \A p \in DOMAIN photos' : photos'[p].key = IF p = p1 THEN k1 ELSE k2
    /\ \A d \in Desks :
         desk'[d].step \in {"delete", "retouch"} => (desk'[d].id = p1 <=> desk'[d].file = f1)
    /\ \A o \in DOMAIN ordered' : ordered'[o].photos = PhotoIds /\ ordered'[o].event = e1
    /\ dismissed' \subseteq {p1}

ADesk ==
    /\ AtMost(0)
    /\ Classified
    /\ Cardinality(Busy') <= 1
    /\ \A p \in DOMAIN photos' : p = p1 <=> photos'[p].key = k1
    /\ \A d \in Desks :
         /\ desk'[d].step \in {"idle", "enqueue", "review", "retouch", "announce"}
         /\ desk'[d].step = "retouch" => (desk'[d].id = p1 <=> desk'[d].file = f1)
    /\ dismissed' \subseteq {p1}
    /\ \A o \in DOMAIN ordered' : p1 \in ordered'[o].photos
    /\ \A o \in DOMAIN ordered' : ordered'[o].photos = {p1} => ordered'[o].event = e1
    /\ ordered' # ordered => Cardinality(DOMAIN photos) = 2 /\ Busy = {}
    /\ e2 \in active' \cap covered'
    /\ programmeVars' # programmeVars => Cardinality(DOMAIN photos) = 2 /\ Busy = {}

\* What a part leaves alone; it comes first for TLC's sake.
Kept ==
    /\ part' = part
    /\ part \in {"queue", "retouch", "desk"} => UNCHANGED <<attributes, edits>>
    /\ part \notin {"retouch", "desk"} => UNCHANGED retouchVars
    /\ part \in {"retouch", "desk"} => UNCHANGED bucket
    /\ part # "desk" => UNCHANGED programmeVars

PartNext ==
    /\ Kept
    /\ GalleryNext
    /\ \/ part = "desk" /\ ADesk
       \/ part = "queue" /\ OneBatch /\ Queue
       \/ part = "answer" /\ OneBatch /\ Answer
       \/ part = "sheet" /\ OneBatch /\ ASheet
       \/ part = "retouch" /\ OneBatch /\ Retouch

PartInit ==
    /\ GalleryInit
    /\ part \in {"queue", "answer", "sheet", "retouch", "desk"}

PartSpec ==
    /\ PartInit
    /\ [][PartNext]_<<galleryVars, part>>

Symmetry ==
    Permutations(Desks) \cup Permutations(AttrIds) \cup Permutations(Editors)
=============================================================================

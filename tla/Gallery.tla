------------------------------ MODULE Gallery ------------------------------
(***************************************************************************)
(* Who sees which photos: the public gallery of an event, and the lists of *)
(* photos the reviewers work from.  The commands of events and their       *)
(* covers are module Events and Covers; here each is one step.             *)
(***************************************************************************)
EXTENDS Attributes

CONSTANTS
    EventIds,
    Operators,     \* users with the role operator
    NameOf         \* the order of the filenames of the keys

ASSUME GalleryAssumption ==
    /\ \A k \in Keys : EventOf[k] \in EventIds /\ NameOf[k] \in Nat
    /\ \A k, l \in Keys : NameOf[k] = NameOf[l] => k = l

VARIABLES
    active,        \* events with status active, which deleted_at goes with
    covered,       \* events with a cover_image asset
    duty           \* table event_operators

programmeVars == <<active, covered, duty>>
galleryVars == <<studioVars, programmeVars>>

GalleryTypeOK ==
    /\ StudioTypeOK
    /\ active \subseteq EventIds
    /\ covered \subseteq EventIds
    /\ duty \subseteq EventIds \X Operators

\* The events are there already, with their covers.
GalleryInit ==
    /\ StudioInit
    /\ active = EventIds
    /\ covered = EventIds
    /\ duty = {}

-----------------------------------------------------------------------------
SetActive(e, live) == active' = (active \ {e}) \cup (IF live THEN {e} ELSE {})

SetCover(e, shown) ==
    /\ e \in active \/ ~shown
    /\ covered' = (covered \ {e}) \cup (IF shown THEN {e} ELSE {})

SetDuty(e, u, assigned) ==
    /\ e \in active \/ ~assigned
    /\ duty' = (duty \ {<<e, u>>}) \cup (IF assigned THEN {<<e, u>>} ELSE {})

ProgrammeStep ==
    \E e \in EventIds, on \in BOOLEAN :
        \/ SetActive(e, on) /\ UNCHANGED <<covered, duty>>
        \/ SetCover(e, on) /\ UNCHANGED <<active, duty>>
        \/ \E u \in Operators : SetDuty(e, u, on) /\ UNCHANGED <<active, covered>>

\* A batch is confirmed for an event that is found.
GalleryNext ==
    \/ /\ StudioNext
       /\ UNCHANGED programmeVars
       /\ (DOMAIN photos)' \ DOMAIN photos \subseteq PhotosOf(active)'
    \/ ProgrammeStep /\ UNCHANGED studioVars

GallerySpec == GalleryInit /\ [][GalleryNext]_galleryVars

-----------------------------------------------------------------------------
(* The public gallery.                                                     *)

\* existsActiveEventBySlug: an event can be used once it has a cover.
ExistsActiveEvent(e) == e \in active \cap covered

\* Seeded bug: a deleted bib is still found.
PlatesAll(e) ==
    {a \in DOMAIN attributes : "digits" \in DOMAIN attributes[a].original
        /\ attributes[a].photo \in PhotosOf({e})}

\* The bibs the public search looks at.
Plates(e) == {a \in PlatesAll(e) : ~attributes[a].deleted}

\* findMatchingBibPhotoIds, exact
MatchingBib(e, digits) ==
    {attributes[a].photo : a \in {x \in Plates(e) :
        digits = IF OfField(x, "digits") # {}
                 THEN LatestUpTo(Len(corrections), x, "digits")
                 ELSE attributes[x].original["digits"]}}

\* getPhotosWithoutBib
WithoutBib(e) ==
    {p \in PhotosOf({e}) : ~\E a \in DOMAIN attributes :
        /\ attributes[a].photo = p
        /\ "digits" \in DOMAIN attributes[a].original
        /\ ~attributes[a].deleted}

\* getPublicPhotos, without the category filter; NoValue is no bib searched.
PublicPhotos(e, section, digits) ==
    CASE section = "no_bib" -> WithoutBib(e)
      [] section # "no_bib" /\ digits = NoValue -> PhotosOf({e})
      [] OTHER -> MatchingBib(e, digits)

\* GetPublicEventPhotosDto
BibAsked(digits) == digits \in AskedNumbers \cup {NoValue}

\* {} also stands for the 400 of the DTO and the 404.
GetPublicEventPhotos(e, section, digits) ==
    IF BibAsked(digits) /\ ExistsActiveEvent(e)
    THEN PublicPhotos(e, section, digits) ELSE {}

-----------------------------------------------------------------------------
(* The reviewers' lists.                                                   *)

\* The review queue's tabs.
ReviewQueue(events, tab) ==
    {p \in PhotosOf(events) :
        /\ photos[p].status \in {"processed", "reviewed", "failed"}
        /\ tab = "pending" => ~photos[p].reviewed
        /\ tab = "reviewed" => photos[p].reviewed}

\* getPhotosList(classified)
PhotosList(e, classified) ==
    {p \in PhotosOf({e}) : (photos[p].status = "reviewed") = classified}

\* getClassifiedCountByEvent, getClassifiedCountsByEventIds
ClassifiedCount(e) == Cardinality({p \in PhotosOf({e}) : photos[p].status = "reviewed"})

\* countPendingReview of the operator's dashboard
PendingReview(events) ==
    {p \in PhotosOf(events) :
        photos[p].status \in {"processed", "reviewed"} /\ ~photos[p].reviewed}

Before(p, q) == NameOf[photos[p].key] < NameOf[photos[q].key]

\* The photos list of an event, ORDER BY filename.
ByFilename(e) ==
    LET rows == PhotosOf({e}) IN
    CHOOSE list \in [1 .. Cardinality(rows) -> rows] :
        \A i, j \in DOMAIN list : i < j => Before(list[i], list[j])

\* A page of it.
Page(e, limit, n) ==
    LET list == ByFilename(e)
    IN  {list[i] : i \in {x \in DOMAIN list : (n - 1) * limit < x /\ x <= n * limit}}

\* getResumePoint: the first photo without a review, and its page.
ResumePage(e, limit) ==
    LET left == PhotosList(e, FALSE)
        first == CHOOSE p \in left : \A q \in left : ~Before(q, p)
    IN  [photo |-> first, page |-> Cardinality({q \in PhotosOf({e}) : Before(q, first)}) \div limit + 1]

-----------------------------------------------------------------------------
\* The numbers a photo's detail shows.
NumbersOf(p) == {d.shown["digits"] : d \in {x \in PhotoDetail(p) : "digits" \in DOMAIN x.shown}}

\* Of an event with a cover, whatever was read, corrected, struck or added by
\* hand: a rider finds a photo by the numbers its detail shows, as far as they can
\* be asked for, and by no others; the photos without a bib in their detail, and
\* no others, in the section for those; and by a number what the administrators'
\* search finds.  A photo whose bibs all show what is no number is in neither.
GalleryComplete ==
    \A e \in active \cap covered :
        /\ \A p \in PhotosOf({e}) :
             /\ p \in GetPublicEventPhotos(e, "no_bib", NoValue) <=> NumbersOf(p) = {}
             /\ \A v \in Values :
                  p \in GetPublicEventPhotos(e, "matched", v) <=> v \in NumbersOf(p) \cap AskedNumbers
        /\ \A v \in Values :
             GetPublicEventPhotos(e, "matched", v) = SearchPhotos({e}, "digits", v)

\* "[...] so the rider can find themselves when OCR missed the plate."
MissedPlatesFound ==
    \A e \in active \cap covered : \A p \in PhotosOf({e}) :
        \/ p \in GetPublicEventPhotos(e, "no_bib", NoValue)
        \/ \E v \in AskedNumbers : p \in GetPublicEventPhotos(e, "matched", v)

\* The queue and the lists ask different columns and yet agree: a photo is in
\* the reviewed tab iff the lists call it classified, and a reviewer who goes on
\* where the resume point says finds the photo on that page.
QueuesAgree ==
    \A e \in EventIds :
        /\ ReviewQueue({e}, "reviewed") = PhotosList(e, TRUE)
        /\ ReviewQueue({e}, "pending") \subseteq PhotosList(e, FALSE)
        /\ PhotosList(e, FALSE) # {} =>
             \A limit \in 1 .. 2 : LET at == ResumePage(e, limit) IN at.photo \in Page(e, limit, at.page)
=============================================================================

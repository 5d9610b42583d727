------------------------------ MODULE Attributes ------------------------------
(***************************************************************************)
(* The bibs and colours of photos, read by the AI or entered by a          *)
(* reviewer, and the corrections reviewers make.  A row of photo_bibs or   *)
(* photo_colors is never changed but to soft-delete it; a correction is    *)
(* appended to a log, and every query works out the value to show from the *)
(* row and the latest correction of the field.                             *)
(***************************************************************************)
EXTENDS PhotoPipeline, Sequences, FiniteSets

CONSTANTS
    AttrIds,        \* ids of bibs and colours
    Values,         \* strings; a colour is one value in both languages
    BibNumbers,     \* 1 to 6 digits, what a reviewer may enter
    AskedNumbers,   \* 1 to 10 digits, what a search may ask for
    Palette,        \* COLOR_PALETTE
    NoValue,        \* NULL
    Editors,        \* reviewers with a handler in flight
    MaxCorrections  \* bound on the log, for TLC

ASSUME AttributeAssumption ==
    /\ NoValue \notin Values /\ MaxCorrections \in Nat
    /\ BibNumbers \subseteq AskedNumbers /\ AskedNumbers \cup Palette \subseteq Values

VARIABLES
    attributes,     \* tables photo_bibs and photo_colors
    corrections,    \* table corrections, in the order of corrected_at
    edits,          \* the handler each editor has in flight
    overlapped      \* history: two of them have been in flight together

attributeVars == <<attributes, corrections, edits, overlapped>>

Bib == [{"digits"} -> Values]
Colour == {c \in [{"primary_color", "secondary_color"} -> Values \cup {NoValue}] :
             c["primary_color"] # NoValue}
\* What the answer of the AI has of it: any string, empty ones too.
Reading == Bib \cup Colour
Field == UNION {DOMAIN r : r \in Reading}

AttributeRow == [photo : PhotoIds, original : Reading, deleted : BOOLEAN]

Correction == [target : AttrIds, field : Field, old : Values \cup {NoValue},
               new : Values \cup {NoValue}]

Resting == [step |-> "idle"]
Edit ==
    {Resting}
    \cup [step : {"insert"}, id : AttrIds, photo : PhotoIds, original : Reading]
    \cup [step : {"delete"}, target : AttrIds]
    \cup [step : {"correct"}, target : AttrIds, field : Field, new : Values \cup {NoValue}]
    \cup [step : {"append"}, correction : Correction]

AttributesTypeOK ==
    /\ DOMAIN attributes \subseteq AttrIds
    /\ \A a \in DOMAIN attributes : attributes[a] \in AttributeRow
    /\ corrections \in Seq(Correction)
    /\ \A i \in DOMAIN corrections : corrections[i].target \in DOMAIN attributes
    /\ edits \in [Editors -> Edit]
    /\ overlapped \in BOOLEAN

AttributesInit ==
    /\ attributes = NoRows
    /\ corrections = <<>>
    /\ edits = [e \in Editors |-> Resting]
    /\ overlapped = FALSE

-----------------------------------------------------------------------------
\* Seeded bug: the latest correction of the attribute, whatever its field.
OfTarget(a, f) == {i \in DOMAIN corrections : corrections[i].target = a}

\* The corrections of a field.
OfField(a, f) == {i \in DOMAIN corrections : corrections[i].target = a /\ corrections[i].field = f}

\* findLatestForTarget and findLatestByTargets, in the log up to n.
LatestUpTo(n, a, f) ==
    LET own == {i \in OfField(a, f) : i <= n}
    IN IF own = {} THEN NoValue
       ELSE corrections[CHOOSE i \in own : \A j \in own : j <= i].new

\* Seeded bug: a correction is compared with what the AI read.
EffectiveOriginal(a, f) == attributes[a].original[f]

\* latest?.newValue ?? original: a NULL correction counts as none.
Effective(a, f) ==
    LET latest == LatestUpTo(Len(corrections), a, f)
    IN IF latest = NoValue THEN attributes[a].original[f] ELSE latest

\* toDetailProjection works the shown value out by itself; here, from the log
\* up to n.
ShownUpTo(n, a, f) ==
    IF LatestUpTo(n, a, f) = NoValue THEN attributes[a].original[f] ELSE LatestUpTo(n, a, f)

Shown(a, f) == ShownUpTo(Len(corrections), a, f)

\* photoDetailSelectConfig
AttributesOf(p) == {a \in DOMAIN attributes : attributes[a].photo = p /\ ~attributes[a].deleted}

\* The detail of a photo: its attributes, as shown.
PhotoDetail(p) ==
    {[original |-> attributes[a].original,
      shown |-> [f \in DOMAIN attributes[a].original |-> Shown(a, f)]] : a \in AttributesOf(p)}

\* Seeded bug: the search forgets deleted_at.
SearchableAll == DOMAIN attributes

\* The rows the search looks at.
Searchable == {a \in DOMAIN attributes : ~attributes[a].deleted}

\* CASE WHEN latest.has_correction: here a NULL correction counts.
SearchedValue(a, f) ==
    IF OfField(a, f) # {} THEN LatestUpTo(Len(corrections), a, f) ELSE attributes[a].original[f]

\* What a search may ask for; nobody searches by a second colour.
SearchField == {"digits", "primary_color"}

\* findPhotoIdsMatchingBibDigits and findPhotoIdsMatchingColor
FindPhotosBy(f, v) ==
    {attributes[a].photo : a \in {x \in Searchable :
        f \in DOMAIN attributes[x].original /\ SearchedValue(x, f) = v}}

\* SearchPhotosDto; {} also stands for its 400.
MayAsk(f, v) == f = "digits" => v \in AskedNumbers

\* searchPhotos, in some events.
SearchPhotos(events, f, v) ==
    {p \in PhotosOf(events) : MayAsk(f, v) /\ p \in FindPhotosBy(f, v)}

-----------------------------------------------------------------------------
Start(e, state) == edits[e] = Resting /\ edits' = [edits EXCEPT ![e] = state]

End(e) == edits' = [edits EXCEPT ![e] = Resting]

\* Every handler first refuses a photo the worker is at work on.
Editable(p) == p \in DOMAIN photos /\ photos[p].status # "processing"

FreshAttrs ==
    AttrIds \ (DOMAIN attributes \cup {edits[e].id : e \in {x \in Editors : edits[x].step = "insert"}})

\* The DTOs of reviewers take NULL for a colour, never for digits.
NewValues(f) == IF f = "digits" THEN BibNumbers ELSE Palette \cup {NoValue}

\* AddPhotoBibDto, AddPhotoColorDto
Entered == {r \in Reading : \A f \in DOMAIN r : r[f] \in NewValues(f)}

\* AddPhotoBibHandler, AddPhotoColorHandler
AddAttribute(e, p) ==
    /\ Editable(p)
    /\ \E a \in FreshAttrs, original \in Entered :
         Start(e, [step |-> "insert", id |-> a, photo |-> p, original |-> original])
    /\ UNCHANGED <<attributes, corrections>>

\* PhotoBib.createManual, PhotoColor.createManual
NewAttribute(p, original) == [photo |-> p, original |-> original, deleted |-> FALSE]

SaveAttribute(e) ==
    /\ edits[e].step = "insert"
    /\ attributes' = Upsert(attributes, edits[e].id, NewAttribute(edits[e].photo, edits[e].original))
    /\ End(e)
    /\ UNCHANGED corrections

\* DeletePhotoBibHandler, DeletePhotoColorHandler; a deleted row is found too.
DeleteAttribute(e, a) ==
    /\ a \in DOMAIN attributes
    /\ Editable(attributes[a].photo)
    /\ Start(e, [step |-> "delete", target |-> a])
    /\ UNCHANGED <<attributes, corrections>>

SoftDelete(e) ==
    /\ edits[e].step = "delete"
    /\ attributes' = [attributes EXCEPT ![edits[e].target].deleted = TRUE]
    /\ End(e)
    /\ UNCHANGED corrections

\* ApplyBibCorrectionHandler, ApplyColorCorrectionHandler
Correct(e, a, f) ==
    /\ a \in DOMAIN attributes
    /\ Editable(attributes[a].photo)
    /\ f \in DOMAIN attributes[a].original
    /\ \E v \in NewValues(f) :
         Start(e, [step |-> "correct", target |-> a, field |-> f, new |-> v])
    /\ UNCHANGED <<attributes, corrections>>

\* The latest correction is read; a value that shows already is not logged.
ReadLatest(e) ==
    /\ edits[e].step = "correct"
    /\ LET a == edits[e].target  f == edits[e].field  v == edits[e].new
           effective == Effective(a, f)
       IN IF v = effective THEN End(e)
          ELSE edits' = [edits EXCEPT ![e] = [step |-> "append",
                 correction |-> [target |-> a, field |-> f, old |-> effective, new |-> v]]]
    /\ UNCHANGED <<attributes, corrections>>

AppendCorrection(e) ==
    /\ edits[e].step = "append"
    /\ Len(corrections) < MaxCorrections
    /\ corrections' = Append(corrections, edits[e].correction)
    /\ End(e)
    /\ UNCHANGED attributes

EditFails(e) ==
    /\ edits[e] # Resting
    /\ End(e)
    /\ UNCHANGED <<attributes, corrections>>

EditStep(e) ==
    /\ \/ \E p \in PhotoIds : AddAttribute(e, p)
       \/ \E a \in DOMAIN attributes : DeleteAttribute(e, a) \/ \E f \in Field : Correct(e, a, f)
       \/ SaveAttribute(e) \/ SoftDelete(e) \/ ReadLatest(e) \/ AppendCorrection(e)
       \/ EditFails(e)
    /\ overlapped' = (overlapped \/ Cardinality({x \in Editors : edits'[x] # Resting}) > 1)
    /\ UNCHANGED rowVars

\* persistResult stores what the AI read, in the transaction of its result.
StoreReadings(p) ==
    /\ \E new \in SUBSET FreshAttrs : \E original \in [new -> Reading] :
         attributes' = [a \in DOMAIN attributes \cup new |->
           IF a \in new THEN NewAttribute(p, original[a])
           ELSE attributes[a]]
    /\ UNCHANGED <<corrections, edits, overlapped>>

-----------------------------------------------------------------------------
(* The studio: the photo pipeline together with the attributes of its      *)
(* photos.  The worker stores what it read while reviewers edit the photo. *)

studioVars == <<pipelineVars, attributeVars>>

StudioTypeOK == PipelineTypeOK /\ AttributesTypeOK

StudioInit == PipelineInit /\ AttributesInit

\* The step of the worker that stores the AI's answer.
Answered(p) == attempt[p].step = "classify" /\ attempt'[p].step = "finish"

StudioNext ==
    \/ /\ PipelineNext
       /\ \/ \E p \in PhotoIds : Answered(p) /\ StoreReadings(p)
          \/ (\A p \in PhotoIds : ~Answered(p)) /\ UNCHANGED attributeVars
    \/ \E e \in Editors : EditStep(e) /\ UNCHANGED <<jobVars, desk, retouchVars, quiet>>

StudioSpec == StudioInit /\ [][StudioNext]_studioVars

-----------------------------------------------------------------------------
SheetOf == [a \in DOMAIN attributes |->
    [original |-> attributes[a].original,
     shown |-> [f \in DOMAIN attributes[a].original |-> Shown(a, f)],
     struck |-> attributes[a].deleted]]

Sheet == INSTANCE AttributeSheet WITH Ids <- AttrIds, Readings <- Reading, sheet <- SheetOf

\* Each write of an editor or of the worker is one step of the sheet: whatever
\* overlaps, a correction shows as one changed value, struck attributes stay
\* struck, and no reading is lost.
\* (What leaves the tables alone leaves the sheet alone: TLC need not work it out.)
KeepsSheet ==
    /\ Sheet!SheetInit
    /\ [][UNCHANGED <<attributes, corrections>> \/ Sheet!SheetNext]_SheetOf

\* The log is an audit trail: while corrections are made one at a time, each
\* one says what was shown before it, and changes it.
AuditChain ==
    ~overlapped =>
      \A i \in DOMAIN corrections :
        /\ corrections[i].old = ShownUpTo(i - 1, corrections[i].target, corrections[i].field)
        /\ corrections[i].old # corrections[i].new

\* Who finds a photo by a bib or a colour sees it in the photo's detail.
FoundIsShown ==
    \A f \in SearchField, v \in Values : \A p \in SearchPhotos({EventOf[k] : k \in Keys}, f, v) :
        \E d \in PhotoDetail(p) : f \in DOMAIN d.shown /\ d.shown[f] = v
=============================================================================

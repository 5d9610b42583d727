---------------------------- MODULE StudioProofs ----------------------------
(***************************************************************************)
(* The theorems of Attributes, Gallery and Dashboard, for any number of    *)
(* photos, bibs, colours, corrections, reviewers and workers.  Order of    *)
(* the argument: the latest correction of a field in a log; the            *)
(* specifications implement PhotoPipeline; types and edits in flight; the  *)
(* audit trail; the sheet each photo has; who finds and sees which photo;  *)
(* what the pages of work count and list.                                  *)
(***************************************************************************)
EXTENDS Dashboard, PipelineProofs, Counting

-----------------------------------------------------------------------------
(* The latest correction of a field, in a log given as a value.            *)

Newest(S) == CHOOSE i \in S : \A j \in S : j <= i

\* The corrections of a field in a log up to n.
OwnIn(log, n, a, f) == {i \in DOMAIN log : log[i].target = a /\ log[i].field = f /\ i <= n}

LatestIn(log, n, a, f) ==
    IF OwnIn(log, n, a, f) = {} THEN NoValue ELSE log[Newest(OwnIn(log, n, a, f))].new

\* The value shown of a field that was read as v.
ShownIn(v, log, n, a, f) ==
    IF LatestIn(log, n, a, f) = NoValue THEN v ELSE LatestIn(log, n, a, f)

-----------------------------------------------------------------------------
\* The ids of attributes that are about to be inserted are new, each of them.
InsertsFresh ==
    \A e \in Editors : edits[e].step = "insert" =>
        /\ edits[e].id \notin DOMAIN attributes
        /\ \A x \in Editors \ {e} : edits[x].step = "insert" => edits[x].id # edits[e].id

\* A correction is of a field the attribute has, to a value the field can take.
Fits(rows, a, f, v) ==
    /\ a \in DOMAIN rows
    /\ f \in DOMAIN rows[a].original
    /\ v \in NewValues(f)

LogFits ==
    \A i \in DOMAIN corrections :
        Fits(attributes, corrections[i].target, corrections[i].field, corrections[i].new)

\* What an editor has in hand is of an attribute there is.
EditFits(rows, s) ==
    /\ s.step = "delete" => s.target \in DOMAIN rows
    /\ s.step = "correct" => Fits(rows, s.target, s.field, s.new)
    /\ s.step = "append" => LET c == s.correction IN Fits(rows, c.target, c.field, c.new)

EditsFit == \A e \in Editors : EditFits(attributes, edits[e])

BusyEditors == {e \in Editors : edits[e] # Resting}

\* Until two edits overlap there is one at a time.
OneBusy ==
    /\ IsFiniteSet(BusyEditors)
    /\ ~overlapped => \A e, x \in BusyEditors : e = x

\* A correction says what is shown before it, and changes it.
SaysShown(rows, log, c) ==
    /\ c.old = ShownIn(rows[c.target].original[c.field], log, Len(log), c.target, c.field)
    /\ c.old # c.new

\* ... and what it is about to log says what is shown.
AppendsChain ==
    ~overlapped => \A e \in Editors :
        edits[e].step = "append" => SaysShown(attributes, corrections, edits[e].correction)

AttributesInductive ==
    /\ AttributesTypeOK
    /\ InsertsFresh
    /\ LogFits
    /\ EditsFit
    /\ OneBusy
    /\ AppendsChain
    /\ AuditChain

-----------------------------------------------------------------------------
(* The latest correction of a field.                                       *)

\* A set of positions of a log has a newest one.
LEMMA NewestIs ==
    ASSUME NEW n \in Nat, NEW S \in SUBSET (1 .. n), S # {}
    PROVE  Newest(S) \in S /\ \A j \in S : j <= Newest(S)
  <1> DEFINE T == {n - i : i \in S}
  <1>0. \A i \in S : i \in Int /\ 1 <= i /\ i <= n
    OBVIOUS
  <1>1. T \subseteq Nat /\ T # {}
    <2>1. \A i \in S : n - i \in Nat
      BY <1>0
    <2>2. PICK i \in S : TRUE
      OBVIOUS
    <2>3. n - i \in T
      BY <2>2
    <2> QED BY <2>1, <2>3
  <1>2. PICK x \in T : \A y \in T : ~(<<y, x>> \in OpToRel(<, Nat))
    <2> HIDE DEF T
    <2> QED BY <1>1, NatLessThanWellFounded, WFMin
  <1>3. \A y \in T : ~(y < x)
    <2> HIDE DEF T
    <2> QED BY <1>1, <1>2 DEF OpToRel
  <1>4. PICK i \in S : x = n - i
    BY <1>2
  <1>5. \A j \in S : j <= i
    <2> SUFFICES ASSUME NEW j \in S PROVE j <= i
      OBVIOUS
    <2>1. ~(n - j < n - i)
      BY <1>3, <1>4
    <2> QED BY <1>0, <2>1
  <1> QED BY <1>5 DEF Newest

\* It is the one no other is newer than.
LEMMA NewestUnique ==
    ASSUME NEW n \in Nat, NEW S \in SUBSET (1 .. n), NEW m \in S, \A j \in S : j <= m
    PROVE  Newest(S) = m
  <1>1. Newest(S) \in S /\ m <= Newest(S)
    BY NewestIs
  <1>2. \A x \in S : x \in Int /\ x <= m
    OBVIOUS
  <1>3. ASSUME NEW x \in S, m <= x
        PROVE  x = m
    <2>1. x \in Int /\ m \in Int /\ x <= m
      BY <1>2
    <2> QED BY <1>3, <2>1
  <1> QED BY <1>1, <1>3

\* A field that was corrected has the value of one of its corrections.
LEMMA LatestMember ==
    ASSUME NEW log \in Seq(Correction), NEW n \in Nat, NEW a, NEW f, OwnIn(log, n, a, f) # {}
    PROVE  \E i \in OwnIn(log, n, a, f) : LatestIn(log, n, a, f) = log[i].new
  <1>1. OwnIn(log, n, a, f) \in SUBSET (1 .. Len(log)) /\ Len(log) \in Nat
    BY DEF OwnIn
  <1>2. Newest(OwnIn(log, n, a, f)) \in OwnIn(log, n, a, f)
    BY <1>1, NewestIs
  <1> QED BY <1>2 DEF LatestIn

\* What is appended changes nothing of the log before it.
LEMMA LatestStays ==
    ASSUME NEW log \in Seq(Correction), NEW c \in Correction, NEW n \in 0 .. Len(log), NEW a, NEW f
    PROVE  LatestIn(Append(log, c), n, a, f) = LatestIn(log, n, a, f)
  <1>1. /\ DOMAIN Append(log, c) = 1 .. Len(log) + 1 /\ DOMAIN log = 1 .. Len(log)
        /\ \A i \in 1 .. Len(log) : Append(log, c)[i] = log[i]
    OBVIOUS
  <1>2. OwnIn(Append(log, c), n, a, f) = OwnIn(log, n, a, f)
    BY <1>1 DEF OwnIn
  <1>3. CASE OwnIn(log, n, a, f) = {}
    BY <1>2, <1>3 DEF LatestIn
  <1>4. CASE OwnIn(log, n, a, f) # {}
    <2>1. OwnIn(log, n, a, f) \in SUBSET (1 .. Len(log))
      BY <1>1 DEF OwnIn
    <2>2. Newest(OwnIn(log, n, a, f)) \in 1 .. Len(log)
      BY <1>4, <2>1, NewestIs
    <2> QED BY <1>1, <1>2, <1>4, <2>2 DEF LatestIn
  <1> QED BY <1>3, <1>4

\* Of its own field, it is the latest.
LEMMA LatestAppended ==
    ASSUME NEW log \in Seq(Correction), NEW c \in Correction, NEW a, NEW f
    PROVE  LatestIn(Append(log, c), Len(log) + 1, a, f) =
             IF c.target = a /\ c.field = f THEN c.new ELSE LatestIn(log, Len(log), a, f)
  <1> DEFINE longer == Append(log, c)
             own == OwnIn(longer, Len(log) + 1, a, f)
  <1>1. /\ DOMAIN longer = 1 .. Len(log) + 1 /\ DOMAIN log = 1 .. Len(log)
        /\ \A i \in 1 .. Len(log) : longer[i] = log[i]
        /\ longer[Len(log) + 1] = c /\ Len(log) \in Nat
    OBVIOUS
  <1>2. own \in SUBSET (1 .. Len(log) + 1)
    BY <1>1 DEF OwnIn
  <1>3. CASE c.target = a /\ c.field = f
    <2>1. Len(log) + 1 \in own
      BY <1>1, <1>3 DEF OwnIn
    <2>2. \A j \in own : j <= Len(log) + 1
      BY <1>1, <1>2
    <2>3. Newest(own) = Len(log) + 1
      <3> HIDE DEF own
      <3>1. Len(log) + 1 \in Nat
        BY <1>1
      <3> QED BY <3>1, <1>2, <2>1, <2>2, NewestUnique
    <2> QED BY <1>1, <1>3, <2>1, <2>3 DEF LatestIn
  <1>4. CASE ~(c.target = a /\ c.field = f)
    <2>1. own = OwnIn(longer, Len(log), a, f)
      BY <1>1, <1>4 DEF OwnIn
    <2>2. LatestIn(longer, Len(log) + 1, a, f) = LatestIn(longer, Len(log), a, f)
      BY <2>1 DEF LatestIn
    <2>3. LatestIn(longer, Len(log), a, f) = LatestIn(log, Len(log), a, f)
      BY <1>1, LatestStays
    <2> QED BY <1>4, <2>2, <2>3
  <1> QED BY <1>3, <1>4

\* The operators of Attributes are these, of the log as it is and as it will be.
LEMMA LatestIs ==
    ASSUME NEW n, NEW a, NEW f
    PROVE  /\ LatestUpTo(n, a, f) = LatestIn(corrections, n, a, f)
           /\ LatestUpTo(n, a, f)' = LatestIn(corrections', n, a, f)
           /\ ShownUpTo(n, a, f) = ShownIn(attributes[a].original[f], corrections, n, a, f)
           /\ ShownUpTo(n, a, f)' = ShownIn(attributes'[a].original[f], corrections', n, a, f)
  <1>1. OwnIn(corrections, n, a, f) = {i \in OfField(a, f) : i <= n}
    BY DEF OwnIn, OfField
  <1>2. OwnIn(corrections', n, a, f) = {i \in OfField(a, f)' : i <= n}
    BY DEF OwnIn, OfField
  <1>3. /\ LatestUpTo(n, a, f) = LatestIn(corrections, n, a, f)
        /\ LatestUpTo(n, a, f)' = LatestIn(corrections', n, a, f)
    BY <1>1, <1>2 DEF LatestUpTo, LatestIn, Newest
  <1> QED BY <1>3 DEF ShownUpTo, ShownIn

\* What is shown of an attribute now, and after a step.
LEMMA ShownIs ==
    ASSUME NEW a, NEW f
    PROVE  /\ Shown(a, f) = ShownIn(attributes[a].original[f], corrections, Len(corrections), a, f)
           /\ Shown(a, f)' = ShownIn(attributes'[a].original[f], corrections', Len(corrections'), a, f)
           /\ Effective(a, f) = Shown(a, f)
  <1>1. /\ Shown(a, f) = ShownIn(attributes[a].original[f], corrections, Len(corrections), a, f)
    BY LatestIs DEF Shown, ShownUpTo, ShownIn
  <1>2. Shown(a, f)' = ShownIn(attributes'[a].original[f], corrections', Len(corrections'), a, f)
    <2>1. OwnIn(corrections', Len(corrections'), a, f) = {i \in OfField(a, f)' : i <= Len(corrections')}
      BY DEF OwnIn, OfField
    <2> QED BY <2>1 DEF Shown, ShownUpTo, ShownIn, LatestUpTo, LatestIn, Newest
  <1> QED BY <1>1, <1>2 DEF Effective, Shown, ShownUpTo

-----------------------------------------------------------------------------
(* Every step of Studio is one of PhotoPipeline, or none.                  *)

\* Editing attributes changes nothing of PhotoPipeline.
LEMMA StudioStepIsPipelines == [StudioNext]_studioVars => [PipelineNext]_pipelineVars
  <1> SUFFICES ASSUME [StudioNext]_studioVars PROVE [PipelineNext]_pipelineVars
    OBVIOUS
  <1>1. CASE \E e \in Editors : EditStep(e) /\ UNCHANGED <<jobVars, desk, retouchVars, quiet>>
    <2>1. UNCHANGED rowVars /\ UNCHANGED <<jobVars, desk, retouchVars, quiet>>
      BY <1>1 DEF EditStep
    <2> QED BY <2>1 DEF pipelineVars
  <1>2. CASE UNCHANGED studioVars
    BY <1>2 DEF studioVars
  <1> QED BY <1>1, <1>2 DEF StudioNext

\* Nor do the commands of events change anything of Studio.
LEMMA GalleryStepIsStudios == [GalleryNext]_galleryVars => [StudioNext]_studioVars
  BY DEF GalleryNext, galleryVars

-----------------------------------------------------------------------------
(* Types, and the edits in flight.                                         *)

\* What a reviewer enters is a value of the column; digits are never NULL.
LEMMA NewValuesAre ==
    ASSUME NEW f
    PROVE  /\ NewValues(f) \subseteq Values \cup {NoValue}
           /\ f = "digits" => NewValues(f) \subseteq Values
  BY AttributeAssumption DEF NewValues

\* A value of a field is one of the field's values, and digits are never NULL.
LEMMA ReadingValues ==
    ASSUME NEW r \in Reading
    PROVE  /\ \A f \in DOMAIN r : f \in Field /\ r[f] \in Values \cup {NoValue}
           /\ \A f \in DOMAIN r \cap SearchField : r[f] \in Values
  <1>1. CASE r \in Bib
    BY <1>1 DEF Bib, Field, Reading, SearchField
  <1>2. CASE r \in Colour
    BY <1>2 DEF Colour, Field, Reading, SearchField
  <1> QED BY <1>1, <1>2 DEF Reading

\* What an editor has in hand at each step.
LEMMA EditType ==
    ASSUME edits \in [Editors -> Edit], NEW e \in Editors
    PROVE  /\ edits[e].step = "insert" =>
                edits[e].id \in AttrIds /\ edits[e].photo \in PhotoIds /\ edits[e].original \in Reading
           /\ edits[e].step = "delete" => edits[e].target \in AttrIds
           /\ edits[e].step = "correct" =>
                /\ edits[e].target \in AttrIds /\ edits[e].field \in Field
                /\ edits[e].new \in Values \cup {NoValue}
           /\ edits[e].step = "append" => edits[e].correction \in Correction
           /\ edits[e].step \in {"insert", "delete", "correct", "append"} => edits[e] # Resting
  <1>0. edits[e] \in Edit
    OBVIOUS
  <1>1. CASE edits[e] = Resting
    BY <1>1 DEF Resting
  <1>2. CASE edits[e] \in [step : {"insert"}, id : AttrIds, photo : PhotoIds, original : Reading]
    BY <1>2 DEF Resting
  <1>3. CASE edits[e] \in [step : {"delete"}, target : AttrIds]
    BY <1>3 DEF Resting
  <1>4. CASE edits[e] \in [step : {"correct"}, target : AttrIds, field : Field, new : Values \cup {NoValue}]
    BY <1>4 DEF Resting
  <1>5. CASE edits[e] \in [step : {"append"}, correction : Correction]
    BY <1>5 DEF Resting
  <1> QED BY <1>0, <1>1, <1>2, <1>3, <1>4, <1>5 DEF Edit

\* The value shown of a field is one it can have; that of digits is not NULL.
LEMMA ShownType ==
    ASSUME AttributesTypeOK, LogFits, NEW a \in DOMAIN attributes,
           NEW f \in DOMAIN attributes[a].original
    PROVE  /\ Shown(a, f) \in Values \cup {NoValue}
           /\ f \in SearchField => Shown(a, f) \in Values
  <1>1. attributes[a].original \in Reading
    BY DEF AttributesTypeOK, AttributeRow
  <1>2. /\ attributes[a].original[f] \in Values \cup {NoValue}
        /\ f \in SearchField => attributes[a].original[f] \in Values
    BY <1>1, ReadingValues
  <1>3. corrections \in Seq(Correction) /\ Len(corrections) \in Nat
    BY DEF AttributesTypeOK
  <1>4. CASE OwnIn(corrections, Len(corrections), a, f) = {}
    <2>1. LatestIn(corrections, Len(corrections), a, f) = NoValue
      BY <1>4 DEF LatestIn
    <2> QED BY <1>2, <2>1, ShownIs DEF ShownIn
  <1>5. CASE OwnIn(corrections, Len(corrections), a, f) # {}
    <2>1. PICK i \in OwnIn(corrections, Len(corrections), a, f) :
            LatestIn(corrections, Len(corrections), a, f) = corrections[i].new
      BY <1>3, <1>5, LatestMember
    <2>2. corrections[i] \in Correction
      BY <1>3 DEF OwnIn
    <2>3. corrections[i].new \in Values \cup {NoValue}
      BY <2>2 DEF Correction
    <2> QED BY <1>2, <2>1, <2>3, ShownIs DEF ShownIn
  <1> QED BY <1>4, <1>5

\* No row of an attribute goes, nor what was read of it.
RowsStayRead ==
    /\ DOMAIN attributes \subseteq DOMAIN attributes'
    /\ \A a \in DOMAIN attributes : attributes'[a].original = attributes[a].original

AttributeTableOK ==
    /\ DOMAIN attributes \subseteq AttrIds
    /\ \A a \in DOMAIN attributes : attributes[a] \in AttributeRow

\* What fits goes on fitting.
LEMMA FitsStays ==
    ASSUME RowsStayRead, NEW a, NEW f, NEW v, Fits(attributes, a, f, v)
    PROVE  Fits(attributes', a, f, v)
  BY DEF RowsStayRead, Fits, NewValues

\* A write to the tables of attributes takes nothing away.
LEMMA EditTables ==
    ASSUME AttributesTypeOK, InsertsFresh, EditsFit, NEW e \in Editors, EditStep(e)
    PROVE  RowsStayRead /\ AttributeTableOK'
  <1>0. edits \in [Editors -> Edit] /\ AttributeTableOK
    BY DEF AttributesTypeOK, AttributeTableOK
  <1>1. CASE SaveAttribute(e)
    <2>1. /\ edits[e].id \in AttrIds /\ edits[e].photo \in PhotoIds /\ edits[e].original \in Reading
          /\ edits[e].id \notin DOMAIN attributes
      BY <1>0, <1>1, EditType DEF SaveAttribute, InsertsFresh
    <2>2. NewAttribute(edits[e].photo, edits[e].original) \in AttributeRow
      BY <2>1 DEF NewAttribute, AttributeRow
    <2>3. attributes' = Upsert(attributes, edits[e].id, NewAttribute(edits[e].photo, edits[e].original))
      BY <1>1 DEF SaveAttribute
    <2> QED BY <1>0, <2>1, <2>2, <2>3 DEF RowsStayRead, AttributeTableOK, Upsert
  <1>2. CASE SoftDelete(e)
    <2>1. edits[e].target \in DOMAIN attributes
      BY <1>2 DEF SoftDelete, EditsFit, EditFits
    <2>2. attributes' = [attributes EXCEPT ![edits[e].target].deleted = TRUE]
      BY <1>2 DEF SoftDelete
    <2> QED BY <1>0, <2>1, <2>2 DEF RowsStayRead, AttributeTableOK, AttributeRow
  <1>3. CASE UNCHANGED attributes
    BY <1>0, <1>3 DEF RowsStayRead, AttributeTableOK
  <1> QED BY <1>1, <1>2, <1>3 DEF EditStep, AddAttribute, DeleteAttribute, Correct, ReadLatest,
                                  AppendCorrection, EditFails

\* A handler that takes a correction up has one that fits.
LEMMA ReadLatestMoves ==
    ASSUME AttributesTypeOK, LogFits, EditsFit, NEW e \in Editors, ReadLatest(e)
    PROVE  \E s \in Edit : /\ edits' = [edits EXCEPT ![e] = s] /\ EditFits(attributes, s)
                           /\ s = Resting \/ (s.step = "append" /\ SaysShown(attributes, corrections, s.correction))
  <1> DEFINE a == edits[e].target
             f == edits[e].field
             v == edits[e].new
             c == [target |-> a, field |-> f, old |-> Effective(a, f), new |-> v]
             s == [step |-> "append", correction |-> c]
  <1>0. edits[e].step = "correct" /\ edits \in [Editors -> Edit]
    BY DEF ReadLatest, AttributesTypeOK
  <1>1. a \in AttrIds /\ f \in Field /\ v \in Values \cup {NoValue} /\ Fits(attributes, a, f, v)
    BY <1>0, EditType DEF EditsFit, EditFits
  <1>2. Effective(a, f) = Shown(a, f) /\ Effective(a, f) \in Values \cup {NoValue}
    <2>1. a \in DOMAIN attributes /\ f \in DOMAIN attributes[a].original
      BY <1>1 DEF Fits
    <2> QED BY <2>1, ShownIs, ShownType
  <1>3. CASE v = Effective(a, f)
    <2>1. edits' = [edits EXCEPT ![e] = Resting]
      BY <1>3 DEF ReadLatest, End
    <2>2. Resting \in Edit /\ EditFits(attributes, Resting)
      BY DEF Edit, Resting, EditFits
    <2> QED BY <2>1, <2>2
  <1>4. CASE v # Effective(a, f)
    <2>1. edits' = [edits EXCEPT ![e] = s]
      BY <1>4 DEF ReadLatest
    <2>2. c \in Correction
      BY <1>1, <1>2 DEF Correction
    <2>3. s \in Edit
      BY <2>2 DEF Edit
    <2>4. EditFits(attributes, s)
      BY <1>1 DEF EditFits
    <2>5. s.step = "append" /\ SaysShown(attributes, corrections, s.correction)
      BY <1>2, <1>4, ShownIs DEF SaysShown
    <2> HIDE DEF s
    <2> QED BY <2>1, <2>3, <2>4, <2>5
  <1> QED BY <1>3, <1>4

\* An editor moves on to a state that fits.  A handler that comes to insert has
\* an id of its own; one that comes to append has read what is shown.
MovesTo(e, s) ==
    /\ edits' = [edits EXCEPT ![e] = s]
    /\ EditFits(attributes, s)
    /\ s.step = "insert" => s.id \in FreshAttrs /\ UNCHANGED attributes
    /\ s.step = "append" => UNCHANGED <<attributes, corrections>> /\ SaysShown(attributes, corrections, s.correction)

\* So does every step of an editor.
LEMMA EditMoves ==
    ASSUME AttributesTypeOK, LogFits, EditsFit, NEW e \in Editors, EditStep(e)
    PROVE  \E s \in Edit : MovesTo(e, s)
  <1>0. edits \in [Editors -> Edit] /\ DOMAIN attributes \subseteq AttrIds
    BY DEF AttributesTypeOK
  <1>1. ASSUME NEW p \in PhotoIds, AddAttribute(e, p)
        PROVE  \E a \in FreshAttrs, original \in Reading :
                 edits' = [edits EXCEPT ![e] =
                             [step |-> "insert", id |-> a, photo |-> p, original |-> original]]
               /\ UNCHANGED attributes
    BY <1>1 DEF AddAttribute, Start, Entered
  <1>2. CASE \E p \in PhotoIds : AddAttribute(e, p)
    <2>1. PICK p \in PhotoIds, a \in FreshAttrs, original \in Reading :
             edits' = [edits EXCEPT ![e] =
                         [step |-> "insert", id |-> a, photo |-> p, original |-> original]]
             /\ UNCHANGED attributes
      BY <1>1, <1>2
    <2> DEFINE s == [step |-> "insert", id |-> a, photo |-> p, original |-> original]
    <2>2. a \in AttrIds
      BY DEF FreshAttrs
    <2>3. s \in Edit /\ EditFits(attributes, s) /\ s.id = a /\ s.step = "insert"
      BY <2>2 DEF Edit, EditFits
    <2> HIDE DEF s
    <2>4. MovesTo(e, s)
      BY <2>1, <2>3 DEF MovesTo, s
    <2> QED BY <2>3, <2>4
  <1>3. ASSUME NEW a \in DOMAIN attributes, DeleteAttribute(e, a)
        PROVE  edits' = [edits EXCEPT ![e] = [step |-> "delete", target |-> a]]
    BY <1>3 DEF DeleteAttribute, Start
  <1>4. CASE \E a \in DOMAIN attributes : DeleteAttribute(e, a)
    <2>1. PICK a \in DOMAIN attributes : edits' = [edits EXCEPT ![e] = [step |-> "delete", target |-> a]]
      BY <1>3, <1>4
    <2> DEFINE s == [step |-> "delete", target |-> a]
    <2>2. s \in Edit /\ EditFits(attributes, s) /\ s.step = "delete"
      BY <1>0 DEF Edit, EditFits
    <2> HIDE DEF s
    <2>3. MovesTo(e, s)
      BY <2>1, <2>2 DEF MovesTo, s
    <2> QED BY <2>2, <2>3
  <1>5. CASE \E a \in DOMAIN attributes, f \in Field : Correct(e, a, f)
    <2>1. PICK a \in DOMAIN attributes, f \in Field : Correct(e, a, f)
      BY <1>5
    <2>2. PICK v \in NewValues(f) :
             edits' = [edits EXCEPT ![e] = [step |-> "correct", target |-> a, field |-> f, new |-> v]]
      BY <2>1 DEF Correct, Start
    <2> DEFINE s == [step |-> "correct", target |-> a, field |-> f, new |-> v]
    <2>3. v \in Values \cup {NoValue} /\ Fits(attributes, a, f, v)
      BY <2>1, NewValuesAre DEF Correct, Fits
    <2>4. s \in Edit /\ EditFits(attributes, s) /\ s.step = "correct"
      BY <1>0, <2>3 DEF Edit, EditFits
    <2> HIDE DEF s
    <2>5. MovesTo(e, s)
      BY <2>2, <2>4 DEF MovesTo, s
    <2> QED BY <2>4, <2>5
  <1>6. CASE SaveAttribute(e) \/ SoftDelete(e) \/ AppendCorrection(e) \/ EditFails(e)
    <2>1. edits' = [edits EXCEPT ![e] = Resting]
      BY <1>6 DEF SaveAttribute, SoftDelete, AppendCorrection, EditFails, End
    <2>2. Resting \in Edit /\ EditFits(attributes, Resting) /\ Resting.step = "idle"
      BY DEF Edit, Resting, EditFits
    <2>3. MovesTo(e, Resting)
      BY <2>1, <2>2 DEF MovesTo
    <2> QED BY <2>2, <2>3
  <1>7. CASE ReadLatest(e)
    <2>1. UNCHANGED <<attributes, corrections>>
      BY <1>7 DEF ReadLatest
    <2>2. PICK s \in Edit : /\ edits' = [edits EXCEPT ![e] = s] /\ EditFits(attributes, s)
                            /\ s = Resting \/ (s.step = "append" /\ SaysShown(attributes, corrections, s.correction))
      BY <1>7, ReadLatestMoves
    <2>3. CASE s = Resting
      <3>1. s.step = "idle"
        BY <2>3 DEF Resting
      <3> QED BY <2>2, <3>1 DEF MovesTo
    <2>4. CASE s.step = "append" /\ SaysShown(attributes, corrections, s.correction)
      BY <2>1, <2>2, <2>4 DEF MovesTo
    <2> QED BY <2>2, <2>3, <2>4
  <1> QED BY <1>2, <1>4, <1>5, <1>6, <1>7 DEF EditStep

\* What is logged fits, and goes on fitting.
LEMMA EditLogs ==
    ASSUME AttributesTypeOK, LogFits, EditsFit, RowsStayRead, NEW e \in Editors, EditStep(e)
    PROVE  /\ corrections' \in Seq(Correction)
           /\ LogFits'
           /\ \/ UNCHANGED corrections
              \/ /\ AppendCorrection(e)
                 /\ edits[e].correction \in Correction
                 /\ corrections' = Append(corrections, edits[e].correction)
  <1>0. corrections \in Seq(Correction) /\ edits \in [Editors -> Edit]
    BY DEF AttributesTypeOK
  <1>1. CASE AppendCorrection(e)
    <2>1. /\ edits[e].step = "append"
          /\ corrections' = Append(corrections, edits[e].correction)
      BY <1>1 DEF AppendCorrection
    <2>2. edits[e].correction \in Correction
      BY <1>0, <2>1, EditType
    <2> DEFINE c == edits[e].correction
    <2>3. Fits(attributes, c.target, c.field, c.new)
      BY <2>1 DEF EditsFit, EditFits
    <2>4. corrections' \in Seq(Correction)
      BY <1>0, <2>1, <2>2
    <2>5. ASSUME NEW i \in DOMAIN corrections'
          PROVE  Fits(attributes, corrections'[i].target, corrections'[i].field, corrections'[i].new)
      <3>1. i \in 1 .. Len(corrections) + 1 /\ Len(corrections) \in Nat
        BY <1>0, <2>1, <2>2, <2>5
      <3>2. CASE i \in DOMAIN corrections
        <4>1. corrections'[i] = corrections[i]
          BY <1>0, <2>1, <2>2, <3>2
        <4> QED BY <3>2, <4>1 DEF LogFits
      <3>3. CASE i = Len(corrections) + 1
        <4>1. corrections'[i] = c
          BY <1>0, <2>1, <2>2, <3>3
        <4> QED BY <2>3, <4>1
      <3> QED BY <1>0, <3>1, <3>2, <3>3
    <2>6. LogFits'
      <3> SUFFICES ASSUME NEW i \in DOMAIN corrections'
                   PROVE  Fits(attributes', corrections'[i].target, corrections'[i].field, corrections'[i].new)
        BY DEF LogFits
      <3> QED BY <2>5, FitsStays
    <2> QED BY <1>1, <2>1, <2>2, <2>4, <2>6
  <1>2. CASE UNCHANGED corrections
    <2>1. LogFits'
      <3> SUFFICES ASSUME NEW i \in DOMAIN corrections
                   PROVE  Fits(attributes', corrections[i].target, corrections[i].field, corrections[i].new)
        BY <1>2 DEF LogFits
      <3> QED BY FitsStays DEF LogFits
    <2> QED BY <1>0, <1>2, <2>1
  <1> QED BY <1>1, <1>2 DEF EditStep, AddAttribute, DeleteAttribute, Correct, ReadLatest,
                            SaveAttribute, SoftDelete, EditFails

\* Of the edits in flight, those that insert keep ids of their own, and those
\* that go on have attributes that are there.
LEMMA EditKeeps ==
    ASSUME edits \in [Editors -> Edit], InsertsFresh, EditsFit, RowsStayRead,
           NEW e \in Editors, NEW s \in Edit, MovesTo(e, s),
           \A x \in Editors \ {e} : edits[x].step = "insert" => edits[x].id \notin DOMAIN attributes'
    PROVE  /\ edits' \in [Editors -> Edit]
           /\ EditsFit'
           /\ InsertsFresh'
  <1>1. /\ edits' \in [Editors -> Edit] /\ edits'[e] = s
        /\ \A x \in Editors \ {e} : edits'[x] = edits[x]
    BY DEF MovesTo
  <1>2. \A x \in Editors : EditFits(attributes', edits'[x])
    <2>1. ASSUME NEW t, EditFits(attributes, t)
          PROVE  EditFits(attributes', t)
      BY <2>1, FitsStays DEF EditFits, RowsStayRead
    <2>2. EditFits(attributes', edits'[e])
      BY <1>1, <2>1 DEF MovesTo
    <2>3. ASSUME NEW x \in Editors \ {e}
          PROVE  EditFits(attributes', edits'[x])
      BY <1>1, <2>1 DEF EditsFit
    <2> QED BY <2>2, <2>3
  <1>3. ASSUME s.step = "insert"
        PROVE  /\ s.id \notin DOMAIN attributes'
               /\ \A x \in Editors : edits[x].step = "insert" => edits[x].id # s.id
    BY <1>3 DEF MovesTo, FreshAttrs
  <1>4. InsertsFresh'
    <2> SUFFICES ASSUME NEW x \in Editors, edits'[x].step = "insert"
                 PROVE  /\ edits'[x].id \notin DOMAIN attributes'
                        /\ \A y \in Editors \ {x} : edits'[y].step = "insert" => edits'[y].id # edits'[x].id
      BY DEF InsertsFresh
    <2>1. CASE x = e
      BY <1>1, <1>3, <2>1
    <2>2. CASE x # e
      BY <1>1, <1>3, <2>2 DEF InsertsFresh
    <2> QED BY <2>1, <2>2
  <1> QED BY <1>1, <1>2, <1>4 DEF EditsFit

\* A set of one element at most has one element at most.
LEMMA OneAtMost ==
    ASSUME NEW S, IsFiniteSet(S), ~(Cardinality(S) > 1), NEW x \in S, NEW y \in S
    PROVE  x = y
  <1> SUFFICES ASSUME x # y PROVE FALSE
    OBVIOUS
  <1>1. /\ IsFiniteSet({x}) /\ Cardinality({x}) = 1
    BY FS_Singleton
  <1>2. Cardinality({x} \cup {y}) = 2
    <2>1. Cardinality({x} \cup {y}) = IF y \in {x} THEN Cardinality({x}) ELSE Cardinality({x}) + 1
      BY <1>1, FS_AddElement
    <2> QED BY <1>1, <2>1
  <1>3. Cardinality({x} \cup {y}) <= Cardinality(S)
    BY FS_Subset
  <1>4. Cardinality(S) \in Nat
    BY FS_CardinalityType
  <1> QED BY <1>2, <1>3, <1>4

\* A step of an editor is one of two overlapping ones, or there is no other.
LEMMA BusyStep ==
    ASSUME AttributesTypeOK, OneBusy, NEW e \in Editors, EditStep(e), NEW s \in Edit, MovesTo(e, s)
    PROVE  OneBusy'
  <1>1. IsFiniteSet(BusyEditors')
    <2>1. IsFiniteSet(BusyEditors \cup {e})
      BY FS_AddElement DEF OneBusy
    <2>2. BusyEditors' \subseteq BusyEditors \cup {e}
      BY DEF BusyEditors, MovesTo, AttributesTypeOK
    <2> QED BY <2>1, <2>2, FS_Subset
  <1>2. ASSUME ~overlapped', NEW x \in BusyEditors', NEW y \in BusyEditors'
        PROVE  x = y
    <2>1. ~(Cardinality(BusyEditors') > 1)
      BY <1>2 DEF EditStep, BusyEditors
    <2> QED BY <1>1, <2>1, OneAtMost
  <1> QED BY <1>1, <1>2 DEF OneBusy

-----------------------------------------------------------------------------
(* The audit trail.                                                        *)

\* Each correction of a log says what was shown before it.
Chain(rows, log) ==
    \A i \in DOMAIN log :
        /\ log[i].old = ShownIn(rows[log[i].target].original[log[i].field], log, i - 1,
                                log[i].target, log[i].field)
        /\ log[i].old # log[i].new

\* The audit trail is a chain of this kind, in this state and in the next.
LEMMA AuditChainIs ==
    /\ AuditChain <=> (~overlapped => Chain(attributes, corrections))
    /\ AuditChain' <=> (~overlapped' => Chain(attributes', corrections'))
  <1>1. /\ \A n, a, f : ShownUpTo(n, a, f) = ShownIn(attributes[a].original[f], corrections, n, a, f)
        /\ \A n, a, f : ShownUpTo(n, a, f)' = ShownIn(attributes'[a].original[f], corrections', n, a, f)
    BY LatestIs
  <1>2. AuditChain <=> (~overlapped => Chain(attributes, corrections))
    BY <1>1 DEF AuditChain, Chain
  <1>3. AuditChain' <=> (~overlapped' => Chain(attributes', corrections'))
    BY <1>1 DEF AuditChain, Chain
  <1> QED BY <1>2, <1>3

\* While nothing is logged, the log goes on saying what was shown.
LEMMA ChainStays ==
    ASSUME LogFits, RowsStayRead, Chain(attributes, corrections)
    PROVE  Chain(attributes', corrections)
  BY DEF LogFits, Fits, RowsStayRead, Chain

\* And when what is logged says what is shown.
LEMMA ChainGrows ==
    ASSUME NEW rows, NEW log \in Seq(Correction), NEW c \in Correction,
           Chain(rows, log), SaysShown(rows, log, c)
    PROVE  Chain(rows, Append(log, c))
  <1> DEFINE longer == Append(log, c)
  <1>1. /\ DOMAIN longer = 1 .. Len(log) + 1 /\ DOMAIN log = 1 .. Len(log)
        /\ \A i \in 1 .. Len(log) : longer[i] = log[i]
        /\ longer[Len(log) + 1] = c /\ Len(log) \in Nat
    OBVIOUS
  <1> HIDE DEF longer
  <1>2. \A n \in 0 .. Len(log) : \A v, a, f : ShownIn(v, longer, n, a, f) = ShownIn(v, log, n, a, f)
    BY LatestStays DEF ShownIn, longer
  <1> SUFFICES ASSUME NEW i \in DOMAIN longer
               PROVE  /\ longer[i].old = ShownIn(rows[longer[i].target].original[longer[i].field], longer,
                                                i - 1, longer[i].target, longer[i].field)
                      /\ longer[i].old # longer[i].new
    BY DEF Chain, longer
  <1>3. CASE i \in DOMAIN log
    <2>1. i - 1 \in 0 .. Len(log) /\ longer[i] = log[i]
      BY <1>1, <1>3
    <2> QED BY <1>2, <1>3, <2>1 DEF Chain
  <1>4. CASE i = Len(log) + 1
    <2>1. i - 1 = Len(log) /\ i - 1 \in 0 .. Len(log) /\ longer[i] = c
      BY <1>1, <1>4
    <2> QED BY <1>2, <2>1 DEF SaysShown
  <1> QED BY <1>1, <1>3, <1>4

\* Two editors are at work: from now on they overlap.
LEMMA BusyAlone ==
    ASSUME OneBusy, ~overlapped, NEW e \in Editors, NEW x \in Editors,
           edits[e] # Resting, edits[x] # Resting
    PROVE  e = x
  BY DEF OneBusy, BusyEditors

\* Each step of an editor keeps the log an audit trail.
LEMMA EditChains ==
    ASSUME AttributesInductive, RowsStayRead, NEW e \in Editors, EditStep(e),
           NEW s \in Edit, MovesTo(e, s), OneBusy'
    PROVE  AppendsChain' /\ AuditChain'
  <1>0. /\ AttributesTypeOK /\ LogFits /\ EditsFit /\ OneBusy /\ AppendsChain /\ AuditChain
        /\ edits \in [Editors -> Edit] /\ corrections \in Seq(Correction)
    BY DEF AttributesInductive, AttributesTypeOK
  <1>1. CASE overlapped'
    BY <1>1, AuditChainIs DEF AppendsChain
  <1>2. CASE ~overlapped'
    <2>0. ~overlapped
      BY <1>2 DEF EditStep
    <2>1. Chain(attributes, corrections)
      BY <1>0, <2>0, AuditChainIs
    <2>2. Chain(attributes', corrections')
      <3>1. CASE UNCHANGED corrections
        BY <1>0, <2>1, <3>1, ChainStays
      <3>2. CASE AppendCorrection(e)
        <4>1. /\ edits[e].step = "append" /\ UNCHANGED attributes
              /\ corrections' = Append(corrections, edits[e].correction)
          BY <3>2 DEF AppendCorrection
        <4>2. edits[e].correction \in Correction
          BY <1>0, <4>1, EditType
        <4>3. SaysShown(attributes, corrections, edits[e].correction)
          BY <1>0, <2>0, <4>1 DEF AppendsChain
        <4>4. Chain(attributes, Append(corrections, edits[e].correction))
          BY <1>0, <2>1, <4>2, <4>3, ChainGrows
        <4> QED BY <4>1, <4>4
      <3> QED BY <1>0, <3>1, <3>2, EditLogs
    <2>3. ASSUME NEW x \in Editors, edits'[x].step = "append"
          PROVE  SaysShown(attributes', corrections', edits'[x].correction)
      <3>1. edits' = [edits EXCEPT ![e] = s] /\ edits' \in [Editors -> Edit]
        BY <1>0 DEF MovesTo
      <3>2. CASE x = e
        <4>1. edits'[x] = s
          BY <1>0, <3>1, <3>2
        <4> QED BY <2>3, <4>1 DEF MovesTo
      <3>3. CASE x # e
        <4>1. edits'[x] = edits[x] /\ edits[x] # Resting /\ edits'[x] # Resting
          BY <1>0, <2>3, <3>1, <3>3, EditType
        <4>2. edits[e] = Resting
          BY <1>0, <2>0, <3>3, <4>1, BusyAlone
        <4>3. UNCHANGED <<attributes, corrections>>
          <5>1. edits[e].step = "idle"
            BY <4>2 DEF Resting
          <5> QED BY <4>2, <5>1 DEF EditStep, AddAttribute, DeleteAttribute, Correct, ReadLatest,
                                    SaveAttribute, SoftDelete, AppendCorrection, EditFails
        <4> QED BY <1>0, <2>0, <2>3, <4>1, <4>3 DEF AppendsChain
      <3> QED BY <3>2, <3>3
    <2> QED BY <2>2, <2>3, AuditChainIs DEF AppendsChain
  <1> QED BY <1>1, <1>2

\* Every step of an editor keeps the invariant.
LEMMA EditInductive ==
    ASSUME AttributesInductive, NEW e \in Editors, EditStep(e)
    PROVE  AttributesInductive'
  <1>0. AttributesTypeOK /\ LogFits /\ EditsFit /\ InsertsFresh /\ OneBusy
    BY DEF AttributesInductive
  <1>1. RowsStayRead /\ AttributeTableOK'
    BY <1>0, EditTables
  <1>2. PICK s \in Edit : MovesTo(e, s)
    BY <1>0, EditMoves
  <1>3. \A x \in Editors \ {e} : edits[x].step = "insert" => edits[x].id \notin DOMAIN attributes'
    <2>1. CASE SaveAttribute(e)
      <3>1. DOMAIN attributes' = DOMAIN attributes \cup {edits[e].id} /\ edits[e].step = "insert"
        BY <2>1 DEF SaveAttribute, Upsert
      <3> QED BY <1>0, <3>1 DEF InsertsFresh
    <2>2. CASE DOMAIN attributes' = DOMAIN attributes
      BY <1>0, <2>2 DEF InsertsFresh
    <2> QED BY <2>1, <2>2 DEF EditStep, AddAttribute, DeleteAttribute, Correct, ReadLatest,
                              SoftDelete, AppendCorrection, EditFails
  <1>4. edits' \in [Editors -> Edit] /\ EditsFit' /\ InsertsFresh'
    BY <1>0, <1>1, <1>2, <1>3, EditKeeps DEF AttributesTypeOK
  <1>5. corrections' \in Seq(Correction) /\ LogFits'
    BY <1>0, <1>1, EditLogs
  <1>6. OneBusy'
    BY <1>0, <1>2, BusyStep
  <1>7. AppendsChain' /\ AuditChain'
    BY <1>1, <1>2, <1>6, EditChains
  <1>8. AttributesTypeOK'
    <2>1. overlapped' \in BOOLEAN
      BY <1>0 DEF EditStep, AttributesTypeOK
    <2>2. \A i \in DOMAIN corrections' : corrections'[i].target \in DOMAIN attributes'
      BY <1>5 DEF LogFits, Fits
    <2> QED BY <1>1, <1>4, <1>5, <2>1, <2>2 DEF AttributesTypeOK, AttributeTableOK
  <1> QED BY <1>4, <1>5, <1>6, <1>7, <1>8 DEF AttributesInductive

\* So does the worker that stores what the AI has read.
LEMMA StoreInductive ==
    ASSUME AttributesInductive, NEW p \in PhotoIds, StoreReadings(p)
    PROVE  AttributesInductive'
  <1>0. /\ AttributesTypeOK /\ LogFits /\ EditsFit /\ InsertsFresh /\ OneBusy /\ AppendsChain /\ AuditChain
        /\ UNCHANGED <<corrections, edits, overlapped>>
    BY DEF AttributesInductive, StoreReadings
  <1>1. PICK new \in SUBSET FreshAttrs : \E original \in [new -> Reading] :
          attributes' = [a \in DOMAIN attributes \cup new |->
            IF a \in new THEN NewAttribute(p, original[a]) ELSE attributes[a]]
    BY DEF StoreReadings
  <1>2. PICK original \in [new -> Reading] :
          attributes' = [a \in DOMAIN attributes \cup new |->
            IF a \in new THEN NewAttribute(p, original[a]) ELSE attributes[a]]
    BY <1>1
  <1>3. new \subseteq AttrIds /\ new \cap DOMAIN attributes = {}
        /\ \A e \in Editors : edits[e].step = "insert" => edits[e].id \notin new
    BY DEF FreshAttrs
  <1>4. \A a \in new : NewAttribute(p, original[a]) \in AttributeRow
    BY DEF NewAttribute, AttributeRow
  <1>5. RowsStayRead /\ AttributeTableOK'
    BY <1>0, <1>2, <1>3, <1>4 DEF RowsStayRead, AttributeTableOK, AttributesTypeOK
  <1>6. InsertsFresh'
    BY <1>0, <1>2, <1>3 DEF InsertsFresh
  <1>7. LogFits'
    <2>1. \A i \in DOMAIN corrections :
            Fits(attributes', corrections[i].target, corrections[i].field, corrections[i].new)
      BY <1>0, <1>5, FitsStays DEF LogFits
    <2> QED BY <1>0, <2>1 DEF LogFits
  <1>8. EditsFit'
    <2>1. \A e \in Editors : EditFits(attributes', edits[e])
      BY <1>0, <1>5, FitsStays DEF EditsFit, EditFits, RowsStayRead
    <2> QED BY <1>0, <2>1 DEF EditsFit
  <1>9. AuditChain'
    BY <1>0, <1>5, ChainStays, AuditChainIs
  <1>10. AppendsChain'
    BY <1>0, <1>5 DEF AppendsChain, SaysShown, EditsFit, EditFits, Fits, RowsStayRead
  <1>11. OneBusy'
    BY <1>0 DEF OneBusy, BusyEditors
  <1>12. AttributesTypeOK'
    BY <1>0, <1>5 DEF AttributesTypeOK, AttributeTableOK, RowsStayRead
  <1> QED BY <1>6, <1>7, <1>8, <1>9, <1>10, <1>11, <1>12 DEF AttributesInductive

\* It holds at the start: no attributes, no corrections, nobody at work.
LEMMA AttributesStart == AttributesInit => AttributesInductive
  <1> SUFFICES ASSUME AttributesInit PROVE AttributesInductive
    OBVIOUS
  <1>1. /\ DOMAIN attributes = {} /\ corrections = <<>> /\ ~overlapped /\ overlapped \in BOOLEAN
        /\ edits = [e \in Editors |-> Resting] /\ Resting.step = "idle" /\ Resting \in Edit
    BY DEF AttributesInit, NoRows, Resting, Edit
  <1>2. corrections \in Seq(Correction) /\ DOMAIN corrections = {}
    BY <1>1
  <1>3. BusyEditors = {} /\ IsFiniteSet({})
    BY <1>1, FS_EmptySet DEF BusyEditors
  <1>4. AttributesTypeOK
    BY <1>1, <1>2 DEF AttributesTypeOK
  <1>5. InsertsFresh /\ LogFits /\ EditsFit /\ AppendsChain
    BY <1>1, <1>2 DEF InsertsFresh, LogFits, EditsFit, EditFits, AppendsChain
  <1>6. AuditChain
    BY <1>2, AuditChainIs DEF Chain
  <1> QED BY <1>3, <1>4, <1>5, <1>6 DEF AttributesInductive, OneBusy

\* The invariant of Studio is inductive.
LEMMA AttributesStep == AttributesInductive /\ [StudioNext]_studioVars => AttributesInductive'
  <1> SUFFICES ASSUME AttributesInductive, [StudioNext]_studioVars PROVE AttributesInductive'
    OBVIOUS
  <1>1. CASE UNCHANGED attributeVars
    <2>1. UNCHANGED <<attributes, corrections, edits, overlapped>>
      BY <1>1 DEF attributeVars
    <2>2. AttributesTypeOK' /\ InsertsFresh' /\ LogFits' /\ EditsFit' /\ OneBusy' /\ AppendsChain'
      BY <2>1 DEF AttributesInductive, AttributesTypeOK, InsertsFresh, LogFits, EditsFit, OneBusy,
                  BusyEditors, AppendsChain
    <2>3. AuditChain'
      BY <2>1, AuditChainIs DEF AttributesInductive
    <2> QED BY <2>2, <2>3 DEF AttributesInductive
  <1> QED BY <1>1, EditInductive, StoreInductive DEF StudioNext, studioVars

-----------------------------------------------------------------------------
(* The sheet.                                                              *)

\* What AttributeSheet is told of an attribute, given its row and the log.
ShownOnSheet(read, log, a) == [f \in DOMAIN read |-> ShownIn(read[f], log, Len(log), a, f)]

RowOnSheet(row, log, a) ==
    [original |-> row.original, shown |-> ShownOnSheet(row.original, log, a), struck |-> row.deleted]

SheetIn(rows, log) == [a \in DOMAIN rows |-> RowOnSheet(rows[a], log, a)]

\* SheetOf is this sheet, now and after a step.
LEMMA SheetIs == SheetOf = SheetIn(attributes, corrections) /\ SheetOf' = SheetIn(attributes', corrections')
  <1>1. /\ \A a, f : Shown(a, f) = ShownIn(attributes[a].original[f], corrections, Len(corrections), a, f)
        /\ \A a, f : Shown(a, f)' = ShownIn(attributes'[a].original[f], corrections', Len(corrections'), a, f)
    BY ShownIs
  <1>2. SheetOf = SheetIn(attributes, corrections)
    BY <1>1 DEF SheetOf, SheetIn, RowOnSheet, ShownOnSheet
  <1>3. SheetOf' = SheetIn(attributes', corrections')
    BY <1>1 DEF SheetOf, SheetIn, RowOnSheet, ShownOnSheet
  <1> QED BY <1>2, <1>3

\* An attribute without corrections shows what was read.
LEMMA EnteredAsRead ==
    ASSUME LogFits, NEW a, a \notin DOMAIN attributes, NEW r \in Reading, NEW p
    PROVE  RowOnSheet(NewAttribute(p, r), corrections, a) = Sheet!Entry(r)
  <1>1. \A f : OwnIn(corrections, Len(corrections), a, f) = {}
    BY DEF OwnIn, LogFits, Fits
  <1>2. \A f : ShownIn(r[f], corrections, Len(corrections), a, f) = r[f]
    BY <1>1 DEF ShownIn, LatestIn
  <1>3. r = [f \in DOMAIN r |-> r[f]]
    BY DEF Reading, Bib, Colour
  <1> QED BY <1>2, <1>3 DEF RowOnSheet, ShownOnSheet, NewAttribute, Sheet!Entry

\* New rows come onto the sheet as they were read.
LEMMA EnterOnSheet ==
    ASSUME AttributesTypeOK, LogFits, AttributeTableOK', UNCHANGED corrections,
           DOMAIN attributes \subseteq DOMAIN attributes',
           \A a \in DOMAIN attributes : attributes'[a] = attributes[a],
           \A a \in DOMAIN attributes' \ DOMAIN attributes :
             \E p \in PhotoIds, r \in Reading : attributes'[a] = NewAttribute(p, r)
    PROVE  Sheet!Enter(SheetIn(attributes, corrections), SheetIn(attributes', corrections))
  <1> DEFINE before == SheetIn(attributes, corrections)
             after == SheetIn(attributes', corrections)
  <1>1. /\ DOMAIN before = DOMAIN attributes /\ DOMAIN after = DOMAIN attributes'
        /\ \A a \in DOMAIN before : before[a] = RowOnSheet(attributes[a], corrections, a)
        /\ \A a \in DOMAIN after : after[a] = RowOnSheet(attributes'[a], corrections, a)
    BY DEF SheetIn
  <1>2. DOMAIN after \subseteq AttrIds
    BY <1>1 DEF AttributeTableOK
  <1>3. ASSUME NEW a \in DOMAIN after, a \in DOMAIN before
        PROVE  after[a] = before[a]
    BY <1>1, <1>3
  <1>4. ASSUME NEW a \in DOMAIN after, a \notin DOMAIN before
        PROVE  after[a].original \in Reading /\ after[a] = Sheet!Entry(after[a].original)
    <2>1. PICK p \in PhotoIds, r \in Reading : attributes'[a] = NewAttribute(p, r)
      BY <1>1, <1>4
    <2>2. after[a] = Sheet!Entry(r)
      BY <1>1, <1>4, <2>1, EnteredAsRead
    <2> QED BY <2>2 DEF Sheet!Entry
  <1> QED BY <1>1, <1>2, <1>3, <1>4 DEF Sheet!Enter

\* A soft delete strikes one attribute.
LEMMA StrikeOnSheet ==
    ASSUME NEW a \in DOMAIN attributes, AttributesTypeOK, UNCHANGED corrections,
           attributes' = [attributes EXCEPT ![a].deleted = TRUE]
    PROVE  /\ DOMAIN SheetIn(attributes', corrections) = DOMAIN SheetIn(attributes, corrections)
           /\ Sheet!Strike(SheetIn(attributes, corrections), SheetIn(attributes', corrections), a)
  <1> DEFINE before == SheetIn(attributes, corrections)
             after == SheetIn(attributes', corrections)
  <1>1. /\ DOMAIN before = DOMAIN attributes /\ DOMAIN after = DOMAIN attributes
        /\ \A x \in DOMAIN attributes : before[x] = RowOnSheet(attributes[x], corrections, x)
        /\ \A x \in DOMAIN attributes : after[x] = RowOnSheet(attributes'[x], corrections, x)
    BY DEF SheetIn
  <1>2. /\ attributes'[a].original = attributes[a].original /\ attributes'[a].deleted = TRUE
        /\ \A x \in DOMAIN attributes \ {a} : attributes'[x] = attributes[x]
    BY DEF AttributesTypeOK, AttributeRow
  <1>3. after[a] = [before[a] EXCEPT !.struck = TRUE]
    <2> DEFINE o == attributes[a].original
               s == ShownOnSheet(o, corrections, a)
    <2>1. before[a] = [original |-> o, shown |-> s, struck |-> attributes[a].deleted]
      BY <1>1 DEF RowOnSheet
    <2>2. after[a] = [original |-> o, shown |-> s, struck |-> attributes'[a].deleted]
      BY <1>1, <1>2 DEF RowOnSheet
    <2>3. ASSUME NEW x, NEW y, NEW z, NEW t
          PROVE  [[original |-> x, shown |-> y, struck |-> z] EXCEPT !.struck = t]
                   = [original |-> x, shown |-> y, struck |-> t]
      OBVIOUS
    <2> HIDE DEF before, after, o, s
    <2>4. after[a] = [before[a] EXCEPT !.struck = attributes'[a].deleted]
      BY <2>1, <2>2, <2>3
    <2> QED BY <1>2, <2>4, Zenon
  <1>4. \A x \in DOMAIN attributes \ {a} : after[x] = before[x]
    BY <1>1, <1>2
  <1>5. after = [x \in DOMAIN attributes |-> after[x]] /\ before = [x \in DOMAIN attributes |-> before[x]]
    BY <1>1 DEF SheetIn
  <1>6. after = [before EXCEPT ![a] = [before[a] EXCEPT !.struck = TRUE]]
    <2> HIDE DEF before, after
    <2> QED BY <1>1, <1>3, <1>4, <1>5
  <1> QED BY <1>1, <1>6 DEF Sheet!Strike

\* What a field can be corrected to, a reading can say of it.
LEMMA CorrectedReading ==
    ASSUME NEW r \in Reading, NEW f \in DOMAIN r, NEW v \in NewValues(f), v # NoValue
    PROVE  \E x \in Reading : f \in DOMAIN x /\ x[f] = v
  <1> DEFINE x == [r EXCEPT ![f] = v]
  <1>0. v \in Values
    BY NewValuesAre
  <1>1. CASE r \in Bib
    <2>1. x \in Bib /\ f \in DOMAIN x /\ x[f] = v
      BY <1>0, <1>1 DEF Bib
    <2> QED BY <2>1 DEF Reading
  <1>2. CASE r \in Colour
    <2>1. x \in Colour /\ f \in DOMAIN x /\ x[f] = v
      BY <1>0, <1>2 DEF Colour
    <2> QED BY <2>1 DEF Reading
  <1> QED BY <1>1, <1>2 DEF Reading

\* A correction amends one value of one attribute.
LEMMA AmendOnSheet ==
    ASSUME AttributesTypeOK, NEW c \in Correction, Fits(attributes, c.target, c.field, c.new)
    PROVE  LET before == SheetIn(attributes, corrections)
               after == SheetIn(attributes, Append(corrections, c))
           IN  /\ DOMAIN after = DOMAIN before
               /\ c.target \in DOMAIN before
               /\ c.field \in DOMAIN before[c.target].original
               /\ Sheet!Amend(before, after, c.target, c.field)
  <1> DEFINE log == Append(corrections, c)
             before == SheetIn(attributes, corrections)
             after == SheetIn(attributes, log)
             a == c.target
             f == c.field
             o == attributes[a].original
             v == after[a].shown[f]
  <1>0. /\ corrections \in Seq(Correction) /\ a \in DOMAIN attributes /\ f \in DOMAIN o
        /\ o \in Reading /\ c.new \in NewValues(f)
        /\ Len(log) = Len(corrections) + 1
    BY DEF AttributesTypeOK, AttributeRow, Fits
  <1>1. \A x, g : LatestIn(log, Len(log), x, g) =
                    IF a = x /\ f = g THEN c.new ELSE LatestIn(corrections, Len(corrections), x, g)
    <2> SUFFICES ASSUME NEW x, NEW g
                 PROVE  LatestIn(log, Len(corrections) + 1, x, g) =
                          IF a = x /\ f = g THEN c.new ELSE LatestIn(corrections, Len(corrections), x, g)
      BY <1>0
    <2> QED BY <1>0, LatestAppended
  <1>2. /\ DOMAIN before = DOMAIN attributes /\ DOMAIN after = DOMAIN attributes
        /\ \A x \in DOMAIN attributes : before[x] = RowOnSheet(attributes[x], corrections, x)
        /\ \A x \in DOMAIN attributes : after[x] = RowOnSheet(attributes[x], log, x)
        /\ before = [x \in DOMAIN attributes |-> before[x]]
        /\ after = [x \in DOMAIN attributes |-> after[x]]
    BY DEF SheetIn
  <1>3. ASSUME NEW x \in DOMAIN attributes, x # a
        PROVE  after[x] = before[x]
    <2>1. \A r, g : ShownIn(r, log, Len(log), x, g) = ShownIn(r, corrections, Len(corrections), x, g)
      BY <1>1, <1>3 DEF ShownIn
    <2>2. ASSUME NEW r
          PROVE  ShownOnSheet(r, log, x) = ShownOnSheet(r, corrections, x)
      BY <2>1 DEF ShownOnSheet
    <2> QED BY <1>2, <2>2 DEF RowOnSheet
  <1>4. ShownOnSheet(o, log, a) = [ShownOnSheet(o, corrections, a) EXCEPT ![f] = v]
    <2>1. v = ShownOnSheet(o, log, a)[f]
      BY <1>0, <1>2 DEF RowOnSheet
    <2>2. \A g \in DOMAIN o \ {f} :
             ShownIn(o[g], log, Len(log), a, g) = ShownIn(o[g], corrections, Len(corrections), a, g)
      BY <1>1 DEF ShownIn
    <2> HIDE DEF v, log, a, f, o
    <2> QED BY <1>0, <2>1, <2>2 DEF ShownOnSheet
  <1>5. after[a] = [before[a] EXCEPT !.shown[f] = v]
    <2> DEFINE s == ShownOnSheet(o, corrections, a)
               t == ShownOnSheet(o, log, a)
    <2>1. /\ before[a] = [original |-> o, shown |-> s, struck |-> attributes[a].deleted]
          /\ after[a] = [original |-> o, shown |-> t, struck |-> attributes[a].deleted]
      BY <1>0, <1>2 DEF RowOnSheet
    <2>2. ASSUME NEW x, NEW y, NEW z, NEW w
          PROVE  [[original |-> x, shown |-> y, struck |-> z] EXCEPT !.shown = w]
                   = [original |-> x, shown |-> w, struck |-> z]
      OBVIOUS
    <2>3. before[a].shown = s
      BY <2>1
    <2> HIDE DEF before, after, o, s, t, v
    <2>4. after[a] = [before[a] EXCEPT !.shown = t]
      BY <2>1, <2>2
    <2>5. t = [before[a].shown EXCEPT ![f] = v]
      BY <1>4, <2>3 DEF s, t
    <2> QED BY <2>4, <2>5
  <1>6. after = [before EXCEPT ![a].shown[f] = v]
    <2> HIDE DEF before, after, v, a, f
    <2> QED BY <1>0, <1>2, <1>3, <1>5
  <1>7. \E r \in Reading : f \in DOMAIN r /\ r[f] = v
    <2>1. v = ShownIn(o[f], log, Len(log), a, f)
      BY <1>0, <1>2 DEF RowOnSheet, ShownOnSheet
    <2>2. v = IF c.new = NoValue THEN o[f] ELSE c.new
      BY <1>1, <2>1 DEF ShownIn
    <2> HIDE DEF v
    <2>3. CASE c.new = NoValue
      BY <1>0, <2>2, <2>3
    <2>4. CASE c.new # NoValue
      BY <1>0, <2>2, <2>4, CorrectedReading
    <2> QED BY <2>3, <2>4
  <1>8. before[a].original = o
    BY <1>0, <1>2 DEF RowOnSheet
  <1>9. Sheet!Amend(before, after, a, f)
    <2> HIDE DEF before, after, a, f
    <2> QED BY <1>6, <1>7 DEF Sheet!Amend, v
  <1>10. /\ DOMAIN after = DOMAIN before /\ a \in DOMAIN before
         /\ f \in DOMAIN before[a].original
    <2> HIDE DEF before, after, a, f
    <2> QED BY <1>0, <1>2, <1>8
  <1> QED BY <1>9, <1>10

\* Each step of Studio that writes an attribute or a correction is one of the
\* sheet.
LEMMA SheetKeepsStep ==
    ASSUME AttributesInductive, [StudioNext]_studioVars
    PROVE  UNCHANGED <<attributes, corrections>>
             \/ Sheet!SheetStep(SheetIn(attributes, corrections), SheetIn(attributes', corrections'))
  <1>0. /\ AttributesTypeOK /\ InsertsFresh /\ LogFits /\ EditsFit /\ edits \in [Editors -> Edit]
        /\ AttributesTypeOK' /\ AttributeTableOK'
    BY AttributesStep DEF AttributesInductive, AttributesTypeOK, AttributeTableOK
  <1>1. ASSUME NEW p \in PhotoIds, StoreReadings(p)
        PROVE  Sheet!Enter(SheetIn(attributes, corrections), SheetIn(attributes', corrections'))
    <2>1. PICK new \in SUBSET FreshAttrs : \E original \in [new -> Reading] :
            attributes' = [a \in DOMAIN attributes \cup new |->
              IF a \in new THEN NewAttribute(p, original[a]) ELSE attributes[a]]
      BY <1>1 DEF StoreReadings
    <2>2. PICK original \in [new -> Reading] :
            attributes' = [a \in DOMAIN attributes \cup new |->
              IF a \in new THEN NewAttribute(p, original[a]) ELSE attributes[a]]
      BY <2>1
    <2>3. new \cap DOMAIN attributes = {} /\ UNCHANGED corrections
      BY <1>1 DEF FreshAttrs, StoreReadings
    <2>4. /\ DOMAIN attributes \subseteq DOMAIN attributes'
          /\ \A a \in DOMAIN attributes : attributes'[a] = attributes[a]
          /\ \A a \in DOMAIN attributes' \ DOMAIN attributes :
               \E q \in PhotoIds, r \in Reading : attributes'[a] = NewAttribute(q, r)
      BY <2>2, <2>3
    <2> QED BY <1>0, <2>3, <2>4, EnterOnSheet
  <1>2. ASSUME NEW e \in Editors, SaveAttribute(e)
        PROVE  Sheet!Enter(SheetIn(attributes, corrections), SheetIn(attributes', corrections'))
    <2>1. /\ edits[e].id \notin DOMAIN attributes
          /\ edits[e].photo \in PhotoIds /\ edits[e].original \in Reading
      BY <1>0, <1>2, EditType DEF SaveAttribute, InsertsFresh
    <2>2. /\ attributes' = Upsert(attributes, edits[e].id, NewAttribute(edits[e].photo, edits[e].original))
          /\ UNCHANGED corrections
      BY <1>2 DEF SaveAttribute
    <2>3. /\ DOMAIN attributes \subseteq DOMAIN attributes'
          /\ \A a \in DOMAIN attributes : attributes'[a] = attributes[a]
          /\ \A a \in DOMAIN attributes' \ DOMAIN attributes :
               \E q \in PhotoIds, r \in Reading : attributes'[a] = NewAttribute(q, r)
      BY <2>1, <2>2 DEF Upsert
    <2> QED BY <1>0, <2>2, <2>3, EnterOnSheet
  <1>3. ASSUME NEW e \in Editors, SoftDelete(e)
        PROVE  Sheet!SheetStep(SheetIn(attributes, corrections), SheetIn(attributes', corrections'))
    <2>1. PICK a \in DOMAIN attributes : a = edits[e].target
      BY <1>0, <1>3 DEF SoftDelete, EditsFit, EditFits
    <2>2. attributes' = [attributes EXCEPT ![a].deleted = TRUE] /\ UNCHANGED corrections
      BY <1>3, <2>1 DEF SoftDelete
    <2>3. a \in DOMAIN SheetIn(attributes, corrections)
      BY DEF SheetIn
    <2> QED BY <1>0, <2>2, <2>3, StrikeOnSheet DEF Sheet!SheetStep
  <1>4. ASSUME NEW e \in Editors, AppendCorrection(e)
        PROVE  Sheet!SheetStep(SheetIn(attributes, corrections), SheetIn(attributes', corrections'))
    <2>1. /\ edits[e].step = "append" /\ UNCHANGED attributes
          /\ corrections' = Append(corrections, edits[e].correction)
      BY <1>4 DEF AppendCorrection
    <2>2. PICK c \in Correction : c = edits[e].correction
      BY <1>0, <2>1, EditType
    <2>3. Fits(attributes, c.target, c.field, c.new)
      BY <1>0, <2>1, <2>2 DEF EditsFit, EditFits
    <2>4. /\ DOMAIN SheetIn(attributes, Append(corrections, c)) = DOMAIN SheetIn(attributes, corrections)
          /\ c.target \in DOMAIN SheetIn(attributes, corrections)
          /\ c.field \in DOMAIN SheetIn(attributes, corrections)[c.target].original
          /\ Sheet!Amend(SheetIn(attributes, corrections), SheetIn(attributes, Append(corrections, c)),
                         c.target, c.field)
      BY <1>0, <2>3, AmendOnSheet
    <2> QED BY <2>1, <2>2, <2>4 DEF Sheet!SheetStep
  <1>5. ASSUME NEW e \in Editors, EditStep(e)
        PROVE  UNCHANGED <<attributes, corrections>> \/ SaveAttribute(e) \/ SoftDelete(e) \/ AppendCorrection(e)
    BY <1>5 DEF EditStep, AddAttribute, DeleteAttribute, Correct, ReadLatest, EditFails
  <1>6. CASE UNCHANGED attributeVars
    BY <1>6 DEF attributeVars
  <1>7. CASE \E p \in PhotoIds : StoreReadings(p)
    BY <1>1, <1>7 DEF Sheet!SheetStep
  <1>8. CASE \E e \in Editors : EditStep(e)
    BY <1>2, <1>3, <1>4, <1>5, <1>8 DEF Sheet!SheetStep
  <1> QED BY <1>6, <1>7, <1>8 DEF StudioNext, studioVars

-----------------------------------------------------------------------------
(* Who finds and sees which photo.                                         *)

\* Where a field was corrected, the search compares the latest correction.
LEMMA SearchedIs ==
    ASSUME AttributesTypeOK, NEW a, NEW f
    PROVE  /\ OfField(a, f) = OwnIn(corrections, Len(corrections), a, f)
           /\ LatestUpTo(Len(corrections), a, f) = LatestIn(corrections, Len(corrections), a, f)
           /\ SearchedValue(a, f) # NoValue => SearchedValue(a, f) = Shown(a, f)
  <1>1. \A i \in DOMAIN corrections : i <= Len(corrections)
    BY DEF AttributesTypeOK
  <1>2. OfField(a, f) = OwnIn(corrections, Len(corrections), a, f)
    BY <1>1 DEF OfField, OwnIn
  <1>3. LatestUpTo(Len(corrections), a, f) = LatestIn(corrections, Len(corrections), a, f)
    BY LatestIs
  <1> QED BY <1>2, <1>3, ShownIs DEF SearchedValue, ShownIn, LatestIn

\* A photo that is found by a value has an attribute that shows it.
LEMMA FoundShown == AttributesTypeOK => FoundIsShown
  <1> SUFFICES ASSUME AttributesTypeOK, NEW f \in SearchField, NEW v \in Values,
                      NEW p \in SearchPhotos({EventOf[k] : k \in Keys}, f, v)
               PROVE  \E d \in PhotoDetail(p) : f \in DOMAIN d.shown /\ d.shown[f] = v
    BY DEF FoundIsShown
  <1>1. PICK a \in Searchable : /\ f \in DOMAIN attributes[a].original
                               /\ SearchedValue(a, f) = v
                               /\ p = attributes[a].photo
    BY DEF SearchPhotos, FindPhotosBy
  <1>2. Shown(a, f) = v
    BY <1>1, SearchedIs, AttributeAssumption
  <1>3. a \in AttributesOf(p)
    BY <1>1 DEF Searchable, AttributesOf
  <1> DEFINE d == [original |-> attributes[a].original,
                   shown |-> [g \in DOMAIN attributes[a].original |-> Shown(a, g)]]
  <1>4. d \in PhotoDetail(p)
    BY <1>3 DEF PhotoDetail
  <1>5. f \in DOMAIN d.shown /\ d.shown[f] = v
    BY <1>1, <1>2
  <1> HIDE DEF d
  <1> QED BY <1>4, <1>5

\* What GetPublicEventPhotos finds by digits, the administrators' search finds.
LEMMA GalleryFinds ==
    ASSUME AttributesTypeOK, NEW e \in active \cap covered, NEW v \in Values
    PROVE  GetPublicEventPhotos(e, "matched", v) = SearchPhotos({e}, "digits", v)
  <1>1. CASE v \notin AskedNumbers
    BY <1>1, AttributeAssumption DEF GetPublicEventPhotos, BibAsked, SearchPhotos, MayAsk
  <1>2. CASE v \in AskedNumbers
    <2>1. GetPublicEventPhotos(e, "matched", v) = MatchingBib(e, v)
      BY <1>2, AttributeAssumption DEF GetPublicEventPhotos, BibAsked, ExistsActiveEvent, PublicPhotos
    <2>2. ASSUME NEW a
          PROVE  (IF OfField(a, "digits") # {} THEN LatestUpTo(Len(corrections), a, "digits")
                  ELSE attributes[a].original["digits"]) = SearchedValue(a, "digits")
      BY DEF SearchedValue
    <2>3. MatchingBib(e, v) = {attributes[a].photo : a \in {x \in Plates(e) : v = SearchedValue(x, "digits")}}
      BY <2>2 DEF MatchingBib
    <2>4. \A a : a \in Plates(e) <=>
            /\ a \in Searchable
            /\ "digits" \in DOMAIN attributes[a].original
            /\ attributes[a].photo \in PhotosOf({e})
      BY DEF Plates, PlatesAll, Searchable
    <2>5. SearchPhotos({e}, "digits", v) = PhotosOf({e}) \cap FindPhotosBy("digits", v)
      BY <1>2 DEF SearchPhotos, MayAsk
    <2> QED BY <2>1, <2>3, <2>4, <2>5 DEF FindPhotosBy
  <1> QED BY <1>1, <1>2

\* The bibs of a photo that are not struck.
BibsOf(p) == {a \in AttributesOf(p) : "digits" \in DOMAIN attributes[a].original}

\* The search compares the digits that the detail shows.
LEMMA DigitsShown ==
    ASSUME AttributesTypeOK, LogFits, NEW p, NEW a \in BibsOf(p)
    PROVE  SearchedValue(a, "digits") = Shown(a, "digits")
  <1>1. a \in DOMAIN attributes /\ "digits" \in DOMAIN attributes[a].original
    BY DEF AttributesOf, BibsOf
  <1>2. SearchedValue(a, "digits") \in Values
    <2>1. attributes[a].original["digits"] \in Values
      BY <1>1, ReadingValues DEF AttributesTypeOK, AttributeRow, SearchField
    <2>2. CASE OfField(a, "digits") = {}
      BY <2>1, <2>2 DEF SearchedValue
    <2>3. CASE OfField(a, "digits") # {}
      <3>1. corrections \in Seq(Correction) /\ Len(corrections) \in Nat
        BY DEF AttributesTypeOK
      <3>2. OfField(a, "digits") = OwnIn(corrections, Len(corrections), a, "digits")
            /\ LatestUpTo(Len(corrections), a, "digits") = LatestIn(corrections, Len(corrections), a, "digits")
        BY SearchedIs
      <3>3. PICK i \in OwnIn(corrections, Len(corrections), a, "digits") :
               LatestIn(corrections, Len(corrections), a, "digits") = corrections[i].new
        BY <2>3, <3>1, <3>2, LatestMember
      <3>4. corrections[i].new \in Values
        BY NewValuesAre DEF OwnIn, LogFits, Fits
      <3> QED BY <2>3, <3>2, <3>3, <3>4 DEF SearchedValue
    <2> QED BY <2>2, <2>3
  <1> QED BY <1>2, SearchedIs, AttributeAssumption

\* The numbers a photo's detail shows are those of its bibs.
LEMMA NumbersAre ==
    ASSUME NEW p
    PROVE  NumbersOf(p) = {Shown(a, "digits") : a \in BibsOf(p)}
  <1> DEFINE Detail(a) ==
        [original |-> attributes[a].original,
         shown |-> [f \in DOMAIN attributes[a].original |-> Shown(a, f)]]
  <1>1. PhotoDetail(p) = {Detail(a) : a \in AttributesOf(p)}
    BY DEF PhotoDetail
  <1>2. ASSUME NEW a
        PROVE  /\ "digits" \in DOMAIN Detail(a).shown <=> "digits" \in DOMAIN attributes[a].original
               /\ "digits" \in DOMAIN attributes[a].original => Detail(a).shown["digits"] = Shown(a, "digits")
    OBVIOUS
  <1> HIDE DEF Detail
  <1> QED BY <1>1, <1>2 DEF NumbersOf, BibsOf

\* A photo is found by the numbers its detail shows, or listed as one without.
LEMMA GalleryShows ==
    ASSUME AttributesTypeOK, LogFits, NEW e \in active \cap covered, NEW p \in PhotosOf({e})
    PROVE  /\ p \in GetPublicEventPhotos(e, "no_bib", NoValue) <=> NumbersOf(p) = {}
           /\ \A v \in Values :
                p \in GetPublicEventPhotos(e, "matched", v) <=> v \in NumbersOf(p) \cap AskedNumbers
  <1>1. p \in GetPublicEventPhotos(e, "no_bib", NoValue) <=> BibsOf(p) = {}
    <2>1. GetPublicEventPhotos(e, "no_bib", NoValue) = WithoutBib(e)
      BY DEF GetPublicEventPhotos, BibAsked, ExistsActiveEvent, PublicPhotos
    <2> QED BY <2>1 DEF WithoutBib, BibsOf, AttributesOf
  <1>2. ASSUME NEW v \in Values
        PROVE  p \in GetPublicEventPhotos(e, "matched", v)
                 <=> v \in AskedNumbers /\ \E a \in BibsOf(p) : SearchedValue(a, "digits") = v
    BY GalleryFinds DEF SearchPhotos, MayAsk, FindPhotosBy, BibsOf, AttributesOf, Searchable
  <1> QED BY <1>1, <1>2, NumbersAre, DigitsShown

\* The events, their covers and who is on duty are well typed.
ProgrammeOK == active \subseteq EventIds /\ covered \subseteq EventIds /\ duty \subseteq EventIds \X Operators

\* At first they are.
LEMMA ProgrammeStart == GalleryInit => ProgrammeOK
  BY DEF GalleryInit, ProgrammeOK

\* Nothing the editors, the workers or the event commands do changes that.
LEMMA ProgrammeKeeps == ProgrammeOK /\ [GalleryNext]_galleryVars => ProgrammeOK'
  <1> SUFFICES ASSUME ProgrammeOK, [GalleryNext]_galleryVars PROVE ProgrammeOK'
    OBVIOUS
  <1>1. CASE ProgrammeStep
    BY <1>1 DEF ProgrammeOK, ProgrammeStep, SetActive, SetCover, SetDuty
  <1>2. CASE UNCHANGED programmeVars
    BY <1>2 DEF ProgrammeOK, programmeVars
  <1> QED BY <1>1, <1>2 DEF GalleryNext, galleryVars

-----------------------------------------------------------------------------
(* The theorems.                                                           *)

\* Everything the reviewers and the worker do to the attributes of photos is
\* done by the invariant, beside that of the photos themselves.
THEOREM StudioInvariantHolds == StudioSpec => [](PipelineInductive /\ AttributesInductive)
  <1>1. StudioInit => PipelineInductive /\ AttributesInductive
    BY InductiveInit, AttributesStart DEF StudioInit
  <1>2. PipelineInductive /\ AttributesInductive /\ [StudioNext]_studioVars
          => PipelineInductive' /\ AttributesInductive'
    BY StudioStepIsPipelines, InductiveStep, AttributesStep
  <1> QED BY <1>1, <1>2, PTL DEF StudioSpec

\* ApplyBibCorrectionHandler, ApplyColorCorrectionHandler: the log of corrections
\* is an audit trail for as long as no two edits overlap.
THEOREM CorrectionsChain == StudioSpec => []AuditChain
  <1>1. AttributesInductive => AuditChain
    BY DEF AttributesInductive
  <1> QED BY <1>1, StudioInvariantHolds, PTL

\* findPhotoIdsMatchingBibDigits and toDetailProjection work the value of a field
\* out each in its own way, and agree.
THEOREM FoundPhotosShow == StudioSpec => []FoundIsShown
  <1>1. AttributesInductive => FoundIsShown
    BY FoundShown DEF AttributesInductive
  <1> QED BY <1>1, StudioInvariantHolds, PTL

\* The handlers of attributes and the worker implement the reviewers' sheet: what
\* was read stays, struck stays struck, a correction changes one value.
THEOREM AttributesImplementSheet == StudioSpec => KeepsSheet
  <1>1. StudioInit => Sheet!SheetInit
    <2> SUFFICES ASSUME StudioInit PROVE SheetOf = [a \in {} |-> {}]
      BY DEF Sheet!SheetInit
    <2>1. DOMAIN attributes = {}
      BY DEF StudioInit, AttributesInit, NoRows
    <2> QED BY <2>1 DEF SheetOf
  <1>2. AttributesInductive /\ [StudioNext]_studioVars
          => [UNCHANGED <<attributes, corrections>> \/ Sheet!SheetNext]_SheetOf
    BY SheetKeepsStep, SheetIs DEF Sheet!SheetNext
  <1> QED BY <1>1, <1>2, StudioInvariantHolds, PTL DEF StudioSpec, KeepsSheet

\* The commands of events leave the studio alone: what holds of Studio holds of
\* Gallery.
THEOREM GalleryImplementsStudio == GallerySpec => StudioSpec
  <1>1. GalleryInit => StudioInit
    BY DEF GalleryInit
  <1> QED BY <1>1, GalleryStepIsStudios, PTL DEF GallerySpec, StudioSpec

\* What PhotoPipeline promises of photos, retouchers and reviews, whatever is edited
\* meanwhile.
THEOREM GalleryKeepsPhotos ==
    GallerySpec =>
      /\ [](ProcessedHasResult /\ PhotoRowsCoherent /\ OnePhotoPerUpload /\ CompletionAnnounced)
      /\ ReviewSettles
  <1>1. PipelineInductive =>
          ProcessedHasResult /\ PhotoRowsCoherent /\ OnePhotoPerUpload /\ CompletionAnnounced
    BY RowsInOrder, CompletedSeen
  <1>2. PipelineInductive /\ [StudioNext]_studioVars
          => [\A p \in DOMAIN photos : Settled(p) => Settled(p)']_pipelineVars
    BY SettlesStep, StudioStepIsPipelines
  <1> QED BY <1>1, <1>2, GalleryImplementsStudio, StudioInvariantHolds, PTL DEF StudioSpec, ReviewSettles

\* Every table, handler, job and edit of the studio and the gallery is well typed.
THEOREM GalleryTypeCorrect == GallerySpec => []GalleryTypeOK
  <1>1. PipelineInductive /\ AttributesInductive /\ ProgrammeOK => GalleryTypeOK
    BY DEF PipelineInductive, AttributesInductive, ProgrammeOK, GalleryTypeOK, StudioTypeOK
  <1>2. GallerySpec => []ProgrammeOK
    BY ProgrammeStart, ProgrammeKeeps, PTL DEF GallerySpec
  <1> QED BY <1>1, <1>2, GalleryImplementsStudio, StudioInvariantHolds, PTL

\* GetPublicEventPhotosHandler: of an event with a cover, a rider finds a photo by
\* just those numbers of its detail that can be asked for, and among those without a
\* bib if its detail has none.
THEOREM GalleryIsComplete == GallerySpec => []GalleryComplete
  <1>1. AttributesInductive => GalleryComplete
    BY GalleryFinds, GalleryShows DEF AttributesInductive, GalleryComplete
  <1> QED BY <1>1, GalleryImplementsStudio, StudioInvariantHolds, PTL

-----------------------------------------------------------------------------
(* The pages of operators and administrators.                              *)

\* What the pages read: rows in order, each with its upload's key to itself.
PagesRead ==
    /\ PhotosOK
    /\ PhotoRowsCoherent
    /\ OnePhotoPerUpload
    /\ RetouchTypeOK
    /\ ProgrammeOK

\* Photos are of events there are, and the photos of some events are finitely many.
LEMMA PhotosCounted ==
    ASSUME PagesRead
    PROVE  /\ \A p \in DOMAIN photos : photos[p].key \in Keys /\ EventOf[photos[p].key] \in EventIds
           /\ IsFiniteSet(DOMAIN photos)
           /\ \A S \in SUBSET DOMAIN photos : IsFiniteSet(S) /\ Cardinality(S) \in Nat
  <1>1. \A p \in DOMAIN photos : photos[p].key \in Keys
    BY DEF PagesRead, PhotosOK, PhotoRow
  <1>2. IsFiniteSet(DOMAIN photos)
    BY DashboardAssumption, FS_Subset DEF PagesRead, PhotosOK
  <1> QED BY <1>1, <1>2, GalleryAssumption, FS_Subset, FS_CardinalityType

\* The list of an event's photos that ORDER BY filename gives.
LEMMA FilenamesOrder ==
    ASSUME PagesRead, NEW e
    PROVE  LET rows == PhotosOf({e})
               earlier == {pair \in rows \X rows : Before(pair[1], pair[2])}
           IN  /\ Orders(earlier, rows)
               /\ ByFilename(e) \in [1 .. Cardinality(rows) -> rows]
               /\ \A i, j \in 1 .. Cardinality(rows) : i < j =>
                    <<ByFilename(e)[i], ByFilename(e)[j]>> \in earlier
  <1> DEFINE rows == PhotosOf({e})
             earlier == {pair \in rows \X rows : Before(pair[1], pair[2])}
             n == Cardinality(rows)
  <1>1. rows \in SUBSET DOMAIN photos /\ IsFiniteSet(rows) /\ n \in Nat
    <2>1. rows \in SUBSET DOMAIN photos
      BY DEF PhotosOf
    <2> HIDE DEF rows
    <2> QED BY <2>1, PhotosCounted
  <1>2. \A p \in rows : photos[p].key \in Keys /\ NameOf[photos[p].key] \in Nat
    BY <1>1, PhotosCounted, GalleryAssumption
  <1>3. Orders(earlier, rows)
    <2>1. \A p, q \in rows : NameOf[photos[p].key] = NameOf[photos[q].key] => p = q
      BY <1>1, <1>2, GalleryAssumption DEF PagesRead, OnePhotoPerUpload
    <2> HIDE DEF rows
    <2>2. \A p, q \in rows : <<p, q>> \in earlier <=> NameOf[photos[p].key] < NameOf[photos[q].key]
      BY DEF Before
    <2> HIDE DEF earlier
    <2> QED BY <1>2, <2>1, <2>2 DEF Orders
  <1>4. \E list \in [1 .. n -> rows] : \A i, j \in DOMAIN list : i < j => Before(list[i], list[j])
    <2> DEFINE place == Place(earlier, rows)
               list == [i \in 1 .. n |-> CHOOSE p \in rows : place[p] = i]
    <2>1. /\ place \in Bijection(rows, 1 .. n)
          /\ \A p, q \in rows : <<p, q>> \in earlier <=> place[p] < place[q]
      <3> HIDE DEF rows, earlier
      <3> QED BY <1>1, <1>3, PlacesTaken
    <2>2. \A i \in 1 .. n : list[i] \in rows /\ place[list[i]] = i
      <3> HIDE DEF place, rows
      <3> QED BY <2>1 DEF Bijection, Surjection
    <2>3. \A p, q \in rows : place[p] < place[q] => Before(p, q)
      <3> HIDE DEF place
      <3> QED BY <2>1
    <2>4. list \in [1 .. n -> rows]
      BY <2>2
    <2>5. \A i, j \in 1 .. n : i < j => Before(list[i], list[j])
      <3> HIDE DEF list, rows, place
      <3> QED BY <2>2, <2>3
    <2> QED BY <2>4, <2>5
  <1>5. /\ ByFilename(e) \in [1 .. n -> rows]
        /\ \A i, j \in DOMAIN ByFilename(e) : i < j => Before(ByFilename(e)[i], ByFilename(e)[j])
    <2> HIDE DEF rows
    <2> QED BY <1>4 DEF ByFilename, rows
  <1> HIDE DEF rows
  <1> QED BY <1>3, <1>5 DEF rows

\* A photo is on the page of its place in the list.
LEMMA PageHasPlace ==
    ASSUME PagesRead, NEW e, NEW limit \in Nat \ {0}, NEW p \in PhotosOf({e})
    PROVE  p \in Page(e, limit, Cardinality({q \in PhotosOf({e}) : Before(q, p)}) \div limit + 1)
  <1> DEFINE rows == PhotosOf({e})
             earlier == {pair \in rows \X rows : Before(pair[1], pair[2])}
             list == ByFilename(e)
             k == Cardinality({q \in rows : Before(q, p)})
             n == k \div limit + 1
  <1>1. IsFiniteSet(rows) /\ Cardinality(rows) \in Nat
    BY PhotosCounted DEF PhotosOf
  <1>2. /\ Orders(earlier, rows)
        /\ list \in [1 .. Cardinality(rows) -> rows]
        /\ \A i, j \in 1 .. Cardinality(rows) : i < j => <<list[i], list[j]>> \in earlier
    BY FilenamesOrder
  <1>3. Place(earlier, rows)[p] = k + 1
    <2>1. Earlier(p, earlier, rows) = {q \in rows : Before(q, p)}
      BY DEF Earlier
    <2> QED BY <2>1 DEF Place
  <1>4. k + 1 \in 1 .. Cardinality(rows) /\ list[k + 1] = p
    <2>1. p \in rows
      OBVIOUS
    <2>2. /\ Place(earlier, rows)[p] \in 1 .. Cardinality(rows)
          /\ list[Place(earlier, rows)[p]] = p
      <3> HIDE DEF rows, earlier, list
      <3> QED BY <1>1, <1>2, <2>1, ListedAtPlace
    <2> QED BY <1>3, <2>2
  <1>5. k \in Nat
    BY PhotosCounted DEF PhotosOf
  <1>6. (n - 1) * limit < k + 1 /\ k + 1 <= n * limit
    <2> HIDE DEF k
    <2>1. PICK d \in Nat : d = k \div limit /\ d * limit <= k /\ k < (d + 1) * limit
      BY <1>5
    <2> QED BY <1>5, <2>1
  <1>7. DOMAIN list = 1 .. Cardinality(rows)
    BY <1>2
  <1> HIDE DEF k, n, rows, list
  <1> QED BY <1>4, <1>6, <1>7 DEF Page, k, n, rows, list

\* The queue and the lists agree, and the resume point leads to its photo.
LEMMA QueuesDo == PagesRead => QueuesAgree
  <1> SUFFICES ASSUME PagesRead, NEW e \in EventIds
               PROVE  /\ ReviewQueue({e}, "reviewed") = PhotosList(e, TRUE)
                      /\ ReviewQueue({e}, "pending") \subseteq PhotosList(e, FALSE)
                      /\ PhotosList(e, FALSE) # {} =>
                           \A limit \in 1 .. 2 :
                             LET at == ResumePage(e, limit) IN at.photo \in Page(e, limit, at.page)
    BY DEF QueuesAgree
  <1>1. \A p \in PhotosOf({e}) :
           photos[p].reviewed \in BOOLEAN /\ (photos[p].reviewed <=> photos[p].status = "reviewed")
    BY DEF PagesRead, PhotosOK, PhotoRow, PhotoRowsCoherent, PhotosOf
  <1>2. ReviewQueue({e}, "reviewed") = PhotosList(e, TRUE)
    BY <1>1 DEF ReviewQueue, PhotosList
  <1>3. ReviewQueue({e}, "pending") \subseteq PhotosList(e, FALSE)
    BY <1>1 DEF ReviewQueue, PhotosList
  <1>4. ASSUME PhotosList(e, FALSE) # {}, NEW limit \in 1 .. 2
        PROVE  LET at == ResumePage(e, limit) IN at.photo \in Page(e, limit, at.page)
    <2> DEFINE left == PhotosList(e, FALSE)
               first == CHOOSE p \in left : \A q \in left : ~Before(q, p)
    <2>1. left \in SUBSET PhotosOf({e})
      BY DEF PhotosList
    <2>2. \A p \in left : NameOf[photos[p].key] \in Nat
      BY <2>1, PhotosCounted, GalleryAssumption DEF PhotosOf
    <2>3. \E p \in left : \A q \in left : ~Before(q, p)
      <3> DEFINE names == {NameOf[photos[p].key] : p \in left}
      <3>1. names \in SUBSET Nat /\ names # {}
        <4> HIDE DEF left
        <4> QED BY <1>4, <2>2 DEF left
      <3>2. PICK m \in names : \A k \in names : m <= k
        <4> HIDE DEF names
        <4> QED BY <3>1, LeastNatural
      <3>3. PICK p \in left : m = NameOf[photos[p].key]
        OBVIOUS
      <3>4. \A q \in left : ~(NameOf[photos[q].key] < NameOf[photos[p].key])
        <4> HIDE DEF left
        <4> QED BY <2>2, <3>2, <3>3
      <3> QED BY <3>4 DEF Before
    <2>4. first \in PhotosOf({e})
      <3> HIDE DEF left
      <3> QED BY <2>1, <2>3
    <2>5. /\ ResumePage(e, limit).photo = first
          /\ ResumePage(e, limit).page
               = Cardinality({q \in PhotosOf({e}) : Before(q, first)}) \div limit + 1
      <3> HIDE DEF left
      <3> QED BY DEF ResumePage, left
    <2> HIDE DEF first
    <2> QED BY <2>4, <2>5, PageHasPlace
  <1> QED BY <1>2, <1>3, <1>4

\* Photos of two events are counted event by event.
LEMMA ByEvents ==
    ASSUME PagesRead, NEW A \in SUBSET EventIds, NEW wanted
    PROVE  FoldFunctionOnSet(+, 0, [e \in A |-> Cardinality(PhotosOf({e}) \cap wanted)], A)
             = Cardinality(PhotosOf(A) \cap wanted)
  <1> DEFINE groups == [e \in A |-> PhotosOf({e}) \cap wanted]
  <1>1. IsFiniteSet(A)
    BY DashboardAssumption, FS_Subset
  <1>2. \A e \in A : IsFiniteSet(groups[e])
    <2> SUFFICES ASSUME NEW e \in A PROVE IsFiniteSet(PhotosOf({e}) \cap wanted)
      OBVIOUS
    <2>1. PhotosOf({e}) \cap wanted \in SUBSET DOMAIN photos
      BY DEF PhotosOf
    <2> QED BY <2>1, PhotosCounted
  <1>3. \A d, e \in A : d # e => groups[d] \cap groups[e] = {}
    BY DEF PhotosOf
  <1>4. InGroups(groups, A) = PhotosOf(A) \cap wanted
    BY DEF InGroups, PhotosOf
  <1>5. [e \in A |-> Cardinality(PhotosOf({e}) \cap wanted)] = [e \in A |-> Cardinality(groups[e])]
    OBVIOUS
  <1> HIDE DEF groups
  <1> QED BY <1>1, <1>2, <1>3, <1>4, <1>5, SumOfGroups

\* The summary adds up the events.
LEMMA SummaryDoes == PagesRead => SummaryAdds
  <1> SUFFICES ASSUME PagesRead, NEW u \in Operators
               PROVE  LET of == ActiveEvents(u)
                          Sum(field) == SumOver([e \in DOMAIN of |-> of[e][field]], DOMAIN of)
                      IN /\ Summary(u).review = Sum("pending")
                         /\ Summary(u).retouch = Sum("retouch")
                         /\ \A e \in DOMAIN of : of[e].total - of[e].pending = ClassifiedCount(e)
                         /\ PendingReview(Assigned(u)) \subseteq OperatorReviewQueue(u, AllEvents, "pending")
    BY DEF SummaryAdds
  <1> DEFINE A == Assigned(u)
             toReview == {p \in DOMAIN photos :
                 photos[p].status \in {"processed", "reviewed"} /\ ~photos[p].reviewed}
             toRetouch == {p \in DOMAIN photos :
                 /\ photos[p].retouched = NoFile /\ p \notin dismissed
                 /\ \E o \in DOMAIN ordered : ordered[o].paid /\ p \in ordered[o].photos}
  <1>1. A \in SUBSET EventIds
    BY DEF Assigned, PagesRead, ProgrammeOK
  <1>2. /\ PendingReview(A) = PhotosOf(A) \cap toReview
        /\ PendingRetouch(A) = PhotosOf(A) \cap toRetouch
    BY DEF PendingReview, PendingRetouch, PhotosOf
  <1>3. ASSUME NEW e \in A
        PROVE  /\ EventStats(e).pending = Cardinality(PhotosOf({e}) \cap toReview)
               /\ EventStats(e).retouch = Cardinality(PhotosOf({e}) \cap toRetouch)
               /\ EventStats(e).total - EventStats(e).pending = ClassifiedCount(e)
    <2> DEFINE read == {p \in PhotosOf({e}) : photos[p].status \in {"processed", "reviewed"}}
               pending == {p \in read : ~photos[p].reviewed}
    <2>1. /\ pending = PhotosOf({e}) \cap toReview
          /\ {p \in PhotosOf({e}) :
                /\ photos[p].retouched = NoFile /\ p \notin dismissed
                /\ \E o \in DOMAIN ordered : ordered[o].paid /\ p \in ordered[o].photos}
               = PhotosOf({e}) \cap toRetouch
      BY DEF PhotosOf
    <2>2. {p \in PhotosOf({e}) : photos[p].status = "reviewed"} = read \ pending
      BY DEF PagesRead, PhotoRowsCoherent, PhotosOf
    <2>3. read \in SUBSET DOMAIN photos /\ pending \in SUBSET read
      BY DEF PhotosOf
    <2>4. /\ Cardinality(read) \in Nat /\ Cardinality(pending) \in Nat
          /\ Cardinality(read \ pending) = Cardinality(read) - Cardinality(pending)
      <3>1. read \cap pending = pending
        OBVIOUS
      <3> HIDE DEF read, pending
      <3> QED BY <2>3, <3>1, PhotosCounted, FS_Difference
    <2> HIDE DEF toReview, toRetouch
    <2> QED BY <2>1, <2>2, <2>4 DEF EventStats, ClassifiedCount
  <1>4. PendingReview(A) \subseteq OperatorReviewQueue(u, AllEvents, "pending")
    BY DEF PendingReview, OperatorReviewQueue, ReviewQueue
  <1>5. /\ Summary(u).review = SumOver([e \in A |-> Cardinality(PhotosOf({e}) \cap toReview)], A)
        /\ Summary(u).retouch = SumOver([e \in A |-> Cardinality(PhotosOf({e}) \cap toRetouch)], A)
    <2>1. /\ Summary(u).review = Cardinality(PhotosOf(A) \cap toReview)
          /\ Summary(u).retouch = Cardinality(PhotosOf(A) \cap toRetouch)
      BY <1>2 DEF Summary
    <2> HIDE DEF A, toReview, toRetouch
    <2> QED BY <1>1, <2>1, ByEvents DEF SumOver
  <1>6. /\ DOMAIN ActiveEvents(u) = A
        /\ \A e \in A : ActiveEvents(u)[e] = EventStats(e)
    BY DEF ActiveEvents
  <1>7. /\ [e \in A |-> ActiveEvents(u)[e]["pending"]] = [e \in A |-> Cardinality(PhotosOf({e}) \cap toReview)]
        /\ [e \in A |-> ActiveEvents(u)[e]["retouch"]] = [e \in A |-> Cardinality(PhotosOf({e}) \cap toRetouch)]
    <2> HIDE DEF A, toReview, toRetouch
    <2> QED BY <1>3, <1>6
  <1> HIDE DEF A, toReview, toRetouch
  <1> QED BY <1>3, <1>4, <1>5, <1>6, <1>7 DEF A

\* The events whose orders the retoucher's pages list.
Reached(u, role) == IF role = "admin" THEN EventIds ELSE Assigned(u)

\* Every page of orders lists those of a queue.
LEMMA OrdersOnPages ==
    ASSUME NEW u \in Operators, NEW role \in Role
    PROVE  /\ {r.order : r \in RetouchOrdersOf(u, role, AllEvents, "pending")}
                = RetouchQueue(Reached(u, role), "pending")
           /\ \A e \in Reached(u, role) \cap active \cap covered \cap EventIds :
                /\ {r.order : r \in RetouchOrdersOf(u, role, e, "pending")} = RetouchQueue({e}, "pending")
                /\ {q.order : q \in EventRetouchQueue(u, role, e, "pending")} = RetouchQueue({e}, "pending")
  <1>1. ASSUME NEW events
        PROVE  {r.order : r \in OrdersPage(events, "pending")} = RetouchQueue(events, "pending")
    <2> DEFINE row(o) == [order |-> o,
                          total |-> Cardinality(ordered[o].photos),
                          retouched |-> Cardinality({p \in ordered[o].photos : RetouchedPhoto(p)}),
                          pending |-> Cardinality({p \in ordered[o].photos : PendingPhoto(p)})]
    <2>1. OrdersPage(events, "pending") = {row(o) : o \in RetouchQueue(events, "pending")}
      BY DEF OrdersPage
    <2>2. \A o : row(o).order = o
      OBVIOUS
    <2> HIDE DEF row
    <2> QED BY <2>1, <2>2
  <1>2. ASSUME NEW e PROVE {q.order : q \in QueuePage(e, "pending")} = RetouchQueue({e}, "pending")
    <2> DEFINE row(o) == [order |-> o, items |-> PendingItems(o)]
    <2>1. QueuePage(e, "pending") = {row(o) : o \in RetouchQueue({e}, "pending")}
      BY DEF QueuePage
    <2>2. \A o : row(o).order = o
      OBVIOUS
    <2> HIDE DEF row
    <2> QED BY <2>1, <2>2
  <1>3. RetouchOrdersOf(u, role, AllEvents, "pending") = OrdersPage(Reached(u, role), "pending")
    BY DEF RetouchOrdersOf, Reached
  <1>4. ASSUME NEW e \in Reached(u, role) \cap active \cap covered \cap EventIds
        PROVE  /\ RetouchOrdersOf(u, role, e, "pending") = OrdersPage({e}, "pending")
               /\ EventRetouchQueue(u, role, e, "pending") = QueuePage(e, "pending")
    <2>1. e # AllEvents
      BY DashboardAssumption
    <2>2. ExistsActiveEvent(e)
      BY DEF ExistsActiveEvent
    <2>3. role = "admin" \/ (e \in Assigned(u) /\ IsOperatorAssigned(e, u))
      BY DEF Reached, Assigned, IsOperatorAssigned
    <2> QED BY <2>1, <2>2, <2>3 DEF RetouchOrdersOf, EventRetouchQueue
  <1> QED BY <1>1, <1>2, <1>3, <1>4

\* What the summary counts as photos to retouch is what the orders listed show.
LEMMA RetouchDoes == PagesRead => RetouchListed
  <1> SUFFICES ASSUME PagesRead, NEW u \in Operators, NEW role \in Role
               PROVE  LET mine == IF role = "admin" THEN EventIds ELSE Assigned(u)
                          orders == {r.order : r \in RetouchOrdersOf(u, role, AllEvents, "pending")}
                      IN /\ PendingRetouch(mine) \ Strayed
                              = (UNION {RetouchOrderDetail(u, role, o, TRUE) : o \in orders}) \ Strayed
                         /\ orders \subseteq AdminPendingRetouch
                         /\ \A e \in mine \cap active \cap covered :
                              /\ {o \in orders : OrderEvent(o) = e}
                                   = {q.order : q \in EventRetouchQueue(u, role, e, "pending")}
                              /\ {r.order : r \in RetouchOrdersOf(u, role, e, "pending")}
                                   = {q.order : q \in EventRetouchQueue(u, role, e, "pending")}
    BY DEF RetouchListed
  <1> DEFINE mine == Reached(u, role)  orders == RetouchQueue(mine, "pending")
  <1>1. mine \subseteq EventIds
    BY DEF Reached, Assigned, PagesRead, ProgrammeOK
  <1>2. \A o \in DOMAIN ordered : ordered[o].photos \subseteq DOMAIN photos
    BY DEF PagesRead, RetouchTypeOK
  <1>3. \A o \in orders : /\ o \in DOMAIN ordered /\ ordered[o].paid /\ OrderEvent(o) \in mine
                         /\ PendingItems(o) # {}
                         /\ RetouchOrderDetail(u, role, o, TRUE) = PendingItems(o)
    BY DEF RetouchQueue, RetouchOrderDetail, OrderDetail, Reached, Assigned, IsOperatorAssigned
  <1>4. \A o \in DOMAIN ordered :
           ordered[o].paid /\ OrderEvent(o) \in mine /\ PendingItems(o) # {} => o \in orders
    BY DEF RetouchQueue
  <1>5. ASSUME NEW p \in PendingRetouch(mine) \ Strayed
        PROVE  \E o \in orders : p \in RetouchOrderDetail(u, role, o, TRUE)
    <2>1. PICK o \in DOMAIN ordered : ordered[o].paid /\ p \in ordered[o].photos
      BY DEF PendingRetouch
    <2>2. p \in DOMAIN photos /\ EventOf[photos[p].key] \in mine
      BY DEF PendingRetouch, PhotosOf
    <2>3. EventOf[photos[p].key] = OrderEvent(o)
      BY <2>1, <2>2 DEF Strayed, PhotosOf
    <2>4. p \in PendingItems(o)
      BY <2>1 DEF PendingItems, PendingPhoto, PendingRetouch
    <2> QED BY <1>3, <1>4, <2>1, <2>2, <2>3, <2>4
  <1>6. ASSUME NEW o \in orders, NEW p \in RetouchOrderDetail(u, role, o, TRUE), p \notin Strayed
        PROVE  p \in PendingRetouch(mine)
    <2>1. /\ o \in DOMAIN ordered /\ ordered[o].paid /\ OrderEvent(o) \in mine
          /\ p \in PendingItems(o)
      BY <1>3
    <2>2. p \in ordered[o].photos /\ p \in DOMAIN photos /\ PendingPhoto(p)
      BY <1>2, <2>1 DEF PendingItems
    <2>3. p \in PhotosOf({OrderEvent(o)})
      BY <1>6, <2>1, <2>2 DEF Strayed
    <2> QED BY <2>1, <2>2, <2>3 DEF PendingRetouch, PendingPhoto, PhotosOf
  <1>7. orders \subseteq AdminPendingRetouch
    BY <1>3 DEF AdminPendingRetouch, PendingItems, PendingPhoto
  <1>8. \A e \in mine : {o \in orders : OrderEvent(o) = e} = RetouchQueue({e}, "pending")
    BY DEF RetouchQueue
  <1>9. /\ {r.order : r \in RetouchOrdersOf(u, role, AllEvents, "pending")} = orders
        /\ \A e \in mine \cap active \cap covered :
             /\ {r.order : r \in RetouchOrdersOf(u, role, e, "pending")} = RetouchQueue({e}, "pending")
             /\ {q.order : q \in EventRetouchQueue(u, role, e, "pending")} = RetouchQueue({e}, "pending")
    BY <1>1, OrdersOnPages
  <1>10. mine = IF role = "admin" THEN EventIds ELSE Assigned(u)
    BY DEF Reached
  <1>11. PendingRetouch(mine) \ Strayed
           = (UNION {RetouchOrderDetail(u, role, o, TRUE) : o \in orders}) \ Strayed
    <2> HIDE DEF mine, orders
    <2>1. \A p : p \in UNION {RetouchOrderDetail(u, role, o, TRUE) : o \in orders}
                 <=> \E o \in orders : p \in RetouchOrderDetail(u, role, o, TRUE)
      OBVIOUS
    <2>2. \A p : p \in PendingRetouch(mine) \ Strayed
                 <=> p \in (UNION {RetouchOrderDetail(u, role, o, TRUE) : o \in orders}) \ Strayed
      BY <1>5, <1>6, <2>1
    <2> QED BY <2>2
  <1> HIDE DEF mine, orders
  <1> QED BY <1>7, <1>8, <1>9, <1>10, <1>11

\* The counts of a listed order are those of its detail.
LEMMA CountsDo == PagesRead => CountsShown
  <1> SUFFICES ASSUME PagesRead, NEW scope \in {"pending", "completed"},
                      NEW r \in OrdersPage(EventIds, scope)
               PROVE  /\ r.pending = Cardinality(OrderDetail(r.order, TRUE))
                      /\ r.pending + r.retouched <= r.total
                      /\ [total |-> r.total, retouched |-> r.retouched] = RetouchProgress(r.order)
                      /\ scope = "completed" <=> r.pending = 0
    BY DEF CountsShown
  <1>0. PICK o \in RetouchQueue(EventIds, scope) :
           r = [order |-> o,
                total |-> Cardinality(ordered[o].photos),
                retouched |-> Cardinality({p \in ordered[o].photos : RetouchedPhoto(p)}),
                pending |-> Cardinality({p \in ordered[o].photos : PendingPhoto(p)})]
    BY DEF OrdersPage
  <1> DEFINE all == ordered[o].photos
             retouched == {p \in all : RetouchedPhoto(p)}
             pending == {p \in all : PendingPhoto(p)}
  <1>1. o \in DOMAIN ordered /\ all \in SUBSET DOMAIN photos
    BY DEF RetouchQueue, PagesRead, RetouchTypeOK
  <1>2. /\ retouched \in SUBSET all /\ pending \in SUBSET all
        /\ pending \cap retouched = {}
    BY DEF RetouchedPhoto, PendingPhoto
  <1>3. OrderDetail(o, TRUE) = pending /\ PendingItems(o) = pending
    BY DEF OrderDetail, PendingItems
  <1>4. [total |-> Cardinality(all), retouched |-> Cardinality(retouched)] = RetouchProgress(o)
    BY DEF RetouchProgress, RetouchedPhoto
  <1>5. scope = "completed" <=> pending = {}
    <2>1. (scope = "pending") <=> pending # {}
      BY <1>3 DEF RetouchQueue
    <2> QED BY <2>1
  <1>6. /\ IsFiniteSet(all) /\ IsFiniteSet(retouched) /\ IsFiniteSet(pending)
        /\ Cardinality(all) \in Nat /\ Cardinality(retouched) \in Nat /\ Cardinality(pending) \in Nat
    <2> HIDE DEF all, retouched, pending
    <2>1. retouched \in SUBSET DOMAIN photos /\ pending \in SUBSET DOMAIN photos
      BY <1>1, <1>2
    <2> QED BY <1>1, <2>1, PhotosCounted
  <1>7. Cardinality(pending) + Cardinality(retouched) <= Cardinality(all)
    <2> HIDE DEF all, retouched, pending
    <2>1. Cardinality(pending \cup retouched)
            = Cardinality(pending) + Cardinality(retouched) - Cardinality(pending \cap retouched)
      BY <1>6, FS_Union
    <2>2. Cardinality(pending \cap retouched) = 0
      BY <1>2, FS_EmptySet
    <2>3. Cardinality(pending \cup retouched) <= Cardinality(all)
      <3>1. pending \cup retouched \in SUBSET all
        BY <1>2
      <3> QED BY <1>6, <3>1, FS_Subset
    <2> QED BY <1>6, <2>1, <2>2, <2>3
  <1>8. pending = {} <=> Cardinality(pending) = 0
    <2> HIDE DEF pending
    <2> QED BY <1>6, FS_EmptySet
  <1>9. /\ r.order = o
        /\ r.total = Cardinality(all)
        /\ r.retouched = Cardinality(retouched)
        /\ r.pending = Cardinality(pending)
    BY <1>0
  <1> HIDE DEF all, retouched, pending
  <1> QED BY <1>3, <1>4, <1>5, <1>7, <1>8, <1>9

\* GetDashboardSummaryHandler, GetActiveEventsHandler, the review queue, the photos
\* list with its resume point, and the lists of orders to retouch are queries of
\* their own, and agree on every count and every member.
THEOREM PagesAgree == GallerySpec => []DashboardAgrees
  <1>1. ASSUME PipelineInductive, ProgrammeOK
        PROVE  DashboardAgrees
    <2>1. PagesRead
      BY <1>1, RowsInOrder DEF PagesRead, PipelineInductive, PipelineTypeOK, PhotosOK
    <2> QED BY <2>1, QueuesDo, SummaryDoes, RetouchDoes, CountsDo DEF DashboardAgrees
  <1>2. PipelineInductive /\ ProgrammeOK => DashboardAgrees
    BY <1>1
  <1>3. GallerySpec => []ProgrammeOK
    BY ProgrammeStart, ProgrammeKeeps, PTL DEF GallerySpec
  <1> QED BY <1>2, <1>3, GalleryImplementsStudio, StudioInvariantHolds, PTL

=============================================================================

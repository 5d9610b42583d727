------------------------------- MODULE Covers -------------------------------
(***************************************************************************)
(* The cover image of an event: its row in event_assets, the file in       *)
(* storage, and the slug under which the CDN worker finds the file in      *)
(* Workers KV.  The handlers write to the three one after another; a KV    *)
(* call that fails is logged and the handler goes on.                      *)
(***************************************************************************)
EXTENDS Events

CONSTANTS
    CoverFiles,    \* file names below events/<id>/assets/cover_image/
    AssetSlugs,    \* nanoid()
    NoCover        \* no row in event_assets

VARIABLES
    covers,        \* table event_assets, of type cover_image: file and slug
    assetFiles,    \* the files in storage: event and name
    kv,            \* Workers KV: slug to event and name
    unsettled      \* history: events whose last cover command has not finished, had
                   \* a KV call fail, or confirmed a file that was not in storage

coverVars == <<covers, assetFiles, kv, unsettled>>

CoverRow == [file : CoverFiles, slug : AssetSlugs]

\* there is history: the file was in storage when its confirmation came in.
CoverCall ==
    [step : {"drop_file", "drop_slug", "save_cover"}, event : EventIds,
     old : CoverRow \cup {NoCover}, file : CoverFiles, there : BOOLEAN]
    \cup [step : {"register_slug"}, event : EventIds, row : CoverRow, there : BOOLEAN]
    \cup [step : {"remove_file", "remove_row", "remove_slug"}, event : EventIds, old : CoverRow]

CoverTablesOK ==
    /\ DOMAIN covers \subseteq DOMAIN events
    /\ \A e \in DOMAIN covers : covers[e] \in CoverRow
    /\ assetFiles \subseteq EventIds \X CoverFiles
    /\ DOMAIN kv \subseteq AssetSlugs
    /\ \A s \in DOMAIN kv : kv[s] \in EventIds \X CoverFiles
    /\ unsettled \subseteq EventIds

CoverInit == covers = NoRows /\ assetFiles = {} /\ kv = NoRows /\ unsettled = {}

FindCover(e) == IF e \in DOMAIN covers THEN covers[e] ELSE NoCover

Without(f, x) == [y \in DOMAIN f \ {x} |-> f[y]]

-----------------------------------------------------------------------------
\* The browser puts the file where the presigned URL points.
UploadCover(e, f) ==
    /\ Live(e)
    /\ assetFiles' = assetFiles \cup {<<e, f>>}
    /\ UNCHANGED <<covers, kv, unsettled, call>>

\* Seeded bug: the file of the row is deleted even if it is the new one.
ReplacesAnyCover(old, f) == old # NoCover

\* There is a cover with another file.
ReplacesCover(old, f) == old # NoCover /\ old.file # f

\* ConfirmAssetUploadHandler: of any file below the event's prefix, uploaded, not
\* uploaded or deleted by now.
ConfirmCover(c, e, f) ==
    /\ Live(e)
    /\ Start(c, [step |-> IF ReplacesCover(FindCover(e), f) THEN "drop_file" ELSE "save_cover",
                 event |-> e, old |-> FindCover(e), file |-> f,
                 there |-> <<e, f>> \in assetFiles])
    /\ UNCHANGED coverVars

DropOldFile(c) ==
    /\ call[c].step = "drop_file"
    /\ assetFiles' = assetFiles \ {<<call[c].event, call[c].old.file>>}
    /\ unsettled' = unsettled \cup {call[c].event}
    /\ Goto(c, [call[c] EXCEPT !.step = "drop_slug"])
    /\ UNCHANGED <<covers, kv>>

\* A failure is logged.
DropOldSlug(c) ==
    /\ call[c].step = "drop_slug"
    /\ kv' = Without(kv, call[c].old.slug) \/ UNCHANGED kv
    /\ Goto(c, [call[c] EXCEPT !.step = "save_cover"])
    /\ UNCHANGED <<covers, assetFiles, unsettled>>

\* EventAsset.create makes a slug; the upsert stores it also for the same file.
SaveCover(c, s) ==
    /\ call[c].step = "save_cover"
    /\ s \notin DOMAIN kv /\ \A e \in DOMAIN covers : covers[e].slug # s
    /\ LET row == [file |-> call[c].file, slug |-> s] IN
       /\ covers' = Upsert(covers, call[c].event, row)
       /\ Goto(c, [step |-> "register_slug", event |-> call[c].event, row |-> row,
                   there |-> call[c].there])
    /\ unsettled' = unsettled \cup {call[c].event}
    /\ UNCHANGED <<assetFiles, kv>>

RegisterSlug(c) ==
    /\ call[c].step = "register_slug"
    /\ \/ /\ kv' = Upsert(kv, call[c].row.slug, <<call[c].event, call[c].row.file>>)
          /\ unsettled' = IF call[c].there THEN unsettled \ {call[c].event} ELSE unsettled
       \/ UNCHANGED <<kv, unsettled>>
    /\ Finish(c)
    /\ UNCHANGED <<covers, assetFiles>>

\* DeleteEventAssetHandler does not ask for the event.
DeleteCover(c, e) ==
    /\ e \in DOMAIN covers
    /\ Start(c, [step |-> "remove_file", event |-> e, old |-> covers[e]])
    /\ UNCHANGED coverVars

RemoveFile(c) ==
    /\ call[c].step = "remove_file"
    /\ assetFiles' = assetFiles \ {<<call[c].event, call[c].old.file>>}
    /\ unsettled' = unsettled \cup {call[c].event}
    /\ Goto(c, [call[c] EXCEPT !.step = "remove_row"])
    /\ UNCHANGED <<covers, kv>>

\* The row is deleted by its id, which the upsert keeps.
RemoveRow(c) ==
    /\ call[c].step = "remove_row"
    /\ call[c].event \in DOMAIN covers
    /\ covers' = Without(covers, call[c].event)
    /\ unsettled' = unsettled \ {call[c].event}
    /\ Goto(c, [call[c] EXCEPT !.step = "remove_slug"])
    /\ UNCHANGED <<assetFiles, kv>>

RemoveSlug(c) ==
    /\ call[c].step = "remove_slug"
    /\ kv' = Without(kv, call[c].old.slug) \/ UNCHANGED kv
    /\ Finish(c)
    /\ UNCHANGED <<covers, assetFiles, unsettled>>

\* EventAssetsController
CoverCommand(c) ==
    \E e \in EventIds : DeleteCover(c, e) \/ \E f \in CoverFiles : ConfirmCover(c, e, f)

CoverStep(c) ==
    \/ DropOldFile(c) \/ DropOldSlug(c) \/ RegisterSlug(c)
    \/ RemoveFile(c) \/ RemoveRow(c) \/ RemoveSlug(c)
    \/ \E s \in AssetSlugs : SaveCover(c, s)

-----------------------------------------------------------------------------
\* getPublicEventsList, getPublicEventDetail, existsActiveEvent
PublicEvents == {e \in DOMAIN covers : events[e].status = "active" /\ ~events[e].deleted}

\* getCoverImageSlug, what every projection of an event shows of its cover
CoverSlug(e) == IF e \in DOMAIN covers THEN covers[e].slug ELSE NoCover

\* toListProjection, toDetailProjection
EventCard(e) ==
    [slug |-> events[e].slug, status |-> events[e].status, cover |-> CoverSlug(e)]

\* toPublicListProjection, toPublicDetailProjection
PublicCard(e) == [slug |-> events[e].slug, cover |-> CoverSlug(e)]

\* The CDN worker answers /assets/<slug> from KV and storage.
Served(slug) == slug \in DOMAIN kv /\ kv[slug] \in assetFiles
=============================================================================

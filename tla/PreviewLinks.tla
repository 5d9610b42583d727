---------------------------- MODULE PreviewLinks ----------------------------
(***************************************************************************)
(* The preview_links table and the public preview page                     *)
(* (GetPreviewByTokenHandler).  Every write of a link is a save of the     *)
(* whole entity, as it was when the handler read it.                       *)
(***************************************************************************)
EXTENDS OrderEntity

CONSTANTS Watchers     \* concurrent requests to the preview page

VARIABLES
    previews,      \* table preview_links
    outdated,      \* preview links whose expires_at has passed
    watch          \* the page request each watcher has in flight

previewVars == <<previews, outdated, watch>>

PreviewRow == [status : {"active", "expired", "converted"}, viewed : BOOLEAN]

NoWatch == [step |-> "idle"]
Watch == {NoWatch} \cup [step : {"save"}, preview : PreviewIds, seen : PreviewRow]

PreviewTablesOK ==
    /\ DOMAIN previews \subseteq PreviewIds
    /\ \A p \in DOMAIN previews : previews[p] \in PreviewRow
    /\ outdated \subseteq PreviewIds
    /\ watch \in [Watchers -> Watch]

PreviewInit ==
    /\ previews = NoRows
    /\ outdated = {}
    /\ watch = [w \in Watchers |-> NoWatch]

-----------------------------------------------------------------------------
\* Seeded bug: a converted link expires like any other.
ConvertedExpires(p, row) == row.status = "expired" \/ p \in outdated

\* PreviewLink.checkExpiration: a converted link never expires.
PreviewExpired(p, row) ==
    \/ row.status = "expired"
    \/ row.status = "active" /\ p \in outdated

\* PreviewLinkWriteRepository.save
StorePreview(p, row) == previews' = Upsert(previews, p, row)

\* CreatePreviewLinkHandler.  Nobody has the token before the handler answers,
\* so its two writes are one step.
CreatePreviewLink(p) ==
    /\ p \notin DOMAIN previews
    /\ StorePreview(p, [status |-> "active", viewed |-> FALSE])
    /\ UNCHANGED <<outdated, watch>>

\* The clock passes expires_at.
PreviewElapses(p) ==
    /\ p \in DOMAIN previews \ outdated
    /\ outdated' = outdated \cup {p}
    /\ UNCHANGED <<previews, watch>>

\* The page goes on to save the entity it has changed in memory.
Hold(w, p, entity) ==
    watch' = [watch EXCEPT ![w] = [step |-> "save", preview |-> p, seen |-> entity]]

\* GetPreviewByTokenHandler up to its write, if it makes one: the expiry of the
\* link, or its first view.  A page that was viewed before writes nothing.
OpenPreviewPage(w, p) ==
    /\ watch[w] = NoWatch
    /\ p \in DOMAIN previews
    /\ IF PreviewExpired(p, previews[p])
       THEN Hold(w, p, [previews[p] EXCEPT !.status = "expired"])
       ELSE /\ ~previews[p].viewed
            /\ Hold(w, p, [previews[p] EXCEPT !.viewed = TRUE])
    /\ UNCHANGED <<previews, outdated>>

SavePreviewPage(w) ==
    /\ watch[w].step = "save"
    /\ StorePreview(watch[w].preview, watch[w].seen)
    /\ watch' = [watch EXCEPT ![w] = NoWatch]
    /\ UNCHANGED outdated

\* The request dies: a query fails, the process restarts.
WatchFails(w) ==
    /\ watch[w] # NoWatch
    /\ watch' = [watch EXCEPT ![w] = NoWatch]
    /\ UNCHANGED <<previews, outdated>>

WatchStep(w) == SavePreviewPage(w) \/ WatchFails(w)
=============================================================================

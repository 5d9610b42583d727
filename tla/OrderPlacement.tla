--------------------------- MODULE OrderPlacement ---------------------------
(***************************************************************************)
(* Customers place orders: CreateOrderFromGalleryHandler and               *)
(* CreateOrderFromPreviewHandler.  The second reads the preview link, asks *)
(* whether an order exists for it, writes the order, its items and at last *)
(* the converted link, each in a call of its own.                          *)
(***************************************************************************)
EXTENDS OrderEntity, PreviewLinks

CONSTANTS Customers    \* order submissions that may be in flight at once

VARIABLES
    submission     \* the handler each customer has in flight

NoSubmission == [step |-> "idle"]
Submission ==
    {NoSubmission}
    \cup [step : {"expire", "check", "create"}, preview : PreviewIds, seen : PreviewRow]
    \cup [step : {"items", "convert"}, order : OrderIds,
          preview : PreviewIds, seen : PreviewRow]
    \cup [step : {"gallery_items"}, order : OrderIds]

SubmissionsOK == submission \in [Customers -> Submission]

SubmissionInit == submission = [c \in Customers |-> NoSubmission]

Doing(c, step) == submission[c].step = step

Leave(c) == submission' = [submission EXCEPT ![c] = NoSubmission]

-----------------------------------------------------------------------------
\* CreateOrderFromGalleryHandler: the event, the photos and the customer's
\* profile pass their checks, and the order is saved with the snapshot.
PlaceFromGallery(c, o) ==
    /\ submission[c] = NoSubmission
    /\ o \notin DOMAIN orders
    /\ Store(o, NewOrder(NoPreview))
    /\ submission' = [submission EXCEPT ![c] = [step |-> "gallery_items", order |-> o]]
    /\ UNCHANGED <<items, previewVars>>

SaveGalleryItems(c) ==
    /\ Doing(c, "gallery_items")
    /\ SavePhotos(submission[c].order)
    /\ Leave(c)
    /\ UNCHANGED <<orders, previewVars>>

-----------------------------------------------------------------------------
\* The status of a preview link that may be ordered from.
Orderable(row) == row.status \in {"active", "converted"}

\* Seeded bug: the link is marked converted when the submission begins.
SubmitConverting(c, p) ==
    /\ submission[c] = NoSubmission
    /\ p \in DOMAIN previews
    /\ Orderable(previews[p])
    /\ submission' = [submission EXCEPT ![c] =
         IF PreviewExpired(p, previews[p])
         THEN [step |-> "expire", preview |-> p,
               seen |-> [previews[p] EXCEPT !.status = "expired"]]
         ELSE [step |-> "check", preview |-> p, seen |-> previews[p]]]
    /\ StorePreview(p, [previews[p] EXCEPT !.status = "converted"])
    /\ UNCHANGED <<orderVars, outdated, watch>>

\* CreateOrderFromPreviewHandler up to its first write or next query.
SubmitPreview(c, p) ==
    /\ submission[c] = NoSubmission
    /\ p \in DOMAIN previews
    /\ Orderable(previews[p])
    /\ submission' = [submission EXCEPT ![c] =
         IF PreviewExpired(p, previews[p])
         THEN [step |-> "expire", preview |-> p,
               seen |-> [previews[p] EXCEPT !.status = "expired"]]
         ELSE [step |-> "check", preview |-> p, seen |-> previews[p]]]
    /\ UNCHANGED <<orderVars, previewVars>>

\* The expiry is saved, the customer gets order.preview_expired.
SaveSubmissionExpiry(c) ==
    /\ Doing(c, "expire")
    /\ StorePreview(submission[c].preview, submission[c].seen)
    /\ Leave(c)
    /\ UNCHANGED <<orderVars, outdated, watch>>

\* Seeded bug: a cancelled order does not count.
SubmittedAndKept(p) ==
    \E o \in DOMAIN orders : orders[o].preview = p /\ orders[o].status # "cancelled"

\* existsByPreviewLinkId
Submitted(p) == \E o \in DOMAIN orders : orders[o].preview = p

\* The photos of a preview link never change: that check needs no step.
CheckNotSubmitted(c) ==
    /\ Doing(c, "check")
    /\ ~Submitted(submission[c].preview)
    /\ submission' = [submission EXCEPT ![c].step = "create"]
    /\ UNCHANGED <<orderVars, previewVars>>

\* order.already_submitted
RefuseSubmission(c) ==
    /\ Doing(c, "check")
    /\ Submitted(submission[c].preview)
    /\ Leave(c)
    /\ UNCHANGED <<orderVars, previewVars>>

CreateFromPreview(c, o) ==
    /\ Doing(c, "create")
    /\ o \notin DOMAIN orders
    /\ LET p == submission[c].preview IN
       /\ Store(o, NewOrder(p))
       /\ submission' = [submission EXCEPT ![c] =
            [step |-> "items", order |-> o, preview |-> p, seen |-> submission[c].seen]]
    /\ UNCHANGED <<items, previewVars>>

\* savePhotos; markConverted if the link was active when it was read.
SavePreviewItems(c) ==
    /\ Doing(c, "items")
    /\ SavePhotos(submission[c].order)
    /\ IF submission[c].seen.status = "active"
       THEN submission' = [submission EXCEPT ![c].step = "convert",
                                             ![c].seen.status = "converted"]
       ELSE Leave(c)
    /\ UNCHANGED <<orders, previewVars>>

SaveConverted(c) ==
    /\ Doing(c, "convert")
    /\ StorePreview(submission[c].preview, submission[c].seen)
    /\ Leave(c)
    /\ UNCHANGED <<orderVars, outdated, watch>>

-----------------------------------------------------------------------------
\* The request dies: a query fails, the process restarts.
SubmissionFails(c) ==
    /\ submission[c] # NoSubmission
    /\ Leave(c)
    /\ UNCHANGED <<orderVars, previewVars>>

SubmissionStart(c) ==
    \/ \E o \in OrderIds : PlaceFromGallery(c, o)
    \/ \E p \in PreviewIds : SubmitPreview(c, p)

SubmissionStep(c) ==
    \/ SaveGalleryItems(c)
    \/ SaveSubmissionExpiry(c)
    \/ CheckNotSubmitted(c)
    \/ RefuseSubmission(c)
    \/ \E o \in OrderIds : CreateFromPreview(c, o)
    \/ SavePreviewItems(c)
    \/ SaveConverted(c)
    \/ SubmissionFails(c)
=============================================================================

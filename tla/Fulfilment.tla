----------------------------- MODULE Fulfilment -----------------------------
(***************************************************************************)
(* The commercial flow as one system: admins' commands (Orders), customers *)
(* placing orders (OrderPlacement), the preview page (PreviewLinks) and    *)
(* the download page (DeliveryLinks), all handlers of one Node process     *)
(* that interleave at every await.                                         *)
(*                                                                         *)
(* With OneAtATime the next request begins when no other is in flight:     *)
(* that is how the handlers are tested and how they read, and it is not    *)
(* enforced by any code.                                                   *)
(***************************************************************************)
EXTENDS Orders, OrderPlacement

CONSTANTS OneAtATime    \* BOOLEAN: requests do not overlap

ASSUME OneAtATimeAssumption == OneAtATime \in BOOLEAN

vars == <<orderVars, linkVars, requestVars, previewVars, submission>>

Quiet ==
    /\ \A r \in Requests : request[r] = NoRequest
    /\ \A v \in Visitors : visit[v] = NoVisit
    /\ \A w \in Watchers : watch[w] = NoWatch
    /\ \A c \in Customers : submission[c] = NoSubmission

Admitted == OneAtATime => Quiet

Init == OrderInit /\ LinkInit /\ RequestInit /\ PreviewInit /\ SubmissionInit

AdminCommand ==
    /\ \/ \E r \in Requests, o \in OrderIds : Admitted /\ RequestStart(r, o)
       \/ \E r \in Requests : RequestStep(r)
    /\ UNCHANGED <<previewVars, submission>>

DownloadPage ==
    /\ \/ \E v \in Visitors, l \in LinkIds : Admitted /\ OpenDeliveryPage(v, l)
       \/ \E v \in Visitors : VisitStep(v)
       \/ \E l \in LinkIds : LinkElapses(l)
    /\ UNCHANGED <<orderVars, requestVars, previewVars, submission>>

PreviewPage ==
    /\ \/ \E p \in PreviewIds : CreatePreviewLink(p) \/ PreviewElapses(p)
       \/ \E w \in Watchers, p \in PreviewIds : Admitted /\ OpenPreviewPage(w, p)
       \/ \E w \in Watchers : WatchStep(w)
    /\ UNCHANGED <<orderVars, linkVars, requestVars, submission>>

Placement ==
    /\ \/ \E c \in Customers : Admitted /\ SubmissionStart(c)
       \/ \E c \in Customers : SubmissionStep(c)
    /\ UNCHANGED <<linkVars, requestVars>>

Next == AdminCommand \/ DownloadPage \/ PreviewPage \/ Placement

Spec == Init /\ [][Next]_vars

-----------------------------------------------------------------------------
(* Properties that hold however the requests interleave.                   *)

TypeOK ==
    /\ OrderTablesOK
    /\ LinkTablesOK
    /\ RequestsOK
    /\ PreviewTablesOK
    /\ SubmissionsOK

\* The rows that some sequence of commands, one after another, can leave.
CoherentRows == {row \in OrderRow :
    /\ row.status = "pending" =>
         ~row.notifiedAt /\ ~row.paidAt /\ ~row.deliveredAt
    /\ row.status = "payment_info_sent" =>
         row.notifiedAt /\ ~row.paidAt /\ ~row.deliveredAt
    /\ row.status = "paid" => row.paidAt /\ ~row.deliveredAt
    /\ row.status = "delivered" => row.paidAt /\ row.deliveredAt
    /\ row.status = "gifted" => ~row.paidAt
    /\ row.cancelledAt <=> row.status = "cancelled"
    /\ row.deliveredAt /\ row.paidAt => row.status = "delivered"}

\* Commands that overwrite each other lose updates, but they never mix two
\* histories in one row: the status and the timestamps of every stored order
\* are those some sequential history leaves.  Revenue (the sum over paid and
\* delivered orders) so counts only orders whose payment was recorded, and
\* never a gift.
RowsCoherent == \A o \in DOMAIN orders : orders[o] \in CoherentRows

\* The customer of a delivered order has something to download: the link is
\* written before the order says so, and a save that brings an older row back
\* cannot bring back a delivery whose link is missing.
DeliveredHasLink ==
    \A o \in DOMAIN orders : orders[o].deliveredAt => OrderIdTaken(o)

\* No photos leave the shop unsettled: a link exists only for an order that a
\* committed save has left paid or gifted, though a later save may have
\* overwritten that status.
LinkOnlyAfterSettlement ==
    \A l \in DOMAIN links : links[l].order \in settled

\* Two admins who send the same order at once tell its customer once: one of
\* the two inserts of a link loses on the unique index, before the order is
\* saved and the event emitted.
DeliveredAnnouncedOnce == \A o \in OrderIds : announced[o] <= 1

\* A link gives out at most MAX_DELIVERY_ACCESSES accesses, though the lazy
\* expiry writes an older counter back.
AccessesWithinCap == \A l \in LinkIds : granted[l] <= MaxAccesses

\* A link that has expired, by its date or by an invalidation, stays expired:
\* no page request that read it earlier brings it back.
ExpiredStaysExpired ==
    [][\A l \in DOMAIN links :
         links[l].status = "expired" => links'[l].status = "expired"]_links

\* A preview link says it was converted only if its order exists.
ConvertedHasOrder ==
    \A p \in DOMAIN previews : previews[p].status = "converted" => Submitted(p)

-----------------------------------------------------------------------------
(* Properties that hold when requests do not overlap, crashes included.    *)

\* A preview link is submitted once, though the order and the converted link
\* are written apart and the process may die in between.
OneOrderPerPreview ==
    \A o1, o2 \in DOMAIN orders :
        orders[o1].preview = orders[o2].preview /\ orders[o1].preview # NoPreview
            => o1 = o2

\* A converted preview link stays converted, viewed or elapsed as it may be.
ConvertedIsFinal ==
    [][\A p \in DOMAIN previews :
         previews[p].status = "converted" => previews'[p].status = "converted"]_previews

\* Every item of an order that was delivered says in which version.
DeliveredItemsStamped ==
    \A o \in DOMAIN orders : orders[o].deliveredAt => items[o] # "saved"

\* The flow keeps the promises of OrderLifecycle.
StageOf(o) ==
    IF o \notin DOMAIN orders THEN "absent"
    ELSE CASE Open(orders[o]) -> "open"
           [] orders[o].status = "gifted" /\ orders[o].deliveredAt -> "gift_delivered"
           [] OTHER -> orders[o].status

Lifecycle == INSTANCE OrderLifecycle WITH
    stage <- [o \in OrderIds |-> StageOf(o)],
    linked <- {o \in OrderIds : OrderIdTaken(o)}

KeepsLifecycle == Lifecycle!LifecycleSpec

-----------------------------------------------------------------------------
(* What the code says of itself and does not keep.                         *)

\* "Regenerate expired delivery link": the command never ends in the error of
\* the unique index.
RegenerationSucceeds ==
    \A r \in Requests :
        request[r] # NoRequest /\ request[r].command = "regenerate"
            => request[r].step # "conflict"

\* The transitions the entity documents, command by command.
DocumentedTransitions == {
    <<"pending", "payment_info_sent">>,
    <<"pending", "paid">>, <<"payment_info_sent", "paid">>,
    <<"paid", "delivered">>,
    <<"pending", "gifted">>, <<"payment_info_sent", "gifted">>,
    <<"pending", "cancelled">>, <<"payment_info_sent", "cancelled">>,
    <<"paid", "cancelled">>, <<"gifted", "cancelled">>}

\* A command takes an order along one of these transitions or leaves its status.
StatusFollowsDocs ==
    [][\A o \in DOMAIN orders :
         orders'[o].status # orders[o].status =>
             <<orders[o].status, orders'[o].status>> \in DocumentedTransitions]_orders
=============================================================================

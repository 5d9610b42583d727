-------------------------- MODULE FulfilmentProofs --------------------------
(***************************************************************************)
(* The theorems of Fulfilment, for any number of orders, links, admins,    *)
(* customers and page requests, and any cap on accesses.  Order of the     *)
(* argument: types; entities in flight; access counters; the sole sender   *)
(* of an order; deliveries and settlements; conversions.  One lemma shows  *)
(* each part of Inductive kept by every step, and the theorems after them  *)
(* read the properties off it.                                             *)
(*                                                                         *)
(* The second half is about requests that do not overlap: one handler in   *)
(* flight; what it has read stays current until it is written; so each     *)
(* handler is as good as one step of OrderLifecycle.                       *)
(***************************************************************************)
EXTENDS OrderViews, TLAPS

-----------------------------------------------------------------------------
(* The inductive invariant, in named parts.  The safety properties speak   *)
(* of tables; what keeps them true under interleaving is what each handler *)
(* in flight knows about the row it read a while ago.                      *)

Active(r) == request[r] # NoRequest

\* What request r has in memory.  Its order exists (nothing deletes orders),
\* its entity is the outcome of a guarded transition on a coherent row, and
\* the preview link of an order never changes.
EntityOK(r) ==
    LET q == request[r] IN
    /\ q.order \in DOMAIN orders
    /\ q.entity \in CoherentRows
    /\ q.entity.preview = orders[q.order].preview
    /\ q.command = "update" => q.step = "save" /\ q.entity.status # "delivered"
    /\ q.command = "regenerate" => q.step \in {"expire", "invalidate", "insert", "conflict"}
    /\ q.command = "send" => q.step # "expire"
    /\ q.command = "send" /\ q.step \in {"invalidate", "insert", "conflict", "stamp"}
         => CanSend(q.entity)

\* An entity in flight never knows more than the tables do: if it says the
\* order was delivered then the link is there, and a command on links was
\* admitted for an order settled by then.
EntityBacked(r) ==
    LET q == request[r] IN
    /\ q.entity.deliveredAt => OrderIdTaken(q.order)
    /\ q.command \in {"send", "regenerate"} => q.order \in settled

EntitiesOK == \A r \in Requests : Active(r) => EntityOK(r)

DeliveryBacked ==
    /\ DeliveredHasLink
    /\ LinkOnlyAfterSettlement
    /\ \A o \in DOMAIN orders :
         orders[o].status \in {"paid", "gifted", "delivered"} => o \in settled
    /\ \A r \in Requests : Active(r) => EntityBacked(r)

\* Request r has made the link of order o and has not announced it yet.
Sending(r, o) ==
    /\ Active(r)
    /\ request[r].command = "send"
    /\ request[r].order = o
    /\ request[r].step \in {"stamp", "save", "announce"}

\* The unique index is a lock nobody releases: at most one handler ever gets
\* past the insert for an order, and nobody does once the order is announced.
SoleSender ==
    /\ \A o \in OrderIds, r \in Requests :
         Sending(r, o) => /\ OrderIdTaken(o)
                          /\ announced[o] = 0
                          /\ \A s \in Requests : Sending(s, o) => s = r
    /\ \A o \in OrderIds : announced[o] > 0 => announced[o] = 1 /\ OrderIdTaken(o)

\* The counter of a link that still answers is the number of accesses it gave;
\* an older counter comes back only with the status expired.
AccessesCounted ==
    /\ AccessesWithinCap
    /\ \A l \in LinkIds : l \notin DOMAIN links => granted[l] = 0
    /\ \A l \in DOMAIN links :
         links[l].status # "expired" => links[l].downloadCount = granted[l]
    /\ \A v \in Visitors : visit[v] # NoVisit =>
         /\ visit[v].link \in DOMAIN links
         /\ visit[v].step = "expire" =>
              /\ visit[v].seen.status = "expired"
              /\ visit[v].seen.order = links[visit[v].link].order

\* Every copy of a preview link that says converted, in the table or in the
\* memory of a handler, was made after the order was stored.
ConversionBacked ==
    /\ ConvertedHasOrder
    /\ \A w \in Watchers : watch[w] # NoWatch =>
         (watch[w].seen.status = "converted" => Submitted(watch[w].preview))
    /\ \A c \in Customers :
         /\ submission[c].step \in {"expire", "check", "create", "items", "convert"} =>
              (submission[c].seen.status = "converted" => Submitted(submission[c].preview))
         /\ submission[c].step \in {"items", "convert"} =>
              /\ submission[c].order \in DOMAIN orders
              /\ orders[submission[c].order].preview = submission[c].preview

Inductive ==
    /\ TypeOK
    /\ RowsCoherent
    /\ EntitiesOK
    /\ DeliveryBacked
    /\ SoleSender
    /\ AccessesCounted
    /\ ConversionBacked

-----------------------------------------------------------------------------
(* Types.                                                                  *)

\* The transitions of the Order entity return rows of the orders table.
LEMMA EntityType ==
    ASSUME NEW row \in OrderRow
    PROVE  /\ NotifyPaymentInfo(row) \in OrderRow
           /\ ConfirmPayment(row) \in OrderRow
           /\ MarkAsGift(row) \in OrderRow
           /\ Cancel(row) \in OrderRow
           /\ MarkSent(row) \in OrderRow
  BY DEF OrderRow, OrderStatus, NotifyPaymentInfo, ConfirmPayment, MarkAsGift, Cancel, MarkSent, IsSale

\* A handler that begins holds a well-typed request.
LEMMA BeginType ==
    ASSUME NEW r \in Requests, NEW o \in OrderIds, NEW command \in Command,
           NEW step \in Step, NEW entity \in OrderRow,
           request \in [Requests -> Request], Begin(r, o, command, step, entity)
    PROVE  request' \in [Requests -> Request]
  BY DEF Begin, Request

\* A request at a step has that step, a command, an order and an entity.
LEMMA ActiveType ==
    ASSUME NEW r \in Requests, request \in [Requests -> Request], NEW s \in Step, At(r, s)
    PROVE  request[r] \in [step : Step, command : Command, order : OrderIds, entity : OrderRow]
  BY DEF At, Request, Step, NoRequest

\* Going to the next step, or ending, keeps the requests well typed.
LEMMA MoveType ==
    ASSUME NEW r \in Requests, request \in [Requests -> Request], NEW s \in Step, At(r, s)
    PROVE  /\ \A t \in Step : Goto(r, t) => request' \in [Requests -> Request]
           /\ Finish(r) => request' \in [Requests -> Request]
  BY ActiveType DEF Goto, Finish, Request

\* The empty tables are well typed.
LEMMA TypeInit == Init => TypeOK
  BY DEF Init, OrderInit, LinkInit, RequestInit, PreviewInit, SubmissionInit, NoRows,
         TypeOK, OrderTablesOK, LinkTablesOK, RequestsOK, PreviewTablesOK, SubmissionsOK,
         ItemsState, Visit, NoVisit, Request, Watch, Submission

\* A command that begins writes no table and keeps the types.
LEMMA TypeStart ==
    ASSUME TypeOK, NEW r \in Requests, NEW o \in OrderIds, RequestStart(r, o)
    PROVE  OrderTablesOK' /\ LinkTablesOK' /\ RequestsOK'
  <1> USE DEF TypeOK, orderVars, linkVars
  <1> o \in DOMAIN orders /\ orders[o] \in OrderRow /\ request \in [Requests -> Request]
     BY DEF RequestStart, Notify, Confirm, Gift, CancelOrder, Send, Regenerate, OrderTablesOK, RequestsOK
  <1>1. request' \in [Requests -> Request]
     BY EntityType, BeginType DEF RequestStart, Notify, Confirm, Gift, CancelOrder, Send, Regenerate, Command, Step
  <1>2. UNCHANGED <<orderVars, linkVars, settled, announced>>
     BY DEF RequestStart, Notify, Confirm, Gift, CancelOrder, Send, Regenerate
  <1> QED BY <1>1, <1>2 DEF OrderTablesOK, LinkTablesOK, RequestsOK

\* invalidateByOrderId changes statuses only, and only to expired.
LEMMA InvalidateType ==
    ASSUME LinkTablesOK, NEW o, InvalidateByOrderId(o)
    PROVE  /\ DOMAIN links' = DOMAIN links
           /\ \A l \in DOMAIN links :
                /\ links'[l].order = links[l].order
                /\ links'[l] = links[l] \/ links'[l].status = "expired"
                /\ links'[l] \in LinkRow
  BY DEF LinkTablesOK, InvalidateByOrderId, LinkRow

\* Every write of a command in flight keeps the types.
LEMMA TypeRequestStep ==
    ASSUME TypeOK, NEW r \in Requests, RequestStep(r)
    PROVE  OrderTablesOK' /\ LinkTablesOK' /\ RequestsOK'
  <1> USE DEF TypeOK, orderVars, linkVars
  <1> request \in [Requests -> Request]
    BY DEF RequestsOK
  <1>1. CASE SaveOrder(r)
    <2>1. request[r].order \in OrderIds /\ request[r].entity \in OrderRow
      BY <1>1, ActiveType DEF SaveOrder, Step
    <2>2. OrderTablesOK'
      BY <2>1, <1>1 DEF SaveOrder, SaveEntity, Store, Upsert, OrderTablesOK
    <2>3. RequestsOK'
      BY <2>1, <1>1, MoveType DEF SaveOrder, SaveEntity, RequestsOK, Step
    <2> QED BY <2>2, <2>3, <1>1 DEF SaveOrder, LinkTablesOK
  <1>2. CASE ExpireLink(r)
    <2> QED BY <1>2, MoveType, InvalidateType DEF ExpireLink, Step, LinkTablesOK, OrderTablesOK, RequestsOK
  <1>3. CASE InvalidateLink(r)
    <2> QED BY <1>3, MoveType, InvalidateType DEF InvalidateLink, Step, LinkTablesOK, OrderTablesOK, RequestsOK
  <1>4. ASSUME NEW l \in LinkIds, SaveLink(r, l) PROVE OrderTablesOK' /\ LinkTablesOK' /\ RequestsOK'
    <2>1. request[r].order \in OrderIds
      BY <1>4, ActiveType DEF SaveLink, Step
    <2>2. NewLink(request[r].order) \in LinkRow
      BY <2>1 DEF NewLink, LinkRow
    <2>3. LinkTablesOK'
      BY <2>1, <2>2, <1>4 DEF SaveLink, InsertLink, Upsert, LinkTablesOK
    <2>4. RequestsOK'
      BY <1>4, MoveType DEF SaveLink, RequestsOK, Step
    <2> QED BY <2>3, <2>4, <1>4 DEF SaveLink, OrderTablesOK
  <1>5. CASE LinkConflict(r)
    BY <1>5, MoveType DEF LinkConflict, Step, LinkTablesOK, OrderTablesOK, RequestsOK
  <1>6. CASE StampItems(r)
    <2>1. request[r] \in [step : Step, command : Command, order : OrderIds, entity : OrderRow]
      BY <1>6, ActiveType DEF StampItems, Step
    <2>2. request'[r] \in Request
      BY <2>1, <1>6, EntityType DEF StampItems, Step, Request
    <2>3. RequestsOK'
      BY <2>2, <1>6 DEF StampItems, RequestsOK
    <2>4. OrderTablesOK'
      BY <1>6, <2>1 DEF StampItems, UpdateItemsDeliveredAs, OrderTablesOK, ItemsState
    <2> QED BY <2>3, <2>4, <1>6 DEF StampItems, LinkTablesOK
  <1>7. CASE Announce(r)
    <2>1. request[r].order \in OrderIds
      BY <1>7, ActiveType DEF Announce, Step
    <2> QED BY <2>1, <1>7, MoveType DEF Announce, Step, LinkTablesOK, OrderTablesOK, RequestsOK
  <1>8. CASE RequestFails(r)
    BY <1>8 DEF RequestFails, Finish, Request, LinkTablesOK, OrderTablesOK, RequestsOK
  <1> QED BY <1>1, <1>2, <1>3, <1>4, <1>5, <1>6, <1>7, <1>8 DEF RequestStep

\* Every write of the download page keeps the types.
LEMMA TypeDownloadPage ==
    ASSUME TypeOK, DownloadPage
    PROVE  LinkTablesOK'
  <1> USE DEF TypeOK, LinkTablesOK
  <1>1. ASSUME NEW v \in Visitors, NEW l \in LinkIds, OpenDeliveryPage(v, l)
        PROVE  LinkTablesOK'
    <2>1. [links[l] EXCEPT !.status = "expired"] \in LinkRow
      BY <1>1 DEF OpenDeliveryPage, LinkRow
    <2>2. visit'[v] \in Visit
      BY <2>1, <1>1 DEF OpenDeliveryPage, Visit
    <2> QED BY <2>2, <1>1 DEF OpenDeliveryPage
  <1>2. ASSUME NEW v \in Visitors, SaveLazyExpiry(v)
        PROVE  LinkTablesOK'
    <2>1. visit[v].link \in LinkIds /\ visit[v].seen \in LinkRow
      BY <1>2 DEF SaveLazyExpiry, Visit, NoVisit
    <2> QED BY <2>1, <1>2 DEF SaveLazyExpiry, Upsert, Visit
  <1>3. ASSUME NEW v \in Visitors, RecordAccess(v)
        PROVE  LinkTablesOK'
    <2>1. visit[v] \in [step : {"record", "first"}, link : LinkIds]
      BY <1>3 DEF RecordAccess, Visit, NoVisit
    <2>2. visit'[v] \in Visit
      BY <2>1, <1>3 DEF RecordAccess, Visit
    <2> QED BY <2>1, <2>2, <1>3 DEF RecordAccess, LinkRow
  <1>4. ASSUME NEW v \in Visitors, SetFirstDownload(v)
        PROVE  LinkTablesOK'
    BY <1>4 DEF SetFirstDownload, Visit, LinkRow
  <1>5. ASSUME NEW v \in Visitors, RefuseAccess(v) \/ VisitFails(v)
        PROVE  LinkTablesOK'
    BY <1>5 DEF RefuseAccess, VisitFails, Visit
  <1>6. ASSUME NEW l \in LinkIds, LinkElapses(l)
        PROVE  LinkTablesOK'
    BY <1>6 DEF LinkElapses
  <1> QED BY <1>1, <1>2, <1>3, <1>4, <1>5, <1>6 DEF DownloadPage, VisitStep

\* Every write of the preview page keeps the types.
LEMMA TypePreviewPage ==
    ASSUME TypeOK, PreviewPage
    PROVE  PreviewTablesOK'
  <1> USE DEF TypeOK, PreviewTablesOK
  <1>1. ASSUME NEW p \in PreviewIds, CreatePreviewLink(p) \/ PreviewElapses(p)
        PROVE  PreviewTablesOK'
    <2>1. CASE CreatePreviewLink(p)
      <3>1. [status |-> "active", viewed |-> FALSE] \in PreviewRow
        BY DEF PreviewRow
      <3> QED BY <3>1, <2>1 DEF CreatePreviewLink, StorePreview, Upsert
    <2>2. CASE PreviewElapses(p)
      BY <2>2 DEF PreviewElapses
    <2> QED BY <1>1, <2>1, <2>2
  <1>2. ASSUME NEW w \in Watchers, NEW p \in PreviewIds, OpenPreviewPage(w, p)
        PROVE  PreviewTablesOK'
    <2>1. /\ [previews[p] EXCEPT !.status = "expired"] \in PreviewRow
          /\ [previews[p] EXCEPT !.viewed = TRUE] \in PreviewRow
      BY <1>2 DEF OpenPreviewPage, PreviewRow
    <2>2. ASSUME NEW e \in PreviewRow, Hold(w, p, e)
          PROVE  watch' \in [Watchers -> Watch]
      BY <2>2 DEF Hold, Watch
    <2> QED BY <2>1, <2>2, <1>2 DEF OpenPreviewPage
  <1>3. ASSUME NEW w \in Watchers, SavePreviewPage(w)
        PROVE  PreviewTablesOK'
    <2>1. watch[w].preview \in PreviewIds /\ watch[w].seen \in PreviewRow
      BY <1>3 DEF SavePreviewPage, Watch, NoWatch
    <2> QED BY <2>1, <1>3 DEF SavePreviewPage, StorePreview, Upsert, Watch
  <1>4. ASSUME NEW w \in Watchers, WatchFails(w)
        PROVE  PreviewTablesOK'
    BY <1>4 DEF WatchFails, Watch
  <1> QED BY <1>1, <1>2, <1>3, <1>4 DEF PreviewPage, WatchStep

\* Every write of an order submission keeps the types.
LEMMA TypePlacement ==
    ASSUME TypeOK, Placement
    PROVE  OrderTablesOK' /\ PreviewTablesOK' /\ SubmissionsOK'
  <1> USE DEF TypeOK, orderVars, previewVars
  <1> DEFINE Goal == OrderTablesOK' /\ PreviewTablesOK' /\ SubmissionsOK'
  <1>1. ASSUME NEW c \in Customers, NEW o \in OrderIds, PlaceFromGallery(c, o)
        PROVE  Goal
    <2>1. NewOrder(NoPreview) \in OrderRow
      BY DEF NewOrder, OrderRow, OrderStatus
    <2>2. OrderTablesOK'
      BY <2>1, <1>1 DEF PlaceFromGallery, Store, Upsert, OrderTablesOK
    <2>3. SubmissionsOK'
      BY <1>1 DEF PlaceFromGallery, SubmissionsOK, Submission
    <2> QED BY <2>2, <2>3, <1>1 DEF PlaceFromGallery, PreviewTablesOK
  <1>2. ASSUME NEW c \in Customers, NEW p \in PreviewIds, SubmitPreview(c, p)
        PROVE  Goal
    <2>1. previews[p] \in PreviewRow /\ [previews[p] EXCEPT !.status = "expired"] \in PreviewRow
      BY <1>2 DEF SubmitPreview, PreviewTablesOK, PreviewRow
    <2>2. SubmissionsOK'
      BY <2>1, <1>2 DEF SubmitPreview, SubmissionsOK, Submission
    <2> QED BY <2>2, <1>2 DEF SubmitPreview, OrderTablesOK, PreviewTablesOK
  <1>3. ASSUME NEW c \in Customers, SaveGalleryItems(c)
        PROVE  Goal
    <2>1. OrderTablesOK'
      BY <1>3 DEF SaveGalleryItems, SavePhotos, OrderTablesOK, ItemsState
    <2> QED BY <2>1, <1>3 DEF SaveGalleryItems, Leave, SubmissionsOK, Submission, PreviewTablesOK
  <1>4. ASSUME NEW c \in Customers, SaveSubmissionExpiry(c) \/ SaveConverted(c)
        PROVE  Goal
    <2>1. submission[c].preview \in PreviewIds /\ submission[c].seen \in PreviewRow
      BY <1>4 DEF SaveSubmissionExpiry, SaveConverted, Doing, SubmissionsOK, Submission, NoSubmission
    <2>2. PreviewTablesOK'
      BY <2>1, <1>4 DEF SaveSubmissionExpiry, SaveConverted, StorePreview, Upsert, PreviewTablesOK
    <2> QED BY <2>2, <1>4 DEF SaveSubmissionExpiry, SaveConverted, Leave, SubmissionsOK, Submission,
                             OrderTablesOK
  <1>5. ASSUME NEW c \in Customers, CheckNotSubmitted(c)
        PROVE  Goal
    <2>1. submission[c] \in [step : {"expire", "check", "create"}, preview : PreviewIds, seen : PreviewRow]
      BY <1>5 DEF CheckNotSubmitted, Doing, SubmissionsOK, Submission, NoSubmission
    <2>2. SubmissionsOK'
      BY <2>1, <1>5 DEF CheckNotSubmitted, SubmissionsOK, Submission
    <2> QED BY <2>2, <1>5 DEF CheckNotSubmitted, OrderTablesOK, PreviewTablesOK
  <1>6. ASSUME NEW c \in Customers, RefuseSubmission(c) \/ SubmissionFails(c)
        PROVE  Goal
    BY <1>6 DEF RefuseSubmission, SubmissionFails, Leave, SubmissionsOK, Submission,
                OrderTablesOK, PreviewTablesOK
  <1>7. ASSUME NEW c \in Customers, NEW o \in OrderIds, CreateFromPreview(c, o)
        PROVE  Goal
    <2>1. submission[c].preview \in PreviewIds /\ submission[c].seen \in PreviewRow
      BY <1>7 DEF CreateFromPreview, Doing, SubmissionsOK, Submission, NoSubmission
    <2>2. NewOrder(submission[c].preview) \in OrderRow
      BY <2>1 DEF NewOrder, OrderRow, OrderStatus
    <2>3. OrderTablesOK'
      BY <2>2, <1>7 DEF CreateFromPreview, Store, Upsert, OrderTablesOK
    <2>4. SubmissionsOK'
      BY <2>1, <1>7 DEF CreateFromPreview, SubmissionsOK, Submission
    <2> QED BY <2>3, <2>4, <1>7 DEF CreateFromPreview, PreviewTablesOK
  <1>8. ASSUME NEW c \in Customers, SavePreviewItems(c)
        PROVE  Goal
    <2>1. submission[c] \in [step : {"items", "convert"}, order : OrderIds,
                             preview : PreviewIds, seen : PreviewRow]
      BY <1>8 DEF SavePreviewItems, Doing, SubmissionsOK, Submission, NoSubmission
    <2>2. submission'[c] \in Submission
      BY <2>1, <1>8 DEF SavePreviewItems, Leave, SubmissionsOK, Submission, PreviewRow
    <2>3. SubmissionsOK'
      BY <2>2, <1>8 DEF SavePreviewItems, Leave, SubmissionsOK
    <2>4. OrderTablesOK'
      BY <1>8 DEF SavePreviewItems, SavePhotos, OrderTablesOK, ItemsState
    <2> QED BY <2>3, <2>4, <1>8 DEF SavePreviewItems, PreviewTablesOK
  <1> QED BY <1>1, <1>2, <1>3, <1>4, <1>5, <1>6, <1>7, <1>8
          DEF Placement, SubmissionStart, SubmissionStep

\* Every step keeps the types.
LEMMA TypeNext == TypeOK /\ [Next]_vars => TypeOK'
  <1> SUFFICES ASSUME TypeOK, [Next]_vars PROVE TypeOK'
    OBVIOUS
  <1> USE DEF TypeOK, orderVars, linkVars, requestVars, previewVars
  <1>1. CASE AdminCommand
    BY <1>1, TypeStart, TypeRequestStep DEF AdminCommand, PreviewTablesOK, SubmissionsOK
  <1>2. CASE DownloadPage
    BY <1>2, TypeDownloadPage DEF DownloadPage, OrderTablesOK, RequestsOK, PreviewTablesOK, SubmissionsOK
  <1>3. CASE PreviewPage
    BY <1>3, TypePreviewPage DEF PreviewPage, OrderTablesOK, LinkTablesOK, RequestsOK, SubmissionsOK
  <1>4. CASE Placement
    BY <1>4, TypePlacement DEF Placement, LinkTablesOK, RequestsOK
  <1>5. CASE UNCHANGED vars
    BY <1>5 DEF vars, OrderTablesOK, LinkTablesOK, RequestsOK, PreviewTablesOK, SubmissionsOK
  <1> QED BY <1>1, <1>2, <1>3, <1>4, <1>5 DEF Next

\* Every table keeps the columns and values its mapper writes, and every handler
\* in flight holds what its step needs, whatever runs beside it.
THEOREM TypeCorrect == Spec => []TypeOK
  BY TypeInit, TypeNext, PTL DEF Spec

-----------------------------------------------------------------------------
(* Entities in flight.                                                     *)

\* A guarded transition takes a coherent row to a coherent row.
LEMMA EntityCoherent ==
    ASSUME NEW row \in CoherentRows
    PROVE  /\ CanNotify(row) => NotifyPaymentInfo(row) \in CoherentRows
           /\ CanConfirm(row) => ConfirmPayment(row) \in CoherentRows
           /\ CanGift(row) => MarkAsGift(row) \in CoherentRows
           /\ CanCancel(row) => Cancel(row) \in CoherentRows
           /\ CanSend(row) => MarkSent(row) \in CoherentRows
  <1> row \in OrderRow
    BY DEF CoherentRows
  <1>1. CanNotify(row) => NotifyPaymentInfo(row) \in CoherentRows
    BY EntityType DEF CoherentRows, CanNotify, Open, NotifyPaymentInfo, OrderRow
  <1>2. CanConfirm(row) => ConfirmPayment(row) \in CoherentRows
    BY EntityType DEF CoherentRows, CanConfirm, Open, ConfirmPayment, OrderRow
  <1>3. CanGift(row) => MarkAsGift(row) \in CoherentRows
    BY EntityType DEF CoherentRows, CanGift, Open, MarkAsGift, OrderRow
  <1>4. CanCancel(row) => Cancel(row) \in CoherentRows
    BY EntityType DEF CoherentRows, CanCancel, Open, Cancel, OrderRow
  <1>5. CanSend(row) => MarkSent(row) \in CoherentRows
    BY EntityType DEF CoherentRows, CanSend, IsSale, MarkSent, OrderRow
  <1> QED BY <1>1, <1>2, <1>3, <1>4, <1>5

\* What the transitions leave alone, and the status they lead to.
LEMMA EntityKeeps ==
    ASSUME NEW row \in OrderRow
    PROVE  /\ \A new \in {NotifyPaymentInfo(row), ConfirmPayment(row), MarkAsGift(row), Cancel(row)} :
                /\ new.preview = row.preview
                /\ new.deliveredAt = row.deliveredAt
           /\ MarkSent(row).preview = row.preview
           /\ NotifyPaymentInfo(row).status = "payment_info_sent"
           /\ ConfirmPayment(row).status = "paid"
           /\ MarkAsGift(row).status = "gifted"
           /\ Cancel(row).status = "cancelled"
  BY DEF OrderRow, NotifyPaymentInfo, ConfirmPayment, MarkAsGift, Cancel, MarkSent

\* A customer only adds an order, under an identifier no order has.
LEMMA PlacementStores ==
    ASSUME TypeOK, Placement
    PROVE  \/ UNCHANGED orders
           \/ \E o \in OrderIds \ DOMAIN orders, p \in PreviewIds \cup {NoPreview} :
                Store(o, NewOrder(p))
  <1>1. ASSUME NEW c \in Customers, NEW o \in OrderIds, CreateFromPreview(c, o)
        PROVE  submission[c].preview \in PreviewIds
    BY <1>1 DEF CreateFromPreview, Doing, TypeOK, SubmissionsOK, Submission, NoSubmission
  <1> QED BY <1>1 DEF Placement, SubmissionStart, SubmissionStep, PlaceFromGallery, SubmitPreview,
              SaveGalleryItems, SaveSubmissionExpiry, CheckNotSubmitted, RefuseSubmission,
              CreateFromPreview, SavePreviewItems, SaveConverted, SubmissionFails, orderVars, previewVars

\* A row is saved only over the row it came from, so a stored order keeps its
\* preview link, and links and settlements stay.
LEMMA TablesGrow ==
    ASSUME TypeOK, EntitiesOK, [Next]_vars
    PROVE  /\ \A o \in DOMAIN orders :
                o \in DOMAIN orders' /\ orders'[o].preview = orders[o].preview
           /\ settled \subseteq settled'
  <1> USE DEF orderVars, linkVars, requestVars, previewVars
  <1> DEFINE Goal == /\ \A o \in DOMAIN orders :
                          o \in DOMAIN orders' /\ orders'[o].preview = orders[o].preview
                     /\ settled \subseteq settled'
  <1>1. ASSUME NEW r \in Requests, SaveOrder(r) PROVE Goal
    <2>1. Active(r)
      BY <1>1 DEF SaveOrder, At, Active, NoRequest
    <2>2. EntityOK(r)
      BY <2>1 DEF EntitiesOK
    <2> QED BY <1>1, <2>2 DEF SaveOrder, SaveEntity, Store, Upsert, EntityOK
  <1>2. ASSUME NEW r \in Requests, NEW o \in OrderIds, RequestStart(r, o) PROVE Goal
    BY <1>2 DEF RequestStart, Notify, Confirm, Gift, CancelOrder, Send, Regenerate
  <1>3. ASSUME NEW r \in Requests, RequestStep(r), ~SaveOrder(r) PROVE Goal
    BY <1>3 DEF RequestStep, ExpireLink, InvalidateLink, SaveLink, LinkConflict, StampItems,
                Announce, RequestFails
  <1>4. CASE Placement
    BY <1>4, PlacementStores DEF Placement, Store, Upsert
  <1>5. CASE UNCHANGED <<orderVars, requestVars>>
    BY <1>5
  <1> QED BY <1>1, <1>2, <1>3, <1>4, <1>5 DEF Next, AdminCommand, DownloadPage, PreviewPage, vars

\* No step deletes a link or moves it to another order.
LEMMA LinksGrow ==
    ASSUME TypeOK, AccessesCounted, [Next]_vars
    PROVE  /\ DOMAIN links \subseteq DOMAIN links'
           /\ \A l \in DOMAIN links : links'[l].order = links[l].order
  <1> USE DEF orderVars, linkVars, requestVars, previewVars
  <1> DEFINE Goal == /\ DOMAIN links \subseteq DOMAIN links'
                     /\ \A l \in DOMAIN links : links'[l].order = links[l].order
  <1>1. ASSUME NEW o, InvalidateByOrderId(o) PROVE Goal
    BY <1>1, InvalidateType DEF TypeOK
  <1>2. ASSUME NEW l \in LinkIds, NEW o, InsertLink(l, o) PROVE Goal
    BY <1>2 DEF InsertLink, Upsert
  <1>3. ASSUME NEW v \in Visitors, VisitStep(v) PROVE Goal
    <2>1. CASE SaveLazyExpiry(v)
      <3>1. /\ visit[v].link \in DOMAIN links
            /\ visit[v].seen.order = links[visit[v].link].order
        BY <2>1 DEF SaveLazyExpiry, AccessesCounted, NoVisit
      <3> QED BY <3>1, <2>1 DEF SaveLazyExpiry, Upsert
    <2>2. CASE RecordAccess(v)
      BY <2>2 DEF RecordAccess, TypeOK, LinkTablesOK, LinkRow
    <2>3. CASE SetFirstDownload(v)
      BY <2>3 DEF SetFirstDownload, TypeOK, LinkTablesOK, LinkRow
    <2>4. CASE RefuseAccess(v) \/ VisitFails(v)
      BY <2>4 DEF RefuseAccess, VisitFails
    <2> QED BY <1>3, <2>1, <2>2, <2>3, <2>4 DEF VisitStep
  <1>4. CASE UNCHANGED links
    BY <1>4
  <1> QED BY <1>1, <1>2, <1>3, <1>4 DEF Next, AdminCommand, DownloadPage, PreviewPage, Placement, vars,
        RequestStart, Notify, Confirm, Gift, CancelOrder, Send, Regenerate, RequestStep, SaveOrder,
        ExpireLink, InvalidateLink, SaveLink, LinkConflict, StampItems, Announce, RequestFails,
        OpenDeliveryPage, LinkElapses

-----------------------------------------------------------------------------
(* The download page.                                                      *)

\* No link has given an access when there is none.
LEMMA AccessesInit == Init => AccessesCounted
  BY MaxAccessesAssumption DEF Init, LinkInit, NoRows, AccessesCounted, AccessesWithinCap

\* Every step keeps the counters of the links that answer equal to the
\* accesses given, and below the cap.
LEMMA AccessesNext ==
    ASSUME TypeOK, AccessesCounted, [Next]_vars
    PROVE  AccessesCounted'
  <1> USE DEF AccessesCounted, AccessesWithinCap
  <1> LinkTablesOK
    BY DEF TypeOK
  <1>1. ASSUME NEW o, InvalidateByOrderId(o), UNCHANGED <<visit, granted>> PROVE AccessesCounted'
    BY <1>1, InvalidateType
  <1>2. ASSUME NEW l \in LinkIds, NEW o \in OrderIds, InsertLink(l, o), UNCHANGED <<visit, granted>>
        PROVE  AccessesCounted'
    <2>1. NewLink(o).downloadCount = 0 /\ granted[l] = 0
      BY <1>2 DEF NewLink, InsertLink
    <2>2. /\ DOMAIN links' = DOMAIN links \cup {l}
          /\ links'[l] = NewLink(o)
          /\ \A x \in DOMAIN links : links'[x] = links[x]
      BY <1>2 DEF InsertLink, Upsert
    <2> QED BY <1>2, <2>1, <2>2
  <1>3. ASSUME NEW v \in Visitors, NEW l \in LinkIds, OpenDeliveryPage(v, l) PROVE AccessesCounted'
    BY <1>3 DEF OpenDeliveryPage, NoVisit, LinkTablesOK, LinkRow
  <1>4. ASSUME NEW v \in Visitors, SaveLazyExpiry(v) PROVE AccessesCounted'
    <2>1. /\ visit[v].link \in DOMAIN links
          /\ visit[v].seen.status = "expired"
          /\ visit[v].seen.order = links[visit[v].link].order
      BY <1>4 DEF SaveLazyExpiry, NoVisit
    <2>2. /\ DOMAIN links' = DOMAIN links
          /\ \A x \in DOMAIN links : links'[x] = IF x = visit[v].link THEN visit[v].seen ELSE links[x]
      BY <2>1, <1>4 DEF SaveLazyExpiry, Upsert
    <2> QED BY <2>1, <2>2, <1>4 DEF SaveLazyExpiry, LinkTablesOK
  <1>5. ASSUME NEW v \in Visitors, RecordAccess(v) PROVE AccessesCounted'
    <2> DEFINE l == visit[v].link
    <2>1. l \in DOMAIN links /\ links[l].downloadCount = granted[l] /\ granted[l] < MaxAccesses
      BY <1>5 DEF RecordAccess, AccessAllowed, NoVisit
    <2>2. /\ granted' = [granted EXCEPT ![l] = @ + 1]
          /\ DOMAIN links' = DOMAIN links
          /\ links'[l].downloadCount = links[l].downloadCount + 1
          /\ links'[l].order = links[l].order
          /\ \A x \in DOMAIN links \ {l} : links'[x] = links[x]
      BY <2>1, <1>5 DEF RecordAccess, LinkTablesOK, LinkRow
    <2>3. \A u \in Visitors : /\ visit'[u] # NoVisit => visit[u] # NoVisit /\ visit'[u].link = visit[u].link
                              /\ visit'[u].step = "expire" => visit'[u] = visit[u]
      BY <1>5 DEF RecordAccess, LinkTablesOK, Visit, NoVisit
    <2>4. granted[l] + 1 <= MaxAccesses
      BY <2>1, MaxAccessesAssumption DEF LinkTablesOK
    <2>5. \A x \in LinkIds : granted'[x] = IF x = l THEN granted[x] + 1 ELSE granted[x]
      BY <2>2 DEF LinkTablesOK
    <2>6. /\ \A x \in LinkIds : granted'[x] <= MaxAccesses
          /\ \A x \in LinkIds : x \notin DOMAIN links' => granted'[x] = 0
          /\ \A x \in DOMAIN links' :
                links'[x].status # "expired" => links'[x].downloadCount = granted'[x]
      BY <2>1, <2>2, <2>4, <2>5 DEF LinkTablesOK
    <2> QED BY <2>1, <2>2, <2>3, <2>6
  <1>6. ASSUME NEW v \in Visitors, SetFirstDownload(v) PROVE AccessesCounted'
    BY <1>6 DEF SetFirstDownload, LinkTablesOK, LinkRow
  <1>7. ASSUME NEW v \in Visitors, RefuseAccess(v) \/ VisitFails(v) PROVE AccessesCounted'
    BY <1>7 DEF RefuseAccess, VisitFails, LinkTablesOK
  <1>8. CASE UNCHANGED <<links, visit, granted>>
    BY <1>8
  <1>9. ASSUME NEW r \in Requests, RequestStep(r) PROVE AccessesCounted'
    <2>1. ASSUME NEW l \in LinkIds, SaveLink(r, l) PROVE AccessesCounted'
      <3> request[r].order \in OrderIds
        BY <2>1, ActiveType DEF TypeOK, RequestsOK, SaveLink, Step
      <3> QED BY <2>1, <1>2 DEF SaveLink
    <2> QED BY <1>1, <1>8, <1>9, <2>1 DEF RequestStep, SaveOrder, ExpireLink, InvalidateLink,
          LinkConflict, StampItems, Announce, RequestFails, linkVars
  <1> QED BY <1>3, <1>4, <1>5, <1>6, <1>7, <1>8, <1>9 DEF Next, AdminCommand, DownloadPage, PreviewPage,
        Placement, vars, linkVars, VisitStep, LinkElapses,
        RequestStart, Notify, Confirm, Gift, CancelOrder, Send, Regenerate

-----------------------------------------------------------------------------
(* The rows, and what the commands know of them.                           *)

\* Without orders no row is incoherent and nothing is in flight.
LEMMA EntitiesInit == Init => RowsCoherent /\ EntitiesOK
  BY DEF Init, OrderInit, RequestInit, NoRows, RowsCoherent, EntitiesOK, Active

\* A request other than the one that moves keeps what it knows.
LEMMA OthersKeepEntity ==
    ASSUME TypeOK, EntitiesOK, [Next]_vars, NEW s \in Requests, Active(s)',
           request'[s] = request[s]
    PROVE  EntityOK(s)'
  <1>1. EntityOK(s) /\ request'[s].order \in DOMAIN orders
    BY DEF EntitiesOK, Active, EntityOK
  <1>2. orders'[request[s].order].preview = orders[request[s].order].preview
        /\ request[s].order \in DOMAIN orders'
    BY <1>1, TablesGrow
  <1> QED BY <1>1, <1>2 DEF EntityOK

\* A command that begins goes on with a coherent entity.
LEMMA EntitiesStart ==
    ASSUME TypeOK, RowsCoherent, NEW r \in Requests, NEW o \in OrderIds, RequestStart(r, o)
    PROVE  /\ EntityOK(r)'
           /\ \A s \in Requests \ {r} : request'[s] = request[s]
           /\ UNCHANGED orders
  <1> DEFINE row == orders[o]
             Update == {NotifyPaymentInfo(row), ConfirmPayment(row), MarkAsGift(row), Cancel(row)}
  <1>1. o \in DOMAIN orders /\ row \in CoherentRows /\ row \in OrderRow /\ UNCHANGED orders
    BY DEF RequestStart, Notify, Confirm, Gift, CancelOrder, Send, Regenerate, RowsCoherent, orderVars,
           CoherentRows
  <1>2. \/ \E e \in Update : e \in CoherentRows /\ Begin(r, o, "update", "save", e)
        \/ CanSend(row) /\ Begin(r, o, "send", "invalidate", row)
        \/ Begin(r, o, "regenerate", "expire", row)
    BY <1>1, EntityCoherent DEF RequestStart, Notify, Confirm, Gift, CancelOrder, Send, Regenerate
  <1>3. \A s \in Requests \ {r} : request'[s] = request[s]
    BY <1>2 DEF Begin, TypeOK, RequestsOK
  <1>4. \A e, command, step : Begin(r, o, command, step, e) =>
            request'[r] = [step |-> step, command |-> command, order |-> o, entity |-> e]
    BY DEF Begin, TypeOK, RequestsOK
  <1>5. \A e \in Update : e.status # "delivered" /\ e.preview = row.preview
    BY <1>1, EntityKeeps
  <1>6. ASSUME NEW e \in Update, e \in CoherentRows, Begin(r, o, "update", "save", e)
        PROVE  EntityOK(r)'
    <2>1. request'[r] = [step |-> "save", command |-> "update", order |-> o, entity |-> e]
      BY <1>4, <1>6
    <2>2. UNCHANGED orders
      BY <1>1
    <2> QED BY <1>1, <1>5, <1>6, <2>1, <2>2 DEF EntityOK
  <1>7. ASSUME CanSend(row), Begin(r, o, "send", "invalidate", row)
        PROVE  EntityOK(r)'
    <2>1. request'[r] = [step |-> "invalidate", command |-> "send", order |-> o, entity |-> row]
      BY <1>4, <1>7
    <2>2. UNCHANGED orders
      BY <1>1
    <2> QED BY <1>1, <1>7, <2>1, <2>2 DEF EntityOK, CanSend, IsSale
  <1>8. ASSUME Begin(r, o, "regenerate", "expire", row)
        PROVE  EntityOK(r)'
    <2>1. request'[r] = [step |-> "expire", command |-> "regenerate", order |-> o, entity |-> row]
      BY <1>4, <1>8
    <2>2. UNCHANGED orders
      BY <1>1
    <2> QED BY <1>1, <1>8, <2>1, <2>2 DEF EntityOK
  <1> QED BY <1>1, <1>2, <1>3, <1>6, <1>7, <1>8

\* A command in flight stores coherent rows and keeps its entity coherent.
LEMMA EntitiesStep ==
    ASSUME TypeOK, RowsCoherent, EntitiesOK, NEW r \in Requests, RequestStep(r)
    PROVE  /\ RowsCoherent'
           /\ Active(r)' => EntityOK(r)'
           /\ \A s \in Requests \ {r} : request'[s] = request[s]
  <1> USE DEF orderVars
  <1>1. request \in [Requests -> Request]
    BY DEF TypeOK, RequestsOK
  <1>2. Active(r) /\ EntityOK(r)
    BY DEF RequestStep, SaveOrder, ExpireLink, InvalidateLink, SaveLink, LinkConflict, StampItems, Announce,
           RequestFails, At, Active, NoRequest, EntitiesOK
  <1>3. request[r] \in [step : Step, command : Command, order : OrderIds, entity : OrderRow]
    BY <1>1, <1>2 DEF Active, Request
  <1>4. \A s \in Requests \ {r} : request'[s] = request[s]
    BY <1>1 DEF RequestStep, SaveOrder, ExpireLink, InvalidateLink, SaveLink, LinkConflict, StampItems, Announce,
           RequestFails, Goto, Finish
  <1>5. Finish(r) => ~Active(r)'
    BY <1>1 DEF Finish, Active
  <1>6. ASSUME NEW t \in Step, Goto(r, t), UNCHANGED orders,
               request[r].command = "regenerate" => t \in {"expire", "invalidate", "insert", "conflict"},
               request[r].command = "send" => t # "expire",
               request[r].command # "update",
               request[r].step \in {"expire", "invalidate", "insert"} \/ t = "announce"
        PROVE  EntityOK(r)'
    BY <1>1, <1>2, <1>3, <1>6 DEF Goto, EntityOK, Step, Command
  <1>7. CASE SaveOrder(r)
    <2>1. RowsCoherent'
      BY <1>2, <1>7 DEF SaveOrder, SaveEntity, Store, Upsert, RowsCoherent, EntityOK
    <2>2. ASSUME request[r].command = "send" PROVE EntityOK(r)'
      <3>1. request'[r] = [request[r] EXCEPT !.step = "announce"]
        BY <1>1, <1>7, <2>2 DEF SaveOrder, Goto
      <3>2. request[r].order \in DOMAIN orders' /\ orders'[request[r].order] = request[r].entity
        BY <1>7 DEF SaveOrder, SaveEntity, Store, Upsert
      <3> QED BY <1>2, <1>3, <2>2, <3>1, <3>2 DEF EntityOK
    <2>3. request[r].command # "send" => Finish(r)
      BY <1>7 DEF SaveOrder
    <2> QED BY <1>4, <1>5, <2>1, <2>2, <2>3
  <1>8. CASE ExpireLink(r)
    BY <1>2, <1>4, <1>6, <1>8 DEF ExpireLink, At, EntityOK, Step, RowsCoherent
  <1>9. CASE InvalidateLink(r)
    BY <1>2, <1>4, <1>6, <1>9 DEF InvalidateLink, At, EntityOK, Step, RowsCoherent
  <1>10. ASSUME NEW l \in LinkIds, SaveLink(r, l)
         PROVE  RowsCoherent' /\ (Active(r)' => EntityOK(r)')
    BY <1>2, <1>5, <1>6, <1>10 DEF SaveLink, At, EntityOK, Step, RowsCoherent
  <1>11. CASE LinkConflict(r)
    BY <1>2, <1>4, <1>6, <1>11 DEF LinkConflict, At, EntityOK, Step, RowsCoherent
  <1>12. CASE StampItems(r)
    <2>1. request'[r] = [request[r] EXCEPT !.step = "save", !.entity = MarkSent(@)]
      BY <1>1, <1>12 DEF StampItems
    <2>2. request[r].command = "send" /\ CanSend(request[r].entity)
      BY <1>2, <1>3, <1>12 DEF StampItems, At, EntityOK, Command
    <2>3. MarkSent(request[r].entity) \in CoherentRows
          /\ MarkSent(request[r].entity).preview = request[r].entity.preview
      BY <1>2, <1>3, <2>2, EntityCoherent, EntityKeeps DEF EntityOK
    <2>4. UNCHANGED orders
      BY <1>12 DEF StampItems
    <2>5. EntityOK(r)'
      BY <1>2, <1>3, <2>1, <2>2, <2>3, <2>4 DEF EntityOK
    <2> QED BY <1>4, <2>4, <2>5 DEF RowsCoherent
  <1>13. CASE Announce(r) \/ RequestFails(r)
    BY <1>4, <1>5, <1>13 DEF Announce, RequestFails, RowsCoherent
  <1> QED BY <1>4, <1>7, <1>8, <1>9, <1>10, <1>11, <1>12, <1>13 DEF RequestStep

\* Every step keeps the rows coherent and the entities in flight with them.
LEMMA EntitiesNext ==
    ASSUME TypeOK, RowsCoherent, EntitiesOK, [Next]_vars
    PROVE  RowsCoherent' /\ EntitiesOK'
  <1> USE DEF orderVars, requestVars
  <1>1. ASSUME NEW r \in Requests, NEW o \in OrderIds, RequestStart(r, o)
        PROVE  RowsCoherent' /\ EntitiesOK'
    BY <1>1, EntitiesStart, OthersKeepEntity DEF RowsCoherent, EntitiesOK
  <1>2. ASSUME NEW r \in Requests, RequestStep(r)
        PROVE  RowsCoherent' /\ EntitiesOK'
    BY <1>2, EntitiesStep, OthersKeepEntity DEF EntitiesOK
  <1>3. CASE Placement
    <2>1. \A p : NewOrder(p) \in OrderRow => NewOrder(p) \in CoherentRows
      BY DEF NewOrder, CoherentRows
    <2>4. OrderTablesOK'
      BY TypeNext DEF TypeOK
    <2>2. ASSUME UNCHANGED orders PROVE RowsCoherent'
      BY <2>2 DEF RowsCoherent
    <2>3. ASSUME NEW o \in OrderIds \ DOMAIN orders, NEW p, Store(o, NewOrder(p))
          PROVE  RowsCoherent'
      BY <2>1, <2>3, <2>4 DEF RowsCoherent, OrderTablesOK, Store, Upsert
    <2>5. UNCHANGED request
      BY <1>3 DEF Placement
    <2> QED BY <1>3, <2>2, <2>3, <2>5, PlacementStores, OthersKeepEntity DEF EntitiesOK
  <1>4. CASE UNCHANGED <<orders, request>>
    BY <1>4 DEF RowsCoherent, EntitiesOK, EntityOK, Active
  <1> QED BY <1>1, <1>2, <1>3, <1>4 DEF Next, AdminCommand, DownloadPage, PreviewPage, vars

-----------------------------------------------------------------------------
(* The unique index as a lock: one handler sends an order.                 *)

\* An order that has a link keeps it: order_id stays taken.
LEMMA TakenGrows ==
    ASSUME TypeOK, AccessesCounted, [Next]_vars, NEW o, OrderIdTaken(o)
    PROVE  OrderIdTaken(o)'
  BY LinksGrow DEF OrderIdTaken

\* At the beginning nobody sends and nothing is announced.
LEMMA SoleSenderInit == Init => SoleSender
  BY DEF Init, RequestInit, SoleSender, Sending, Active

\* Every step keeps a single sender: a second one meets the unique index.
LEMMA SoleSenderNext ==
    ASSUME TypeOK, EntitiesOK, AccessesCounted, SoleSender, [Next]_vars
    PROVE  SoleSender'
  <1> USE DEF orderVars, linkVars, requestVars
  <1>1. request \in [Requests -> Request] /\ announced \in [OrderIds -> Nat]
    BY DEF TypeOK, RequestsOK
  <1>2. \A o \in OrderIds : OrderIdTaken(o) => OrderIdTaken(o)'
    BY TakenGrows
  <1>3. ASSUME NEW r \in Requests, UNCHANGED announced,
               \A s \in Requests \ {r} : request'[s] = request[s],
               \A o \in OrderIds : Sending(r, o)' => Sending(r, o)
        PROVE  SoleSender'
    <2>1. \A s \in Requests, o \in OrderIds : Sending(s, o)' => Sending(s, o)
      BY <1>3 DEF Sending, Active
    <2> QED BY <1>2, <1>3, <2>1 DEF SoleSender
  <1>4. ASSUME UNCHANGED <<request, announced>> PROVE SoleSender'
    <2>1. \A s \in Requests, o \in OrderIds : Sending(s, o)' <=> Sending(s, o)
      BY <1>4 DEF Sending, Active
    <2> QED BY <1>2, <1>4, <2>1 DEF SoleSender
  <1>5. ASSUME NEW r \in Requests, NEW o \in OrderIds, RequestStart(r, o) PROVE SoleSender'
    <2>1. PICK command, step, e :
            /\ command \in Command
            /\ step \in {"save", "invalidate", "expire"}
            /\ Begin(r, o, command, step, e)
            /\ step = "save" => command = "update"
            /\ UNCHANGED announced
      BY <1>5 DEF RequestStart, Notify, Confirm, Gift, CancelOrder, Send, Regenerate, Command
    <2>2. request'[r] = [step |-> step, command |-> command, order |-> o, entity |-> e]
          /\ \A s \in Requests \ {r} : request'[s] = request[s]
      BY <1>1, <2>1 DEF Begin
    <2> QED BY <1>3, <2>1, <2>2 DEF Sending
  <1>6. ASSUME NEW r \in Requests, RequestStep(r) PROVE SoleSender'
    <2>1. Active(r) /\ EntityOK(r)
      BY <1>6 DEF RequestStep, SaveOrder, ExpireLink, InvalidateLink, SaveLink, LinkConflict, StampItems,
             Announce, RequestFails, At, Active, NoRequest, EntitiesOK
    <2>2. request[r] \in [step : Step, command : Command, order : OrderIds, entity : OrderRow]
      BY <1>1, <2>1 DEF Active, Request
    <2>o. PICK o \in OrderIds : o = request[r].order
      BY <2>2
    <2>3. ASSUME Finish(r), UNCHANGED announced PROVE SoleSender'
      BY <1>1, <1>3, <2>3 DEF Finish, Sending, Active
    <2>4. ASSUME NEW t \in {"invalidate", "insert", "conflict"}, Goto(r, t), UNCHANGED announced
          PROVE SoleSender'
      <3>1. request'[r].step = t /\ \A s \in Requests \ {r} : request'[s] = request[s]
        BY <1>1, <2>2, <2>4 DEF Goto
      <3> QED BY <1>3, <2>4, <3>1 DEF Sending
    <2>5. ASSUME request[r].step \in {"stamp", "save"}, request'[r].command = request[r].command,
                 request'[r].order = request[r].order, UNCHANGED announced,
                 \A s \in Requests \ {r} : request'[s] = request[s]
          PROVE SoleSender'
      BY <1>3, <2>1, <2>5 DEF Sending
    <2>6. CASE SaveOrder(r)
      <3>1. CASE Goto(r, "announce")
        BY <1>1, <2>2, <2>5, <2>6, <3>1 DEF SaveOrder, At, Goto
      <3> QED BY <2>3, <2>6, <3>1 DEF SaveOrder
    <2>7. CASE ExpireLink(r) \/ InvalidateLink(r) \/ LinkConflict(r)
      BY <2>4, <2>7 DEF ExpireLink, InvalidateLink, LinkConflict
    <2>8. ASSUME NEW l \in LinkIds, SaveLink(r, l) PROVE SoleSender'
      <3>1. CASE Finish(r)
        BY <2>3, <2>8, <3>1 DEF SaveLink
      <3>2. CASE Goto(r, "stamp")
        <4>1. OrderIdTaken(o)'
          <5>1. l \in DOMAIN links' /\ links'[l] = NewLink(o)
            BY <2>o, <2>8 DEF SaveLink, InsertLink, Upsert
          <5> QED BY <5>1 DEF NewLink, OrderIdTaken
        <4>2. announced'[o] = 0 /\ ~\E s \in Requests : Sending(s, o)
          BY <1>1, <2>o, <2>8 DEF SaveLink, SoleSender
        <4>3. request'[r].order = o /\ \A s \in Requests \ {r} : request'[s] = request[s]
          BY <1>1, <2>2, <2>o, <3>2 DEF Goto
        <4>4. \A s \in Requests, x \in OrderIds :
                Sending(s, x)' => Sending(s, x) \/ (s = r /\ x = o)
          BY <4>3 DEF Sending, Active
        <4>5. UNCHANGED announced
          BY <2>8 DEF SaveLink
        <4>6. ASSUME NEW x \in OrderIds, NEW s \in Requests, Sending(s, x)'
              PROVE  /\ OrderIdTaken(x)'
                     /\ announced'[x] = 0
                     /\ \A u \in Requests : Sending(u, x)' => u = s
          <5>1. CASE x = o
            BY <4>1, <4>2, <4>4, <4>6, <5>1
          <5>2. CASE x # o
            BY <1>2, <4>4, <4>5, <4>6, <5>2 DEF SoleSender
          <5> QED BY <5>1, <5>2
        <4> QED BY <1>2, <4>5, <4>6 DEF SoleSender
      <3> QED BY <2>8, <3>1, <3>2 DEF SaveLink
    <2>9. CASE StampItems(r)
      BY <1>1, <2>2, <2>5, <2>9 DEF StampItems, At
    <2>10. CASE Announce(r)
      <3>1. Sending(r, o)
        BY <2>1, <2>2, <2>o, <2>10 DEF Announce, At, EntityOK, Sending, Command
      <3>2. \A s \in Requests, x \in OrderIds : Sending(s, x)' => Sending(s, x) /\ s # r
        BY <1>1, <2>10 DEF Announce, Finish, Sending, Active
      <3>3. \A x \in OrderIds : announced'[x] = IF x = o THEN announced[x] + 1 ELSE announced[x]
        BY <1>1, <2>o, <2>10 DEF Announce
      <3>4. OrderIdTaken(o) /\ announced[o] = 0 /\ \A s \in Requests : Sending(s, o) => s = r
        BY <3>1 DEF SoleSender
      <3> QED BY <1>1, <1>2, <3>2, <3>3, <3>4 DEF SoleSender
    <2>11. CASE RequestFails(r)
      BY <2>3, <2>11 DEF RequestFails
    <2> QED BY <1>6, <2>6, <2>7, <2>8, <2>9, <2>10, <2>11 DEF RequestStep
  <1> QED BY <1>4, <1>5, <1>6 DEF Next, AdminCommand, DownloadPage, PreviewPage, Placement, vars

-----------------------------------------------------------------------------
(* Deliveries rest on links, and links on settlements.                     *)

\* Without rows no delivery lacks a link or a settlement.
LEMMA DeliveryInit == Init => DeliveryBacked
  BY DEF Init, OrderInit, LinkInit, RequestInit, NoRows, DeliveryBacked, DeliveredHasLink,
         LinkOnlyAfterSettlement, Active

\* The statuses that stand on a settlement.
LEMMA OthersStayBacked ==
    ASSUME TypeOK, EntitiesOK, AccessesCounted, DeliveryBacked, [Next]_vars,
           NEW s \in Requests, Active(s)', request'[s] = request[s]
    PROVE  EntityBacked(s)'
  <1>1. EntityBacked(s) /\ settled \subseteq settled'
    BY TablesGrow DEF DeliveryBacked, Active
  <1>2. \A o : OrderIdTaken(o) => OrderIdTaken(o)'
    BY TakenGrows
  <1> QED BY <1>1, <1>2 DEF EntityBacked

\* A command that begins knows of deliveries and settlements that are there.
LEMMA DeliveryStart ==
    ASSUME TypeOK, RowsCoherent, DeliveryBacked, NEW r \in Requests, NEW o \in OrderIds, RequestStart(r, o)
    PROVE  EntityBacked(r)' /\ UNCHANGED <<orders, links, settled>>
  <1> DEFINE row == orders[o]
             Update == {NotifyPaymentInfo(row), ConfirmPayment(row), MarkAsGift(row), Cancel(row)}
  <1>1. /\ o \in DOMAIN orders
        /\ row \in OrderRow
        /\ UNCHANGED <<orders, links, settled>>
    BY DEF RequestStart, Notify, Confirm, Gift, CancelOrder, Send, Regenerate, RowsCoherent, CoherentRows,
           orderVars, linkVars
  <1>2. \/ \E e \in Update : Begin(r, o, "update", "save", e)
        \/ row.status \in {"paid", "gifted"} /\ Begin(r, o, "send", "invalidate", row)
        \/ row.status = "delivered" /\ Begin(r, o, "regenerate", "expire", row)
    BY DEF RequestStart, Notify, Confirm, Gift, CancelOrder, Send, Regenerate, CanSend, IsSale
  <1>3. PICK command, step, e :
            /\ Begin(r, o, command, step, e)
            /\ e \in Update \cup {row}
            /\ command \in {"send", "regenerate"} => row.status \in {"paid", "gifted", "delivered"}
    BY <1>2
  <1>4. request'[r].order = o /\ request'[r].command = command /\ request'[r].entity = e
    BY <1>3 DEF Begin, TypeOK, RequestsOK
  <1>5. e.deliveredAt = row.deliveredAt
    BY <1>1, <1>3, EntityKeeps
  <1>6. /\ row.deliveredAt => OrderIdTaken(o)
        /\ row.status \in {"paid", "gifted", "delivered"} => o \in settled
    BY <1>1 DEF DeliveryBacked, DeliveredHasLink
  <1>7. OrderIdTaken(o)' <=> OrderIdTaken(o)
    BY <1>1 DEF OrderIdTaken
  <1>8. command \in {"send", "regenerate"} => o \in settled'
    BY <1>1, <1>3, <1>6
  <1>9. e.deliveredAt => OrderIdTaken(o)'
    BY <1>5, <1>6, <1>7
  <1> QED BY <1>1, <1>4, <1>8, <1>9 DEF EntityBacked

\* A command in flight writes a delivery only after its link.
LEMMA DeliveryStep ==
    ASSUME TypeOK, RowsCoherent, EntitiesOK, AccessesCounted, SoleSender, DeliveryBacked, [Next]_vars,
           NEW r \in Requests, RequestStep(r)
    PROVE  /\ Active(r)' => EntityBacked(r)'
           /\ DeliveredHasLink'
           /\ \A o \in DOMAIN orders' :
                orders'[o].status \in {"paid", "gifted", "delivered"} => o \in settled'
           /\ \A l \in DOMAIN links' : l \in DOMAIN links \/ links'[l].order \in settled'
  <1> USE DEF orderVars, linkVars
  <1>1. request \in [Requests -> Request]
    BY DEF TypeOK, RequestsOK
  <1>2. Active(r) /\ EntityOK(r)
    BY DEF RequestStep, SaveOrder, ExpireLink, InvalidateLink, SaveLink, LinkConflict, StampItems, Announce,
           RequestFails, At, Active, NoRequest, EntitiesOK
  <1>3. request[r] \in [step : Step, command : Command, order : OrderIds, entity : OrderRow]
    BY <1>1, <1>2 DEF Active, Request
  <1>4. EntityBacked(r)
    BY <1>2 DEF DeliveryBacked
  <1>5. PICK o \in OrderIds : o = request[r].order
    BY <1>3
  <1>6. /\ settled \subseteq settled'
        /\ \A x : OrderIdTaken(x) => OrderIdTaken(x)'
    BY TablesGrow, TakenGrows
  <1>7. ASSUME Active(r)', request'[r].order = o, request'[r].command = request[r].command,
               request'[r].entity.deliveredAt => request[r].entity.deliveredAt \/ OrderIdTaken(o)
        PROVE  EntityBacked(r)'
    BY <1>4, <1>5, <1>6, <1>7 DEF EntityBacked
  <1>8. ASSUME UNCHANGED orders
        PROVE  /\ DeliveredHasLink'
               /\ \A x \in DOMAIN orders' :
                    orders'[x].status \in {"paid", "gifted", "delivered"} => x \in settled'
    BY <1>6, <1>8 DEF DeliveryBacked, DeliveredHasLink
  <1>9. Active(r)' => EntityBacked(r)'
    <2>1. ASSUME Finish(r) PROVE ~Active(r)'
      BY <1>1, <2>1 DEF Finish, Active
    <2>2. ASSUME NEW t \in Step, Goto(r, t), Active(r)' PROVE EntityBacked(r)'
      <3>1. request'[r] = [request[r] EXCEPT !.step = t]
        BY <1>1, <2>2 DEF Goto
      <3> QED BY <1>3, <1>5, <1>7, <2>2, <3>1
    <2>3. CASE StampItems(r)
      <3>1. request'[r] = [request[r] EXCEPT !.step = "save", !.entity = MarkSent(@)]
        BY <1>1, <2>3 DEF StampItems
      <3>2. Sending(r, o)
        BY <1>2, <1>3, <1>5, <2>3 DEF StampItems, At, EntityOK, Sending, Command
      <3>3. OrderIdTaken(o)
        BY <3>2 DEF SoleSender
      <3> QED BY <1>3, <1>5, <1>7, <3>1, <3>3
    <2> QED BY <2>1, <2>2, <2>3 DEF RequestStep, SaveOrder, ExpireLink, InvalidateLink, SaveLink, LinkConflict,
                                   Announce, RequestFails, Step
  <1>10. CASE SaveOrder(r)
    <2> DEFINE row == request[r].entity
    <2>1. /\ DOMAIN orders' = DOMAIN orders
          /\ orders'[o] = row
          /\ \A x \in DOMAIN orders \ {o} : orders'[x] = orders[x]
      BY <1>2, <1>5, <1>10 DEF SaveOrder, SaveEntity, Store, Upsert, EntityOK
    <2>2. row.deliveredAt => OrderIdTaken(o)'
      BY <1>4, <1>5, <1>6 DEF EntityBacked
    <2>3. row.status \in {"paid", "gifted"} => o \in settled'
      BY <1>5, <1>10 DEF SaveOrder, SaveEntity
    <2>4. row.status = "delivered" => o \in settled'
      <3>1. row.status = "delivered" => request[r].command = "send"
        BY <1>2, <1>3, <1>10 DEF SaveOrder, At, EntityOK, Command
      <3> QED BY <1>4, <1>5, <1>6, <3>1 DEF EntityBacked
    <2>5. DeliveredHasLink'
      BY <1>6, <2>1, <2>2 DEF DeliveredHasLink, DeliveryBacked
    <2>6. \A x \in DOMAIN orders' :
            orders'[x].status \in {"paid", "gifted", "delivered"} => x \in settled'
      BY <1>6, <2>1, <2>3, <2>4 DEF DeliveryBacked
    <2>7. UNCHANGED links
      BY <1>10 DEF SaveOrder
    <2> QED BY <1>9, <2>5, <2>6, <2>7
  <1>11. ASSUME NEW l \in LinkIds, SaveLink(r, l)
         PROVE  UNCHANGED orders /\ \A x \in DOMAIN links' : x \in DOMAIN links \/ links'[x].order \in settled'
    <2>1. request[r].command \in {"send", "regenerate"}
      BY <1>2, <1>3, <1>11 DEF SaveLink, At, EntityOK, Command
    <2>2. o \in settled'
      BY <1>4, <1>5, <1>6, <2>1 DEF EntityBacked
    <2>3. links'[l] = NewLink(o) /\ DOMAIN links' = DOMAIN links \cup {l}
      BY <1>5, <1>11 DEF SaveLink, InsertLink, Upsert
    <2>4. NewLink(o).order = o
      BY DEF NewLink
    <2> QED BY <1>11, <2>2, <2>3, <2>4 DEF SaveLink
  <1>12. CASE ~SaveOrder(r) /\ ~\E l \in LinkIds : SaveLink(r, l)
    <2>1. UNCHANGED orders
      BY <1>12 DEF RequestStep, ExpireLink, InvalidateLink, LinkConflict, StampItems, Announce, RequestFails
    <2>2. DOMAIN links' = DOMAIN links
      BY <1>12, InvalidateType DEF TypeOK, RequestStep, ExpireLink, InvalidateLink, LinkConflict, StampItems,
                                   Announce, RequestFails
    <2> QED BY <1>8, <1>9, <2>1, <2>2
  <1> QED BY <1>8, <1>9, <1>10, <1>11, <1>12

\* Every step keeps deliveries backed by links, and links by settlements.
LEMMA DeliveryNext ==
    ASSUME TypeOK, RowsCoherent, EntitiesOK, AccessesCounted, SoleSender, DeliveryBacked, [Next]_vars
    PROVE  DeliveryBacked'
  <1> USE DEF orderVars, linkVars, requestVars
  <1>1. settled \subseteq settled' /\ \A o : OrderIdTaken(o) => OrderIdTaken(o)'
    BY TablesGrow, TakenGrows
  <1>2. ASSUME \A l \in DOMAIN links' : l \in DOMAIN links \/ links'[l].order \in settled'
        PROVE  LinkOnlyAfterSettlement'
    BY <1>1, <1>2, LinksGrow DEF DeliveryBacked, LinkOnlyAfterSettlement
  <1>3. ASSUME NEW r \in Requests, NEW o \in OrderIds, RequestStart(r, o) PROVE DeliveryBacked'
    <2>1. \A s \in Requests : Active(s)' => EntityBacked(s)'
      BY <1>3, DeliveryStart, EntitiesStart, OthersStayBacked
    <2>2. UNCHANGED <<orders, links, settled>>
      BY <1>3, DeliveryStart
    <2> QED BY <2>1, <2>2 DEF DeliveryBacked, DeliveredHasLink, LinkOnlyAfterSettlement, OrderIdTaken
  <1>4. ASSUME NEW r \in Requests, RequestStep(r) PROVE DeliveryBacked'
    BY <1>2, <1>4, DeliveryStep, EntitiesStep, OthersStayBacked DEF DeliveryBacked
  <1>5. ASSUME UNCHANGED request PROVE \A s \in Requests : Active(s)' => EntityBacked(s)'
    BY <1>5, OthersStayBacked
  <1>6. CASE Placement
    <2>1. \A p : NewOrder(p).status = "pending" /\ ~NewOrder(p).deliveredAt
      BY DEF NewOrder
    <2>2. UNCHANGED <<links, request, settled>>
      BY <1>6 DEF Placement
    <2>3. ASSUME NEW o \in OrderIds \ DOMAIN orders, NEW p, Store(o, NewOrder(p))
          PROVE  /\ DeliveredHasLink'
                 /\ \A x \in DOMAIN orders' :
                      orders'[x].status \in {"paid", "gifted", "delivered"} => x \in settled'
      <3>1. /\ DOMAIN orders' = DOMAIN orders \cup {o}
            /\ orders'[o] = NewOrder(p)
            /\ \A x \in DOMAIN orders : orders'[x] = orders[x]
        BY <2>3 DEF Store, Upsert
      <3> QED BY <1>1, <2>1, <3>1 DEF DeliveryBacked, DeliveredHasLink
    <2>4. ASSUME UNCHANGED orders
          PROVE  /\ DeliveredHasLink'
                 /\ \A x \in DOMAIN orders' :
                      orders'[x].status \in {"paid", "gifted", "delivered"} => x \in settled'
      BY <1>1, <2>4 DEF DeliveryBacked, DeliveredHasLink
    <2>5. /\ DeliveredHasLink'
          /\ \A x \in DOMAIN orders' :
               orders'[x].status \in {"paid", "gifted", "delivered"} => x \in settled'
      BY <1>6, <2>3, <2>4, PlacementStores
    <2> QED BY <1>2, <1>5, <2>2, <2>5 DEF DeliveryBacked
  <1>7. CASE DownloadPage
    <2>1. UNCHANGED <<orders, request, settled>>
      BY <1>7 DEF DownloadPage
    <2>2. DOMAIN links' = DOMAIN links
      <3>1. ASSUME NEW v \in Visitors, SaveLazyExpiry(v) PROVE DOMAIN links' = DOMAIN links
        <4>1. visit[v].link \in DOMAIN links
          BY <3>1 DEF SaveLazyExpiry, AccessesCounted, NoVisit
        <4> QED BY <3>1, <4>1 DEF SaveLazyExpiry, Upsert
      <3>2. ASSUME NEW v \in Visitors, RecordAccess(v) \/ SetFirstDownload(v)
            PROVE  DOMAIN links' = DOMAIN links
        BY <3>2 DEF RecordAccess, SetFirstDownload
      <3> QED BY <1>7, <3>1, <3>2 DEF DownloadPage, VisitStep, OpenDeliveryPage, LinkElapses, RefuseAccess, VisitFails
    <2> QED BY <1>1, <1>2, <1>5, <2>1, <2>2 DEF DeliveryBacked, DeliveredHasLink
  <1>8. CASE UNCHANGED <<orders, links, request, settled>>
    BY <1>1, <1>2, <1>5, <1>8 DEF DeliveryBacked, DeliveredHasLink
  <1> QED BY <1>3, <1>4, <1>6, <1>7, <1>8 DEF Next, AdminCommand, PreviewPage, vars

-----------------------------------------------------------------------------
(* Conversions rest on stored orders.                                      *)

\* Without preview links none is converted.
LEMMA ConversionInit == Init => ConversionBacked
  BY DEF Init, PreviewInit, SubmissionInit, NoRows, NoSubmission, ConversionBacked, ConvertedHasOrder

\* A preview link that has an order keeps it.
LEMMA SubmittedGrows ==
    ASSUME TypeOK, EntitiesOK, [Next]_vars
    PROVE  \A p : Submitted(p) => Submitted(p)'
  BY TablesGrow DEF Submitted

\* What one handler of the preview page, or one submission, must know.
WatchBacked(w) ==
    watch[w] # NoWatch =>
        (watch[w].seen.status = "converted" => Submitted(watch[w].preview))
SubmissionBacked(c) ==
    /\ submission[c].step \in {"expire", "check", "create", "items", "convert"} =>
         (submission[c].seen.status = "converted" => Submitted(submission[c].preview))
    /\ submission[c].step \in {"items", "convert"} =>
         /\ submission[c].order \in DOMAIN orders
         /\ orders[submission[c].order].preview = submission[c].preview

\* Every step keeps conversions, stored or in flight, backed by an order.
LEMMA ConversionNext ==
    ASSUME TypeOK, EntitiesOK, ConversionBacked, [Next]_vars
    PROVE  ConversionBacked'
  <1> USE DEF orderVars, linkVars, requestVars, previewVars
  <1>1. /\ \A p : Submitted(p) => Submitted(p)'
        /\ \A o \in DOMAIN orders : o \in DOMAIN orders' /\ orders'[o].preview = orders[o].preview
    BY SubmittedGrows, TablesGrow
  <1>2. /\ ConvertedHasOrder
        /\ \A w \in Watchers : WatchBacked(w)
        /\ \A c \in Customers : SubmissionBacked(c)
    BY DEF ConversionBacked, WatchBacked, SubmissionBacked
  <1>3. ASSUME ConvertedHasOrder', \A w \in Watchers : WatchBacked(w)',
               \A c \in Customers : SubmissionBacked(c)'
        PROVE  ConversionBacked'
    BY <1>3 DEF ConversionBacked, WatchBacked, SubmissionBacked
  <1>4. \A w \in Watchers : watch'[w] = watch[w] => WatchBacked(w)'
    BY <1>1, <1>2 DEF WatchBacked
  <1>5. \A c \in Customers : submission'[c] = submission[c] => SubmissionBacked(c)'
    BY <1>1, <1>2 DEF SubmissionBacked
  <1>6. UNCHANGED previews => ConvertedHasOrder'
    BY <1>1, <1>2 DEF ConvertedHasOrder
  <1>7. ASSUME NEW p, NEW row, StorePreview(p, row), row.status = "converted" => Submitted(p)'
        PROVE  ConvertedHasOrder'
    <2>1. /\ DOMAIN previews' = DOMAIN previews \cup {p}
          /\ \A q \in DOMAIN previews' : previews'[q] = IF q = p THEN row ELSE previews[q]
      BY <1>7 DEF StorePreview, Upsert
    <2> QED BY <1>1, <1>2, <1>7, <2>1 DEF ConvertedHasOrder
  <1>8. CASE PreviewPage
    <2>1. UNCHANGED submission
      BY <1>8 DEF PreviewPage
    <2>2. ASSUME NEW w \in Watchers, NEW p \in PreviewIds, OpenPreviewPage(w, p)
          PROVE  ConversionBacked'
      <3>1. PICK e : Hold(w, p, e) /\ (e.status = "converted" => Submitted(p))
        <4>1. previews[p] \in PreviewRow /\ (previews[p].status = "converted" => Submitted(p))
          BY <1>2, <2>2 DEF OpenPreviewPage, ConvertedHasOrder, TypeOK, PreviewTablesOK
        <4>2. [previews[p] EXCEPT !.status = "expired"].status = "expired"
              /\ [previews[p] EXCEPT !.viewed = TRUE].status = previews[p].status
          BY <4>1 DEF PreviewRow
        <4>3. \/ Hold(w, p, [previews[p] EXCEPT !.status = "expired"])
              \/ Hold(w, p, [previews[p] EXCEPT !.viewed = TRUE])
          BY <2>2 DEF OpenPreviewPage
        <4> QED BY <4>1, <4>2, <4>3
      <3>2. /\ watch'[w] = [step |-> "save", preview |-> p, seen |-> e]
            /\ \A u \in Watchers \ {w} : watch'[u] = watch[u]
        BY <3>1 DEF Hold, TypeOK, PreviewTablesOK
      <3>3. \A u \in Watchers : WatchBacked(u)'
        BY <1>1, <1>4, <3>1, <3>2 DEF WatchBacked
      <3>4. UNCHANGED previews
        BY <2>2 DEF OpenPreviewPage
      <3> QED BY <1>3, <1>5, <1>6, <2>1, <3>3, <3>4
    <2>3. ASSUME NEW w \in Watchers, SavePreviewPage(w) \/ WatchFails(w)
          PROVE  ConversionBacked'
      <3>1. watch'[w] = NoWatch /\ \A u \in Watchers \ {w} : watch'[u] = watch[u]
        BY <2>3 DEF SavePreviewPage, WatchFails, TypeOK, PreviewTablesOK
      <3>2. \A u \in Watchers : WatchBacked(u)'
        BY <1>4, <3>1 DEF WatchBacked
      <3>3. ConvertedHasOrder'
        BY <1>1, <1>2, <1>6, <1>7, <2>3 DEF SavePreviewPage, WatchFails, WatchBacked, NoWatch
      <3> QED BY <1>3, <1>5, <2>1, <3>2, <3>3
    <2>4. ASSUME NEW p \in PreviewIds, CreatePreviewLink(p)
          PROVE  ConversionBacked'
      BY <1>3, <1>4, <1>5, <1>7, <2>1, <2>4 DEF CreatePreviewLink
    <2>5. ASSUME NEW p \in PreviewIds, PreviewElapses(p)
          PROVE  ConversionBacked'
      BY <1>3, <1>4, <1>5, <1>6, <2>1, <2>5 DEF PreviewElapses
    <2> QED BY <1>8, <2>2, <2>3, <2>4, <2>5 DEF PreviewPage, WatchStep
  <1>9. CASE Placement
    <2>1. submission \in [Customers -> Submission] /\ \A w \in Watchers : watch'[w] = watch[w]
      BY <1>9 DEF TypeOK, SubmissionsOK, Placement, SubmissionStart, SubmissionStep, PlaceFromGallery,
              SubmitPreview, SaveGalleryItems, SaveSubmissionExpiry, CheckNotSubmitted, RefuseSubmission,
              CreateFromPreview, SavePreviewItems, SaveConverted, SubmissionFails
    <2>2. ASSUME NEW c \in Customers, NEW e, submission' = [submission EXCEPT ![c] = e],
                 SubmissionBacked(c)', ConvertedHasOrder'
          PROVE  ConversionBacked'
      BY <1>3, <1>4, <1>5, <2>1, <2>2
    <2>3. ASSUME NEW c \in Customers, Leave(c), ConvertedHasOrder' PROVE ConversionBacked'
      <3>1. submission'[c] = NoSubmission
        BY <2>1, <2>3 DEF Leave
      <3>2. SubmissionBacked(c)'
        BY <3>1 DEF SubmissionBacked, NoSubmission
      <3> QED BY <2>2, <2>3, <3>2 DEF Leave
    <2>4. ASSUME NEW c \in Customers, NEW o \in OrderIds, PlaceFromGallery(c, o)
          PROVE  ConversionBacked'
      <3>1. submission'[c].step = "gallery_items"
        BY <2>1, <2>4 DEF PlaceFromGallery
      <3> QED BY <1>6, <2>2, <2>4, <3>1 DEF PlaceFromGallery, SubmissionBacked
    <2>5. ASSUME NEW c \in Customers, NEW p \in PreviewIds, SubmitPreview(c, p)
          PROVE  ConversionBacked'
      <3>1. previews[p] \in PreviewRow /\ (previews[p].status = "converted" => Submitted(p)')
        BY <1>1, <1>2, <2>5 DEF SubmitPreview, ConvertedHasOrder, TypeOK, PreviewTablesOK
      <3>2. /\ submission'[c].step \in {"expire", "check"}
            /\ submission'[c].preview = p
            /\ submission'[c].seen.status \in {"expired", previews[p].status}
        BY <2>1, <2>5, <3>1 DEF SubmitPreview, PreviewRow
      <3>3. SubmissionBacked(c)'
        BY <3>1, <3>2 DEF SubmissionBacked
      <3> QED BY <1>6, <2>2, <2>5, <3>3 DEF SubmitPreview
    <2>6. ASSUME NEW c \in Customers, SaveSubmissionExpiry(c) \/ SaveConverted(c)
          PROVE  ConversionBacked'
      <3>1. PICK p, row : /\ p = submission[c].preview
                          /\ row = submission[c].seen
                          /\ StorePreview(p, row)
        BY <2>6 DEF SaveSubmissionExpiry, SaveConverted
      <3>2. row.status = "converted" => Submitted(p)'
        BY <1>1, <1>2, <2>6, <3>1 DEF SaveSubmissionExpiry, SaveConverted, Doing, SubmissionBacked
      <3>3. ConvertedHasOrder'
        BY <1>7, <3>1, <3>2
      <3> QED BY <2>3, <2>6, <3>3 DEF SaveSubmissionExpiry, SaveConverted
    <2>7. ASSUME NEW c \in Customers, CheckNotSubmitted(c)
          PROVE  ConversionBacked'
      <3>1. submission[c] \in [step : {"expire", "check", "create"}, preview : PreviewIds, seen : PreviewRow]
        BY <2>1, <2>7 DEF CheckNotSubmitted, Doing, Submission, NoSubmission
      <3>2. submission'[c] = [submission[c] EXCEPT !.step = "create"]
        BY <2>1, <2>7 DEF CheckNotSubmitted
      <3>3. SubmissionBacked(c)'
        BY <1>1, <1>2, <3>1, <3>2 DEF SubmissionBacked
      <3> QED BY <1>6, <2>2, <2>7, <3>3 DEF CheckNotSubmitted
    <2>8. ASSUME NEW c \in Customers, RefuseSubmission(c) \/ SubmissionFails(c) \/ SaveGalleryItems(c)
          PROVE  ConversionBacked'
      BY <1>6, <2>3, <2>8 DEF RefuseSubmission, SubmissionFails, SaveGalleryItems
    <2>9. ASSUME NEW c \in Customers, NEW o \in OrderIds, CreateFromPreview(c, o)
          PROVE  ConversionBacked'
      <3>1. PICK p : p = submission[c].preview
        OBVIOUS
      <3>2. submission'[c] = [step |-> "items", order |-> o, preview |-> p, seen |-> submission[c].seen]
        BY <2>1, <2>9, <3>1 DEF CreateFromPreview
      <3>3. o \in DOMAIN orders' /\ orders'[o] = NewOrder(p)
        BY <2>9, <3>1 DEF CreateFromPreview, Store, Upsert
      <3>4. NewOrder(p).preview = p
        BY DEF NewOrder
      <3>5. SubmissionBacked(c)'
        BY <3>2, <3>3, <3>4 DEF SubmissionBacked, Submitted
      <3> QED BY <1>6, <2>2, <2>9, <3>5 DEF CreateFromPreview
    <2>10. ASSUME NEW c \in Customers, SavePreviewItems(c)
           PROVE  ConversionBacked'
      <3>1. submission[c] \in [step : {"items", "convert"}, order : OrderIds,
                               preview : PreviewIds, seen : PreviewRow]
        BY <2>1, <2>10 DEF SavePreviewItems, Doing, Submission, NoSubmission
      <3>2. UNCHANGED <<orders, previews>>
        BY <2>10 DEF SavePreviewItems
      <3>3. CASE Leave(c)
        BY <1>6, <2>3, <3>2, <3>3
      <3>4. CASE submission' = [submission EXCEPT ![c].step = "convert", ![c].seen.status = "converted"]
        <4>1. /\ submission'[c].step = "convert"
              /\ submission'[c].order = submission[c].order
              /\ submission'[c].preview = submission[c].preview
          BY <2>1, <3>1, <3>4
        <4>2. SubmissionBacked(c)'
          BY <1>2, <3>1, <3>2, <4>1 DEF SubmissionBacked, Submitted
        <4> QED BY <1>3, <1>4, <1>5, <1>6, <2>1, <3>2, <3>4, <4>2
      <3> QED BY <2>10, <3>3, <3>4 DEF SavePreviewItems
    <2> QED BY <1>9, <2>4, <2>5, <2>6, <2>7, <2>8, <2>9, <2>10
            DEF Placement, SubmissionStart, SubmissionStep
  <1>10. CASE UNCHANGED <<previews, watch, submission>>
    BY <1>3, <1>4, <1>5, <1>6, <1>10
  <1> QED BY <1>8, <1>9, <1>10 DEF Next, AdminCommand, DownloadPage, vars

-----------------------------------------------------------------------------
(* The theorems.                                                           *)

\* Every part of the invariant holds in every reachable state, however the
\* handlers interleave and wherever they die.
THEOREM InductiveInvariant == Spec => []Inductive
  <1>1. Init => Inductive
    BY TypeInit, EntitiesInit, DeliveryInit, SoleSenderInit, AccessesInit, ConversionInit DEF Inductive
  <1>2. Inductive /\ [Next]_vars => Inductive'
    BY TypeNext, EntitiesNext, DeliveryNext, SoleSenderNext, AccessesNext, ConversionNext DEF Inductive
  <1> QED BY <1>1, <1>2, PTL DEF Spec

\* Commands that overwrite each other (order-write.repository.ts saves whole
\* rows) never leave an order whose status and timestamps disagree.
THEOREM RowsStayCoherent == Spec => []RowsCoherent
  <1>1. Inductive => RowsCoherent
    BY DEF Inductive
  <1> QED BY <1>1, InductiveInvariant, PTL

\* No order says it was delivered while its delivery_links row is missing,
\* whichever of SendDeliveryHandler's steps a crash or another admin follows.
THEOREM DeliveriesHaveLinks == Spec => []DeliveredHasLink
  <1>1. Inductive => DeliveredHasLink
    BY DEF Inductive, DeliveryBacked
  <1> QED BY <1>1, InductiveInvariant, PTL

\* No delivery_links row is made for an order that was never paid or gifted.
THEOREM LinksFollowSettlement == Spec => []LinkOnlyAfterSettlement
  <1>1. Inductive => LinkOnlyAfterSettlement
    BY DEF Inductive, DeliveryBacked
  <1> QED BY <1>1, InductiveInvariant, PTL

\* SendDeliveryHandler emits order.delivered at most once for an order, for any
\* number of admins who send it at once.
THEOREM OneAnnouncement == Spec => []DeliveredAnnouncedOnce
  <1>1. Inductive => DeliveredAnnouncedOnce
    BY DEF Inductive, SoleSender, DeliveredAnnouncedOnce, TypeOK, RequestsOK
  <1> QED BY <1>1, InductiveInvariant, PTL

\* A link gives out no more than MAX_DELIVERY_ACCESSES accesses, for any number
\* of visitors and any cap (tryRecordAccess against the lazy expiry's save).
THEOREM CapHolds == Spec => []AccessesWithinCap
  <1>1. Inductive => AccessesWithinCap
    BY DEF Inductive, AccessesCounted
  <1> QED BY <1>1, InductiveInvariant, PTL

\* A preview_links row says converted only when an order of it is stored.
THEOREM ConversionsHaveOrders == Spec => []ConvertedHasOrder
  <1>1. Inductive => ConvertedHasOrder
    BY DEF Inductive, ConversionBacked
  <1> QED BY <1>1, InductiveInvariant, PTL

\* No write of the download page or of a command revives an expired link.
THEOREM ExpiryIsFinal == Spec => ExpiredStaysExpired
  <1> DEFINE Stays == \A l \in DOMAIN links :
                        links[l].status = "expired" => links'[l].status = "expired"
  <1> USE DEF orderVars, linkVars, requestVars, previewVars
  <1>1. ASSUME Inductive, [Next]_vars PROVE [Stays]_links
    <2> USE DEF Inductive, TypeOK
    <2>1. ASSUME NEW o, InvalidateByOrderId(o) PROVE Stays
      BY <1>1, <2>1, InvalidateType
    <2>2. ASSUME NEW l \in LinkIds, NEW o, InsertLink(l, o) PROVE Stays
      BY <2>2 DEF InsertLink, Upsert
    <2>3. ASSUME NEW v \in Visitors, SaveLazyExpiry(v) PROVE Stays
      <3>1. visit[v].seen.status = "expired"
        BY <1>1, <2>3 DEF SaveLazyExpiry, AccessesCounted, NoVisit
      <3> QED BY <2>3, <3>1 DEF SaveLazyExpiry, Upsert
    <2>4. ASSUME NEW v \in Visitors, RecordAccess(v) PROVE Stays
      BY <1>1, <2>4 DEF RecordAccess, AccessAllowed, LinkTablesOK, LinkRow
    <2>5. ASSUME NEW v \in Visitors, SetFirstDownload(v) PROVE Stays
      BY <1>1, <2>5 DEF SetFirstDownload, LinkTablesOK, LinkRow
    <2>6. CASE UNCHANGED links
      BY <2>6
    <2> QED BY <1>1, <2>1, <2>2, <2>3, <2>4, <2>5, <2>6 DEF Next, AdminCommand, DownloadPage, PreviewPage,
          Placement, vars, RequestStart, Notify, Confirm, Gift, CancelOrder, Send, Regenerate, RequestStep,
          SaveOrder, ExpireLink, InvalidateLink, SaveLink, LinkConflict, StampItems, Announce, RequestFails,
          OpenDeliveryPage, VisitStep, RefuseAccess, VisitFails, LinkElapses
  <1> QED BY <1>1, InductiveInvariant, PTL DEF Spec, ExpiredStaysExpired

-----------------------------------------------------------------------------
(* What the pages say of orders follows from the invariant of the orders.  *)

\* A coherent row carries a payment date exactly when its order counts as paid,
\* unless it is cancelled.
LEMMA PaidHasDate ==
    ASSUME NEW row \in CoherentRows, row.status # "cancelled"
    PROVE  row.paidAt <=> row.status \in {"paid", "delivered"}
  BY DEF CoherentRows, OrderRow, OrderStatus

\* An order with a link has it on its pages.
LEMMA TakenIsShown ==
    ASSUME NEW o, OrderIdTaken(o)
    PROVE  LinksOf(o) # {}
  BY DEF OrderIdTaken, LinksOf

\* Rows that are coherent, and delivered ones that have links, make the pages agree.
LEMMA InductiveMatches == Inductive => StatsMatchList
  <1> SUFFICES ASSUME Inductive PROVE StatsMatchList
    OBVIOUS
  <1>1. \A o \in DOMAIN orders : orders[o] \in CoherentRows /\ orders[o].status \in OrderStatus
    BY DEF Inductive, RowsCoherent, CoherentRows, OrderRow
  <1>2. Total = DOMAIN orders
    BY <1>1 DEF Total, OfStatus
  <1>3. OrdersStats.activeOrders = Listed("all")
    BY <1>2 DEF OrdersStats, Listed
  <1>4. OrdersStats.totalRevenue = OrdersStats.paidCount
    BY DEF OrdersStats, Revenue
  <1>5. OrdersStats.paidCount = {o \in Listed("all") : ListRow(o).paidAt}
    <2>1. \A o \in DOMAIN orders :
            o \in OfStatus("paid") \cup OfStatus("delivered")
              <=> o \notin OfStatus("cancelled") /\ orders[o].paidAt
      <3> TAKE o \in DOMAIN orders
      <3>1. CASE orders[o].status = "cancelled"
        BY <3>1 DEF OfStatus
      <3>2. CASE orders[o].status # "cancelled"
        BY <1>1, <3>2, PaidHasDate DEF OfStatus
      <3> QED BY <3>1, <3>2
    <2>2. \A o \in OfStatus("paid") \cup OfStatus("delivered") : o \in DOMAIN orders
      BY DEF OfStatus
    <2> QED BY <2>1, <2>2 DEF OrdersStats, Listed, ListRow
  <1>6. ASSUME NEW o \in Listed("all"), ListRow(o).deliveredAt
        PROVE  ListRow(o).hasDeliveryLink /\ OrderDetail(o).deliveryLink # {}
    <2>1. o \in DOMAIN orders /\ orders[o].deliveredAt
      BY <1>6 DEF Listed, ListRow, OfStatus
    <2>2. LinksOf(o) # {}
      BY <2>1, TakenIsShown DEF Inductive, DeliveryBacked, DeliveredHasLink
    <2> QED BY <2>2 DEF ListRow, OrderDetail
  <1> QED BY <1>3, <1>4, <1>5, <1>6 DEF StatsMatchList

\* Whatever the commands of several administrators overwrite, the figures, the
\* list and the page of an order agree.
THEOREM PagesAgree == Spec => []StatsMatchList
  BY InductiveInvariant, InductiveMatches, PTL

-----------------------------------------------------------------------------
(* When requests do not overlap, what a handler has in memory is not stale *)
(* either: it is what the handler makes of the rows as they are.           *)

InFlight ==
    {<<"request", r>> : r \in {x \in Requests : Active(x)}}
    \cup {<<"visit", v>> : v \in {x \in Visitors : visit[x] # NoVisit}}
    \cup {<<"watch", w>> : w \in {x \in Watchers : watch[x] # NoWatch}}
    \cup {<<"submission", c>> : c \in {x \in Customers : submission[x] # NoSubmission}}

OneInFlight == \A a, b \in InFlight : a = b

\* What the commands that only change the entity make of a row.
Updates(row, entity) ==
    \/ CanNotify(row) /\ entity = NotifyPaymentInfo(row)
    \/ CanConfirm(row) /\ entity = ConfirmPayment(row)
    \/ CanGift(row) /\ entity = MarkAsGift(row)
    \/ CanCancel(row) /\ entity = Cancel(row)

RequestCurrent(r) ==
    LET q == request[r]   row == orders[q.order] IN
    /\ q.command = "update" => Updates(row, q.entity)
    /\ q.command = "send" /\ q.step \in {"invalidate", "insert", "conflict", "stamp"} => q.entity = row
    /\ q.command = "send" /\ q.step = "save" =>
         CanSend(row) /\ q.entity = MarkSent(row) /\ items[q.order] # "saved"
    /\ q.command = "regenerate" => q.entity.status = "delivered"

WatchCurrent(w) ==
    watch[w] # NoWatch =>
      /\ watch[w].preview \in DOMAIN previews
      /\ previews[watch[w].preview].status = "converted" => watch[w].seen.status = "converted"

SubmissionCurrent(c) ==
    LET s == submission[c] IN
    /\ s.step = "create" => ~Submitted(s.preview)
    /\ s.step \in {"items", "gallery_items"} =>
         s.order \in DOMAIN orders /\ ~orders[s.order].deliveredAt
    /\ s.step = "expire" => s.preview \in DOMAIN previews /\ previews[s.preview].status # "converted"
    /\ s.step = "convert" => s.seen.status = "converted"

SerialInductive ==
    /\ OneInFlight
    /\ \A r \in Requests : Active(r) => RequestCurrent(r)
    /\ \A w \in Watchers : WatchCurrent(w)
    /\ \A c \in Customers : SubmissionCurrent(c)
    /\ OneOrderPerPreview
    /\ DeliveredItemsStamped

-----------------------------------------------------------------------------
(* One handler in flight.                                                  *)

\* Whoever is in flight is alone.
LEMMA RequestAlone ==
    ASSUME OneInFlight, NEW r \in Requests, Active(r)
    PROVE  /\ \A s \in Requests \ {r} : ~Active(s)
           /\ \A v \in Visitors : visit[v] = NoVisit
           /\ \A w \in Watchers : watch[w] = NoWatch
           /\ \A c \in Customers : submission[c] = NoSubmission
  <1>1. <<"request", r>> \in InFlight
    BY DEF InFlight
  <1>2. \A a \in InFlight : a = <<"request", r>>
    BY <1>1 DEF OneInFlight
  <1> QED BY <1>2 DEF InFlight

\* So is a submission in flight.
LEMMA SubmissionAlone ==
    ASSUME OneInFlight, NEW c \in Customers, submission[c] # NoSubmission
    PROVE  /\ \A d \in Customers \ {c} : submission[d] = NoSubmission
           /\ \A r \in Requests : ~Active(r)
           /\ \A w \in Watchers : watch[w] = NoWatch
  <1>1. <<"submission", c>> \in InFlight
    BY DEF InFlight
  <1>2. \A a \in InFlight : a = <<"submission", c>>
    BY <1>1 DEF OneInFlight
  <1> QED BY <1>2 DEF InFlight

\* So is a request to the preview page.
LEMMA WatchAlone ==
    ASSUME OneInFlight, NEW w \in Watchers, watch[w] # NoWatch
    PROVE  /\ \A x \in Watchers \ {w} : watch[x] = NoWatch
           /\ \A r \in Requests : ~Active(r)
           /\ \A c \in Customers : submission[c] = NoSubmission
  <1>1. <<"watch", w>> \in InFlight
    BY DEF InFlight
  <1>2. \A a \in InFlight : a = <<"watch", w>>
    BY <1>1 DEF OneInFlight
  <1> QED BY <1>2 DEF InFlight

\* A handler that goes on or ends, or one that begins when there is none, leaves
\* one at most.
LEMMA StillOne ==
    ASSUME OneInFlight, InFlight' \subseteq InFlight \/ (Quiet /\ \E a : InFlight' \subseteq {a})
    PROVE  OneInFlight'
  BY DEF OneInFlight

\* A request steps that has begun.
LEMMA RequestSteps ==
    ASSUME NEW r \in Requests, RequestStep(r), request \in [Requests -> Request]
    PROVE  Active(r) /\ \A s \in Requests \ {r} : request'[s] = request[s]
  <1>1. request[r] # NoRequest
    BY DEF RequestStep, SaveOrder, ExpireLink, InvalidateLink, SaveLink, LinkConflict, StampItems,
           Announce, RequestFails, At, NoRequest
  <1>2. \A s \in Requests \ {r} : request'[s] = request[s]
    BY DEF RequestStep, SaveOrder, ExpireLink, InvalidateLink, SaveLink, LinkConflict, StampItems,
           Announce, RequestFails, Goto, Finish
  <1> QED BY <1>1, <1>2 DEF Active

\* A request that begins is the only one that moves.
LEMMA RequestBegins ==
    ASSUME NEW r \in Requests, NEW o, RequestStart(r, o), request \in [Requests -> Request]
    PROVE  ~Active(r) /\ \A s \in Requests \ {r} : request'[s] = request[s]
  BY DEF RequestStart, Notify, Confirm, Gift, CancelOrder, Send, Regenerate, Begin, Active

\* A submission steps that has begun.
LEMMA SubmissionSteps ==
    ASSUME NEW c \in Customers, SubmissionStep(c), submission \in [Customers -> Submission]
    PROVE  submission[c] # NoSubmission /\ \A d \in Customers \ {c} : submission'[d] = submission[d]
  <1>1. submission[c] # NoSubmission
    BY DEF SubmissionStep, SaveGalleryItems, SaveSubmissionExpiry, CheckNotSubmitted, RefuseSubmission,
           CreateFromPreview, SavePreviewItems, SaveConverted, SubmissionFails, Doing, NoSubmission
  <1>2. \A d \in Customers \ {c} : submission'[d] = submission[d]
    BY DEF SubmissionStep, SaveGalleryItems, SaveSubmissionExpiry, CheckNotSubmitted, RefuseSubmission,
           CreateFromPreview, SavePreviewItems, SaveConverted, SubmissionFails, Leave
  <1> QED BY <1>1, <1>2

\* Nobody begins while another is in flight, so there is one at most.
LEMMA OneInFlightStep ==
    ASSUME OneAtATime, TypeOK, OneInFlight, [Next]_vars
    PROVE  OneInFlight'
  <1> USE DEF orderVars, linkVars, requestVars, previewVars
  <1>0. /\ request \in [Requests -> Request] /\ visit \in [Visitors -> Visit]
        /\ watch \in [Watchers -> Watch] /\ submission \in [Customers -> Submission]
    BY DEF TypeOK, RequestsOK, LinkTablesOK, PreviewTablesOK, SubmissionsOK
  <1>1. ASSUME NEW r \in Requests, NEW o \in OrderIds, Quiet, RequestStart(r, o),
               UNCHANGED <<visit, watch, submission>>
        PROVE  OneInFlight'
    <2>1. InFlight' \subseteq {<<"request", r>>}
      BY <1>0, <1>1, RequestBegins DEF InFlight, Active, Quiet
    <2> QED BY <1>1, <2>1, StillOne
  <1>2. ASSUME NEW r \in Requests, RequestStep(r), UNCHANGED <<visit, watch, submission>>
        PROVE  OneInFlight'
    <2>1. InFlight' \subseteq InFlight
      BY <1>0, <1>2, RequestSteps DEF InFlight, Active
    <2> QED BY <2>1, StillOne
  <1>3. ASSUME NEW v \in Visitors, NEW l \in LinkIds, Quiet, OpenDeliveryPage(v, l),
               UNCHANGED <<request, watch, submission>>
        PROVE  OneInFlight'
    <2>1. InFlight' \subseteq {<<"visit", v>>}
      BY <1>0, <1>3 DEF InFlight, Active, Quiet, OpenDeliveryPage
    <2> QED BY <1>3, <2>1, StillOne
  <1>4. ASSUME NEW v \in Visitors, VisitStep(v), UNCHANGED <<request, watch, submission>>
        PROVE  OneInFlight'
    <2>1. visit[v] # NoVisit /\ \A u \in Visitors \ {v} : visit'[u] = visit[u]
      BY <1>0, <1>4 DEF VisitStep, SaveLazyExpiry, RecordAccess, RefuseAccess, SetFirstDownload, VisitFails,
                        NoVisit
    <2>2. InFlight' \subseteq InFlight
      BY <1>4, <2>1 DEF InFlight, Active
    <2> QED BY <2>2, StillOne
  <1>5. ASSUME NEW w \in Watchers, NEW p \in PreviewIds, Quiet, OpenPreviewPage(w, p),
               UNCHANGED <<request, visit, submission>>
        PROVE  OneInFlight'
    <2>1. InFlight' \subseteq {<<"watch", w>>}
      BY <1>0, <1>5 DEF InFlight, Active, Quiet, OpenPreviewPage, Hold
    <2> QED BY <1>5, <2>1, StillOne
  <1>6. ASSUME NEW w \in Watchers, WatchStep(w), UNCHANGED <<request, visit, submission>>
        PROVE  OneInFlight'
    <2>1. watch[w] # NoWatch /\ \A x \in Watchers \ {w} : watch'[x] = watch[x]
      BY <1>0, <1>6 DEF WatchStep, SavePreviewPage, WatchFails, NoWatch
    <2>2. InFlight' \subseteq InFlight
      BY <1>6, <2>1 DEF InFlight, Active
    <2> QED BY <2>2, StillOne
  <1>7. ASSUME NEW c \in Customers, Quiet, SubmissionStart(c), UNCHANGED <<request, visit>>
        PROVE  OneInFlight'
    <2>1. /\ \A d \in Customers \ {c} : submission'[d] = submission[d]
          /\ UNCHANGED watch
      BY <1>0, <1>7 DEF SubmissionStart, PlaceFromGallery, SubmitPreview
    <2>2. InFlight' \subseteq {<<"submission", c>>}
      BY <1>7, <2>1 DEF InFlight, Active, Quiet
    <2> QED BY <1>7, <2>2, StillOne
  <1>8. ASSUME NEW c \in Customers, SubmissionStep(c), UNCHANGED <<request, visit>>
        PROVE  OneInFlight'
    <2>1. UNCHANGED watch
      BY <1>8 DEF SubmissionStep, SaveGalleryItems, SaveSubmissionExpiry, CheckNotSubmitted,
                  RefuseSubmission, CreateFromPreview, SavePreviewItems, SaveConverted, SubmissionFails
    <2>2. InFlight' \subseteq InFlight
      BY <1>0, <1>8, <2>1, SubmissionSteps DEF InFlight, Active
    <2> QED BY <2>2, StillOne
  <1>9. CASE UNCHANGED <<request, visit, watch, submission>>
    BY <1>9 DEF OneInFlight, InFlight, Active
  <1>10. CASE AdminCommand
    <2>1. ASSUME NEW r \in Requests, RequestStep(r) PROVE UNCHANGED visit
      BY <2>1 DEF RequestStep, SaveOrder, ExpireLink, InvalidateLink, SaveLink, LinkConflict,
                  StampItems, Announce, RequestFails
    <2>2. ASSUME NEW r \in Requests, NEW o \in OrderIds, RequestStart(r, o) PROVE UNCHANGED visit
      BY <2>2 DEF RequestStart, Notify, Confirm, Gift, CancelOrder, Send, Regenerate
    <2> QED BY <1>1, <1>2, <1>10, <2>1, <2>2 DEF AdminCommand, Admitted
  <1>11. CASE DownloadPage
    BY <1>3, <1>4, <1>9, <1>11 DEF DownloadPage, Admitted, LinkElapses
  <1>12. CASE PreviewPage
    BY <1>5, <1>6, <1>9, <1>12 DEF PreviewPage, Admitted, CreatePreviewLink, PreviewElapses
  <1>13. CASE Placement
    BY <1>7, <1>8, <1>13 DEF Placement, Admitted
  <1> QED BY <1>9, <1>10, <1>11, <1>12, <1>13 DEF Next, vars

-----------------------------------------------------------------------------
(* What the handler in flight knows.                                       *)

\* Orders that keep their preview link, and none more, keep to one order for
\* each link.
LEMMA SameOrdersOfPreviews ==
    ASSUME OneOrderPerPreview,
           \A o \in DOMAIN orders' : o \in DOMAIN orders /\ orders'[o].preview = orders[o].preview
    PROVE  OneOrderPerPreview'
  BY DEF OneOrderPerPreview

\* Nor does a new order under a link that has none break it.
LEMMA OrderOfNewPreview ==
    ASSUME OneOrderPerPreview, NEW o, NEW p, o \notin DOMAIN orders, Store(o, NewOrder(p)),
           p = NoPreview \/ ~Submitted(p)
    PROVE  OneOrderPerPreview'
  <1>1. /\ DOMAIN orders' = DOMAIN orders \cup {o}
        /\ orders'[o].preview = p
        /\ \A x \in DOMAIN orders : orders'[x] = orders[x]
    BY DEF Store, Upsert, NewOrder
  <1> QED BY <1>1 DEF OneOrderPerPreview, Submitted

\* What the commands that change only the entity leave of its delivery.
LEMMA UpdatesKeep ==
    ASSUME NEW row \in OrderRow, NEW entity, Updates(row, entity)
    PROVE  entity.deliveredAt = row.deliveredAt
  BY EntityKeeps DEF Updates

\* A command that begins knows the row as it is.
LEMMA RequestStartCurrent ==
    ASSUME TypeOK, NEW r \in Requests, NEW o \in OrderIds, RequestStart(r, o)
    PROVE  RequestCurrent(r)' /\ UNCHANGED orderVars
  <1> DEFINE row == orders[o]
  <1>1. UNCHANGED orderVars
    BY DEF RequestStart, Notify, Confirm, Gift, CancelOrder, Send, Regenerate
  <1>2. UNCHANGED orders
    BY <1>1 DEF orderVars
  <1>3. \A e, command, step : Begin(r, o, command, step, e) =>
            request'[r] = [step |-> step, command |-> command, order |-> o, entity |-> e]
    BY DEF Begin, TypeOK, RequestsOK
  <1>4. \/ \E e : Updates(row, e) /\ Begin(r, o, "update", "save", e)
        \/ Begin(r, o, "send", "invalidate", row)
        \/ row.status = "delivered" /\ Begin(r, o, "regenerate", "expire", row)
    BY DEF RequestStart, Notify, Confirm, Gift, CancelOrder, Send, Regenerate, Updates
  <1>5. ASSUME NEW e, Updates(row, e), Begin(r, o, "update", "save", e)
        PROVE  RequestCurrent(r)'
    <2>1. request'[r] = [step |-> "save", command |-> "update", order |-> o, entity |-> e]
      BY <1>3, <1>5
    <2>2. Updates(orders'[o], e)
      BY <1>2, <1>5
    <2> QED BY <2>1, <2>2 DEF RequestCurrent
  <1>6. ASSUME Begin(r, o, "send", "invalidate", row)
        PROVE  RequestCurrent(r)'
    <2>1. request'[r] = [step |-> "invalidate", command |-> "send", order |-> o, entity |-> row]
      BY <1>3, <1>6
    <2> QED BY <1>2, <2>1 DEF RequestCurrent
  <1>7. ASSUME row.status = "delivered", Begin(r, o, "regenerate", "expire", row)
        PROVE  RequestCurrent(r)'
    <2>1. request'[r] = [step |-> "expire", command |-> "regenerate", order |-> o, entity |-> row]
      BY <1>3, <1>7
    <2> QED BY <1>7, <2>1 DEF RequestCurrent
  <1> QED BY <1>1, <1>4, <1>5, <1>6, <1>7

\* A command in flight that is alone writes what it should: its save keeps an
\* order delivered only with stamped items.
LEMMA RequestStepCurrent ==
    ASSUME Inductive, SerialInductive, NEW r \in Requests, RequestStep(r)
    PROVE  /\ Active(r)' => RequestCurrent(r)'
           /\ OneOrderPerPreview'
           /\ DeliveredItemsStamped'
  <1> USE DEF orderVars
  <1>1. /\ request \in [Requests -> Request]
        /\ Active(r) /\ EntityOK(r) /\ RequestCurrent(r)
        /\ OneOrderPerPreview /\ DeliveredItemsStamped
    BY RequestSteps DEF Inductive, TypeOK, RequestsOK, EntitiesOK, SerialInductive
  <1>2. request[r] \in [step : Step, command : Command, order : OrderIds, entity : OrderRow]
    BY <1>1 DEF Active, Request
  <1>3. Finish(r) => ~Active(r)'
    BY <1>1 DEF Finish, Active
  <1>4. UNCHANGED orderVars => OneOrderPerPreview' /\ DeliveredItemsStamped'
    BY <1>1 DEF OneOrderPerPreview, DeliveredItemsStamped
  <1>5. ASSUME NEW t \in Step, Goto(r, t), UNCHANGED orderVars,
               request[r].step \in {"expire", "invalidate", "insert"}, t # "save"
        PROVE  RequestCurrent(r)'
    <2>1. /\ request'[r].step = t /\ request'[r].command = request[r].command
          /\ request'[r].order = request[r].order /\ request'[r].entity = request[r].entity
      BY <1>1, <1>2, <1>5 DEF Goto
    <2>2. request[r].command # "update" /\ (request[r].command = "send" => request[r].step # "expire")
      BY <1>1, <1>5 DEF EntityOK
    <2> QED BY <1>1, <1>5, <2>1, <2>2 DEF RequestCurrent
  <1>6. CASE SaveOrder(r)
    <2> DEFINE o == request[r].order
               row == request[r].entity
    <2>1. /\ o \in DOMAIN orders /\ orders[o] \in OrderRow
          /\ DOMAIN orders' = DOMAIN orders
          /\ \A x \in DOMAIN orders : orders'[x] = IF x = o THEN row ELSE orders[x]
          /\ row.preview = orders[o].preview
          /\ UNCHANGED items
      BY <1>1, <1>6 DEF EntityOK, SaveOrder, SaveEntity, Store, Upsert, Inductive, TypeOK, OrderTablesOK
    <2>2. OneOrderPerPreview'
      BY <1>1, <2>1, SameOrdersOfPreviews
    <2>3. row.deliveredAt => orders[o].deliveredAt \/ items[o] # "saved"
      <3>1. CASE request[r].command = "update"
        BY <1>1, <2>1, <3>1, UpdatesKeep DEF RequestCurrent
      <3>2. CASE request[r].command = "send"
        BY <1>1, <1>6, <3>2 DEF RequestCurrent, SaveOrder, At
      <3>3. request[r].command # "regenerate"
        BY <1>1, <1>6 DEF EntityOK, SaveOrder, At
      <3> QED BY <1>2, <3>1, <3>2, <3>3 DEF Command
    <2>4. DeliveredItemsStamped'
      BY <1>1, <2>1, <2>3 DEF DeliveredItemsStamped
    <2>5. Active(r)' => RequestCurrent(r)'
      <3>1. CASE Finish(r)
        BY <1>3, <3>1
      <3>2. CASE request[r].command = "send" /\ Goto(r, "announce")
        <4>1. request'[r].step = "announce" /\ request'[r].command = "send"
          BY <1>1, <1>2, <3>2 DEF Goto
        <4> QED BY <4>1 DEF RequestCurrent
      <3> QED BY <1>6, <3>1, <3>2 DEF SaveOrder
    <2> QED BY <2>2, <2>4, <2>5
  <1>7. CASE StampItems(r)
    <2> DEFINE o == request[r].order
    <2>1. request[r].command = "send" /\ CanSend(request[r].entity) /\ request[r].entity = orders[o]
      BY <1>1, <1>2, <1>7 DEF EntityOK, RequestCurrent, StampItems, At, Command
    <2>2. /\ items' = [items EXCEPT ![o] = IF @ = "none" THEN "none" ELSE "stamped"]
          /\ items \in [OrderIds -> ItemsState]
          /\ UNCHANGED orders
      BY <1>7 DEF StampItems, UpdateItemsDeliveredAs, Inductive, TypeOK, OrderTablesOK
    <2>3. items'[o] # "saved" /\ \A x \in OrderIds \ {o} : items'[x] = items[x]
      BY <1>2, <2>2
    <2>4. /\ request'[r].step = "save" /\ request'[r].command = "send"
          /\ request'[r].order = o /\ request'[r].entity = MarkSent(orders[o])
      BY <1>1, <1>2, <1>7, <2>1 DEF StampItems
    <2>5. RequestCurrent(r)'
      BY <2>1, <2>2, <2>3, <2>4 DEF RequestCurrent
    <2>6. OneOrderPerPreview'
      BY <1>1, <2>2 DEF OneOrderPerPreview
    <2>7. DeliveredItemsStamped'
      BY <1>1, <2>2, <2>3 DEF DeliveredItemsStamped, Inductive, TypeOK, OrderTablesOK
    <2> QED BY <2>5, <2>6, <2>7
  <1>8. CASE ExpireLink(r)
    BY <1>4, <1>5, <1>8 DEF ExpireLink, At, Step
  <1>9. CASE InvalidateLink(r)
    BY <1>4, <1>5, <1>9 DEF InvalidateLink, At, Step
  <1>10. ASSUME NEW l \in LinkIds, SaveLink(r, l)
         PROVE  /\ Active(r)' => RequestCurrent(r)'
                /\ OneOrderPerPreview'
                /\ DeliveredItemsStamped'
    BY <1>3, <1>4, <1>5, <1>10 DEF SaveLink, At, Step
  <1>11. CASE LinkConflict(r)
    BY <1>4, <1>5, <1>11 DEF LinkConflict, At, Step
  <1>12. CASE Announce(r) \/ RequestFails(r)
    BY <1>3, <1>4, <1>12 DEF Announce, RequestFails
  <1> QED BY <1>6, <1>7, <1>8, <1>9, <1>10, <1>11, <1>12 DEF RequestStep

\* A customer who begins reads links and orders as they are.
LEMMA SubmissionStartCurrent ==
    ASSUME TypeOK, OneOrderPerPreview, DeliveredItemsStamped, NEW c \in Customers, SubmissionStart(c)
    PROVE  /\ SubmissionCurrent(c)'
           /\ OneOrderPerPreview'
           /\ DeliveredItemsStamped'
  <1> USE DEF orderVars, previewVars
  <1>1. submission \in [Customers -> Submission]
    BY DEF TypeOK, SubmissionsOK
  <1>2. ASSUME NEW o \in OrderIds, PlaceFromGallery(c, o)
        PROVE  SubmissionCurrent(c)' /\ OneOrderPerPreview' /\ DeliveredItemsStamped'
    <2>1. /\ DOMAIN orders' = DOMAIN orders \cup {o}
          /\ ~orders'[o].deliveredAt
          /\ \A x \in DOMAIN orders : orders'[x] = orders[x]
      BY <1>2 DEF PlaceFromGallery, Store, Upsert, NewOrder
    <2>2. submission'[c] = [step |-> "gallery_items", order |-> o]
      BY <1>1, <1>2 DEF PlaceFromGallery
    <2>3. SubmissionCurrent(c)'
      BY <2>1, <2>2 DEF SubmissionCurrent
    <2>4. DeliveredItemsStamped'
      BY <1>2, <2>1 DEF PlaceFromGallery, DeliveredItemsStamped
    <2>5. OneOrderPerPreview'
      BY <1>2, OrderOfNewPreview DEF PlaceFromGallery
    <2> QED BY <2>3, <2>4, <2>5
  <1>3. ASSUME NEW p \in PreviewIds, SubmitPreview(c, p)
        PROVE  SubmissionCurrent(c)' /\ OneOrderPerPreview' /\ DeliveredItemsStamped'
    <2>1. UNCHANGED <<orders, items, previews>> /\ p \in DOMAIN previews
      BY <1>3 DEF SubmitPreview
    <2>2. \/ /\ PreviewExpired(p, previews[p])
             /\ submission'[c] = [step |-> "expire", preview |-> p,
                                  seen |-> [previews[p] EXCEPT !.status = "expired"]]
          \/ submission'[c] = [step |-> "check", preview |-> p, seen |-> previews[p]]
      BY <1>1, <1>3 DEF SubmitPreview
    <2>3. SubmissionCurrent(c)'
      BY <2>1, <2>2 DEF SubmissionCurrent, PreviewExpired
    <2> QED BY <2>1, <2>3 DEF OneOrderPerPreview, DeliveredItemsStamped
  <1> QED BY <1>2, <1>3 DEF SubmissionStart

\* A customer alone in the shop places the one order of a link, and items are
\* saved before anybody can deliver them.
LEMMA SubmissionStepCurrent ==
    ASSUME TypeOK, OneOrderPerPreview, DeliveredItemsStamped, NEW c \in Customers,
           SubmissionStep(c), SubmissionCurrent(c)
    PROVE  /\ SubmissionCurrent(c)'
           /\ OneOrderPerPreview'
           /\ DeliveredItemsStamped'
  <1> USE DEF orderVars, previewVars
  <1>1. submission \in [Customers -> Submission]
    BY DEF TypeOK, SubmissionsOK
  <1>2. Leave(c) => SubmissionCurrent(c)'
    BY <1>1 DEF Leave, NoSubmission, SubmissionCurrent
  <1>3. UNCHANGED <<orders, items>> => OneOrderPerPreview' /\ DeliveredItemsStamped'
    BY DEF OneOrderPerPreview, DeliveredItemsStamped
  <1>4. ASSUME NEW o \in DOMAIN orders, ~orders[o].deliveredAt, SavePhotos(o), UNCHANGED orders
        PROVE  OneOrderPerPreview' /\ DeliveredItemsStamped'
    BY <1>4 DEF SavePhotos, OneOrderPerPreview, DeliveredItemsStamped, TypeOK, OrderTablesOK
  <1>5. CASE SaveGalleryItems(c)
    BY <1>2, <1>4, <1>5 DEF SaveGalleryItems, Doing, SubmissionCurrent
  <1>6. CASE SaveSubmissionExpiry(c) \/ SaveConverted(c) \/ RefuseSubmission(c) \/ SubmissionFails(c)
    BY <1>2, <1>3, <1>6 DEF SaveSubmissionExpiry, SaveConverted, RefuseSubmission, SubmissionFails
  <1>7. CASE CheckNotSubmitted(c)
    <2>1. /\ submission[c] \in [step : {"expire", "check", "create"}, preview : PreviewIds, seen : PreviewRow]
          /\ submission'[c] = [submission[c] EXCEPT !.step = "create"]
      BY <1>1, <1>7 DEF CheckNotSubmitted, Doing, Submission, NoSubmission
    <2>2. submission'[c].step = "create" /\ submission'[c].preview = submission[c].preview
      BY <2>1
    <2>3. ~Submitted(submission[c].preview)'
      BY <1>7, <2>2 DEF CheckNotSubmitted, Submitted
    <2>4. SubmissionCurrent(c)'
      BY <2>2, <2>3 DEF SubmissionCurrent, Submitted
    <2> QED BY <1>3, <1>7, <2>4 DEF CheckNotSubmitted
  <1>8. ASSUME NEW o \in OrderIds, CreateFromPreview(c, o)
        PROVE  SubmissionCurrent(c)' /\ OneOrderPerPreview' /\ DeliveredItemsStamped'
    <2>1. PICK p : p = submission[c].preview
      OBVIOUS
    <2>2. /\ Store(o, NewOrder(p)) /\ o \notin DOMAIN orders /\ ~Submitted(p)
          /\ submission'[c].step = "items" /\ submission'[c].order = o
      BY <1>1, <1>8, <2>1 DEF CreateFromPreview, Doing, SubmissionCurrent
    <2>3. /\ DOMAIN orders' = DOMAIN orders \cup {o}
          /\ ~orders'[o].deliveredAt
          /\ \A x \in DOMAIN orders : orders'[x] = orders[x]
      BY <2>2 DEF Store, Upsert, NewOrder
    <2>4. SubmissionCurrent(c)'
      BY <2>2, <2>3 DEF SubmissionCurrent
    <2>5. OneOrderPerPreview'
      BY <2>2, OrderOfNewPreview
    <2>6. DeliveredItemsStamped'
      BY <1>8, <2>3 DEF CreateFromPreview, DeliveredItemsStamped
    <2> QED BY <2>4, <2>5, <2>6
  <1>9. CASE SavePreviewItems(c)
    <2>1. submission[c] \in [step : {"items", "convert"}, order : OrderIds,
                             preview : PreviewIds, seen : PreviewRow]
      BY <1>1, <1>9 DEF SavePreviewItems, Doing, Submission, NoSubmission
    <2>2. OneOrderPerPreview' /\ DeliveredItemsStamped'
      BY <1>4, <1>9 DEF SavePreviewItems, Doing, SubmissionCurrent
    <2>3. CASE Leave(c)
      BY <1>2, <2>2, <2>3
    <2>4. CASE submission' = [submission EXCEPT ![c].step = "convert", ![c].seen.status = "converted"]
      <3>1. submission'[c].step = "convert" /\ submission'[c].seen.status = "converted"
        BY <1>1, <2>1, <2>4 DEF PreviewRow
      <3> QED BY <2>2, <3>1 DEF SubmissionCurrent
    <2> QED BY <1>9, <2>3, <2>4 DEF SavePreviewItems
  <1> QED BY <1>5, <1>6, <1>7, <1>8, <1>9 DEF SubmissionStep

\* A page request that begins knows whether the link was converted.
LEMMA WatchStartCurrent ==
    ASSUME TypeOK, NEW w \in Watchers, NEW p \in PreviewIds, OpenPreviewPage(w, p)
    PROVE  WatchCurrent(w)'
  <1>1. /\ UNCHANGED previews /\ p \in DOMAIN previews
        /\ previews[p] \in PreviewRow /\ watch \in [Watchers -> Watch]
    BY DEF OpenPreviewPage, TypeOK, PreviewTablesOK
  <1>2. \/ /\ PreviewExpired(p, previews[p])
           /\ Hold(w, p, [previews[p] EXCEPT !.status = "expired"])
        \/ Hold(w, p, [previews[p] EXCEPT !.viewed = TRUE])
    BY DEF OpenPreviewPage
  <1>3. [previews[p] EXCEPT !.viewed = TRUE].status = previews[p].status
    BY <1>1 DEF PreviewRow
  <1>4. ASSUME NEW e, Hold(w, p, e), previews[p].status = "converted" => e.status = "converted"
        PROVE  WatchCurrent(w)'
    <2>1. watch'[w] = [step |-> "save", preview |-> p, seen |-> e]
      BY <1>1, <1>4 DEF Hold
    <2> QED BY <1>1, <1>4, <2>1 DEF WatchCurrent
  <1> QED BY <1>2, <1>3, <1>4 DEF PreviewExpired

\* At the beginning nothing is in flight.
LEMMA SerialInit == Init => SerialInductive
  <1> SUFFICES ASSUME Init PROVE SerialInductive
    OBVIOUS
  <1>1. /\ DOMAIN orders = {}
        /\ \A r \in Requests : request[r] = NoRequest
        /\ \A v \in Visitors : visit[v] = NoVisit
        /\ \A w \in Watchers : watch[w] = NoWatch
        /\ \A c \in Customers : submission[c] = NoSubmission
    BY DEF Init, OrderInit, LinkInit, RequestInit, PreviewInit, SubmissionInit, NoRows
  <1>2. OneInFlight
    BY <1>1 DEF OneInFlight, InFlight, Active
  <1>3. \A c \in Customers : SubmissionCurrent(c)
    BY <1>1 DEF SubmissionCurrent, NoSubmission
  <1> QED BY <1>1, <1>2, <1>3 DEF SerialInductive, Active, WatchCurrent, OneOrderPerPreview,
                               DeliveredItemsStamped

\* Every step of requests that do not overlap keeps what is in memory current.
LEMMA SerialNext ==
    ASSUME OneAtATime, Inductive, SerialInductive, [Next]_vars
    PROVE  SerialInductive'
  <1> USE DEF orderVars, linkVars, requestVars, previewVars
  <1>1. /\ OneInFlight' /\ TypeOK /\ OneInFlight
        /\ OneOrderPerPreview /\ DeliveredItemsStamped
    BY OneInFlightStep DEF Inductive, SerialInductive
  <1>2. /\ request \in [Requests -> Request] /\ watch \in [Watchers -> Watch]
        /\ submission \in [Customers -> Submission]
    BY <1>1 DEF TypeOK, RequestsOK, PreviewTablesOK, SubmissionsOK
  <1> DEFINE Goal == /\ \A r \in Requests : Active(r)' => RequestCurrent(r)'
                     /\ \A w \in Watchers : WatchCurrent(w)'
                     /\ \A c \in Customers : SubmissionCurrent(c)'
                     /\ OneOrderPerPreview'
                     /\ DeliveredItemsStamped'
  <1>3. \A w \in Watchers : watch'[w] = NoWatch => WatchCurrent(w)'
    BY DEF WatchCurrent
  <1>4. \A c \in Customers : submission'[c] = NoSubmission => SubmissionCurrent(c)'
    BY DEF SubmissionCurrent, NoSubmission
  <1>5. ASSUME UNCHANGED <<orderVars, request, previews, watch, submission>>
        PROVE  Goal
    BY <1>5 DEF SerialInductive, Active, RequestCurrent, WatchCurrent, SubmissionCurrent, Submitted,
                OneOrderPerPreview, DeliveredItemsStamped
  <1>6. ASSUME NEW r \in Requests, NEW o \in OrderIds, Quiet, RequestStart(r, o),
               UNCHANGED <<previewVars, submission>>
        PROVE  Goal
    <2>1. \A s \in Requests \ {r} : ~Active(s)'
      BY <1>2, <1>6, RequestBegins DEF Quiet, Active
    <2>2. RequestCurrent(r)' /\ OneOrderPerPreview' /\ DeliveredItemsStamped'
      BY <1>1, <1>6, RequestStartCurrent DEF OneOrderPerPreview, DeliveredItemsStamped
    <2> QED BY <1>3, <1>4, <1>6, <2>1, <2>2 DEF Quiet
  <1>7. ASSUME NEW r \in Requests, RequestStep(r), UNCHANGED <<previewVars, submission>>
        PROVE  Goal
    <2>1. Active(r) /\ \A s \in Requests \ {r} : request'[s] = request[s]
      BY <1>2, <1>7, RequestSteps
    <2>2. /\ \A s \in Requests \ {r} : ~Active(s)'
          /\ \A w \in Watchers : watch'[w] = NoWatch
          /\ \A c \in Customers : submission'[c] = NoSubmission
      BY <1>1, <1>7, <2>1, RequestAlone DEF Active
    <2> QED BY <1>3, <1>4, <1>7, <2>2, RequestStepCurrent
  <1>8. ASSUME NEW w \in Watchers, NEW p \in PreviewIds, Quiet, OpenPreviewPage(w, p),
               UNCHANGED <<orderVars, request, submission>>
        PROVE  Goal
    <2>1. \A x \in Watchers \ {w} : watch'[x] = NoWatch
      BY <1>2, <1>8 DEF OpenPreviewPage, Hold, Quiet
    <2> QED BY <1>1, <1>3, <1>4, <1>8, <2>1, WatchStartCurrent
            DEF Quiet, Active, OneOrderPerPreview, DeliveredItemsStamped
  <1>9. ASSUME NEW w \in Watchers, WatchStep(w), UNCHANGED <<orderVars, request, submission>>
        PROVE  Goal
    <2>1. /\ watch[w] # NoWatch /\ watch'[w] = NoWatch
          /\ \A x \in Watchers \ {w} : watch'[x] = watch[x]
      BY <1>2, <1>9 DEF WatchStep, SavePreviewPage, WatchFails, NoWatch
    <2>2. /\ \A r \in Requests : ~Active(r)'
          /\ \A x \in Watchers : watch'[x] = NoWatch
          /\ \A c \in Customers : submission'[c] = NoSubmission
      BY <1>1, <1>9, <2>1, WatchAlone DEF Active
    <2> QED BY <1>1, <1>3, <1>4, <1>9, <2>2 DEF OneOrderPerPreview, DeliveredItemsStamped
  <1>10. ASSUME NEW p \in PreviewIds, CreatePreviewLink(p), UNCHANGED <<orderVars, request, submission>>
         PROVE  Goal
    <2>1. /\ DOMAIN previews' = DOMAIN previews \cup {p} /\ p \notin DOMAIN previews
          /\ \A x \in DOMAIN previews : previews'[x] = previews[x]
          /\ UNCHANGED watch
      BY <1>10 DEF CreatePreviewLink, StorePreview, Upsert
    <2>2. \A w \in Watchers : WatchCurrent(w)'
      BY <2>1 DEF WatchCurrent, SerialInductive
    <2>3. \A c \in Customers : SubmissionCurrent(c)'
      BY <1>10, <2>1 DEF SubmissionCurrent, Submitted, SerialInductive
    <2> QED BY <1>10, <2>2, <2>3 DEF SerialInductive, Active, RequestCurrent, OneOrderPerPreview,
                                  DeliveredItemsStamped
  <1>11. ASSUME NEW c \in Customers, Quiet, SubmissionStart(c), UNCHANGED request
         PROVE  Goal
    <2>1. /\ \A d \in Customers \ {c} : submission'[d] = NoSubmission
          /\ UNCHANGED watch
      BY <1>2, <1>11 DEF SubmissionStart, PlaceFromGallery, SubmitPreview, Quiet
    <2> QED BY <1>1, <1>3, <1>4, <1>11, <2>1, SubmissionStartCurrent DEF Quiet, Active
  <1>12. ASSUME NEW c \in Customers, SubmissionStep(c), UNCHANGED request
         PROVE  Goal
    <2>1. UNCHANGED watch
      BY <1>12 DEF SubmissionStep, SaveGalleryItems, SaveSubmissionExpiry, CheckNotSubmitted,
                  RefuseSubmission, CreateFromPreview, SavePreviewItems, SaveConverted, SubmissionFails
    <2>2. submission[c] # NoSubmission /\ \A d \in Customers \ {c} : submission'[d] = submission[d]
      BY <1>2, <1>12, SubmissionSteps
    <2>3. /\ \A r \in Requests : ~Active(r)'
          /\ \A w \in Watchers : watch'[w] = NoWatch
          /\ \A d \in Customers \ {c} : submission'[d] = NoSubmission
      BY <1>1, <1>12, <2>1, <2>2, SubmissionAlone DEF Active
    <2>4. SubmissionCurrent(c)' /\ OneOrderPerPreview' /\ DeliveredItemsStamped'
      BY <1>1, <1>12, SubmissionStepCurrent DEF SerialInductive
    <2> QED BY <1>3, <1>4, <2>3, <2>4
  <1>13. Goal
    <2>1. CASE AdminCommand
      BY <1>6, <1>7, <2>1 DEF AdminCommand, Admitted
    <2>2. CASE DownloadPage \/ UNCHANGED vars
      BY <1>5, <2>2 DEF DownloadPage, vars
    <2>3. CASE PreviewPage
      BY <1>5, <1>8, <1>9, <1>10, <2>3 DEF PreviewPage, Admitted, PreviewElapses
    <2>4. CASE Placement
      BY <1>11, <1>12, <2>4 DEF Placement, Admitted
    <2> QED BY <2>1, <2>2, <2>3, <2>4 DEF Next
  <1> QED BY <1>1, <1>13 DEF SerialInductive, Active, WatchCurrent

-----------------------------------------------------------------------------
(* The theorems.                                                           *)

\* When requests do not overlap, what every handler holds is current, in every
\* reachable state and wherever a handler dies.
THEOREM SerialInvariant == ASSUME OneAtATime PROVE Spec => [](Inductive /\ SerialInductive)
  <1>1. Init => SerialInductive
    BY SerialInit
  <1>2. Inductive /\ SerialInductive /\ [Next]_vars => SerialInductive'
    BY SerialNext
  <1> QED BY <1>1, <1>2, InductiveInvariant, PTL DEF Spec

\* CreateOrderFromPreviewHandler, when submissions do not overlap, places one
\* order of a preview link at most, though the process may die between the
\* order and the converted link.
THEOREM PreviewsOrderedOnce == ASSUME OneAtATime PROVE Spec => []OneOrderPerPreview
  <1>1. SerialInductive => OneOrderPerPreview
    BY DEF SerialInductive
  <1> QED BY <1>1, SerialInvariant, PTL

\* SendDeliveryHandler, when no other handler runs beside it, delivers no order
\* with an item that does not say in which version.
THEOREM DeliveriesStamped == ASSUME OneAtATime PROVE Spec => []DeliveredItemsStamped
  <1>1. SerialInductive => DeliveredItemsStamped
    BY DEF SerialInductive
  <1> QED BY <1>1, SerialInvariant, PTL

\* A preview page or a submission that is alone never takes the conversion of a
\* link back.
THEOREM ConversionsAreFinal == ASSUME OneAtATime PROVE Spec => ConvertedIsFinal
  <1> DEFINE Stays == \A p \in DOMAIN previews :
                        previews[p].status = "converted" => previews'[p].status = "converted"
  <1> USE DEF orderVars, linkVars, requestVars, previewVars
  <1>1. ASSUME Inductive, SerialInductive, [Next]_vars PROVE [Stays]_previews
    <2>1. ASSUME NEW p, NEW row, StorePreview(p, row),
                 p \in DOMAIN previews /\ previews[p].status = "converted" => row.status = "converted"
          PROVE  Stays
      BY <2>1 DEF StorePreview, Upsert
    <2>2. ASSUME NEW w \in Watchers, SavePreviewPage(w) PROVE Stays
      BY <1>1, <2>1, <2>2 DEF SavePreviewPage, SerialInductive, WatchCurrent, NoWatch
    <2>3. ASSUME NEW c \in Customers, SaveSubmissionExpiry(c) \/ SaveConverted(c) PROVE Stays
      BY <1>1, <2>1, <2>3 DEF SaveSubmissionExpiry, SaveConverted, Doing, SerialInductive, SubmissionCurrent
    <2>4. ASSUME NEW p \in PreviewIds, CreatePreviewLink(p) PROVE Stays
      BY <2>1, <2>4 DEF CreatePreviewLink
    <2>5. CASE UNCHANGED previews
      BY <2>5
    <2> QED BY <1>1, <2>2, <2>3, <2>4, <2>5 DEF Next, AdminCommand, DownloadPage, PreviewPage, Placement,
          vars, PreviewElapses, OpenPreviewPage, WatchStep, WatchFails, SubmissionStart, PlaceFromGallery,
          SubmitPreview, SubmissionStep, SaveGalleryItems, CheckNotSubmitted, RefuseSubmission,
          CreateFromPreview, SavePreviewItems, SubmissionFails
  <1> QED BY <1>1, SerialInvariant, PTL DEF Spec, ConvertedIsFinal

-----------------------------------------------------------------------------
(* The refinement of OrderLifecycle.                                       *)

\* The stage of an order is the stage of its row.
RowStage(row) ==
    CASE Open(row) -> "open"
      [] row.status = "gifted" /\ row.deliveredAt -> "gift_delivered"
      [] OTHER -> row.status

\* The abstract state that KeepsLifecycle sees.
Stages == [o \in OrderIds |-> StageOf(o)]
Linked == {o \in OrderIds : OrderIdTaken(o)}

\* An order stands where its row says.
LEMMA StageOfRow == \A o \in DOMAIN orders : StageOf(o) = RowStage(orders[o])
  BY DEF StageOf, RowStage

\* Where the guards of the commands find an order, and where they take it.
LEMMA StagesOfTransitions ==
    ASSUME NEW row \in CoherentRows
    PROVE  /\ CanNotify(row) => RowStage(row) = "open" /\ RowStage(NotifyPaymentInfo(row)) = "open"
           /\ CanConfirm(row) => RowStage(row) = "open" /\ RowStage(ConfirmPayment(row)) = "paid"
           /\ CanGift(row) => RowStage(row) = "open" /\ RowStage(MarkAsGift(row)) = "gifted"
           /\ CanCancel(row) => /\ RowStage(row) \in {"open", "paid", "gifted", "gift_delivered"}
                                /\ RowStage(Cancel(row)) = "cancelled"
           /\ CanSend(row) => \/ RowStage(row) = "paid" /\ RowStage(MarkSent(row)) = "delivered"
                              \/ RowStage(row) = "gifted" /\ RowStage(MarkSent(row)) = "gift_delivered"
  <1>1. row \in OrderRow
    BY DEF CoherentRows
  <1>2. CanNotify(row) => RowStage(row) = "open" /\ RowStage(NotifyPaymentInfo(row)) = "open"
    BY <1>1, EntityKeeps DEF CanNotify, RowStage, Open
  <1>3. CanConfirm(row) => RowStage(row) = "open" /\ RowStage(ConfirmPayment(row)) = "paid"
    BY <1>1, EntityKeeps DEF CanConfirm, RowStage, Open
  <1>4. CanGift(row) => RowStage(row) = "open" /\ RowStage(MarkAsGift(row)) = "gifted"
    <2>1. CanGift(row) => ~row.deliveredAt
      BY DEF CanGift, Open, CoherentRows
    <2>2. CanGift(row) => MarkAsGift(row).status = "gifted" /\ ~MarkAsGift(row).deliveredAt
      BY <1>1, <2>1, EntityKeeps
    <2> QED BY <2>2 DEF CanGift, RowStage, Open
  <1>5. CanCancel(row) => /\ RowStage(row) \in {"open", "paid", "gifted", "gift_delivered"}
                          /\ RowStage(Cancel(row)) = "cancelled"
    BY <1>1, EntityKeeps DEF CanCancel, RowStage, Open
  <1>6. CanSend(row) => \/ RowStage(row) = "paid" /\ RowStage(MarkSent(row)) = "delivered"
                        \/ RowStage(row) = "gifted" /\ RowStage(MarkSent(row)) = "gift_delivered"
    <2>1. CASE IsSale(row)
      <3>1. MarkSent(row).status = "delivered"
        BY <1>1, <2>1 DEF MarkSent, OrderRow
      <3> QED BY <2>1, <3>1 DEF RowStage, IsSale, Open
    <2>2. CASE ~IsSale(row) /\ CanSend(row)
      <3>1. MarkSent(row).status = row.status
        BY <1>1, <2>2 DEF MarkSent, OrderRow
      <3>2. MarkSent(row).deliveredAt
        BY <1>1, <2>2 DEF MarkSent, OrderRow
      <3> QED BY <2>2, <3>1, <3>2 DEF RowStage, IsSale, Open, CanSend
    <2> QED BY <2>1, <2>2
  <1> QED BY <1>2, <1>3, <1>4, <1>5, <1>6

\* Storing a row moves its order, and no other, to the stage of the row.
LEMMA StoreMoves ==
    ASSUME NEW o \in OrderIds, NEW row, Store(o, row)
    PROVE  Stages' = [Stages EXCEPT ![o] = RowStage(row)]
  <1>1. /\ DOMAIN orders' = DOMAIN orders \cup {o}
        /\ orders'[o] = row
        /\ \A x \in DOMAIN orders \ {o} : orders'[x] = orders[x]
    BY DEF Store, Upsert
  <1>2. StageOf(o)' = RowStage(row)
    BY <1>1 DEF StageOf, RowStage
  <1>3. \A x \in OrderIds \ {o} : StageOf(x)' = StageOf(x)
    BY <1>1 DEF StageOf
  <1>4. \A x \in OrderIds : Stages'[x] = IF x = o THEN RowStage(row) ELSE StageOf(x)
    BY <1>2, <1>3 DEF Stages
  <1> QED BY <1>4 DEF Stages

\* Links that stay, of the orders they are of, stay linked.
LEMMA LinkedSame ==
    ASSUME DOMAIN links' = DOMAIN links, \A l \in DOMAIN links : links'[l].order = links[l].order
    PROVE  UNCHANGED Linked
  BY DEF Linked, OrderIdTaken

\* The insert of a link links its order, and no other.
LEMMA InsertLinks ==
    ASSUME NEW l \in LinkIds, NEW o \in OrderIds, InsertLink(l, o)
    PROVE  Linked' = Linked \cup {o}
  <1>1. /\ DOMAIN links' = DOMAIN links \cup {l}
        /\ links'[l].order = o
        /\ \A x \in DOMAIN links : links'[x].order = links[x].order
    BY DEF InsertLink, Upsert, NewLink
  <1>2. \A x \in OrderIds : OrderIdTaken(x)' <=> OrderIdTaken(x) \/ x = o
    BY <1>1 DEF OrderIdTaken
  <1> QED BY <1>2 DEF Linked

\* A step of OrderLifecycle, or none.
Advances ==
    \/ \E o \in OrderIds :
         \/ Stages[o] = "absent" /\ Stages' = [Stages EXCEPT ![o] = "open"] /\ UNCHANGED Linked
         \/ /\ Stages[o] = "open"
            /\ Stages' = [Stages EXCEPT ![o] = "paid"] \/ Stages' = [Stages EXCEPT ![o] = "gifted"]
            /\ UNCHANGED Linked
         \/ /\ Stages[o] \in {"open", "paid", "gifted", "gift_delivered"}
            /\ Stages' = [Stages EXCEPT ![o] = "cancelled"]
            /\ UNCHANGED Linked
         \/ Stages[o] \in {"paid", "gifted"} /\ o \notin Linked /\ Linked' = Linked \cup {o} /\ UNCHANGED Stages
         \/ /\ o \in Linked /\ UNCHANGED Linked
            /\ \/ Stages[o] = "paid" /\ Stages' = [Stages EXCEPT ![o] = "delivered"]
               \/ Stages[o] = "gifted" /\ Stages' = [Stages EXCEPT ![o] = "gift_delivered"]
    \/ UNCHANGED <<Stages, Linked>>

\* The writes of a command take its order one step along OrderLifecycle.
LEMMA CommandAdvances ==
    ASSUME Inductive, SerialInductive, NEW r \in Requests, RequestStep(r)
    PROVE  Advances
  <1> USE DEF orderVars, linkVars
  <1>1. /\ request \in [Requests -> Request] /\ TypeOK
        /\ Active(r) /\ EntityOK(r) /\ RequestCurrent(r) /\ EntityBacked(r)
    BY RequestSteps DEF Inductive, TypeOK, RequestsOK, EntitiesOK, SerialInductive, DeliveryBacked
  <1>2. request[r] \in [step : Step, command : Command, order : OrderIds, entity : OrderRow]
    BY <1>1 DEF Active, Request
  <1> DEFINE o == request[r].order
             row == orders[o]
             entity == request[r].entity
  <1>3. o \in OrderIds /\ o \in DOMAIN orders /\ row \in CoherentRows /\ StageOf(o) = RowStage(row)
    BY <1>1, <1>2, StageOfRow DEF EntityOK, Inductive, RowsCoherent
  <1>4. Stages[o] = RowStage(row)
    BY <1>3 DEF Stages
  <1>5. UNCHANGED orders => UNCHANGED Stages
    BY DEF Stages, StageOf
  <1>6. UNCHANGED links => UNCHANGED Linked
    BY DEF Linked, OrderIdTaken
  <1>7. CASE SaveOrder(r)
    <2>1. UNCHANGED Linked
      BY <1>6, <1>7 DEF SaveOrder
    <2>2. Stages' = [Stages EXCEPT ![o] = RowStage(entity)]
      BY <1>3, <1>7, StoreMoves DEF SaveOrder, SaveEntity
    <2>3. CASE request[r].command = "update"
      <3>1. Updates(row, entity)
        BY <1>1, <2>3 DEF RequestCurrent
      <3>2. CASE CanNotify(row) /\ entity = NotifyPaymentInfo(row)
        <4>1. Stages[o] = "open" /\ RowStage(entity) = "open"
          BY <1>3, <1>4, <3>2, StagesOfTransitions
        <4>2. UNCHANGED Stages
          BY <2>2, <4>1 DEF Stages
        <4> QED BY <2>1, <4>2 DEF Advances
      <3>3. CASE CanConfirm(row) /\ entity = ConfirmPayment(row)
        BY <1>3, <1>4, <2>1, <2>2, <3>3, StagesOfTransitions DEF Advances
      <3>4. CASE CanGift(row) /\ entity = MarkAsGift(row)
        BY <1>3, <1>4, <2>1, <2>2, <3>4, StagesOfTransitions DEF Advances
      <3>5. CASE CanCancel(row) /\ entity = Cancel(row)
        BY <1>3, <1>4, <2>1, <2>2, <3>5, StagesOfTransitions DEF Advances
      <3> QED BY <3>1, <3>2, <3>3, <3>4, <3>5 DEF Updates
    <2>4. CASE request[r].command = "send"
      <3>1. CanSend(row) /\ entity = MarkSent(row)
        BY <1>1, <1>7, <2>4 DEF RequestCurrent, SaveOrder, At
      <3>2. o \in Linked
        BY <1>1, <1>3, <1>7, <2>4 DEF Inductive, SoleSender, Sending, SaveOrder, At, Linked
      <3> QED BY <1>3, <1>4, <2>1, <2>2, <3>1, <3>2, StagesOfTransitions DEF Advances
    <2>5. request[r].command # "regenerate"
      BY <1>1, <1>7 DEF EntityOK, SaveOrder, At
    <2> QED BY <1>2, <2>3, <2>4, <2>5 DEF Command
  <1>8. ASSUME NEW l \in LinkIds, SaveLink(r, l) PROVE Advances
    <2>1. UNCHANGED Stages
      BY <1>5, <1>8 DEF SaveLink
    <2>2. Linked' = Linked \cup {o}
      BY <1>3, <1>8, InsertLinks DEF SaveLink
    <2>3. o \notin Linked
      BY <1>8 DEF SaveLink, Linked
    <2>4. request[r].command # "update"
      BY <1>1, <1>8 DEF EntityOK, SaveLink, At
    <2>5. request[r].command # "regenerate"
      BY <1>1, <1>8 DEF EntityOK, EntityBacked, RequestCurrent, SaveLink, CoherentRows
    <2>6. CanSend(row)
      BY <1>1, <1>2, <1>8, <2>4, <2>5 DEF EntityOK, RequestCurrent, SaveLink, At, Command
    <2>7. Stages[o] \in {"paid", "gifted"}
      BY <1>3, <1>4, <2>6, StagesOfTransitions
    <2> QED BY <1>3, <2>1, <2>2, <2>3, <2>7 DEF Advances
  <1>9. CASE InvalidateByOrderId(o) /\ UNCHANGED orders
    BY <1>1, <1>5, <1>9, InvalidateType, LinkedSame DEF Advances, TypeOK
  <1>10. CASE UNCHANGED <<orders, links>>
    BY <1>5, <1>6, <1>10 DEF Advances
  <1> QED BY <1>7, <1>8, <1>9, <1>10 DEF RequestStep, ExpireLink, InvalidateLink, LinkConflict, StampItems,
        Announce, RequestFails

\* Every step of requests that do not overlap is one step of OrderLifecycle, or none.
LEMMA EveryStepAdvances ==
    ASSUME Inductive, SerialInductive, [Next]_vars
    PROVE  Advances
  <1> USE DEF orderVars, linkVars, requestVars
  <1>1. TypeOK /\ LinkTablesOK /\ AccessesCounted
    BY DEF Inductive, TypeOK
  <1>2. UNCHANGED orders => UNCHANGED Stages
    BY DEF Stages, StageOf
  <1>3. UNCHANGED links => UNCHANGED Linked
    BY DEF Linked, OrderIdTaken
  <1>4. CASE UNCHANGED <<orders, links>>
    BY <1>2, <1>3, <1>4 DEF Advances
  <1>5. ASSUME NEW r \in Requests, NEW o \in OrderIds, RequestStart(r, o) PROVE UNCHANGED <<orders, links>>
    BY <1>5 DEF RequestStart, Notify, Confirm, Gift, CancelOrder, Send, Regenerate
  <1>6. CASE DownloadPage
    <2>1. DOMAIN links' = DOMAIN links
      <3>1. ASSUME NEW v \in Visitors, SaveLazyExpiry(v) PROVE DOMAIN links' = DOMAIN links
        <4>1. visit[v].link \in DOMAIN links
          BY <1>1, <3>1 DEF SaveLazyExpiry, AccessesCounted, NoVisit
        <4>2. DOMAIN links' = DOMAIN links \cup {visit[v].link}
          BY <3>1 DEF SaveLazyExpiry, Upsert
        <4> QED BY <4>1, <4>2
      <3> QED BY <1>6, <3>1 DEF DownloadPage, OpenDeliveryPage, VisitStep, RecordAccess, RefuseAccess,
                SetFirstDownload, VisitFails, LinkElapses
    <2>2. UNCHANGED Linked
      BY <1>1, <2>1, LinksGrow, LinkedSame
    <2> QED BY <1>2, <1>6, <2>2 DEF DownloadPage, Advances
  <1>7. CASE Placement
    <2>1. UNCHANGED Linked
      BY <1>3, <1>7 DEF Placement
    <2>2. CASE UNCHANGED orders
      BY <1>2, <2>1, <2>2 DEF Advances
    <2>3. ASSUME NEW o \in OrderIds \ DOMAIN orders, NEW p, Store(o, NewOrder(p)) PROVE Advances
      <3>1. Stages[o] = "absent"
        BY <2>3 DEF Stages, StageOf
      <3>2. RowStage(NewOrder(p)) = "open"
        BY DEF NewOrder, RowStage, Open
      <3>3. Stages' = [Stages EXCEPT ![o] = "open"]
        BY <2>3, <3>2, StoreMoves
      <3> QED BY <2>1, <3>1, <3>3 DEF Advances
    <2> QED BY <1>1, <1>7, <2>2, <2>3, PlacementStores
  <1> QED BY <1>4, <1>5, <1>6, <1>7, CommandAdvances DEF Next, AdminCommand, PreviewPage, vars

\* Handlers that do not overlap keep what OrderLifecycle promises of an order:
\* the rows and links of the tables only ever move an order along it.
THEOREM LifecycleIsKept == ASSUME OneAtATime PROVE Spec => KeepsLifecycle
  <1>1. Init => Lifecycle!LifecycleInit
    <2>1. Init => DOMAIN orders = {} /\ DOMAIN links = {}
      BY DEF Init, OrderInit, LinkInit, NoRows
    <2> QED BY <2>1 DEF Lifecycle!LifecycleInit, StageOf, OrderIdTaken
  <1>2. Advances => [Lifecycle!LifecycleNext]_(Lifecycle!lifecycleVars)
    BY DEF Advances, Stages, Linked, Lifecycle!LifecycleNext, Lifecycle!lifecycleVars, Lifecycle!Place,
           Lifecycle!Settle, Lifecycle!CallOff, Lifecycle!MakeLink, Lifecycle!Deliver, Lifecycle!Move
  <1>3. Inductive /\ SerialInductive /\ [Next]_vars => [Lifecycle!LifecycleNext]_(Lifecycle!lifecycleVars)
    BY <1>2, EveryStepAdvances
  <1> QED BY <1>1, <1>3, SerialInvariant, PTL DEF Spec, KeepsLifecycle, Lifecycle!LifecycleSpec

=============================================================================

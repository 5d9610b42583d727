---------------------------- MODULE OrderEntity -----------------------------
(***************************************************************************)
(* The orders and order_items tables, and the transitions of the domain    *)
(* entity Order (modules/orders/domain/entities/order.entity.ts).  The     *)
(* entity's methods work on a copy of the row that a handler has loaded;   *)
(* nothing here touches the tables but Load and Store.                     *)
(*                                                                         *)
(* A row keeps the status, the preview link the order came from and, for   *)
(* each timestamp column, whether it is set.  Who acted (notified_by_id,   *)
(* confirmed_by_id), the price snapshot and the customer snapshot are      *)
(* written once and read by no guard: they are left out.                   *)
(***************************************************************************)
EXTENDS Tables

CONSTANTS
    OrderIds,      \* orders
    LinkIds,       \* delivery links (a link has one token)
    PreviewIds,    \* preview links (a link has one token)
    NoPreview      \* preview_link_id of an order placed from the gallery

ASSUME NoPreviewAssumption == NoPreview \notin PreviewIds

VARIABLES
    orders,        \* table orders
    items          \* what order_items holds for an order

orderVars == <<orders, items>>

OrderStatus == {"pending", "payment_info_sent", "paid", "delivered",
                "gifted", "cancelled"}

OrderRow == [status      : OrderStatus,
             preview     : PreviewIds \cup {NoPreview},
             notifiedAt  : BOOLEAN,
             paidAt      : BOOLEAN,
             deliveredAt : BOOLEAN,
             cancelledAt : BOOLEAN]

\* No item yet, items without delivered_as, items with delivered_as.
ItemsState == {"none", "saved", "stamped"}

OrderTablesOK ==
    /\ DOMAIN orders \subseteq OrderIds
    /\ \A o \in DOMAIN orders : orders[o] \in OrderRow
    /\ items \in [OrderIds -> ItemsState]

OrderInit ==
    /\ orders = NoRows
    /\ items = [o \in OrderIds |-> "none"]

-----------------------------------------------------------------------------
\* Order.create
NewOrder(p) == [status      |-> "pending", preview |-> p,
                notifiedAt  |-> FALSE, paidAt |-> FALSE,
                deliveredAt |-> FALSE, cancelledAt |-> FALSE]

Open(row) == row.status \in {"pending", "payment_info_sent"}

\* Order.notifyPaymentInfo: a no-op on an order already notified.
CanNotify(row) == Open(row)
NotifyPaymentInfo(row) ==
    IF row.status = "payment_info_sent" THEN row
    ELSE [row EXCEPT !.status = "payment_info_sent", !.notifiedAt = TRUE]

\* Order.confirmPayment
CanConfirm(row) == Open(row)
ConfirmPayment(row) == [row EXCEPT !.status = "paid", !.paidAt = TRUE]

\* Seeded bug: a paid order may be given away.
CanGiftPaid(row) == Open(row) \/ row.status = "paid"

\* Order.markAsGift
CanGift(row) == Open(row)
MarkAsGift(row) == [row EXCEPT !.status = "gifted"]

\* Seeded bug: an order delivered may be cancelled.
CanCancelDelivered(row) == row.status # "cancelled"

\* Order.cancel
CanCancel(row) == Open(row) \/ row.status \in {"paid", "gifted"}
Cancel(row) == [row EXCEPT !.status = "cancelled", !.cancelledAt = TRUE]

\* SendDeliveryHandler: a sale that is paid, or a gift that is still waiting
\* for its link.
IsSale(row) == row.status = "paid"

\* Seeded bug: an order that still waits for its payment may be sent.
CanSendUnpaid(row) ==
    IsSale(row) \/ Open(row) \/ (row.status = "gifted" /\ ~row.deliveredAt)

CanSend(row) == IsSale(row) \/ (row.status = "gifted" /\ ~row.deliveredAt)

\* Order.markDelivered of a sale, Order.markGiftDelivered of a gift.
MarkSent(row) ==
    IF IsSale(row) THEN [row EXCEPT !.status = "delivered", !.deliveredAt = TRUE]
    ELSE [row EXCEPT !.deliveredAt = TRUE]

-----------------------------------------------------------------------------
\* OrderWriteRepository.save and .saveWithSnap: the whole row of the entity.
Store(o, row) == orders' = Upsert(orders, o, row)

\* OrderWriteRepository.savePhotos
SavePhotos(o) == items' = [items EXCEPT ![o] = "saved"]

\* Seeded bug: the update matches no item.
StampNoItem(o) == UNCHANGED items

\* OrderWriteRepository.updateItemsDeliveredAs: every item the order has.
UpdateItemsDeliveredAs(o) ==
    items' = [items EXCEPT ![o] = IF @ = "none" THEN "none" ELSE "stamped"]
=============================================================================

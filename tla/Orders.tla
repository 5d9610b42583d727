------------------------------- MODULE Orders -------------------------------
(***************************************************************************)
(* The admin commands on an order (modules/orders/application/commands).   *)
(* Each handler loads the order, checks and changes the entity in memory,  *)
(* and saves it.  No transaction and no lock spans a handler, so the       *)
(* commands of several admins interleave at every await, and a save writes *)
(* the whole row over whatever the table holds by then.                    *)
(*                                                                         *)
(* A request is the handler one admin has in flight: its next step, the    *)
(* order and the entity in memory.  The order.paid event of a confirmation *)
(* only feeds notifications and is left out.                               *)
(***************************************************************************)
EXTENDS OrderEntity, DeliveryLinks

CONSTANTS Requests     \* admin requests that may be in flight at once

VARIABLES
    request,       \* the handler each request runs
    settled,       \* history: orders some save has left paid or gifted
    announced      \* history: order.delivered events emitted for an order

requestVars == <<request, settled, announced>>

NoRequest == [step |-> "idle"]

\* The command decides what follows a step that several handlers share:
\* "update" is one of the four commands that only change the entity.
Command == {"update", "send", "regenerate"}

\* "conflict" is the error answer after the insert of a link has failed.
Step == {"save", "announce", "expire", "invalidate", "insert", "conflict", "stamp"}

Request == {NoRequest} \cup [step : Step, command : Command,
                             order : OrderIds, entity : OrderRow]

RequestsOK ==
    /\ request \in [Requests -> Request]
    /\ settled \subseteq OrderIds
    /\ announced \in [OrderIds -> Nat]

RequestInit ==
    /\ request = [r \in Requests |-> NoRequest]
    /\ settled = {}
    /\ announced = [o \in OrderIds |-> 0]

-----------------------------------------------------------------------------
(* Building blocks of the handlers.                                        *)

\* A handler begins: findById, and the entity it goes on with.
Begin(r, o, command, step, entity) ==
    /\ request[r] = NoRequest
    /\ request' = [request EXCEPT ![r] = [step |-> step, command |-> command,
                                         order |-> o, entity |-> entity]]

At(r, step) == request[r].step = step

Goto(r, step) == request' = [request EXCEPT ![r].step = step]

Finish(r) == request' = [request EXCEPT ![r] = NoRequest]

\* The save of the entity that request r holds.
SaveEntity(r) ==
    LET o == request[r].order   row == request[r].entity IN
    /\ Store(o, row)
    /\ settled' = IF row.status \in {"paid", "gifted"} THEN settled \cup {o}
                  ELSE settled

-----------------------------------------------------------------------------
(* NotifyPaymentInfoHandler, ConfirmOrderPaymentHandler, GiftOrderHandler  *)
(* and CancelOrderHandler: load, change, save.  A command its guard        *)
(* refuses answers 422 and changes nothing.                                *)

Notify(r, o) ==
    /\ o \in DOMAIN orders
    /\ CanNotify(orders[o])
    /\ Begin(r, o, "update", "save", NotifyPaymentInfo(orders[o]))
    /\ UNCHANGED <<orderVars, linkVars, settled, announced>>

Confirm(r, o) ==
    /\ o \in DOMAIN orders
    /\ CanConfirm(orders[o])
    /\ Begin(r, o, "update", "save", ConfirmPayment(orders[o]))
    /\ UNCHANGED <<orderVars, linkVars, settled, announced>>

Gift(r, o) ==
    /\ o \in DOMAIN orders
    /\ CanGift(orders[o])
    /\ Begin(r, o, "update", "save", MarkAsGift(orders[o]))
    /\ UNCHANGED <<orderVars, linkVars, settled, announced>>

CancelOrder(r, o) ==
    /\ o \in DOMAIN orders
    /\ CanCancel(orders[o])
    /\ Begin(r, o, "update", "save", Cancel(orders[o]))
    /\ UNCHANGED <<orderVars, linkVars, settled, announced>>

\* The save ends these commands; SendDeliveryHandler goes on after its own.
SaveOrder(r) ==
    /\ At(r, "save")
    /\ SaveEntity(r)
    /\ IF request[r].command = "send" THEN Goto(r, "announce") ELSE Finish(r)
    /\ UNCHANGED <<items, linkVars, announced>>

-----------------------------------------------------------------------------
(* SendDeliveryHandler makes a link, stamps the items and saves the order; *)
(* RegenerateDeliveryHandler expires the link and makes another.           *)

\* Seeded bug: the order is marked before its link is made.
SendWithoutLink(r, o) ==
    /\ o \in DOMAIN orders
    /\ CanSend(orders[o])
    /\ Begin(r, o, "send", "stamp", orders[o])
    /\ UNCHANGED <<orderVars, linkVars, settled, announced>>

Send(r, o) ==
    /\ o \in DOMAIN orders
    /\ CanSend(orders[o])
    /\ Begin(r, o, "send", "invalidate", orders[o])
    /\ UNCHANGED <<orderVars, linkVars, settled, announced>>

Regenerate(r, o) ==
    /\ o \in DOMAIN orders
    /\ orders[o].status = "delivered"
    /\ Begin(r, o, "regenerate", "expire", orders[o])
    /\ UNCHANGED <<orderVars, linkVars, settled, announced>>

\* RegenerateDeliveryHandler's own invalidateByOrderId.
ExpireLink(r) ==
    /\ At(r, "expire")
    /\ InvalidateByOrderId(request[r].order)
    /\ Goto(r, "invalidate")
    /\ UNCHANGED <<orderVars, elapsed, visit, granted, settled, announced>>

\* CreateDeliveryLinkHandler: invalidateByOrderId, then the save of a new link.
InvalidateLink(r) ==
    /\ At(r, "invalidate")
    /\ InvalidateByOrderId(request[r].order)
    /\ Goto(r, "insert")
    /\ UNCHANGED <<orderVars, elapsed, visit, granted, settled, announced>>

SaveLink(r, l) ==
    /\ At(r, "insert")
    /\ ~OrderIdTaken(request[r].order)
    /\ InsertLink(l, request[r].order)
    /\ IF request[r].command = "send" THEN Goto(r, "stamp") ELSE Finish(r)
    /\ UNCHANGED <<orderVars, elapsed, visit, granted, settled, announced>>

LinkConflict(r) ==
    /\ At(r, "insert")
    /\ OrderIdTaken(request[r].order)
    /\ Goto(r, "conflict")
    /\ UNCHANGED <<orderVars, linkVars, settled, announced>>

\* updateItemsDeliveredAs, then markDelivered or markGiftDelivered in memory.
StampItems(r) ==
    /\ At(r, "stamp")
    /\ UpdateItemsDeliveredAs(request[r].order)
    /\ request' = [request EXCEPT ![r].step = "save", ![r].entity = MarkSent(@)]
    /\ UNCHANGED <<orders, linkVars, settled, announced>>

\* getDetail, then emitOrderDelivered; the admin gets the link.
Announce(r) ==
    /\ At(r, "announce")
    /\ announced' = [announced EXCEPT ![request[r].order] = @ + 1]
    /\ Finish(r)
    /\ UNCHANGED <<orderVars, linkVars, settled>>

-----------------------------------------------------------------------------
\* A request ends early at any point: it answers its error, a query fails, or
\* the process restarts.  What it has written stays.
RequestFails(r) ==
    /\ request[r] # NoRequest
    /\ Finish(r)
    /\ UNCHANGED <<orderVars, linkVars, settled, announced>>

RequestStart(r, o) ==
    Notify(r, o) \/ Confirm(r, o) \/ Gift(r, o) \/ CancelOrder(r, o)
    \/ Send(r, o) \/ Regenerate(r, o)

RequestStep(r) ==
    \/ SaveOrder(r)
    \/ ExpireLink(r)
    \/ InvalidateLink(r)
    \/ \E l \in LinkIds : SaveLink(r, l)
    \/ LinkConflict(r)
    \/ StampItems(r)
    \/ Announce(r)
    \/ RequestFails(r)
=============================================================================

----------------------------- MODULE OrderViews -----------------------------
(***************************************************************************)
(* The administrators' pages over orders: the list, the detail and the     *)
(* figures above the list (OrderReadRepository).  Each is a query of its   *)
(* own, and asks another column: the list the status, the figures the      *)
(* status again, the badges of a row its timestamps and its link.          *)
(*                                                                         *)
(* A count is the set of orders it counts, and the revenue the set of      *)
(* orders whose subtotals it adds up.  Paging, the search terms and the    *)
(* narrowing to one event, the same on every page, are left out.           *)
(***************************************************************************)
EXTENDS Fulfilment

OfStatus(s) == {o \in DOMAIN orders : orders[o].status = s}

\* Seeded bug: the default list shows cancelled orders too.
ListedAll(filter) == IF filter = "all" THEN DOMAIN orders ELSE OfStatus(filter)

\* getList; "all" is a request without a status.
Listed(filter) ==
    IF filter = "all" THEN DOMAIN orders \ OfStatus("cancelled") ELSE OfStatus(filter)

LinksOf(o) == {links[l] : l \in {k \in DOMAIN links : links[k].order = o}}

\* A row of the list, and the page it opens.
ListRow(o) ==
    [status |-> orders[o].status, notifiedAt |-> orders[o].notifiedAt,
     paidAt |-> orders[o].paidAt, deliveredAt |-> orders[o].deliveredAt,
     hasDeliveryLink |-> LinksOf(o) # {}]

OrderDetail(o) ==
    [row |-> orders[o],
     deliveryLink |-> {[status |-> k.status, downloadCount |-> k.downloadCount] : k \in LinksOf(o)}]

\* sumRevenue
Revenue == OfStatus("paid") \cup OfStatus("delivered")

\* GetOrdersStatsHandler over countByStatus.
Total == UNION {OfStatus(s) : s \in OrderStatus}

OrdersStats ==
    [totalOrders |-> Total,
     activeOrders |-> Total \ OfStatus("cancelled"),
     pendingCount |-> OfStatus("pending"),
     paymentInfoSentCount |-> OfStatus("payment_info_sent"),
     paidCount |-> OfStatus("paid") \cup OfStatus("delivered"),
     deliveredCount |-> OfStatus("delivered"),
     giftedCount |-> OfStatus("gifted"),
     cancelledCount |-> OfStatus("cancelled"),
     totalRevenue |-> Revenue]

-----------------------------------------------------------------------------
\* The figures tell what the list below them shows, whichever commands have
\* overwritten each other: the active orders are the rows of the default list,
\* the paid ones are those that carry a payment date, they are what the revenue
\* adds up, and a row that says "delivered" has a link to copy, in the list and
\* on its page.
StatsMatchList ==
    /\ OrdersStats.activeOrders = Listed("all")
    /\ OrdersStats.paidCount = {o \in Listed("all") : ListRow(o).paidAt}
    /\ OrdersStats.totalRevenue = OrdersStats.paidCount
    /\ \A o \in Listed("all") :
         ListRow(o).deliveredAt => /\ ListRow(o).hasDeliveryLink
                                   /\ OrderDetail(o).deliveryLink # {}
=============================================================================

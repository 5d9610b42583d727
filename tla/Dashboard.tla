----------------------------- MODULE Dashboard -----------------------------
(***************************************************************************)
(* The pages operators and administrators work from.  Each is a query of   *)
(* its own over photos, orders and the events an operator is assigned to;  *)
(* nothing keeps the numbers of one in step with the rows of another but   *)
(* that they ask the same of the same rows.                                *)
(***************************************************************************)
EXTENDS Gallery, Functions

CONSTANT AllEvents   \* no event slug in the request

\* Ids are random UUIDs, of which there are finitely many.
ASSUME DashboardAssumption ==
    AllEvents \notin EventIds /\ IsFiniteSet(PhotoIds) /\ IsFiniteSet(EventIds)

Role == {"admin", "operator"}

\* getAssignedEventIdsByStatus("active"); getAllAssignedEventIds comes to the
\* same, for an event is deleted when it is archived.
Assigned(u) == {e \in active : <<e, u>> \in duty}

IsOperatorAssigned(e, u) == <<e, u>> \in duty

-----------------------------------------------------------------------------
(* The dashboard of an operator.                                           *)

\* GetDashboardSummaryHandler
Summary(u) ==
    [review |-> Cardinality(PendingReview(Assigned(u))),
     retouch |-> Cardinality(PendingRetouch(Assigned(u))),
     events |-> Cardinality(Assigned(u))]

\* getActiveEventStats, by event.
EventStats(e) ==
    LET read == {p \in PhotosOf({e}) : photos[p].status \in {"processed", "reviewed"}}
    IN  [pending |-> Cardinality({p \in read : ~photos[p].reviewed}),
         total |-> Cardinality(read),
         retouch |-> Cardinality({p \in PhotosOf({e}) :
             /\ photos[p].retouched = NoFile /\ p \notin dismissed
             /\ \E o \in DOMAIN ordered : ordered[o].paid /\ p \in ordered[o].photos})]

\* GetActiveEventsHandler
ActiveEvents(u) == [e \in Assigned(u) |-> EventStats(e)]

\* GetOperatorReviewQueueHandler; {} also stands for its 403.
OperatorReviewQueue(u, e, tab) ==
    IF e = AllEvents THEN ReviewQueue(Assigned(u), tab)
    ELSE IF ExistsActiveEvent(e) /\ e \in Assigned(u) THEN ReviewQueue({e}, tab) ELSE {}

-----------------------------------------------------------------------------
(* Orders to retouch.                                                      *)

\* The items of an order a retoucher opens.
OrderDetail(o, onlyPending) == IF onlyPending THEN PendingItems(o) ELSE ordered[o].photos

\* GetOperatorRetouchOrderDetailHandler
RetouchOrderDetail(u, role, o, onlyPending) ==
    IF role = "admin" \/ IsOperatorAssigned(OrderEvent(o), u)
    THEN OrderDetail(o, onlyPending) ELSE {}

\* getRetouchQueuePage: the orders of one event with the items of the scope.
QueuePage(e, scope) ==
    {[order |-> o, items |-> IF scope = "pending" THEN PendingItems(o) ELSE ordered[o].photos] :
        o \in RetouchQueue({e}, scope)}

\* GetRetouchQueueHandler
EventRetouchQueue(u, role, e, scope) ==
    IF ExistsActiveEvent(e) /\ (role = "admin" \/ IsOperatorAssigned(e, u))
    THEN QueuePage(e, scope) ELSE {}

\* findOperatorRetouchOrdersPage counts the items in three groups.
OrdersPage(events, scope) ==
    {[order |-> o,
      total |-> Cardinality(ordered[o].photos),
      retouched |-> Cardinality({p \in ordered[o].photos : RetouchedPhoto(p)}),
      pending |-> Cardinality({p \in ordered[o].photos : PendingPhoto(p)})] :
        o \in RetouchQueue(events, scope)}

\* GetOperatorRetouchOrdersHandler; an administrator sees every event.
RetouchOrdersOf(u, role, e, scope) ==
    CASE e = AllEvents /\ role = "admin" -> OrdersPage(EventIds, scope)
      [] e = AllEvents /\ role # "admin" -> OrdersPage(Assigned(u), scope)
      [] OTHER -> IF ExistsActiveEvent(e) /\ (role = "admin" \/ e \in Assigned(u))
                  THEN OrdersPage({e}, scope) ELSE {}

\* getPendingRetouch, the administrators' own list, does not ask for the flag.
AdminPendingRetouch ==
    {o \in DOMAIN ordered :
        ordered[o].paid /\ \E p \in ordered[o].photos : photos[p].retouched = NoFile}

\* The progress in the detail of an order.
RetouchProgress(o) ==
    [total |-> Cardinality(ordered[o].photos),
     retouched |-> Cardinality({p \in ordered[o].photos : photos[p].retouched # NoFile})]

-----------------------------------------------------------------------------
SumOver(f, S) == FoldFunctionOnSet(+, 0, f, S)

\* The numbers of the summary are the sums of those of the events, and what has
\* been read and is not pending is what the lists call classified.
SummaryAdds ==
    \A u \in Operators :
        LET of == ActiveEvents(u)  Sum(field) == SumOver([e \in DOMAIN of |-> of[e][field]], DOMAIN of)
        IN /\ Summary(u).review = Sum("pending")
           /\ Summary(u).retouch = Sum("retouch")
           /\ \A e \in DOMAIN of : of[e].total - of[e].pending = ClassifiedCount(e)
           /\ PendingReview(Assigned(u)) \subseteq OperatorReviewQueue(u, AllEvents, "pending")

\* What the summary counts as photos to retouch is what the operator comes upon
\* in the orders listed, but for photos in orders of another event, and the
\* orders listed for an event are its queue.
RetouchListed ==
    \A u \in Operators, role \in Role :
        LET mine == IF role = "admin" THEN EventIds ELSE Assigned(u)
            orders == {r.order : r \in RetouchOrdersOf(u, role, AllEvents, "pending")}
        IN /\ PendingRetouch(mine) \ Strayed
                = (UNION {RetouchOrderDetail(u, role, o, TRUE) : o \in orders}) \ Strayed
           /\ orders \subseteq AdminPendingRetouch
           /\ \A e \in mine \cap active \cap covered :
                /\ {o \in orders : OrderEvent(o) = e}
                     = {q.order : q \in EventRetouchQueue(u, role, e, "pending")}
                /\ {r.order : r \in RetouchOrdersOf(u, role, e, "pending")}
                     = {q.order : q \in EventRetouchQueue(u, role, e, "pending")}

\* The counts of a listed order are those of its detail.
CountsShown ==
    \A scope \in {"pending", "completed"} : \A r \in OrdersPage(EventIds, scope) :
        /\ r.pending = Cardinality(OrderDetail(r.order, TRUE))
        /\ r.pending + r.retouched <= r.total
        /\ [total |-> r.total, retouched |-> r.retouched] = RetouchProgress(r.order)
        /\ scope = "completed" <=> r.pending = 0

\* Every page an operator has open tells the same: tabs, lists, counts, queues
\* and orders, through reviews, stale saves, dismissals, payments, archives and
\* reassignments.
DashboardAgrees == QueuesAgree /\ SummaryAdds /\ RetouchListed /\ CountsShown
=============================================================================

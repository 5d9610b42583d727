---------------------------- MODULE RetouchOrders ----------------------------
(***************************************************************************)
(* What the retouchers owe the customers: the items of orders, the flag    *)
(* requires_retouch of their photos, the queues operators work from and    *)
(* the order.retouch_completed events.  The flag is a column of photos     *)
(* that a statement of its own writes; save leaves it alone.               *)
(***************************************************************************)
EXTENDS PhotoRows

CONSTANT OrderIds

VARIABLES
    dismissed,     \* the photos whose requires_retouch is false
    ordered,       \* orders and order_items: [event, photos, paid]
    announced,     \* the orders order.retouch_completed was emitted for
    quiet          \* history: orders that got complete with nobody to say so

retouchVars == <<dismissed, ordered, announced>>

RetouchTypeOK ==
    /\ dismissed \subseteq PhotoIds
    /\ DOMAIN ordered \subseteq OrderIds
    /\ \A o \in DOMAIN ordered :
         ordered[o] \in [event : {EventOf[k] : k \in Keys},
                        photos : SUBSET DOMAIN photos, paid : BOOLEAN]
    /\ announced \subseteq DOMAIN ordered
    /\ quiet \subseteq DOMAIN ordered

RetouchInit == dismissed = {} /\ ordered = NoRows /\ announced = {} /\ quiet = {}

-----------------------------------------------------------------------------
\* Seeded bug: a dismissed photo is still listed.
PendingPhotoBlind(p) == photos[p].retouched = NoFile

\* The filters of OperatorRetouchReadRepository.
PendingPhoto(p) == photos[p].retouched = NoFile /\ p \notin dismissed

RetouchedPhoto(p) == photos[p].retouched # NoFile

PendingItems(o) == {p \in ordered[o].photos : PendingPhoto(p)}

\* Order.event_id
OrderEvent(o) == ordered[o].event

\* The two queues: paid orders with work left, and paid orders with some work
\* done and none left.
RetouchQueue(events, scope) ==
    {o \in DOMAIN ordered :
        /\ ordered[o].paid
        /\ OrderEvent(o) \in events
        /\ (scope = "pending") <=> PendingItems(o) # {}
        /\ scope = "completed" => \E p \in ordered[o].photos : RetouchedPhoto(p)}

\* countPendingRetouch asks the photos, not the orders.
PendingRetouch(events) ==
    {p \in PhotosOf(events) :
        /\ photos[p].retouched = NoFile
        /\ p \notin dismissed
        /\ \E o \in DOMAIN ordered : ordered[o].paid /\ p \in ordered[o].photos}

\* Seeded bug: a photo nobody wants retouched still counts as work.
FullyRetouchedBlind(o) == \A p \in ordered[o].photos : photos[p].retouched # NoFile

\* findOrdersFullyRetouchedByPhoto asks the items in a query of its own.
FullyRetouched(o) ==
    ~\E p \in ordered[o].photos : photos[p].retouched = NoFile /\ p \notin dismissed

OrdersFullyRetouchedBy(p) ==
    {o \in DOMAIN ordered : p \in ordered[o].photos /\ FullyRetouched(o)}

-----------------------------------------------------------------------------
\* The photos an order of an event may take.  From the gallery: those of the
\* event that are processed or reviewed (countByIdsAndEvent).
FromGallery(e) == {p \in PhotosOf({e}) : photos[p].status \in {"processed", "reviewed"}}

\* From a cart, which takes any photo and keeps its event with it.
FromCart(e) == PhotosOf({e})

\* From a preview link: CreatePreviewLinkHandler counts the photos there are.
FromPreview(e) == DOMAIN photos

PlaceOrder(o) ==
    /\ o \notin DOMAIN ordered
    /\ \E e \in {EventOf[k] : k \in Keys} :
         \E ids \in ((SUBSET FromGallery(e)) \cup (SUBSET FromCart(e)) \cup (SUBSET FromPreview(e))) \ {{}} :
            ordered' = Upsert(ordered, o, [event |-> e, photos |-> ids, paid |-> FALSE])
    /\ UNCHANGED <<rowVars, dismissed, announced>>

\* ConfirmOrderPaymentHandler
PayOrder(o) ==
    /\ o \in DOMAIN ordered
    /\ ~ordered[o].paid
    /\ ordered' = [ordered EXCEPT ![o].paid = TRUE]
    /\ UNCHANGED <<rowVars, dismissed, announced>>

\* SetPhotoRetouchFlagHandler: nothing is said of orders this completes.
SetRetouchFlag(p, requires) ==
    /\ p \in DOMAIN photos
    /\ dismissed' = IF requires THEN dismissed \ {p} ELSE dismissed \cup {p}
    /\ UNCHANGED <<rowVars, ordered, announced>>

-----------------------------------------------------------------------------
\* Photos in orders of another event than theirs.
Strayed ==
    {p \in DOMAIN photos : \E o \in DOMAIN ordered :
        p \in ordered[o].photos /\ p \notin PhotosOf({OrderEvent(o)})}
=============================================================================

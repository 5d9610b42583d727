-------------------------------- MODULE Cart --------------------------------
(***************************************************************************)
(* The carts and cart_items tables and the four commands of the cart       *)
(* module: add, remove, merge (an anonymous cart into the cart of the user *)
(* who has just logged in) and checkout (one order per event).  Each       *)
(* command is a chain of awaited calls; a task is the command one client   *)
(* has in flight.  Two partial unique indexes allow one active cart per    *)
(* user and one per session; nothing else orders the tasks.                *)
(*                                                                         *)
(* Prices are left to module Pricing; the order.created events of a        *)
(* checkout change nothing here.                                           *)
(***************************************************************************)
EXTENDS OrderEntity, Sequences, FiniteSets, Naturals

CONSTANTS
    CartIds,
    Users,         \* customers who are logged in
    Sessions,      \* anonymous browsers
    NoOwner,       \* a NULL user_id or session_id
    Photos,
    Events,
    EventOf,       \* the event of each photo
    Tasks,         \* cart commands that may be in flight at once
    MaxLines       \* lines a checkout may name

ASSUME CartAssumption ==
    /\ NoOwner \notin Users \cup Sessions
    /\ Users \cap Sessions = {}
    /\ EventOf \in [Photos -> Events]
    /\ MaxLines \in Nat \ {0}

VARIABLES
    carts,         \* table carts
    content,       \* table cart_items: "in", or "out" when removed_at is set
    task,          \* the command each client has in flight
    bill,          \* for an order of a checkout: its cart, event and photos
    alone          \* commands have never overlapped (no code keeps them from it)

cartVars == <<orders, items, carts, content, task, bill, alone>>

Owners == Users \cup Sessions

\* A cart belongs to a user or to a session, never to both.
CartRow ==
    [user : Users, session : {NoOwner}, status : {"active", "converted"}]
    \cup [user : {NoOwner}, session : Sessions, status : {"active", "converted"}]

ItemState == {"absent", "in", "out"}
Lines == UNION {[1 .. n -> Events] : n \in 1 .. MaxLines}
NoBill == [cart |-> NoOwner]

Idle == [step |-> "idle"]
Task ==
    {Idle}
    \cup [step : {"create"}, owner : Owners, photo : Photos]
    \cup [step : {"add", "remove"}, cart : CartIds, photo : Photos]
    \cup [step : {"find_user", "transfer"}, user : Users, cart : CartIds]
    \cup [step : {"merge"}, cart : CartIds, into : CartIds]
    \cup [step : {"read"}, cart : CartIds, lines : Lines]
    \cup [step : {"order", "convert"}, cart : CartIds, lines : Lines,
          done : 0 .. MaxLines, seen : SUBSET Photos]
    \cup [step : {"photos"}, cart : CartIds, lines : Lines,
          done : 0 .. MaxLines, seen : SUBSET Photos, order : OrderIds]

CartTypeOK ==
    /\ OrderTablesOK
    /\ DOMAIN carts \subseteq CartIds
    /\ \A c \in DOMAIN carts : carts[c] \in CartRow
    /\ content \in [CartIds -> [Photos -> ItemState]]
    /\ task \in [Tasks -> Task]
    /\ alone \in BOOLEAN
    /\ \A o \in OrderIds : bill[o] # NoBill =>
         bill[o] \in [cart : CartIds, event : Events, photos : SUBSET Photos]

CartInit ==
    /\ OrderInit
    /\ carts = NoRows
    /\ content = [c \in CartIds |-> [p \in Photos |-> "absent"]]
    /\ task = [t \in Tasks |-> Idle]
    /\ bill = [o \in OrderIds |-> NoBill]
    /\ alone = TRUE

-----------------------------------------------------------------------------
(* Queries and statements of the two repositories.                         *)

OwnedBy(c, owner) == carts[c].user = owner \/ carts[c].session = owner

\* findActiveByUserId and findActiveBySessionId
ActiveCarts(owner) ==
    {c \in DOMAIN carts : carts[c].status = "active" /\ OwnedBy(c, owner)}

InCart(c) == {p \in Photos : content[c][p] = "in"}

\* Seeded bug: the query forgets "removed_at: null".
ItemsWithRemoved(c) == {p \in Photos : content[c][p] # "absent"}

\* getCartItemsByEvent: the photos in a cart that were not taken out.
CartItems(c) == InCart(c)

OfEvent(photos, e) == {p \in photos : EventOf[p] = e}

\* createCart, refused by the partial unique index while the owner has an
\* active cart.
InsertCart(c, owner) ==
    /\ c \notin DOMAIN carts
    /\ ActiveCarts(owner) = {}
    /\ carts' = Upsert(carts, c,
         IF owner \in Users
         THEN [user |-> owner, session |-> NoOwner, status |-> "active"]
         ELSE [user |-> NoOwner, session |-> owner, status |-> "active"])

\* addItem: an upsert that also brings back a photo taken out before.
PutItem(c, p) == content' = [content EXCEPT ![c][p] = "in"]

\* removeItem: soft, and only if the photo is there.
TakeItem(c, p) ==
    content' = [content EXCEPT ![c][p] = IF @ = "in" THEN "out" ELSE @]

\* Seeded bug: transferCartToUser leaves session_id as it is.
GiveKeepingSession(c, u) == carts' = [carts EXCEPT ![c].user = u]

\* transferCartToUser
GiveTo(c, u) == carts' = [carts EXCEPT ![c].user = u, ![c].session = NoOwner]

\* markConverted, whatever the status of the cart is by now.
ConvertCart(c) == carts' = [carts EXCEPT ![c].status = "converted"]

-----------------------------------------------------------------------------
\* A command begins after its first query.
Begin(t, state) ==
    /\ task[t] = Idle
    /\ task' = [task EXCEPT ![t] = state]

Goto(t, state) == task' = [task EXCEPT ![t] = state]
Finish(t) == Goto(t, Idle)

\* AddToCartHandler: the photo exists; the active cart is found, or not.
AddToCart(t, owner, p) ==
    /\ IF ActiveCarts(owner) = {}
       THEN Begin(t, [step |-> "create", owner |-> owner, photo |-> p])
       ELSE \E c \in ActiveCarts(owner) :
              Begin(t, [step |-> "add", cart |-> c, photo |-> p])
    /\ UNCHANGED <<orderVars, carts, content, bill>>

CreateCart(t, c) ==
    /\ task[t].step = "create"
    /\ InsertCart(c, task[t].owner)
    /\ Goto(t, [step |-> "add", cart |-> c, photo |-> task[t].photo])
    /\ UNCHANGED <<orderVars, content, bill>>

\* The insert hits the index: another tab has just created the cart.
CreateConflict(t) ==
    /\ task[t].step = "create"
    /\ ActiveCarts(task[t].owner) # {}
    /\ Finish(t)
    /\ UNCHANGED <<orderVars, carts, content, bill>>

AddItem(t) ==
    /\ task[t].step = "add"
    /\ PutItem(task[t].cart, task[t].photo)
    /\ Finish(t)
    /\ UNCHANGED <<orderVars, carts, bill>>

\* RemoveFromCartHandler
RemoveFromCart(t, owner, p) ==
    /\ \E c \in ActiveCarts(owner) :
         Begin(t, [step |-> "remove", cart |-> c, photo |-> p])
    /\ UNCHANGED <<orderVars, carts, content, bill>>

RemoveItem(t) ==
    /\ task[t].step = "remove"
    /\ TakeItem(task[t].cart, task[t].photo)
    /\ Finish(t)
    /\ UNCHANGED <<orderVars, carts, bill>>

-----------------------------------------------------------------------------
\* MergeCartHandler finds the cart of the session, then that of the user.
\* Without a cart of the session it has nothing to do.
MergeCart(t, u, s) ==
    /\ \E c \in ActiveCarts(s) :
         Begin(t, [step |-> "find_user", user |-> u, cart |-> c])
    /\ UNCHANGED <<orderVars, carts, content, bill>>

FindUserCart(t) ==
    /\ task[t].step = "find_user"
    /\ LET u == task[t].user IN
       IF ActiveCarts(u) = {} THEN Goto(t, [task[t] EXCEPT !.step = "transfer"])
       ELSE \E d \in ActiveCarts(u) :
              Goto(t, [step |-> "merge", cart |-> task[t].cart, into |-> d])
    /\ UNCHANGED <<orderVars, carts, content, bill>>

\* mergeAnonymousToUser, one transaction: the photos the user's cart does not
\* have are inserted, but createMany skips those that have a row there, also
\* one taken out before; then the session's cart is converted.
MergeIntoUserCart(t) ==
    /\ task[t].step = "merge"
    /\ LET c == task[t].cart   d == task[t].into IN
       /\ content' = [content EXCEPT ![d] = [p \in Photos |->
            IF @[p] = "absent" /\ p \in InCart(c) THEN "in" ELSE @[p]]]
       /\ ConvertCart(c)
    /\ Finish(t)
    /\ UNCHANGED <<orderVars, bill>>

\* transferCartToUser, refused by the index when the cart is active and the
\* user got an active cart meanwhile.
TransferCart(t) ==
    /\ task[t].step = "transfer"
    /\ LET c == task[t].cart   u == task[t].user IN
       /\ carts[c].status = "active" => ActiveCarts(u) \subseteq {c}
       /\ GiveTo(c, u)
    /\ Finish(t)
    /\ UNCHANGED <<orderVars, content, bill>>

TransferConflict(t) ==
    /\ task[t].step = "transfer"
    /\ carts[task[t].cart].status = "active"
    /\ ~(ActiveCarts(task[t].user) \subseteq {task[t].cart})
    /\ Finish(t)
    /\ UNCHANGED <<orderVars, carts, content, bill>>

-----------------------------------------------------------------------------
\* CheckoutCartHandler: finds the cart, then reads its items.
Checkout(t, u, lines) ==
    /\ \E c \in ActiveCarts(u) :
         Begin(t, [step |-> "read", cart |-> c, lines |-> lines])
    /\ UNCHANGED <<orderVars, carts, content, bill>>

\* Every event a line names must have a photo in the cart; lines may repeat an
\* event.  The customer's profile passes its check.
ReadItems(t) ==
    /\ task[t].step = "read"
    /\ LET q == task[t]   seen == CartItems(q.cart) IN
       IF \A i \in DOMAIN q.lines : OfEvent(seen, q.lines[i]) # {}
       THEN Goto(t, [step |-> "order", cart |-> q.cart, lines |-> q.lines,
                     done |-> 0, seen |-> seen])
       ELSE Finish(t)
    /\ UNCHANGED <<orderVars, carts, content, bill>>

\* saveWithSnap of the order of the next line.
CreateOrder(t, o) ==
    /\ task[t].step = "order"
    /\ o \notin DOMAIN orders
    /\ LET q == task[t]   e == q.lines[q.done + 1] IN
       /\ Store(o, NewOrder(NoPreview))
       /\ bill' = [bill EXCEPT ![o] =
            [cart |-> q.cart, event |-> e, photos |-> OfEvent(q.seen, e)]]
       /\ Goto(t, [step |-> "photos", cart |-> q.cart, lines |-> q.lines,
                   done |-> q.done, seen |-> q.seen, order |-> o])
    /\ UNCHANGED <<items, carts, content>>

\* Seeded bug: the cart is closed after the first line.
NextStepAfterFirst(q) == "convert"

\* After a line comes the next one, and after the last the cart is closed.
NextStep(q) == IF q.done + 1 = Len(q.lines) THEN "convert" ELSE "order"

\* savePhotos; then the next line, or the end of the loop.
SaveItems(t) ==
    /\ task[t].step = "photos"
    /\ SavePhotos(task[t].order)
    /\ LET q == task[t] IN
       Goto(t, [step |-> NextStep(q), cart |-> q.cart, lines |-> q.lines,
                done |-> q.done + 1, seen |-> q.seen])
    /\ UNCHANGED <<orders, carts, content, bill>>

CloseCart(t) ==
    /\ task[t].step = "convert"
    /\ ConvertCart(task[t].cart)
    /\ Finish(t)
    /\ UNCHANGED <<orderVars, content, bill>>

\* A query fails, or the process restarts; what was written stays.
TaskFails(t) ==
    /\ task[t] # Idle
    /\ Finish(t)
    /\ UNCHANGED <<orderVars, carts, content, bill>>

-----------------------------------------------------------------------------
\* CartController
CartCommand(t) ==
    /\ \/ \E owner \in Owners, p \in Photos :
            AddToCart(t, owner, p) \/ RemoveFromCart(t, owner, p)
       \/ \E u \in Users, s \in Sessions : MergeCart(t, u, s)
       \/ \E u \in Users, lines \in Lines : Checkout(t, u, lines)
    /\ alone' = (alone /\ \A x \in Tasks : task[x] = Idle)

CartStep(t) ==
    /\ \/ \E c \in CartIds : CreateCart(t, c)
       \/ CreateConflict(t) \/ AddItem(t) \/ RemoveItem(t)
       \/ FindUserCart(t) \/ MergeIntoUserCart(t) \/ TransferCart(t) \/ TransferConflict(t)
       \/ ReadItems(t) \/ SaveItems(t) \/ CloseCart(t)
       \/ \E o \in OrderIds : CreateOrder(t, o)
       \/ TaskFails(t)
    /\ UNCHANGED alone

CartNext == \E t \in Tasks : CartCommand(t) \/ CartStep(t)

CartSpec == CartInit /\ [][CartNext]_cartVars

-----------------------------------------------------------------------------
\* CheckoutCartHandler reaches markConverted only when every line it was given
\* has an order in the tables with the photos the cart held for it, whatever
\* other tasks did to the cart since it was read.
CheckoutComplete ==
    \A t \in Tasks : task[t].step = "convert" =>
        \A i \in DOMAIN task[t].lines : \E o \in DOMAIN orders :
            LET e == task[t].lines[i] IN
            /\ items[o] = "saved"
            /\ bill[o] = [cart |-> task[t].cart, event |-> e,
                          photos |-> OfEvent(task[t].seen, e)]

\* As long as they have not overlapped, dying anywhere, the commands keep the
\* promises of Basket (add-to-cart, remove-from-cart, merge-cart, checkout-cart).
Baskets == INSTANCE Basket WITH
    basket <- [w \in Owners |-> UNION {InCart(c) : c \in ActiveCarts(w)}],
    dropped <- [w \in Owners |->
                  {p \in Photos : \E c \in ActiveCarts(w) : content[c][p] = "out"}],
    billed <- [u \in Users |->
                 {bill[o].photos : o \in {x \in DOMAIN orders :
                    items[x] = "saved" /\ bill[x].cart \in ActiveCarts(u)}}]

KeepsBasket ==
    Baskets!BasketInit /\ [][alone' => [Baskets!BasketNext]_(Baskets!basketVars)]_cartVars

\* "merge session items into user cart, mark session cart converted": no merge
\* closes the cart of a user.
MergeClosesSessionCarts ==
    [][\A t \in Tasks : task[t].step = "merge" /\ task'[t] = Idle =>
         \A c \in DOMAIN carts :
            carts[c].status = "active" /\ carts'[c].status = "converted"
                => carts[c].user = NoOwner]_carts
=============================================================================

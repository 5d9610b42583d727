----------------------------- MODULE CartProofs -----------------------------
(***************************************************************************)
(* The theorems of Cart, for any number of carts, customers, photos and    *)
(* commands.  Order of the argument: types; what is written and stays;     *)
(* what each command knows; commands that do not overlap; the promises of  *)
(* Basket.                                                                 *)
(***************************************************************************)
EXTENDS Cart, TLAPS

-----------------------------------------------------------------------------
(* The inductive invariant.  What is written stays whatever overlaps: a    *)
(* cart keeps its user, an order its bill and its items, so a checkout can *)
(* count on the lines it has done.  Only while commands have not           *)
(* overlapped is what a command has read still so.                         *)

Bill == [cart : CartIds, event : Events, photos : SUBSET Photos]

\* What the order of line i of checkout q says.
BillOf(q, i) == [cart |-> q.cart, event |-> q.lines[i], photos |-> OfEvent(q.seen, q.lines[i])]

\* An order, its bill and its items; a cart that has no row yet has no photo.
RecordsOK ==
    /\ bill \in [OrderIds -> {NoBill} \cup Bill]
    /\ \A o \in OrderIds \ DOMAIN orders : items[o] = "none"
    /\ \A o \in DOMAIN orders :
         /\ bill[o] \in Bill
         /\ bill[o].cart \in DOMAIN carts
         /\ carts[bill[o].cart].user \in Users
    /\ \A c \in CartIds \ DOMAIN carts : \A p \in Photos : content[c][p] = "absent"

\* The partial unique indexes of the migration: one active cart for an owner.
OneActiveCart == \A w \in Owners : \A c, d \in ActiveCarts(w) : c = d

\* Steps whose command has found a cart, and those of a checkout.
WithCart == {"add", "remove", "find_user", "transfer", "merge", "read", "order", "photos", "convert"}
Ordering == {"order", "photos", "convert"}

\* What a checkout has done stays done.
LineDone(q, i) == \E o \in DOMAIN orders : items[o] = "saved" /\ bill[o] = BillOf(q, i)

ProgressOK(q) ==
    /\ q.step \in {"order", "photos"} => q.done < Len(q.lines)
    /\ q.step = "convert" => q.done = Len(q.lines)
    /\ q.step = "photos" => q.order \in DOMAIN orders /\ bill[q.order] = BillOf(q, q.done + 1)
    /\ q.step \in Ordering => \A i \in 1 .. q.done : LineDone(q, i)

\* Carts are never deleted, and never lose their user.
CartsKnown(q) ==
    /\ q.step \in WithCart => q.cart \in DOMAIN carts
    /\ q.step = "merge" => q.into \in DOMAIN carts /\ carts[q.into].user \in Users
    /\ q.step \in Ordering \cup {"read"} => carts[q.cart].user \in Users

\* What a command that runs alone has read is still so.
Current(q) ==
    /\ q.step = "create" => ActiveCarts(q.owner) = {}
    /\ q.step \in WithCart => carts[q.cart].status = "active"
    /\ q.step \in {"find_user", "transfer", "merge"} => carts[q.cart].user = NoOwner
    /\ q.step = "transfer" => ActiveCarts(q.user) = {}
    /\ q.step = "merge" => carts[q.into].status = "active"
    /\ q.step \in Ordering =>
         /\ q.seen = InCart(q.cart)
         /\ \A i \in DOMAIN q.lines : OfEvent(q.seen, q.lines[i]) # {}

AloneOK ==
    alone => /\ \A t, x \in Tasks : task[t] # Idle /\ task[x] # Idle => t = x
             /\ \A t \in Tasks : Current(task[t])

CartInductive ==
    /\ CartTypeOK
    /\ RecordsOK
    /\ OneActiveCart
    /\ \A t \in Tasks : ProgressOK(task[t])
    /\ \A t \in Tasks : CartsKnown(task[t])
    /\ AloneOK

-----------------------------------------------------------------------------
(* Types.                                                                  *)

\* Every step of a command has its own record.
LEMMA TaskShapes ==
    ASSUME NEW q \in Task
    PROVE  /\ q.step = "create" => q \in [step : {"create"}, owner : Owners, photo : Photos]
           /\ q.step \in {"add", "remove"} =>
                q \in [step : {"add", "remove"}, cart : CartIds, photo : Photos]
           /\ q.step \in {"find_user", "transfer"} =>
                q \in [step : {"find_user", "transfer"}, user : Users, cart : CartIds]
           /\ q.step = "merge" => q \in [step : {"merge"}, cart : CartIds, into : CartIds]
           /\ q.step = "read" => q \in [step : {"read"}, cart : CartIds, lines : Lines]
           /\ q.step \in {"order", "convert"} =>
                q \in [step : {"order", "convert"}, cart : CartIds, lines : Lines,
                       done : 0 .. MaxLines, seen : SUBSET Photos]
           /\ q.step = "photos" =>
                q \in [step : {"photos"}, cart : CartIds, lines : Lines,
                       done : 0 .. MaxLines, seen : SUBSET Photos, order : OrderIds]
  BY DEF Task, Idle

\* A checkout names at least one line.
LEMMA LinesAre ==
    ASSUME NEW lines \in Lines
    PROVE  /\ Len(lines) \in 1 .. MaxLines
           /\ DOMAIN lines = 1 .. Len(lines)
           /\ \A i \in 1 .. Len(lines) : lines[i] \in Events
  <1>1. PICK n \in 1 .. MaxLines : lines \in [1 .. n -> Events]
    BY DEF Lines
  <1>2. lines \in Seq(Events) /\ Len(lines) = n
    BY <1>1, CartAssumption
  <1> QED BY <1>1, <1>2, CartAssumption

\* The empty shop.
LEMMA CartTypeInit == CartInit => CartTypeOK /\ RecordsOK
  <1> SUFFICES ASSUME CartInit PROVE CartTypeOK /\ RecordsOK
    OBVIOUS
  <1>1. /\ DOMAIN orders = {} /\ DOMAIN carts = {}
        /\ items = [o \in OrderIds |-> "none"]
        /\ content = [c \in CartIds |-> [p \in Photos |-> "absent"]]
        /\ task = [t \in Tasks |-> Idle]
        /\ bill = [o \in OrderIds |-> NoBill]
        /\ alone = TRUE
    BY DEF CartInit, OrderInit, NoRows
  <1>2. OrderTablesOK
    BY <1>1 DEF OrderTablesOK, ItemsState
  <1>3. content \in [CartIds -> [Photos -> ItemState]]
    BY <1>1 DEF ItemState
  <1>4. task \in [Tasks -> Task] /\ alone \in BOOLEAN
    BY <1>1 DEF Task
  <1> QED BY <1>1, <1>2, <1>3, <1>4 DEF CartTypeOK, RecordsOK

\* A command ends, or goes on to a well-typed step.
LEMMA TaskMoves ==
    ASSUME task \in [Tasks -> Task], NEW t \in Tasks, NEW q, Goto(t, q) \/ Begin(t, q), q \in Task
    PROVE  task' \in [Tasks -> Task]
  BY DEF Goto, Begin

\* What a step does to the task that takes it.
LEMMA Moved ==
    ASSUME task \in [Tasks -> Task], NEW t \in Tasks, NEW q, Goto(t, q) \/ Begin(t, q)
    PROVE  /\ task'[t] = q
           /\ \A x \in Tasks \ {t} : task'[x] = task[x]
  BY DEF Goto, Begin

\* A command that begins keeps the types.
LEMMA CommandTypes ==
    ASSUME CartTypeOK, RecordsOK, NEW t \in Tasks, CartCommand(t)
    PROVE  CartTypeOK' /\ UNCHANGED <<orders, items, carts, content, bill>>
  <1>1. UNCHANGED <<orders, items, carts, content, bill>>
    BY DEF CartCommand, AddToCart, RemoveFromCart, MergeCart, Checkout, orderVars
  <1>2. \E q \in Task : Begin(t, q)
    <2>0. \A w : ActiveCarts(w) \subseteq CartIds
      BY DEF ActiveCarts, CartTypeOK
    <2>1. ASSUME NEW w \in Owners, NEW p \in Photos, AddToCart(t, w, p)
          PROVE  \E q \in Task : Begin(t, q)
      <3>1. [step |-> "create", owner |-> w, photo |-> p] \in Task
        BY DEF Task
      <3>2. \A c \in CartIds : [step |-> "add", cart |-> c, photo |-> p] \in Task
        BY DEF Task
      <3> QED BY <2>0, <2>1, <3>1, <3>2 DEF AddToCart
    <2>2. ASSUME NEW w \in Owners, NEW p \in Photos, RemoveFromCart(t, w, p)
          PROVE  \E q \in Task : Begin(t, q)
      <3>1. \A c \in CartIds : [step |-> "remove", cart |-> c, photo |-> p] \in Task
        BY DEF Task
      <3> QED BY <2>0, <2>2, <3>1 DEF RemoveFromCart
    <2>3. ASSUME NEW u \in Users, NEW s \in Sessions, MergeCart(t, u, s)
          PROVE  \E q \in Task : Begin(t, q)
      <3>1. \A c \in CartIds : [step |-> "find_user", user |-> u, cart |-> c] \in Task
        BY DEF Task
      <3> QED BY <2>0, <2>3, <3>1 DEF MergeCart
    <2>4. ASSUME NEW u \in Users, NEW lines \in Lines, Checkout(t, u, lines)
          PROVE  \E q \in Task : Begin(t, q)
      <3>1. \A c \in CartIds : [step |-> "read", cart |-> c, lines |-> lines] \in Task
        BY DEF Task
      <3> QED BY <2>0, <2>4, <3>1 DEF Checkout
    <2> QED BY <2>1, <2>2, <2>3, <2>4 DEF CartCommand
  <1>3. task' \in [Tasks -> Task]
    BY <1>2, TaskMoves DEF CartTypeOK
  <1>4. alone' \in BOOLEAN
    BY DEF CartCommand, CartTypeOK
  <1> QED BY <1>1, <1>3, <1>4 DEF CartTypeOK, OrderTablesOK

\* The bills are typed too, which CartTypeOK leaves to those that exist.
BillsTyped == bill \in [OrderIds -> {NoBill} \cup Bill]

\* A user or a session owns a new cart, not both.
LEMMA NewCartRow ==
    ASSUME NEW w \in Owners
    PROVE  (IF w \in Users THEN [user |-> w, session |-> NoOwner, status |-> "active"]
            ELSE [user |-> NoOwner, session |-> w, status |-> "active"]) \in CartRow
  BY DEF Owners, CartRow

\* What closing a cart and giving it to a user change of the table carts.
LEMMA CartsWritten ==
    ASSUME CartTypeOK, NEW c \in DOMAIN carts
    PROVE  /\ ConvertCart(c) =>
                /\ DOMAIN carts' = DOMAIN carts
                /\ carts'[c] = [carts[c] EXCEPT !.status = "converted"]
                /\ \A d \in DOMAIN carts \ {c} : carts'[d] = carts[d]
           /\ \A u : GiveTo(c, u) =>
                /\ DOMAIN carts' = DOMAIN carts
                /\ carts'[c] = [carts[c] EXCEPT !.user = u, !.session = NoOwner]
                /\ \A d \in DOMAIN carts \ {c} : carts'[d] = carts[d]
  BY DEF ConvertCart, GiveTo, CartTypeOK, CartRow

\* The table stays well typed with what these statements write.
LEMMA CartsStayTyped ==
    ASSUME CartTypeOK, NEW c \in DOMAIN carts, ConvertCart(c) \/ \E u \in Users : GiveTo(c, u)
    PROVE  /\ DOMAIN carts' = DOMAIN carts
           /\ \A d \in DOMAIN carts : carts'[d] \in CartRow
  <1>1. \A d \in DOMAIN carts : carts[d] \in CartRow
    BY DEF CartTypeOK
  <1>2. CASE ConvertCart(c)
    <2>1. /\ DOMAIN carts' = DOMAIN carts
          /\ carts'[c] = [carts[c] EXCEPT !.status = "converted"]
          /\ \A d \in DOMAIN carts \ {c} : carts'[d] = carts[d]
      BY <1>2, CartsWritten
    <2>2. [carts[c] EXCEPT !.status = "converted"] \in CartRow
      BY <1>1 DEF CartRow
    <2> QED BY <1>1, <2>1, <2>2
  <1>3. ASSUME NEW u \in Users, GiveTo(c, u)
        PROVE  DOMAIN carts' = DOMAIN carts /\ \A d \in DOMAIN carts : carts'[d] \in CartRow
    <2>1. /\ DOMAIN carts' = DOMAIN carts
          /\ carts'[c] = [carts[c] EXCEPT !.user = u, !.session = NoOwner]
          /\ \A d \in DOMAIN carts \ {c} : carts'[d] = carts[d]
      BY <1>3, CartsWritten
    <2>2. [carts[c] EXCEPT !.user = u, !.session = NoOwner] \in CartRow
      BY <1>1 DEF CartRow
    <2> QED BY <1>1, <2>1, <2>2
  <1> QED BY <1>2, <1>3

\* Every step of a command in flight keeps the types.
LEMMA CartStepTypes ==
    ASSUME CartTypeOK, BillsTyped, NEW t \in Tasks, CartsKnown(task[t]), ProgressOK(task[t]), CartStep(t)
    PROVE  CartTypeOK' /\ BillsTyped'
  <1> USE DEF orderVars
  <1>1. /\ task \in [Tasks -> Task] /\ task[t] \in Task /\ UNCHANGED alone
        /\ content \in [CartIds -> [Photos -> ItemState]]
        /\ DOMAIN carts \subseteq CartIds /\ \A c \in DOMAIN carts : carts[c] \in CartRow
    BY DEF CartTypeOK, CartStep
  <1>2. Idle \in Task
    BY DEF Task
  <1> DEFINE CartsOK == DOMAIN carts \subseteq CartIds /\ \A c \in DOMAIN carts : carts[c] \in CartRow
             ContentOK == content \in [CartIds -> [Photos -> ItemState]]
             TaskOK == task \in [Tasks -> Task]
  <1>3. UNCHANGED orderVars => OrderTablesOK'
    BY DEF CartTypeOK, OrderTablesOK
  <1>4. BillsTyped' => \A o \in OrderIds : bill'[o] # NoBill => bill'[o] \in Bill
    BY DEF BillsTyped
  <1>5. ASSUME OrderTablesOK', CartsOK', ContentOK', TaskOK', BillsTyped'
        PROVE  CartTypeOK' /\ BillsTyped'
    BY <1>1, <1>4, <1>5 DEF CartTypeOK, Bill
  <1>6. \A q \in Task : Goto(t, q) => TaskOK'
    BY <1>1, TaskMoves
  <1>7. UNCHANGED bill => BillsTyped'
    BY DEF BillsTyped
  <1>8. Finish(t) => TaskOK'
    BY <1>2, <1>6 DEF Finish
  <1>9. UNCHANGED carts => CartsOK'
    BY <1>1
  <1>10. UNCHANGED content => ContentOK'
    BY <1>1
  <1>11. ASSUME NEW c \in CartIds, CreateCart(t, c) PROVE CartTypeOK' /\ BillsTyped'
    <2>1. task[t].owner \in Owners /\ task[t].photo \in Photos
      BY <1>1, <1>11, TaskShapes DEF CreateCart
    <2>2. CartsOK'
      BY <1>1, <1>11, <2>1, NewCartRow DEF CreateCart, InsertCart, Upsert
    <2>3. [step |-> "add", cart |-> c, photo |-> task[t].photo] \in Task
      BY <2>1 DEF Task
    <2> QED BY <1>3, <1>5, <1>6, <1>7, <1>10, <1>11, <2>2, <2>3 DEF CreateCart
  <1>12. CASE CreateConflict(t) \/ TransferConflict(t) \/ TaskFails(t)
    BY <1>3, <1>5, <1>7, <1>8, <1>9, <1>10, <1>12 DEF CreateConflict, TransferConflict, TaskFails
  <1>13. CASE AddItem(t) \/ RemoveItem(t)
    <2>1. ContentOK'
      BY <1>1, <1>13 DEF AddItem, RemoveItem, PutItem, TakeItem, ItemState
    <2> QED BY <1>3, <1>5, <1>7, <1>8, <1>9, <1>13, <2>1 DEF AddItem, RemoveItem
  <1>14. CASE FindUserCart(t)
    <2>1. task[t].user \in Users /\ task[t].cart \in CartIds
      BY <1>1, <1>14, TaskShapes DEF FindUserCart
    <2>2. [task[t] EXCEPT !.step = "transfer"] \in Task
      <3>1. task[t] \in [step : {"find_user", "transfer"}, user : Users, cart : CartIds]
        BY <1>1, <1>14, TaskShapes DEF FindUserCart
      <3> QED BY <3>1 DEF Task
    <2>3. \A d \in ActiveCarts(task[t].user) :
            [step |-> "merge", cart |-> task[t].cart, into |-> d] \in Task
      BY <1>1, <2>1 DEF ActiveCarts, Task
    <2>4. \E q \in Task : Goto(t, q)
      BY <1>14, <2>2, <2>3 DEF FindUserCart
    <2> QED BY <1>3, <1>5, <1>6, <1>7, <1>9, <1>10, <1>14, <2>4 DEF FindUserCart
  <1>15. CASE MergeIntoUserCart(t)
    <2>1. ContentOK'
      BY <1>1, <1>15 DEF MergeIntoUserCart, ItemState
    <2>2. CartsOK'
      <3>1. task[t].cart \in DOMAIN carts /\ ConvertCart(task[t].cart)
        BY <1>15 DEF MergeIntoUserCart, CartsKnown, WithCart
      <3> QED BY <1>1, <3>1, CartsStayTyped
    <2> QED BY <1>3, <1>5, <1>7, <1>8, <1>15, <2>1, <2>2 DEF MergeIntoUserCart
  <1>16. CASE TransferCart(t)
    <2>1. task[t].user \in Users
      BY <1>1, <1>16, TaskShapes DEF TransferCart
    <2>2. CartsOK'
      <3>1. task[t].cart \in DOMAIN carts /\ GiveTo(task[t].cart, task[t].user)
        BY <1>16 DEF TransferCart, CartsKnown, WithCart
      <3> QED BY <1>1, <2>1, <3>1, CartsStayTyped
    <2> QED BY <1>3, <1>5, <1>7, <1>8, <1>10, <1>16, <2>2 DEF TransferCart
  <1>17. CASE ReadItems(t)
    <2>1. task[t].cart \in CartIds /\ task[t].lines \in Lines
      BY <1>1, <1>17, TaskShapes DEF ReadItems
    <2>2. [step |-> "order", cart |-> task[t].cart, lines |-> task[t].lines,
           done |-> 0, seen |-> CartItems(task[t].cart)] \in Task
      BY <2>1, CartAssumption DEF Task, CartItems, InCart
    <2>3. \E q \in Task : Goto(t, q)
      BY <1>2, <1>17, <2>2 DEF ReadItems, Finish
    <2> QED BY <1>3, <1>5, <1>6, <1>7, <1>9, <1>10, <1>17, <2>3 DEF ReadItems
  <1>18. ASSUME NEW o \in OrderIds, CreateOrder(t, o) PROVE CartTypeOK' /\ BillsTyped'
    <2>1. task[t] \in [step : {"order", "convert"}, cart : CartIds, lines : Lines,
                       done : 0 .. MaxLines, seen : SUBSET Photos]
      BY <1>1, <1>18, TaskShapes DEF CreateOrder
    <2>2. task[t].lines[task[t].done + 1] \in Events
      BY <1>18, <2>1, LinesAre DEF CreateOrder, ProgressOK
    <2>3. BillsTyped'
      BY <1>18, <2>1, <2>2 DEF CreateOrder, BillsTyped, Bill, OfEvent
    <2>4. NewOrder(NoPreview) \in OrderRow
      BY DEF NewOrder, OrderRow, OrderStatus
    <2>5. OrderTablesOK'
      BY <1>18, <2>4 DEF CreateOrder, CartTypeOK, OrderTablesOK, Store, Upsert
    <2>6. [step |-> "photos", cart |-> task[t].cart, lines |-> task[t].lines,
           done |-> task[t].done, seen |-> task[t].seen, order |-> o] \in Task
      BY <2>1 DEF Task
    <2> QED BY <1>5, <1>6, <1>9, <1>10, <1>18, <2>3, <2>5, <2>6 DEF CreateOrder
  <1>19. CASE SaveItems(t)
    <2>1. task[t] \in [step : {"photos"}, cart : CartIds, lines : Lines,
                       done : 0 .. MaxLines, seen : SUBSET Photos, order : OrderIds]
      BY <1>1, <1>19, TaskShapes DEF SaveItems
    <2>2. task[t].done + 1 \in 0 .. MaxLines
      BY <1>19, <2>1, LinesAre, CartAssumption DEF SaveItems, ProgressOK
    <2>3. OrderTablesOK'
      BY <1>19, <2>1 DEF SaveItems, SavePhotos, CartTypeOK, OrderTablesOK, ItemsState
    <2>4. [step |-> NextStep(task[t]), cart |-> task[t].cart, lines |-> task[t].lines,
           done |-> task[t].done + 1, seen |-> task[t].seen] \in Task
      BY <2>1, <2>2 DEF Task, NextStep
    <2> QED BY <1>5, <1>6, <1>7, <1>9, <1>10, <1>19, <2>3, <2>4 DEF SaveItems
  <1>20. CASE CloseCart(t)
    <2>1. CartsOK'
      <3>1. task[t].cart \in DOMAIN carts /\ ConvertCart(task[t].cart)
        BY <1>20 DEF CloseCart, CartsKnown, WithCart
      <3> QED BY <1>1, <3>1, CartsStayTyped
    <2> QED BY <1>3, <1>5, <1>7, <1>8, <1>10, <1>20, <2>1 DEF CloseCart
  <1> QED BY <1>11, <1>12, <1>13, <1>14, <1>15, <1>16, <1>17, <1>18, <1>19, <1>20 DEF CartStep

-----------------------------------------------------------------------------
(* What is written stays.                                                  *)

\* The insert of a cart gives its owner one active cart, and nobody else any.
LEMMA InsertActivates ==
    ASSUME CartTypeOK, NEW c \in CartIds, NEW w \in Owners, InsertCart(c, w)
    PROVE  /\ ActiveCarts(w)' = {c}
           /\ \A x \in Owners \ {w} : ActiveCarts(x)' = ActiveCarts(x)
           /\ DOMAIN carts' = DOMAIN carts \cup {c}
           /\ \A d \in DOMAIN carts : carts'[d] = carts[d]
  <1>1. /\ DOMAIN carts' = DOMAIN carts \cup {c} /\ c \notin DOMAIN carts
        /\ \A d \in DOMAIN carts : carts'[d] = carts[d]
        /\ carts'[c].status = "active"
        /\ carts'[c].user \in {w, NoOwner} /\ carts'[c].session \in {w, NoOwner}
        /\ carts'[c].user = w \/ carts'[c].session = w
        /\ ActiveCarts(w) = {}
    BY DEF InsertCart, Upsert
  <1>2. \A x \in Owners : x # NoOwner
    BY CartAssumption DEF Owners
  <1>3. \A d : d \in ActiveCarts(w)' <=> d = c
    BY <1>1 DEF ActiveCarts, OwnedBy
  <1>4. ASSUME NEW x \in Owners \ {w} PROVE \A d : d \in ActiveCarts(x)' <=> d \in ActiveCarts(x)
    BY <1>1, <1>2 DEF ActiveCarts, OwnedBy
  <1>5. ActiveCarts(w)' = {c}
    BY <1>3
  <1>6. ASSUME NEW x \in Owners \ {w} PROVE ActiveCarts(x)' = ActiveCarts(x)
    BY <1>4
  <1> QED BY <1>1, <1>5, <1>6

\* Closing a cart leaves the other carts of its owner as they are.
LEMMA ConvertDeactivates ==
    ASSUME CartTypeOK, NEW c \in DOMAIN carts, ConvertCart(c)
    PROVE  /\ \A w : ActiveCarts(w)' = ActiveCarts(w) \ {c}
           /\ DOMAIN carts' = DOMAIN carts
           /\ \A d \in DOMAIN carts : carts'[d].user = carts[d].user
  <1>1. /\ DOMAIN carts' = DOMAIN carts
        /\ carts'[c].status = "converted" /\ carts'[c].user = carts[c].user
        /\ \A d \in DOMAIN carts \ {c} : carts'[d] = carts[d]
    <2>1. carts[c] \in CartRow
      BY DEF CartTypeOK
    <2>2. carts'[c] = [carts[c] EXCEPT !.status = "converted"]
      BY CartsWritten
    <2> QED BY <2>1, <2>2, CartsWritten DEF CartRow
  <1>2. ASSUME NEW w PROVE \A d : d \in ActiveCarts(w)' <=> d \in ActiveCarts(w) \ {c}
    BY <1>1 DEF ActiveCarts, OwnedBy
  <1>3. ASSUME NEW w PROVE ActiveCarts(w)' = ActiveCarts(w) \ {c}
    BY <1>2
  <1> QED BY <1>1, <1>3

\* Giving a cart to a user takes it from every other owner.
LEMMA GiveMoves ==
    ASSUME CartTypeOK, NEW c \in DOMAIN carts, NEW u \in Users, GiveTo(c, u)
    PROVE  /\ carts[c].status = "active" => ActiveCarts(u)' = ActiveCarts(u) \cup {c}
           /\ carts[c].status # "active" => ActiveCarts(u)' = ActiveCarts(u)
           /\ \A w \in Owners \ {u} : ActiveCarts(w)' = ActiveCarts(w) \ {c}
           /\ DOMAIN carts' = DOMAIN carts
           /\ carts'[c].user = u
           /\ \A d \in DOMAIN carts \ {c} : carts'[d] = carts[d]
  <1>1. /\ DOMAIN carts' = DOMAIN carts
        /\ carts'[c].status = carts[c].status
        /\ carts'[c].user = u /\ carts'[c].session = NoOwner
        /\ \A d \in DOMAIN carts \ {c} : carts'[d] = carts[d]
    <2>1. carts[c] \in CartRow
      BY DEF CartTypeOK
    <2>2. carts'[c] = [carts[c] EXCEPT !.user = u, !.session = NoOwner]
      BY CartsWritten
    <2> QED BY <2>1, <2>2, CartsWritten DEF CartRow
  <1>2. \A w \in Owners : w # NoOwner
    BY CartAssumption DEF Owners
  <1>3. \A d : d \in ActiveCarts(u)' <=> d \in ActiveCarts(u) \/ (d = c /\ carts[c].status = "active")
    BY <1>1 DEF ActiveCarts, OwnedBy
  <1>4. ASSUME NEW w \in Owners \ {u} PROVE \A d : d \in ActiveCarts(w)' <=> d \in ActiveCarts(w) \ {c}
    BY <1>1, <1>2 DEF ActiveCarts, OwnedBy
  <1>5. ASSUME NEW w \in Owners \ {u} PROVE ActiveCarts(w)' = ActiveCarts(w) \ {c}
    BY <1>4
  <1>6. carts[c].status = "active" => ActiveCarts(u)' = ActiveCarts(u) \cup {c}
    BY <1>3
  <1>7. carts[c].status # "active" => ActiveCarts(u)' = ActiveCarts(u)
    BY <1>3
  <1> QED BY <1>1, <1>5, <1>6, <1>7

\* Carts keep their users, and orders their bills and saved items.
Kept ==
    /\ \A c \in DOMAIN carts :
         c \in DOMAIN carts' /\ (carts[c].user \in Users => carts'[c].user \in Users)
    /\ \A o \in DOMAIN orders :
         /\ o \in DOMAIN orders'
         /\ bill'[o] = bill[o]
         /\ items[o] = "saved" => items'[o] = "saved"

\* What a command knows of carts and orders stays true while others run.
LEMMA OthersKnow ==
    ASSUME Kept, NEW t \in Tasks, task'[t] = task[t], ProgressOK(task[t]), CartsKnown(task[t])
    PROVE  ProgressOK(task[t])' /\ CartsKnown(task[t])'
  <1>1. \A i : LineDone(task[t], i) => LineDone(task[t], i)'
    BY DEF Kept, LineDone, BillOf
  <1>2. ProgressOK(task[t])'
    BY <1>1 DEF Kept, ProgressOK, BillOf, Ordering
  <1>3. CartsKnown(task[t])'
    BY DEF Kept, CartsKnown, WithCart, Ordering
  <1> QED BY <1>2, <1>3

\* No step of a command takes back what Kept says.
LEMMA CartStepKeeps ==
    ASSUME CartTypeOK, BillsTyped, NEW t \in Tasks, CartsKnown(task[t]), ProgressOK(task[t]), CartStep(t)
    PROVE  Kept
  <1> USE DEF orderVars
  <1>1. task[t] \in Task /\ items \in [OrderIds -> ItemsState] /\ DOMAIN orders \subseteq OrderIds
    BY DEF CartTypeOK, OrderTablesOK
  <1> DEFINE CartsKept == \A c \in DOMAIN carts :
                            c \in DOMAIN carts' /\ (carts[c].user \in Users => carts'[c].user \in Users)
  <1>2. UNCHANGED <<orders, items, bill>> /\ CartsKept => Kept
    BY DEF Kept
  <1>3. ASSUME NEW c \in CartIds, CreateCart(t, c) PROVE Kept
    BY <1>1, <1>2, <1>3, TaskShapes, InsertActivates DEF CreateCart
  <1>4. CASE MergeIntoUserCart(t)
    <2>1. task[t].cart \in DOMAIN carts /\ ConvertCart(task[t].cart)
      BY <1>4 DEF MergeIntoUserCart, CartsKnown, WithCart
    <2> QED BY <1>2, <1>4, <2>1, ConvertDeactivates DEF MergeIntoUserCart
  <1>5. CASE TransferCart(t)
    <2>1. task[t].cart \in DOMAIN carts /\ GiveTo(task[t].cart, task[t].user) /\ task[t].user \in Users
      BY <1>1, <1>5, TaskShapes DEF TransferCart, CartsKnown, WithCart
    <2>2. CartsKept
      BY <2>1, GiveMoves
    <2> QED BY <1>2, <1>5, <2>2 DEF TransferCart
  <1>6. CASE CloseCart(t)
    <2>1. task[t].cart \in DOMAIN carts /\ ConvertCart(task[t].cart)
      BY <1>6 DEF CloseCart, CartsKnown, WithCart
    <2> QED BY <1>2, <1>6, <2>1, ConvertDeactivates DEF CloseCart
  <1>7. ASSUME NEW o \in OrderIds, CreateOrder(t, o) PROVE Kept
    BY <1>1, <1>7 DEF CreateOrder, Store, Upsert, Kept, BillsTyped
  <1>8. CASE SaveItems(t)
    BY <1>1, <1>8 DEF SaveItems, SavePhotos, Kept
  <1>9. CASE UNCHANGED <<orders, items, carts, bill>>
    BY <1>2, <1>9
  <1> QED BY <1>3, <1>4, <1>5, <1>6, <1>7, <1>8, <1>9 DEF CartStep, CreateConflict, AddItem, RemoveItem,
        FindUserCart, TransferConflict, ReadItems, TaskFails

\* One active cart for an owner, as the indexes have it, whatever overlaps.
LEMMA OneActiveStays ==
    ASSUME CartTypeOK, OneActiveCart, NEW t \in Tasks, CartsKnown(task[t]), CartStep(t)
    PROVE  OneActiveCart'
  <1>1. task[t] \in Task
    BY DEF CartTypeOK
  <1>2. (\A w \in Owners : ActiveCarts(w)' \subseteq ActiveCarts(w)) => OneActiveCart'
    BY DEF OneActiveCart
  <1>3. ASSUME NEW c \in CartIds, CreateCart(t, c) PROVE OneActiveCart'
    <2>1. PICK w \in Owners : InsertCart(c, w)
      BY <1>1, <1>3, TaskShapes DEF CreateCart
    <2>2. ActiveCarts(w)' = {c} /\ \A x \in Owners \ {w} : ActiveCarts(x)' = ActiveCarts(x)
      BY <2>1, InsertActivates
    <2>3. ASSUME NEW x \in Owners PROVE \A d, e \in ActiveCarts(x)' : d = e
      BY <2>2 DEF OneActiveCart
    <2> QED BY <2>3 DEF OneActiveCart
  <1>4. CASE MergeIntoUserCart(t)
    <2>1. task[t].cart \in DOMAIN carts /\ ConvertCart(task[t].cart)
      BY <1>4 DEF MergeIntoUserCart, CartsKnown, WithCart
    <2> QED BY <1>2, <2>1, ConvertDeactivates
  <1>5. CASE TransferCart(t)
    <2>1. PICK c \in DOMAIN carts, u \in Users :
             /\ GiveTo(c, u)
             /\ carts[c].status = "active" => ActiveCarts(u) \subseteq {c}
      BY <1>1, <1>5, TaskShapes DEF TransferCart, CartsKnown, WithCart
    <2>2. \A d, e \in ActiveCarts(u)' : d = e
      <3>1. u \in Owners
        BY <2>1 DEF Owners
      <3> QED BY <2>1, <3>1, GiveMoves DEF OneActiveCart
    <2>3. \A w \in Owners \ {u} : ActiveCarts(w)' \subseteq ActiveCarts(w)
      BY <2>1, GiveMoves
    <2> QED BY <2>2, <2>3 DEF OneActiveCart
  <1>6. CASE CloseCart(t)
    <2>1. task[t].cart \in DOMAIN carts /\ ConvertCart(task[t].cart)
      BY <1>6 DEF CloseCart, CartsKnown, WithCart
    <2> QED BY <1>2, <2>1, ConvertDeactivates
  <1>7. CASE UNCHANGED carts
    BY <1>7 DEF OneActiveCart, ActiveCarts, OwnedBy
  <1> QED BY <1>3, <1>4, <1>5, <1>6, <1>7 DEF CartStep, CreateConflict, AddItem, RemoveItem,
        FindUserCart, TransferConflict, ReadItems, CreateOrder, SaveItems, TaskFails

\* Orders, bills and items stay in step, and a cart without a row stays empty.
LEMMA RecordsStay ==
    ASSUME CartTypeOK, RecordsOK, NEW t \in Tasks, CartsKnown(task[t]), ProgressOK(task[t]), CartStep(t)
    PROVE  RecordsOK'
  <1> USE DEF orderVars
  <1>1. /\ task[t] \in Task /\ items \in [OrderIds -> ItemsState] /\ DOMAIN orders \subseteq OrderIds
        /\ content \in [CartIds -> [Photos -> ItemState]] /\ BillsTyped
    BY DEF CartTypeOK, OrderTablesOK, RecordsOK, BillsTyped
  <1>2. BillsTyped' /\ CartTypeOK' /\ Kept
    BY <1>1, CartStepTypes, CartStepKeeps
  <1> DEFINE OrdersOK == /\ \A o \in OrderIds \ DOMAIN orders : items[o] = "none"
                         /\ \A o \in DOMAIN orders : bill[o] \in Bill
             CartOfBill == \A o \in DOMAIN orders :
                             bill[o].cart \in DOMAIN carts /\ carts[bill[o].cart].user \in Users
             EmptyOK == \A c \in CartIds \ DOMAIN carts : \A p \in Photos : content[c][p] = "absent"
  <1>3. OrdersOK /\ CartOfBill /\ EmptyOK
    BY DEF RecordsOK
  <1>4. OrdersOK' /\ CartOfBill' /\ EmptyOK' => RecordsOK'
    BY <1>2 DEF RecordsOK, BillsTyped
  <1>5. OrdersOK'
    <2>1. CASE UNCHANGED <<orders, items, bill>>
      BY <1>3, <2>1
    <2>2. ASSUME NEW o \in OrderIds, CreateOrder(t, o) PROVE OrdersOK'
      <3>1. /\ DOMAIN orders' = DOMAIN orders \cup {o} /\ UNCHANGED items
            /\ bill'[o] # NoBill
        BY <1>1, <2>2, CartAssumption DEF CreateOrder, Store, Upsert, BillsTyped, NoBill
      <3>2. bill'[o] \in Bill
        BY <1>2, <3>1 DEF BillsTyped
      <3> QED BY <1>2, <1>3, <3>1, <3>2 DEF Kept
    <2>3. CASE SaveItems(t)
      <3>1. task[t].order \in DOMAIN orders
        BY <2>3 DEF SaveItems, ProgressOK
      <3> QED BY <1>1, <1>3, <2>3, <3>1 DEF SaveItems, SavePhotos
    <2> QED BY <2>1, <2>2, <2>3 DEF CartStep, CreateCart, CreateConflict, AddItem, RemoveItem, FindUserCart,
              MergeIntoUserCart, TransferCart, TransferConflict, ReadItems, CloseCart, TaskFails
  <1>6. CartOfBill'
    <2>1. \A o \in DOMAIN orders : bill'[o].cart \in DOMAIN carts' /\ carts'[bill'[o].cart].user \in Users
      BY <1>2, <1>3 DEF Kept
    <2>2. CASE DOMAIN orders' = DOMAIN orders
      BY <2>1, <2>2
    <2>3. ASSUME NEW o \in OrderIds, CreateOrder(t, o) PROVE CartOfBill'
      <3>1. DOMAIN orders' = DOMAIN orders \cup {o} /\ UNCHANGED carts
        BY <2>3 DEF CreateOrder, Store, Upsert
      <3>2. bill'[o].cart = task[t].cart
        BY <1>1, <2>3 DEF CreateOrder, BillsTyped
      <3>3. task[t].cart \in DOMAIN carts /\ carts[task[t].cart].user \in Users
        BY <2>3 DEF CreateOrder, CartsKnown, WithCart, Ordering
      <3> QED BY <2>1, <3>1, <3>2, <3>3
    <2> QED BY <2>2, <2>3 DEF CartStep, CreateCart, CreateConflict, AddItem, RemoveItem, FindUserCart,
              MergeIntoUserCart, TransferCart, TransferConflict, ReadItems, SaveItems, CloseCart, TaskFails
  <1>7. EmptyOK'
    <2>1. \A c \in CartIds \ DOMAIN carts' : c \in CartIds \ DOMAIN carts
      BY <1>2 DEF Kept
    <2>2. CASE UNCHANGED content
      BY <1>3, <2>1, <2>2
    <2>3. CASE AddItem(t) \/ RemoveItem(t) \/ MergeIntoUserCart(t)
      <3>1. PICK c \in DOMAIN carts : \A d \in CartIds \ {c} : content'[d] = content[d]
        BY <1>1, <2>3 DEF AddItem, RemoveItem, MergeIntoUserCart, PutItem, TakeItem, CartsKnown, WithCart
      <3> QED BY <1>2, <1>3, <2>1, <3>1 DEF Kept
    <2> QED BY <2>2, <2>3 DEF CartStep, CreateCart, CreateConflict, FindUserCart, TransferCart,
              TransferConflict, ReadItems, CreateOrder, SaveItems, CloseCart, TaskFails
  <1> QED BY <1>4, <1>5, <1>6, <1>7

-----------------------------------------------------------------------------
(* What a command knows.                                                   *)

\* A cart found by its user belongs to a user, one found by its session does not.
LEMMA FoundCarts ==
    ASSUME CartTypeOK
    PROVE  /\ \A u \in Users : \A c \in ActiveCarts(u) :
                c \in DOMAIN carts /\ carts[c].user = u /\ carts[c].status = "active"
           /\ \A s \in Sessions : \A c \in ActiveCarts(s) :
                c \in DOMAIN carts /\ carts[c].user = NoOwner /\ carts[c].status = "active"
  BY CartAssumption DEF CartTypeOK, ActiveCarts, OwnedBy, CartRow

\* A command that has ended knows nothing.
LEMMA IdleKnows ==
    ASSUME NEW t \in Tasks, task'[t] = Idle
    PROVE  ProgressOK(task[t])' /\ CartsKnown(task[t])' /\ Current(task[t])'
  BY DEF Idle, ProgressOK, CartsKnown, Current, Ordering, WithCart

\* A command begins with a cart that is there.
LEMMA CommandKnows ==
    ASSUME CartTypeOK, RecordsOK, NEW t \in Tasks, CartCommand(t)
    PROVE  ProgressOK(task[t])' /\ CartsKnown(task[t])' /\ Current(task[t])'
  <1>1. UNCHANGED <<orders, items, carts, content, bill>> /\ task \in [Tasks -> Task]
    BY CommandTypes DEF CartTypeOK
  <1>2. \A w : ActiveCarts(w)' = ActiveCarts(w)
    BY <1>1 DEF ActiveCarts, OwnedBy
  <1>3. ASSUME NEW w \in Owners, NEW p \in Photos, AddToCart(t, w, p)
        PROVE  ProgressOK(task[t])' /\ CartsKnown(task[t])' /\ Current(task[t])'
    <2>1. CASE ActiveCarts(w) = {}
      <3>1. task'[t] = [step |-> "create", owner |-> w, photo |-> p]
        BY <1>1, <1>3, <2>1, Moved DEF AddToCart
      <3> QED BY <1>2, <2>1, <3>1 DEF ProgressOK, CartsKnown, Current, Ordering, WithCart
    <2>2. CASE ActiveCarts(w) # {}
      <3>1. PICK c \in ActiveCarts(w) : task'[t] = [step |-> "add", cart |-> c, photo |-> p]
        BY <1>1, <1>3, <2>2, Moved DEF AddToCart
      <3>2. c \in DOMAIN carts' /\ carts'[c].status = "active"
        BY <1>1 DEF ActiveCarts
      <3> QED BY <3>1, <3>2 DEF ProgressOK, CartsKnown, Current, Ordering, WithCart
    <2> QED BY <2>1, <2>2
  <1>4. ASSUME NEW w \in Owners, NEW p \in Photos, RemoveFromCart(t, w, p)
        PROVE  ProgressOK(task[t])' /\ CartsKnown(task[t])' /\ Current(task[t])'
    <2>1. PICK c \in ActiveCarts(w) : task'[t] = [step |-> "remove", cart |-> c, photo |-> p]
      BY <1>1, <1>4, Moved DEF RemoveFromCart
    <2>2. c \in DOMAIN carts' /\ carts'[c].status = "active"
      BY <1>1 DEF ActiveCarts
    <2> QED BY <2>1, <2>2 DEF ProgressOK, CartsKnown, Current, Ordering, WithCart
  <1>5. ASSUME NEW u \in Users, NEW s \in Sessions, MergeCart(t, u, s)
        PROVE  ProgressOK(task[t])' /\ CartsKnown(task[t])' /\ Current(task[t])'
    <2>1. PICK c \in ActiveCarts(s) : task'[t] = [step |-> "find_user", user |-> u, cart |-> c]
      BY <1>1, <1>5, Moved DEF MergeCart
    <2>2. c \in DOMAIN carts' /\ carts'[c].status = "active" /\ carts'[c].user = NoOwner
      BY <1>1, FoundCarts
    <2> QED BY <2>1, <2>2 DEF ProgressOK, CartsKnown, Current, Ordering, WithCart
  <1>6. ASSUME NEW u \in Users, NEW lines \in Lines, Checkout(t, u, lines)
        PROVE  ProgressOK(task[t])' /\ CartsKnown(task[t])' /\ Current(task[t])'
    <2>1. PICK c \in ActiveCarts(u) : task'[t] = [step |-> "read", cart |-> c, lines |-> lines]
      BY <1>1, <1>6, Moved DEF Checkout
    <2>2. c \in DOMAIN carts' /\ carts'[c].status = "active" /\ carts'[c].user \in Users
      BY <1>1, FoundCarts
    <2> QED BY <2>1, <2>2 DEF ProgressOK, CartsKnown, Current, Ordering, WithCart
  <1> QED BY <1>3, <1>4, <1>5, <1>6 DEF CartCommand

\* A command goes on with carts that are there and, in a checkout, with the
\* lines it has done behind it.
LEMMA StepKnows ==
    ASSUME CartTypeOK, RecordsOK, NEW t \in Tasks, CartsKnown(task[t]), ProgressOK(task[t]), CartStep(t)
    PROVE  ProgressOK(task[t])' /\ CartsKnown(task[t])'
  <1> USE DEF orderVars
  <1>1. /\ task \in [Tasks -> Task] /\ task[t] \in Task
        /\ items \in [OrderIds -> ItemsState] /\ DOMAIN orders \subseteq OrderIds
        /\ BillsTyped
    BY DEF CartTypeOK, OrderTablesOK, RecordsOK, BillsTyped
  <1>2. Kept
    BY <1>1, CartStepKeeps
  <1>3. Finish(t) => ProgressOK(task[t])' /\ CartsKnown(task[t])'
    BY <1>1, Moved, IdleKnows DEF Finish
  <1>4. ASSUME NEW c \in CartIds, CreateCart(t, c) PROVE ProgressOK(task[t])' /\ CartsKnown(task[t])'
    <2>1. task'[t].step = "add" /\ task'[t].cart = c
      BY <1>1, <1>4, Moved DEF CreateCart
    <2>2. c \in DOMAIN carts'
      BY <1>4 DEF CreateCart, InsertCart, Upsert
    <2> QED BY <2>1, <2>2 DEF ProgressOK, CartsKnown, Ordering, WithCart
  <1>5. CASE FindUserCart(t)
    <2>1. task[t] \in [step : {"find_user", "transfer"}, user : Users, cart : CartIds]
      BY <1>1, <1>5, TaskShapes DEF FindUserCart
    <2>2. PICK c : c = task[t].cart /\ c \in DOMAIN carts
      BY <1>5 DEF FindUserCart, CartsKnown, WithCart
    <2>3. UNCHANGED carts
      BY <1>5 DEF FindUserCart
    <2>4. CASE Goto(t, [task[t] EXCEPT !.step = "transfer"])
      <3>1. task'[t].step = "transfer" /\ task'[t].cart = c
        BY <1>1, <2>1, <2>2, <2>4, Moved
      <3> QED BY <2>2, <2>3, <3>1 DEF ProgressOK, CartsKnown, Ordering, WithCart
    <2>5. ASSUME NEW d \in ActiveCarts(task[t].user),
                 Goto(t, [step |-> "merge", cart |-> task[t].cart, into |-> d])
          PROVE  ProgressOK(task[t])' /\ CartsKnown(task[t])'
      <3>1. task'[t] = [step |-> "merge", cart |-> c, into |-> d]
        BY <1>1, <2>2, <2>5, Moved
      <3>2. d \in DOMAIN carts' /\ carts'[d].user \in Users
        BY <2>1, <2>3, FoundCarts
      <3> QED BY <2>2, <2>3, <3>1, <3>2 DEF ProgressOK, CartsKnown, Ordering, WithCart
    <2> QED BY <1>5, <2>4, <2>5 DEF FindUserCart
  <1>6. CASE ReadItems(t)
    <2>1. CASE Finish(t)
      BY <1>3, <2>1
    <2>2. CASE Goto(t, [step |-> "order", cart |-> task[t].cart, lines |-> task[t].lines,
                        done |-> 0, seen |-> CartItems(task[t].cart)])
      <3>1. task[t].lines \in Lines
        BY <1>1, <1>6, TaskShapes DEF ReadItems
      <3>2. PICK c : c = task[t].cart /\ c \in DOMAIN carts /\ carts[c].user \in Users
        BY <1>6 DEF ReadItems, CartsKnown, WithCart, Ordering
      <3>3. PICK lines : lines = task[t].lines /\ 0 < Len(lines)
        BY <3>1, LinesAre
      <3>4. task'[t].step = "order" /\ task'[t].cart = c /\ task'[t].lines = lines /\ task'[t].done = 0
        BY <1>1, <2>2, <3>2, <3>3, Moved
      <3>5. UNCHANGED carts
        BY <1>6 DEF ReadItems
      <3> QED BY <3>2, <3>3, <3>4, <3>5 DEF ProgressOK, CartsKnown, Ordering, WithCart
    <2> QED BY <1>6, <2>1, <2>2 DEF ReadItems
  <1>7. ASSUME NEW o \in OrderIds, CreateOrder(t, o) PROVE ProgressOK(task[t])' /\ CartsKnown(task[t])'
    <2>1. PICK q : /\ q = task[t]
                   /\ q \in [step : {"order", "convert"}, cart : CartIds, lines : Lines,
                             done : 0 .. MaxLines, seen : SUBSET Photos]
                   /\ q.step = "order"
      BY <1>1, <1>7, TaskShapes DEF CreateOrder
    <2>2. /\ q.done < Len(q.lines) /\ q.cart \in DOMAIN carts /\ carts[q.cart].user \in Users
          /\ \A i \in 1 .. q.done : LineDone(q, i)
      BY <2>1 DEF ProgressOK, CartsKnown, WithCart, Ordering
    <2>3. /\ task'[t] = [step |-> "photos", cart |-> q.cart, lines |-> q.lines,
                         done |-> q.done, seen |-> q.seen, order |-> o]
          /\ o \in DOMAIN orders' /\ UNCHANGED carts
          /\ bill'[o] = BillOf(q, q.done + 1)
      BY <1>1, <1>7, <2>1, Moved DEF CreateOrder, Store, Upsert, BillOf, BillsTyped
    <2>4. PICK n : n = task'[t]
      OBVIOUS
    <2>5. \A i : BillOf(n, i) = BillOf(q, i)
      BY <2>3, <2>4 DEF BillOf
    <2>6. \A i \in 1 .. n.done : LineDone(n, i)'
      BY <1>2, <2>2, <2>3, <2>4, <2>5 DEF LineDone, Kept
    <2>7. ProgressOK(n)'
      BY <2>2, <2>3, <2>4, <2>5, <2>6 DEF ProgressOK
    <2>8. CartsKnown(n)'
      BY <2>2, <2>3, <2>4 DEF CartsKnown, WithCart, Ordering
    <2> QED BY <2>4, <2>7, <2>8 DEF ProgressOK, CartsKnown, LineDone
  <1>8. CASE SaveItems(t)
    <2>1. PICK q : /\ q = task[t]
                   /\ q \in [step : {"photos"}, cart : CartIds, lines : Lines,
                             done : 0 .. MaxLines, seen : SUBSET Photos, order : OrderIds]
      BY <1>1, <1>8, TaskShapes DEF SaveItems
    <2>2. /\ q.done < Len(q.lines) /\ q.cart \in DOMAIN carts /\ carts[q.cart].user \in Users
          /\ \A i \in 1 .. q.done : LineDone(q, i)
          /\ q.order \in DOMAIN orders /\ bill[q.order] = BillOf(q, q.done + 1)
      BY <2>1 DEF ProgressOK, CartsKnown, WithCart, Ordering
    <2>3. /\ task'[t] = [step |-> NextStep(q), cart |-> q.cart, lines |-> q.lines,
                         done |-> q.done + 1, seen |-> q.seen]
          /\ items'[q.order] = "saved" /\ UNCHANGED <<orders, carts, bill>>
      BY <1>1, <1>8, <2>1, Moved DEF SaveItems, SavePhotos
    <2>4. PICK n : n = task'[t]
      OBVIOUS
    <2>5. \A i : BillOf(n, i) = BillOf(q, i)
      BY <2>3, <2>4 DEF BillOf
    <2>6. Len(q.lines) \in Nat /\ n.done = q.done + 1 /\ n.lines = q.lines
      BY <2>1, <2>3, <2>4, LinesAre, CartAssumption
    <2>7. \A i \in 1 .. n.done : LineDone(n, i)'
      <3>1. \A i \in 1 .. q.done : LineDone(n, i)'
        BY <1>2, <2>2, <2>5 DEF LineDone, Kept
      <3>2. LineDone(n, q.done + 1)'
        BY <2>2, <2>3, <2>5 DEF LineDone
      <3> QED BY <2>1, <2>6, <3>1, <3>2
    <2>8. ProgressOK(n)'
      <3>1. /\ n.step \in {"order", "convert"}
            /\ n.step = "order" => n.done < Len(n.lines)
            /\ n.step = "convert" => n.done = Len(n.lines)
        BY <2>1, <2>2, <2>3, <2>4, <2>6 DEF NextStep
      <3> QED BY <2>7, <3>1 DEF ProgressOK
    <2>9. CartsKnown(n)'
      BY <2>2, <2>3, <2>4, <2>8 DEF CartsKnown, WithCart, Ordering, NextStep
    <2> QED BY <2>4, <2>8, <2>9 DEF ProgressOK, CartsKnown, LineDone
  <1>9. CASE Finish(t)
    BY <1>3, <1>9
  <1> QED BY <1>4, <1>5, <1>6, <1>7, <1>8, <1>9 DEF CartStep, CreateConflict, AddItem, RemoveItem,
        MergeIntoUserCart, TransferCart, TransferConflict, CloseCart, TaskFails

-----------------------------------------------------------------------------
(* Commands that do not overlap.                                           *)

\* What a command that runs alone has read is still so at its next step.
LEMMA StepCurrent ==
    ASSUME CartTypeOK, NEW t \in Tasks, CartsKnown(task[t]), ProgressOK(task[t]), Current(task[t]), CartStep(t)
    PROVE  Current(task[t])'
  <1>1. /\ task \in [Tasks -> Task] /\ task[t] \in Task
        /\ Finish(t) => Current(task[t])'
    BY Moved, IdleKnows DEF CartTypeOK, Finish
  <1>2. ASSUME NEW c \in CartIds, CreateCart(t, c) PROVE Current(task[t])'
    <2>1. task'[t].step = "add" /\ task'[t].cart = c
      BY <1>1, <1>2, Moved DEF CreateCart
    <2>2. carts'[c].status = "active"
      BY <1>2 DEF CreateCart, InsertCart, Upsert
    <2> QED BY <2>1, <2>2 DEF Current, Ordering, WithCart
  <1>3. CASE FindUserCart(t)
    <2>1. task[t] \in [step : {"find_user", "transfer"}, user : Users, cart : CartIds]
      BY <1>1, <1>3, TaskShapes DEF FindUserCart
    <2>2. PICK c, u : /\ c = task[t].cart /\ u = task[t].user
                      /\ carts[c].status = "active" /\ carts[c].user = NoOwner
      BY <1>3 DEF FindUserCart, Current, WithCart
    <2>3. UNCHANGED carts /\ \A w : ActiveCarts(w)' = ActiveCarts(w)
      BY <1>3 DEF FindUserCart, ActiveCarts, OwnedBy
    <2>4. CASE ActiveCarts(u) = {} /\ Goto(t, [task[t] EXCEPT !.step = "transfer"])
      <3>1. task'[t].step = "transfer" /\ task'[t].cart = c /\ task'[t].user = u
        BY <1>1, <2>1, <2>2, <2>4, Moved
      <3> QED BY <2>2, <2>3, <2>4, <3>1 DEF Current, Ordering, WithCart
    <2>5. ASSUME NEW d \in ActiveCarts(u),
                 Goto(t, [step |-> "merge", cart |-> task[t].cart, into |-> d])
          PROVE  Current(task[t])'
      <3>1. task'[t] = [step |-> "merge", cart |-> c, into |-> d]
        BY <1>1, <2>2, <2>5, Moved
      <3>2. carts'[d].status = "active"
        BY <2>3 DEF ActiveCarts
      <3> QED BY <2>2, <2>3, <3>1, <3>2 DEF Current, Ordering, WithCart
    <2> QED BY <1>3, <2>2, <2>4, <2>5 DEF FindUserCart
  <1>4. CASE ReadItems(t)
    <2>1. CASE Finish(t)
      BY <1>1, <2>1
    <2>2. CASE /\ \A i \in DOMAIN task[t].lines : OfEvent(CartItems(task[t].cart), task[t].lines[i]) # {}
               /\ Goto(t, [step |-> "order", cart |-> task[t].cart, lines |-> task[t].lines,
                           done |-> 0, seen |-> CartItems(task[t].cart)])
      <3>1. PICK c, lines, seen : /\ c = task[t].cart /\ lines = task[t].lines /\ seen = InCart(c)
                                  /\ carts[c].status = "active"
                                  /\ \A i \in DOMAIN lines : OfEvent(seen, lines[i]) # {}
        BY <1>4, <2>2 DEF ReadItems, Current, WithCart, CartItems
      <3>2. /\ task'[t].step = "order" /\ task'[t].cart = c
            /\ task'[t].lines = lines /\ task'[t].seen = seen
        BY <1>1, <2>2, <3>1, Moved DEF CartItems
      <3>3. UNCHANGED carts /\ InCart(c)' = InCart(c)
        BY <1>4 DEF ReadItems, InCart
      <3> QED BY <3>1, <3>2, <3>3 DEF Current, Ordering, WithCart
    <2> QED BY <1>4, <2>1, <2>2 DEF ReadItems
  <1>5. ASSUME NEW q, q = task[t], q.step \in {"order", "photos"}, UNCHANGED <<carts, content>>,
               task'[t].step \in Ordering,
               task'[t].cart = q.cart, task'[t].lines = q.lines, task'[t].seen = q.seen
        PROVE  Current(task[t])'
    <2>1. /\ carts[q.cart].status = "active" /\ q.seen = InCart(q.cart)
          /\ \A i \in DOMAIN q.lines : OfEvent(q.seen, q.lines[i]) # {}
      BY <1>5 DEF Current, Ordering, WithCart
    <2>2. \A c : InCart(c)' = InCart(c)
      BY <1>5 DEF InCart
    <2> QED BY <1>5, <2>1, <2>2 DEF Current, Ordering, WithCart
  <1>6. ASSUME NEW o \in OrderIds, CreateOrder(t, o) PROVE Current(task[t])'
    <2>1. PICK q : q = task[t] /\ q.step = "order"
      BY <1>6 DEF CreateOrder
    <2>2. /\ task'[t].step = "photos" /\ task'[t].cart = q.cart
          /\ task'[t].lines = q.lines /\ task'[t].seen = q.seen
      BY <1>1, <1>6, <2>1, Moved DEF CreateOrder
    <2> QED BY <1>5, <1>6, <2>1, <2>2 DEF CreateOrder, Ordering
  <1>7. CASE SaveItems(t)
    <2>1. PICK q : q = task[t] /\ q.step = "photos"
      BY <1>7 DEF SaveItems
    <2>2. /\ task'[t].step \in {"convert", "order"} /\ task'[t].cart = q.cart
          /\ task'[t].lines = q.lines /\ task'[t].seen = q.seen
      BY <1>1, <1>7, <2>1, Moved DEF SaveItems, NextStep
    <2> QED BY <1>5, <1>7, <2>1, <2>2 DEF SaveItems, Ordering
  <1>8. CASE Finish(t)
    BY <1>1, <1>8
  <1> QED BY <1>2, <1>3, <1>4, <1>6, <1>7, <1>8 DEF CartStep, CreateConflict, AddItem, RemoveItem,
        MergeIntoUserCart, TransferCart, TransferConflict, CloseCart, TaskFails

\* A step is of a command that has begun, and only of that one.
LEMMA StepsOne ==
    ASSUME CartTypeOK, NEW t \in Tasks, CartStep(t)
    PROVE  /\ task[t] # Idle /\ UNCHANGED alone
           /\ \A x \in Tasks \ {t} : task'[x] = task[x]
  <1>1. task \in [Tasks -> Task]
    BY DEF CartTypeOK
  <1>2. \E q : Goto(t, q)
    BY DEF CartStep, CreateCart, CreateConflict, AddItem, RemoveItem, FindUserCart, MergeIntoUserCart,
           TransferCart, TransferConflict, ReadItems, SaveItems, CloseCart, CreateOrder, TaskFails, Finish
  <1>3. task[t] # Idle
    <2>1. CASE TaskFails(t)
      BY <2>1 DEF TaskFails
    <2>2. CASE ~TaskFails(t)
      <3>1. task[t].step \in {"create"} \cup WithCart
        BY <2>2 DEF CartStep, CreateCart, CreateConflict, AddItem, RemoveItem, FindUserCart, MergeIntoUserCart,
               TransferCart, TransferConflict, ReadItems, SaveItems, CloseCart, CreateOrder, WithCart
      <3> QED BY <3>1 DEF WithCart, Idle
    <2> QED BY <2>1, <2>2
  <1> QED BY <1>1, <1>2, <1>3, Moved DEF CartStep

\* A command begins where there was none.
LEMMA CommandsBegin ==
    ASSUME CartTypeOK, NEW t \in Tasks, CartCommand(t)
    PROVE  task[t] = Idle /\ \A x \in Tasks \ {t} : task'[x] = task[x]
  BY DEF CartTypeOK, CartCommand, AddToCart, RemoveFromCart, MergeCart, Checkout, Begin

\* Every step keeps the invariant.
LEMMA CartInductiveNext ==
    ASSUME CartInductive, [CartNext]_cartVars
    PROVE  CartInductive'
  <1> USE DEF orderVars
  <1>1. /\ CartTypeOK /\ RecordsOK /\ OneActiveCart /\ AloneOK /\ BillsTyped
        /\ \A t \in Tasks : ProgressOK(task[t]) /\ CartsKnown(task[t])
    BY DEF CartInductive, RecordsOK, BillsTyped
  <1>2. ASSUME NEW t \in Tasks, CartCommand(t) PROVE CartInductive'
    <2>1. CartTypeOK' /\ UNCHANGED <<orders, items, carts, content, bill>>
      BY <1>1, <1>2, CommandTypes
    <2>2. task[t] = Idle /\ \A x \in Tasks \ {t} : task'[x] = task[x]
      BY <1>1, <1>2, CommandsBegin
    <2>3. ProgressOK(task[t])' /\ CartsKnown(task[t])' /\ Current(task[t])'
      BY <1>1, <1>2, CommandKnows
    <2>4. Kept
      BY <2>1 DEF Kept
    <2>5. \A x \in Tasks : ProgressOK(task[x])' /\ CartsKnown(task[x])'
      BY <1>1, <2>2, <2>3, <2>4, OthersKnow
    <2>6. RecordsOK' /\ OneActiveCart'
      BY <1>1, <2>1 DEF RecordsOK, OneActiveCart, ActiveCarts, OwnedBy
    <2>7. AloneOK'
      <3>4. alone' = (alone /\ \A x \in Tasks : task[x] = Idle)
        BY <1>2 DEF CartCommand
      <3>3. alone' => \A x \in Tasks : task[x] = Idle
        BY <3>4, Zenon
      <3>1. alone' => \A x \in Tasks \ {t} : task'[x] = Idle
        BY <2>2, <3>3
      <3>2. alone' => \A x \in Tasks : Current(task[x])'
        BY <2>3, <3>1, IdleKnows
      <3> QED BY <3>1, <3>2 DEF AloneOK
    <2> QED BY <2>1, <2>5, <2>6, <2>7 DEF CartInductive
  <1>3. ASSUME NEW t \in Tasks, CartStep(t) PROVE CartInductive'
    <2>1. CartTypeOK' /\ RecordsOK' /\ OneActiveCart' /\ Kept
      BY <1>1, <1>3, CartStepTypes, RecordsStay, OneActiveStays, CartStepKeeps
    <2>2. task[t] # Idle /\ UNCHANGED alone /\ \A x \in Tasks \ {t} : task'[x] = task[x]
      BY <1>1, <1>3, StepsOne
    <2>3. ProgressOK(task[t])' /\ CartsKnown(task[t])'
      BY <1>1, <1>3, StepKnows
    <2>4. \A x \in Tasks : ProgressOK(task[x])' /\ CartsKnown(task[x])'
      BY <1>1, <2>1, <2>2, <2>3, OthersKnow
    <2>5. AloneOK'
      <3>1. alone => \A x \in Tasks \ {t} : task'[x] = Idle
        BY <1>1, <2>2 DEF AloneOK
      <3>2. alone => Current(task[t])'
        BY <1>1, <1>3, StepCurrent DEF AloneOK
      <3>3. alone => \A x \in Tasks : Current(task[x])'
        BY <3>1, <3>2, IdleKnows
      <3> QED BY <2>2, <3>1, <3>3 DEF AloneOK
    <2> QED BY <2>1, <2>4, <2>5 DEF CartInductive
  <1>4. CASE UNCHANGED cartVars
    <2>1. UNCHANGED <<orders, items, carts, content, task, bill, alone>>
      BY <1>4 DEF cartVars
    <2>2. CartTypeOK' /\ RecordsOK'
      BY <1>1, <2>1 DEF CartTypeOK, RecordsOK, OrderTablesOK
    <2>3. \A w : ActiveCarts(w)' = ActiveCarts(w)
      BY <2>1 DEF ActiveCarts, OwnedBy
    <2>4. OneActiveCart'
      BY <1>1, <2>3 DEF OneActiveCart
    <2>5. Kept /\ \A x \in Tasks : task'[x] = task[x]
      BY <2>1 DEF Kept
    <2>6. \A x \in Tasks : ProgressOK(task[x])' /\ CartsKnown(task[x])'
      BY <1>1, <2>5, OthersKnow
    <2>7. \A c : InCart(c)' = InCart(c)
      BY <2>1 DEF InCart
    <2>8. AloneOK'
      BY <1>1, <2>1, <2>3, <2>7 DEF AloneOK, Current
    <2> QED BY <2>2, <2>4, <2>6, <2>8 DEF CartInductive
  <1> QED BY <1>2, <1>3, <1>4 DEF CartNext

-----------------------------------------------------------------------------
(* The theorems.                                                           *)

\* Every part of the invariant holds however the cart commands interleave and
\* wherever they die.
THEOREM CartInvariantHolds == CartSpec => []CartInductive
  <1>1. CartInit => CartInductive
    <2> SUFFICES ASSUME CartInit PROVE CartInductive
      OBVIOUS
    <2>1. CartTypeOK /\ RecordsOK
      BY CartTypeInit
    <2>2. \A t \in Tasks : task[t] = Idle
      BY DEF CartInit
    <2>3. \A t \in Tasks : ProgressOK(task[t]) /\ CartsKnown(task[t]) /\ Current(task[t])
      BY <2>2 DEF Idle, ProgressOK, CartsKnown, Current, Ordering, WithCart
    <2>4. OneActiveCart
      BY DEF CartInit, NoRows, OneActiveCart, ActiveCarts
    <2> QED BY <2>1, <2>2, <2>3, <2>4 DEF CartInductive, AloneOK
  <1> QED BY <1>1, CartInductiveNext, PTL DEF CartSpec

\* The carts and the commands in flight are well typed, and a cart belongs to
\* a user or to a session, never to both.
THEOREM CartTypeCorrect == CartSpec => []CartTypeOK
  <1>1. CartInductive => CartTypeOK
    BY DEF CartInductive
  <1> QED BY <1>1, CartInvariantHolds, PTL

\* CheckoutCartHandler reaches markConverted only with an order and its items
\* stored for every line, for any number of tasks that change carts meanwhile.
THEOREM CheckoutsAreComplete == CartSpec => []CheckoutComplete
  <1>1. CartInductive => CheckoutComplete
    <2> SUFFICES ASSUME CartInductive, NEW t \in Tasks, task[t].step = "convert",
                        NEW i \in DOMAIN task[t].lines
                 PROVE  LineDone(task[t], i)
      BY DEF CheckoutComplete, LineDone, BillOf
    <2>1. task[t].lines \in Lines
      BY TaskShapes DEF CartInductive, CartTypeOK
    <2>2. i \in 1 .. Len(task[t].lines)
      BY <2>1, LinesAre
    <2> QED BY <2>2 DEF CartInductive, ProgressOK, Ordering
  <1> QED BY <1>1, CartInvariantHolds, PTL

-----------------------------------------------------------------------------
(* The refinement of Basket.                                               *)

\* The abstract state that KeepsBasket sees, owner by owner.
BasketOf(w) == UNION {InCart(c) : c \in ActiveCarts(w)}
OutCart(c) == {p \in Photos : content[c][p] = "out"}
OutOf(w) == {p \in Photos : \E c \in ActiveCarts(w) : content[c][p] = "out"}
Counts(u, o) == o \in DOMAIN orders /\ items[o] = "saved" /\ bill[o].cart \in ActiveCarts(u)
BilledOf(u) ==
    {bill[o].photos : o \in {x \in DOMAIN orders : items[x] = "saved" /\ bill[x].cart \in ActiveCarts(u)}}

Chosen == [w \in Owners |-> BasketOf(w)]
Dropped == [w \in Owners |-> OutOf(w)]
Ordered == [u \in Users |-> BilledOf(u)]

\* What an owner with one active cart, or without, has chosen and dropped.
LEMMA ViewOfCart ==
    ASSUME NEW w
    PROVE  /\ \A c : ActiveCarts(w) = {c} => BasketOf(w) = InCart(c) /\ OutOf(w) = OutCart(c)
           /\ ActiveCarts(w) = {} => BasketOf(w) = {} /\ OutOf(w) = {} /\ BilledOf(w) = {}
           /\ \A c : ActiveCarts(w)' = {c} => BasketOf(w)' = InCart(c)' /\ OutOf(w)' = OutCart(c)'
           /\ ActiveCarts(w)' = {} => BasketOf(w)' = {} /\ OutOf(w)' = {} /\ BilledOf(w)' = {}
  BY DEF BasketOf, OutOf, OutCart, BilledOf

\* An owner whose carts are left alone sees no change.
LEMMA SameView ==
    ASSUME NEW w, ActiveCarts(w)' = ActiveCarts(w),
           \A c \in ActiveCarts(w) : content'[c] = content[c]
    PROVE  BasketOf(w)' = BasketOf(w) /\ OutOf(w)' = OutOf(w)
  <1>1. \A c \in ActiveCarts(w) : InCart(c)' = InCart(c)
    BY DEF InCart
  <1>2. BasketOf(w)' = BasketOf(w)
    BY <1>1 DEF BasketOf
  <1>3. OutOf(w)' = OutOf(w)
    BY DEF OutOf
  <1> QED BY <1>2, <1>3

\* The orders that count for a user stay the same, and so does what they took.
LEMMA SameBilled ==
    ASSUME NEW u, \A o : Counts(u, o)' <=> Counts(u, o),
           \A o : Counts(u, o) => bill'[o] = bill[o]
    PROVE  BilledOf(u)' = BilledOf(u)
  <1>1. BilledOf(u) = {bill[o].photos : o \in {x \in DOMAIN orders : Counts(u, x)}}
    BY DEF BilledOf, Counts
  <1>2. BilledOf(u)' = {bill'[o].photos : o \in {x \in DOMAIN orders' : Counts(u, x)'}}
    BY DEF BilledOf, Counts
  <1>3. {x \in DOMAIN orders' : Counts(u, x)'} = {x \in DOMAIN orders : Counts(u, x)}
    BY DEF Counts
  <1> QED BY <1>1, <1>2, <1>3

\* Who owns an active cart: one owner, who has no other.
LEMMA OwnerOfCart ==
    ASSUME CartTypeOK, OneActiveCart, NEW c \in DOMAIN carts, carts[c].status = "active"
    PROVE  \E w \in Owners : /\ ActiveCarts(w) = {c}
                             /\ \A x \in Owners \ {w} : c \notin ActiveCarts(x)
                             /\ carts[c].user \in Users => w = carts[c].user
                             /\ carts[c].user = NoOwner => w \in Sessions
  <1>1. carts[c] \in CartRow /\ \A w \in Owners : w # NoOwner
    BY CartAssumption DEF CartTypeOK, Owners
  <1>2. CASE carts[c].user \in Users
    <2>1. carts[c].session = NoOwner /\ carts[c].user \in Owners /\ carts[c].user # NoOwner
      BY <1>1, <1>2 DEF CartRow, Owners
    <2>2. c \in ActiveCarts(carts[c].user)
      BY DEF ActiveCarts, OwnedBy
    <2>3. ActiveCarts(carts[c].user) = {c}
      BY <2>1, <2>2 DEF OneActiveCart
    <2>4. \A x \in Owners \ {carts[c].user} : c \notin ActiveCarts(x)
      BY <1>1, <2>1 DEF ActiveCarts, OwnedBy
    <2> QED BY <2>1, <2>3, <2>4
  <1>3. CASE carts[c].user = NoOwner
    <2>1. carts[c].session \in Sessions /\ carts[c].session \in Owners
      BY <1>1, <1>3, CartAssumption DEF CartRow, Owners
    <2>2. c \in ActiveCarts(carts[c].session)
      BY DEF ActiveCarts, OwnedBy
    <2>3. ActiveCarts(carts[c].session) = {c}
      BY <2>1, <2>2 DEF OneActiveCart
    <2>4. \A x \in Owners \ {carts[c].session} : c \notin ActiveCarts(x)
      BY <1>1, <1>3 DEF ActiveCarts, OwnedBy
    <2> QED BY <1>3, <2>1, <2>3, <2>4, CartAssumption
  <1> QED BY <1>1, <1>2, <1>3 DEF CartRow

\* A step of Basket, or none.
BasketAdvances ==
    \/ UNCHANGED <<Chosen, Dropped, Ordered>>
    \/ \E w \in Owners, p \in Photos :
         /\ Chosen' = [Chosen EXCEPT ![w] = @ \cup {p}]
         /\ Dropped' = [Dropped EXCEPT ![w] = @ \ {p}]
         /\ UNCHANGED Ordered
    \/ \E w \in Owners, p \in Photos :
         /\ p \in Chosen[w]
         /\ Chosen' = [Chosen EXCEPT ![w] = @ \ {p}]
         /\ Dropped' = [Dropped EXCEPT ![w] = @ \cup {p}]
         /\ UNCHANGED Ordered
    \/ \E u \in Users, s \in Sessions :
         /\ Chosen' = [Chosen EXCEPT ![u] = @ \cup (Chosen[s] \ Dropped[u]), ![s] = {}]
         /\ \/ Dropped' = [Dropped EXCEPT ![s] = {}]
            \/ /\ Chosen[u] = {} /\ Dropped[u] = {}
               /\ Dropped' = [Dropped EXCEPT ![u] = Dropped[s], ![s] = {}]
         /\ UNCHANGED Ordered
    \/ \E u \in Users, e \in Events :
         /\ OfEvent(Chosen[u], e) # {}
         /\ Ordered' = [Ordered EXCEPT ![u] = @ \cup {OfEvent(Chosen[u], e)}]
         /\ UNCHANGED <<Chosen, Dropped>>
    \/ \E u \in Users :
         /\ \E e \in Events : OfEvent(Chosen[u], e) # {} /\ OfEvent(Chosen[u], e) \in Ordered[u]
         /\ Chosen' = [Chosen EXCEPT ![u] = {}]
         /\ Dropped' = [Dropped EXCEPT ![u] = {}]
         /\ Ordered' = [Ordered EXCEPT ![u] = {}]

\* Carts and contents that stay leave everything as it was, unless an order did not.
LEMMA NothingSeen ==
    ASSUME UNCHANGED <<carts, content>>
    PROVE  /\ UNCHANGED <<Chosen, Dropped>>
           /\ \A w : ActiveCarts(w)' = ActiveCarts(w)
  <1>1. \A w : ActiveCarts(w)' = ActiveCarts(w)
    BY DEF ActiveCarts, OwnedBy
  <1>2. \A w \in Owners : BasketOf(w)' = BasketOf(w) /\ OutOf(w)' = OutOf(w)
    BY <1>1, SameView
  <1> QED BY <1>1, <1>2 DEF Chosen, Dropped

\* Orders that stay count for the same users, if the carts they came from stay.
LEMMA OrdersSeen ==
    ASSUME UNCHANGED <<orders, items, bill>>,
           \A u \in Users : \A o \in DOMAIN orders :
               bill[o].cart \in ActiveCarts(u)' <=> bill[o].cart \in ActiveCarts(u)
    PROVE  UNCHANGED Ordered
  <1>1. ASSUME NEW u \in Users PROVE BilledOf(u)' = BilledOf(u)
    <2>1. \A o : Counts(u, o)' <=> Counts(u, o)
      BY DEF Counts
    <2> QED BY <2>1, SameBilled
  <1> QED BY <1>1 DEF Ordered

\* A new cart is empty.
LEMMA CreateAdvances ==
    ASSUME CartInductive, NEW t \in Tasks, NEW c \in CartIds, CreateCart(t, c)
    PROVE  BasketAdvances
  <1>1. /\ CartTypeOK /\ RecordsOK
        /\ UNCHANGED <<orders, items, bill, content>>
    BY DEF CartInductive, CreateCart, orderVars
  <1>2. PICK w \in Owners : InsertCart(c, w)
    BY <1>1, TaskShapes DEF CreateCart, CartTypeOK
  <1>3. /\ ActiveCarts(w) = {} /\ ActiveCarts(w)' = {c}
        /\ \A x \in Owners \ {w} : ActiveCarts(x)' = ActiveCarts(x)
        /\ c \notin DOMAIN carts
    BY <1>1, <1>2, InsertActivates DEF InsertCart
  <1>4. InCart(c)' = {} /\ OutCart(c)' = {}
    BY <1>1, <1>3 DEF RecordsOK, InCart, OutCart
  <1>5. BasketOf(w)' = BasketOf(w) /\ OutOf(w)' = OutOf(w)
    BY <1>3, <1>4, ViewOfCart
  <1>6. \A x \in Owners \ {w} : BasketOf(x)' = BasketOf(x) /\ OutOf(x)' = OutOf(x)
    BY <1>1, <1>3, SameView
  <1>7. UNCHANGED <<Chosen, Dropped>>
    BY <1>5, <1>6 DEF Chosen, Dropped
  <1>8. UNCHANGED Ordered
    <2>1. \A u \in Users : u \in Owners
      BY DEF Owners
    <2>2. \A o \in DOMAIN orders : bill[o].cart # c
      BY <1>1, <1>3 DEF RecordsOK
    <2> QED BY <1>1, <1>3, <2>1, <2>2, OrdersSeen
  <1> QED BY <1>7, <1>8 DEF BasketAdvances

\* A photo is put into the cart of one owner, or taken out of it.
LEMMA ItemAdvances ==
    ASSUME CartInductive, NEW t \in Tasks, Current(task[t]), AddItem(t) \/ RemoveItem(t)
    PROVE  BasketAdvances
  <1>1. /\ CartTypeOK /\ OneActiveCart
        /\ content \in [CartIds -> [Photos -> ItemState]]
        /\ DOMAIN carts \subseteq CartIds
        /\ UNCHANGED <<orders, items, bill, carts>>
    BY DEF CartInductive, CartTypeOK, AddItem, RemoveItem, orderVars
  <1>2. \A w : ActiveCarts(w)' = ActiveCarts(w)
    BY <1>1 DEF ActiveCarts, OwnedBy
  <1>3. PICK c \in DOMAIN carts, p \in Photos :
          /\ carts[c].status = "active"
          /\ c = task[t].cart /\ p = task[t].photo
    BY TaskShapes DEF CartInductive, CartTypeOK, CartsKnown, Current, WithCart, AddItem, RemoveItem
  <1>4. PICK w \in Owners : ActiveCarts(w) = {c} /\ \A x \in Owners \ {w} : c \notin ActiveCarts(x)
    BY <1>1, <1>3, OwnerOfCart
  <1>5. UNCHANGED Ordered
    BY <1>1, <1>2, OrdersSeen
  <1>6. Chosen[w] = InCart(c) /\ Dropped[w] = OutCart(c)
    BY <1>4, ViewOfCart DEF Chosen, Dropped
  <1>7. BasketOf(w)' = InCart(c)' /\ OutOf(w)' = OutCart(c)'
    BY <1>2, <1>4, ViewOfCart
  <1>8. ASSUME NEW f, content' = [content EXCEPT ![c][p] = f]
        PROVE  /\ Chosen' = [Chosen EXCEPT ![w] = InCart(c)']
               /\ Dropped' = [Dropped EXCEPT ![w] = OutCart(c)']
    <2>1. \A d \in DOMAIN carts \ {c} : content'[d] = content[d]
      BY <1>1, <1>8
    <2>2. \A x \in Owners \ {w} : \A d \in ActiveCarts(x) : d \in DOMAIN carts \ {c}
      BY <1>4 DEF ActiveCarts
    <2>3. \A x \in Owners \ {w} : BasketOf(x)' = BasketOf(x) /\ OutOf(x)' = OutOf(x)
      BY <1>2, <2>1, <2>2, SameView
    <2>4. \A x \in Owners : BasketOf(x)' = IF x = w THEN InCart(c)' ELSE BasketOf(x)
      BY <1>7, <2>3
    <2>5. \A x \in Owners : OutOf(x)' = IF x = w THEN OutCart(c)' ELSE OutOf(x)
      BY <1>7, <2>3
    <2> QED BY <2>4, <2>5 DEF Chosen, Dropped
  <1>9. CASE AddItem(t)
    <2>1. content' = [content EXCEPT ![c][p] = "in"]
      BY <1>3, <1>9 DEF AddItem, PutItem
    <2>2. InCart(c)' = InCart(c) \cup {p} /\ OutCart(c)' = OutCart(c) \ {p}
      BY <1>1, <2>1 DEF InCart, OutCart
    <2>3. /\ Chosen' = [Chosen EXCEPT ![w] = Chosen[w] \cup {p}]
          /\ Dropped' = [Dropped EXCEPT ![w] = Dropped[w] \ {p}]
      BY <1>6, <1>8, <2>1, <2>2
    <2> QED BY <1>5, <2>3 DEF BasketAdvances
  <1>10. CASE RemoveItem(t) /\ content[c][p] = "in"
    <2>1. content' = [content EXCEPT ![c][p] = "out"]
      BY <1>1, <1>3, <1>10 DEF RemoveItem, TakeItem
    <2>2. InCart(c)' = InCart(c) \ {p} /\ OutCart(c)' = OutCart(c) \cup {p} /\ p \in InCart(c)
      BY <1>1, <1>10, <2>1 DEF InCart, OutCart
    <2>3. /\ Chosen' = [Chosen EXCEPT ![w] = Chosen[w] \ {p}]
          /\ Dropped' = [Dropped EXCEPT ![w] = Dropped[w] \cup {p}]
          /\ p \in Chosen[w]
      BY <1>6, <1>8, <2>1, <2>2
    <2> QED BY <1>5, <2>3 DEF BasketAdvances
  <1>11. CASE RemoveItem(t) /\ content[c][p] # "in"
    <2>1. UNCHANGED content
      BY <1>1, <1>3, <1>11 DEF RemoveItem, TakeItem
    <2> QED BY <1>1, <1>5, <2>1, NothingSeen DEF BasketAdvances
  <1> QED BY <1>9, <1>10, <1>11

\* The user with a cart adopts the photos of the session that are not dropped.
LEMMA MergeAdvances ==
    ASSUME CartInductive, NEW t \in Tasks, Current(task[t]), MergeIntoUserCart(t)
    PROVE  BasketAdvances
  <1>1. /\ CartTypeOK /\ OneActiveCart /\ RecordsOK
        /\ content \in [CartIds -> [Photos -> ItemState]]
        /\ DOMAIN carts \subseteq CartIds
        /\ UNCHANGED <<orders, items, bill>>
    BY DEF CartInductive, CartTypeOK, MergeIntoUserCart, orderVars
  <1>2. PICK c \in DOMAIN carts, d \in DOMAIN carts :
          /\ carts[c].status = "active" /\ carts[c].user = NoOwner
          /\ carts[d].status = "active" /\ carts[d].user \in Users
          /\ ConvertCart(c)
          /\ content' = [content EXCEPT ![d] = [p \in Photos |->
               IF @[p] = "absent" /\ p \in InCart(c) THEN "in" ELSE @[p]]]
    BY DEF CartInductive, CartsKnown, Current, WithCart, MergeIntoUserCart
  <1>3. c # d
    BY <1>2, CartAssumption
  <1>4. PICK u \in Users : ActiveCarts(u) = {d} /\ \A x \in Owners \ {u} : d \notin ActiveCarts(x)
    BY <1>1, <1>2, OwnerOfCart
  <1>5. PICK s \in Sessions : ActiveCarts(s) = {c} /\ \A x \in Owners \ {s} : c \notin ActiveCarts(x)
    BY <1>1, <1>2, OwnerOfCart, CartAssumption
  <1>6. u \in Owners /\ s \in Owners /\ u # s
    BY CartAssumption DEF Owners
  <1>7. \A w : ActiveCarts(w)' = ActiveCarts(w) \ {c}
    BY <1>1, <1>2, ConvertDeactivates
  <1>8. /\ ActiveCarts(u)' = {d} /\ ActiveCarts(s)' = {}
        /\ \A x \in Owners \ {u, s} : ActiveCarts(x)' = ActiveCarts(x)
    BY <1>3, <1>4, <1>5, <1>6, <1>7
  <1>9. /\ \A e \in CartIds \ {d} : content'[e] = content[e]
        /\ \A p \in Photos : content'[d][p] =
              IF content[d][p] = "absent" /\ p \in InCart(c) THEN "in" ELSE content[d][p]
    BY <1>1, <1>2
  <1>10. InCart(d)' = InCart(d) \cup (InCart(c) \ OutCart(d)) /\ OutCart(d)' = OutCart(d)
    BY <1>1, <1>9 DEF InCart, OutCart, ItemState
  <1>11. /\ BasketOf(u) = InCart(d) /\ OutOf(u) = OutCart(d)
         /\ BasketOf(s) = InCart(c)
         /\ BasketOf(u)' = InCart(d)' /\ OutOf(u)' = OutCart(d)'
         /\ BasketOf(s)' = {} /\ OutOf(s)' = {}
    BY <1>4, <1>5, <1>8, ViewOfCart
  <1>12. \A x \in Owners \ {u, s} : BasketOf(x)' = BasketOf(x) /\ OutOf(x)' = OutOf(x)
    <2>1. \A x \in Owners \ {u, s} : \A e \in ActiveCarts(x) : e \in CartIds \ {d}
      BY <1>1, <1>4 DEF ActiveCarts
    <2> QED BY <1>8, <1>9, <2>1, SameView
  <1>13. \A x \in Owners : BasketOf(x)' =
            IF x = s THEN {} ELSE IF x = u THEN BasketOf(u) \cup (BasketOf(s) \ OutOf(u)) ELSE BasketOf(x)
    BY <1>6, <1>10, <1>11, <1>12
  <1>14. \A x \in Owners : OutOf(x)' = IF x = s THEN {} ELSE OutOf(x)
    BY <1>6, <1>10, <1>11, <1>12
  <1>15. /\ Chosen' = [Chosen EXCEPT ![u] = Chosen[u] \cup (Chosen[s] \ Dropped[u]), ![s] = {}]
         /\ Dropped' = [Dropped EXCEPT ![s] = {}]
    BY <1>6, <1>13, <1>14 DEF Chosen, Dropped
  <1>16. UNCHANGED Ordered
    <2>1. \A o \in DOMAIN orders : bill[o].cart # c
      BY <1>1, <1>2, CartAssumption DEF RecordsOK
    <2> QED BY <1>1, <1>7, <2>1, OrdersSeen
  <1> QED BY <1>15, <1>16 DEF BasketAdvances

\* The user without a cart adopts the cart of the session as it is.
LEMMA TransferAdvances ==
    ASSUME CartInductive, NEW t \in Tasks, Current(task[t]), TransferCart(t)
    PROVE  BasketAdvances
  <1>1. /\ CartTypeOK /\ OneActiveCart /\ RecordsOK
        /\ UNCHANGED <<orders, items, bill, content>>
    BY DEF CartInductive, TransferCart, orderVars
  <1>2. PICK c \in DOMAIN carts, u \in Users :
          /\ carts[c].status = "active" /\ carts[c].user = NoOwner
          /\ ActiveCarts(u) = {}
          /\ GiveTo(c, u)
    BY TaskShapes DEF CartInductive, CartTypeOK, CartsKnown, Current, WithCart, TransferCart
  <1>3. PICK s \in Sessions : ActiveCarts(s) = {c} /\ \A x \in Owners \ {s} : c \notin ActiveCarts(x)
    BY <1>1, <1>2, OwnerOfCart, CartAssumption
  <1>4. u \in Owners /\ s \in Owners /\ u # s
    BY CartAssumption DEF Owners
  <1>5. /\ ActiveCarts(u)' = ActiveCarts(u) \cup {c}
        /\ \A w \in Owners \ {u} : ActiveCarts(w)' = ActiveCarts(w) \ {c}
    BY <1>1, <1>2, GiveMoves
  <1>6. /\ ActiveCarts(u)' = {c} /\ ActiveCarts(s)' = {}
        /\ \A x \in Owners \ {u, s} : ActiveCarts(x)' = ActiveCarts(x)
    <2>1. ActiveCarts(u)' = {c}
      BY <1>2, <1>5
    <2>2. ActiveCarts(s)' = {}
      BY <1>3, <1>4, <1>5
    <2>3. ASSUME NEW x \in Owners \ {u, s} PROVE ActiveCarts(x)' = ActiveCarts(x)
      BY <1>3, <1>5
    <2> QED BY <2>1, <2>2, <2>3
  <1>7. InCart(c)' = InCart(c) /\ OutCart(c)' = OutCart(c)
    BY <1>1 DEF InCart, OutCart
  <1>8. /\ BasketOf(u) = {} /\ OutOf(u) = {}
        /\ BasketOf(s) = InCart(c) /\ OutOf(s) = OutCart(c)
        /\ BasketOf(u)' = InCart(c)' /\ OutOf(u)' = OutCart(c)'
        /\ BasketOf(s)' = {} /\ OutOf(s)' = {}
    BY <1>2, <1>3, <1>6, ViewOfCart
  <1>9. \A x \in Owners \ {u, s} : BasketOf(x)' = BasketOf(x) /\ OutOf(x)' = OutOf(x)
    BY <1>1, <1>6, SameView
  <1>10. \A x \in Owners : BasketOf(x)' =
            IF x = s THEN {} ELSE IF x = u THEN BasketOf(u) \cup (BasketOf(s) \ OutOf(u)) ELSE BasketOf(x)
    BY <1>4, <1>7, <1>8, <1>9
  <1>11. \A x \in Owners : OutOf(x)' = IF x = s THEN {} ELSE IF x = u THEN OutOf(s) ELSE OutOf(x)
    BY <1>4, <1>7, <1>8, <1>9
  <1>12. /\ Chosen' = [Chosen EXCEPT ![u] = Chosen[u] \cup (Chosen[s] \ Dropped[u]), ![s] = {}]
         /\ Chosen[u] = {} /\ Dropped[u] = {}
         /\ Dropped' = [Dropped EXCEPT ![u] = Dropped[s], ![s] = {}]
    BY <1>4, <1>8, <1>10, <1>11 DEF Chosen, Dropped
  <1>13. UNCHANGED Ordered
    <2>1. \A o \in DOMAIN orders : bill[o].cart # c
      BY <1>1, <1>2, CartAssumption DEF RecordsOK
    <2>2. \A x \in Users : ActiveCarts(x)' \ {c} = ActiveCarts(x) \ {c}
      BY <1>5 DEF Owners
    <2> QED BY <1>1, <2>1, <2>2, OrdersSeen
  <1> QED BY <1>12, <1>13 DEF BasketAdvances

\* An order without items does not count yet.
LEMMA OrderAdvances ==
    ASSUME CartInductive, NEW t \in Tasks, NEW o \in OrderIds, CreateOrder(t, o)
    PROVE  BasketAdvances
  <1>1. /\ RecordsOK /\ UNCHANGED <<items, carts, content>>
        /\ o \notin DOMAIN orders /\ DOMAIN orders' = DOMAIN orders \cup {o}
        /\ \A x \in DOMAIN orders : bill'[x] = bill[x]
        /\ DOMAIN orders \subseteq OrderIds
    BY DEF CartInductive, CreateOrder, Store, Upsert, RecordsOK, CartTypeOK, OrderTablesOK
  <1>2. items[o] = "none"
    BY <1>1 DEF RecordsOK
  <1>3. UNCHANGED <<Chosen, Dropped>> /\ \A w : ActiveCarts(w)' = ActiveCarts(w)
    BY <1>1, NothingSeen
  <1>4. ASSUME NEW u \in Users PROVE BilledOf(u)' = BilledOf(u)
    <2>1. \A x : Counts(u, x)' <=> Counts(u, x)
      BY <1>1, <1>2, <1>3 DEF Counts
    <2>2. \A x : Counts(u, x) => bill'[x] = bill[x]
      BY <1>1 DEF Counts
    <2> QED BY <2>1, <2>2, SameBilled
  <1> QED BY <1>3, <1>4 DEF BasketAdvances, Ordered

\* The cart of a checkout that runs alone is the one cart of its user.
LEMMA CheckoutOwner ==
    ASSUME CartInductive, NEW t \in Tasks, Current(task[t]), task[t].step \in Ordering
    PROVE  \E u \in Users, c \in DOMAIN carts :
             /\ c = task[t].cart /\ carts[c].status = "active"
             /\ ActiveCarts(u) = {c} /\ \A x \in Owners \ {u} : c \notin ActiveCarts(x)
             /\ BasketOf(u) = task[t].seen
  <1>1. PICK c : c = task[t].cart
    OBVIOUS
  <1>2. /\ c \in DOMAIN carts /\ carts[c].status = "active" /\ carts[c].user \in Users
        /\ task[t].seen = InCart(c)
    BY <1>1 DEF CartInductive, CartsKnown, Current, WithCart, Ordering
  <1>3. PICK w \in Owners : /\ ActiveCarts(w) = {c}
                            /\ \A x \in Owners \ {w} : c \notin ActiveCarts(x)
                            /\ w = carts[c].user
    BY <1>2, OwnerOfCart DEF CartInductive
  <1> QED BY <1>1, <1>2, <1>3, ViewOfCart

\* With its items an order counts: it takes the photos of its event as they lie
\* in the basket.
LEMMA ItemsAdvance ==
    ASSUME CartInductive, NEW t \in Tasks, Current(task[t]), SaveItems(t)
    PROVE  BasketAdvances
  <1>1. PICK q : q = task[t] /\ q.step = "photos"
    BY DEF SaveItems
  <1>2. q \in [step : {"photos"}, cart : CartIds, lines : Lines,
               done : 0 .. MaxLines, seen : SUBSET Photos, order : OrderIds]
    BY <1>1, TaskShapes DEF CartInductive, CartTypeOK
  <1>3. PICK u \in Users, c \in DOMAIN carts :
          /\ c = q.cart /\ ActiveCarts(u) = {c}
          /\ \A x \in Owners \ {u} : c \notin ActiveCarts(x)
          /\ BasketOf(u) = q.seen
    BY <1>1, CheckoutOwner DEF Ordering
  <1>4. /\ q.done < Len(q.lines) /\ q.order \in DOMAIN orders
        /\ bill[q.order] = BillOf(q, q.done + 1)
        /\ \A i \in DOMAIN q.lines : OfEvent(q.seen, q.lines[i]) # {}
    BY <1>1 DEF CartInductive, ProgressOK, Current, Ordering
  <1>5. q.done + 1 \in DOMAIN q.lines /\ q.lines[q.done + 1] \in Events
    <2>1. q.lines \in Lines /\ q.done \in Nat
      BY <1>2, CartAssumption
    <2>2. Len(q.lines) \in Nat /\ DOMAIN q.lines = 1 .. Len(q.lines)
      BY <2>1, LinesAre, CartAssumption
    <2>3. q.done + 1 \in 1 .. Len(q.lines)
      BY <1>4, <2>1, <2>2
    <2> QED BY <2>1, <2>2, <2>3, LinesAre
  <1>6. PICK e \in Events, o \in DOMAIN orders :
          /\ o = q.order /\ OfEvent(q.seen, e) # {}
          /\ bill[o].cart = c /\ bill[o].photos = OfEvent(q.seen, e)
    BY <1>3, <1>4, <1>5 DEF BillOf
  <1>7. /\ UNCHANGED <<orders, bill, carts, content>>
        /\ items' = [items EXCEPT ![o] = "saved"]
        /\ items \in [OrderIds -> ItemsState] /\ o \in OrderIds
    BY <1>1, <1>2, <1>6 DEF SaveItems, SavePhotos, CartInductive, CartTypeOK, OrderTablesOK
  <1>8. UNCHANGED <<Chosen, Dropped>> /\ \A w : ActiveCarts(w)' = ActiveCarts(w)
    BY <1>7, NothingSeen
  <1>9. BilledOf(u)' = BilledOf(u) \cup {OfEvent(q.seen, e)}
    <2>1. /\ BilledOf(u) = {bill[x].photos : x \in {y \in DOMAIN orders : Counts(u, y)}}
          /\ BilledOf(u)' = {bill[x].photos : x \in {y \in DOMAIN orders : Counts(u, y)'}}
      BY <1>7 DEF BilledOf, Counts
    <2>2. \A x \in DOMAIN orders : Counts(u, x)' <=> Counts(u, x) \/ x = o
      BY <1>3, <1>6, <1>7, <1>8 DEF Counts, CartInductive, CartTypeOK, OrderTablesOK
    <2> QED BY <1>6, <2>1, <2>2
  <1>10. ASSUME NEW x \in Users \ {u} PROVE BilledOf(x)' = BilledOf(x)
    <2>1. c \notin ActiveCarts(x)
      BY <1>3 DEF Owners
    <2>2. \A y : Counts(x, y)' <=> Counts(x, y)
      BY <1>6, <1>7, <1>8, <2>1 DEF Counts, CartInductive, CartTypeOK, OrderTablesOK
    <2> QED BY <1>7, <2>2, SameBilled
  <1>11. Ordered' = [Ordered EXCEPT ![u] = Ordered[u] \cup {OfEvent(q.seen, e)}]
    BY <1>9, <1>10 DEF Ordered
  <1>12. Chosen[u] = q.seen
    BY <1>3 DEF Chosen, Owners
  <1> QED BY <1>6, <1>8, <1>11, <1>12 DEF BasketAdvances

\* The cart is closed when its photos of some event have been ordered.
LEMMA CloseAdvances ==
    ASSUME CartInductive, NEW t \in Tasks, Current(task[t]), CloseCart(t)
    PROVE  BasketAdvances
  <1>1. PICK q : q = task[t] /\ q.step = "convert"
    BY DEF CloseCart
  <1>2. q.lines \in Lines
    BY <1>1, TaskShapes DEF CartInductive, CartTypeOK
  <1>3. PICK u \in Users, c \in DOMAIN carts :
          /\ c = q.cart /\ ActiveCarts(u) = {c}
          /\ \A x \in Owners \ {u} : c \notin ActiveCarts(x)
          /\ BasketOf(u) = q.seen
    BY <1>1, CheckoutOwner DEF Ordering
  <1>4. /\ q.done = Len(q.lines) /\ \A i \in 1 .. q.done : LineDone(q, i)
        /\ \A i \in DOMAIN q.lines : OfEvent(q.seen, q.lines[i]) # {}
    BY <1>1 DEF CartInductive, ProgressOK, Current, Ordering
  <1>5. /\ LineDone(q, 1) /\ OfEvent(q.seen, q.lines[1]) # {} /\ q.lines[1] \in Events
    BY <1>2, <1>4, LinesAre, CartAssumption
  <1>6. PICK e \in Events : /\ OfEvent(q.seen, e) # {}
                            /\ OfEvent(q.seen, e) \in BilledOf(u)
    BY <1>3, <1>5 DEF LineDone, BillOf, BilledOf
  <1>7. /\ CartTypeOK /\ ConvertCart(c) /\ UNCHANGED <<orders, items, bill, content>>
    BY <1>1, <1>3 DEF CartInductive, CloseCart, orderVars
  <1>8. \A w : ActiveCarts(w)' = ActiveCarts(w) \ {c}
    BY <1>7, ConvertDeactivates
  <1>9. ActiveCarts(u)' = {}
    BY <1>3, <1>8
  <1>10. ASSUME NEW x \in Owners \ {u} PROVE ActiveCarts(x)' = ActiveCarts(x)
    BY <1>3, <1>8
  <1>11. BasketOf(u)' = {} /\ OutOf(u)' = {} /\ BilledOf(u)' = {}
    BY <1>9, ViewOfCart
  <1>12. \A x \in Owners \ {u} : BasketOf(x)' = BasketOf(x) /\ OutOf(x)' = OutOf(x)
    BY <1>7, <1>10, SameView
  <1>13. ASSUME NEW x \in Users \ {u} PROVE BilledOf(x)' = BilledOf(x)
    <2>1. \A y : Counts(x, y)' <=> Counts(x, y)
      BY <1>7, <1>10 DEF Counts, Owners
    <2> QED BY <1>7, <2>1, SameBilled
  <1>14. /\ Chosen' = [Chosen EXCEPT ![u] = {}]
         /\ Dropped' = [Dropped EXCEPT ![u] = {}]
         /\ Ordered' = [Ordered EXCEPT ![u] = {}]
    BY <1>11, <1>12, <1>13 DEF Chosen, Dropped, Ordered
  <1>15. Chosen[u] = q.seen /\ Ordered[u] = BilledOf(u)
    BY <1>3 DEF Chosen, Ordered, Owners
  <1> QED BY <1>6, <1>14, <1>15 DEF BasketAdvances

\* Every step of commands that have not overlapped is one of Basket, or none.
LEMMA CartAdvances ==
    ASSUME CartInductive, [CartNext]_cartVars, alone'
    PROVE  BasketAdvances
  <1> USE DEF orderVars
  <1>1. CartTypeOK /\ RecordsOK
    BY DEF CartInductive
  <1>2. UNCHANGED <<orders, items, carts, content, bill>> => BasketAdvances
    BY NothingSeen, OrdersSeen DEF BasketAdvances
  <1>3. ASSUME NEW t \in Tasks, CartCommand(t) PROVE BasketAdvances
    BY <1>1, <1>2, <1>3, CommandTypes
  <1>4. ASSUME NEW t \in Tasks, CartStep(t) PROVE BasketAdvances
    <2>1. Current(task[t])
      BY <1>4 DEF CartInductive, AloneOK, CartStep
    <2> QED BY <1>2, <1>4, <2>1, CreateAdvances, ItemAdvances, MergeAdvances, TransferAdvances,
               OrderAdvances, ItemsAdvance, CloseAdvances
            DEF CartStep, CreateConflict, FindUserCart, TransferConflict, ReadItems, TaskFails
  <1> QED BY <1>2, <1>3, <1>4 DEF CartNext, cartVars

\* Cart commands that have not overlapped keep the promises of Basket: photos
\* are put in and taken out one by one, the basket of a session is adopted, an
\* order takes the photos of one event, and no basket is emptied before that.
THEOREM BasketsAreKept == CartSpec => KeepsBasket
  <1>1. CartInit => Baskets!BasketInit
    <2> SUFFICES ASSUME CartInit PROVE Baskets!BasketInit
      OBVIOUS
    <2>1. \A w : ActiveCarts(w) = {}
      BY DEF CartInit, NoRows, ActiveCarts
    <2> QED BY <2>1 DEF Baskets!BasketInit, Owners
  <1>2. BasketAdvances => [Baskets!BasketNext]_(Baskets!basketVars)
    BY DEF BasketAdvances, Chosen, Dropped, Ordered, BasketOf, OutOf, BilledOf, OfEvent, Owners,
           Baskets!BasketNext, Baskets!basketVars, Baskets!Put, Baskets!Take, Baskets!Adopt,
           Baskets!Order, Baskets!Empty, Baskets!Part
  <1>3. CartInductive /\ [CartNext]_cartVars => (alone' => [Baskets!BasketNext]_(Baskets!basketVars))
    BY <1>2, CartAdvances
  <1> QED BY <1>1, <1>3, CartInvariantHolds, PTL DEF CartSpec, KeepsBasket

=============================================================================

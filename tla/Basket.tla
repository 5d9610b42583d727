------------------------------- MODULE Basket -------------------------------
(***************************************************************************)
(* What the cart promises a customer: photos are put in and taken out; the *)
(* basket filled before logging in is adopted, except for the photos the   *)
(* user has taken out before; an order takes the photos of one event as    *)
(* they lie in the basket; and the basket is emptied only when it has been *)
(* ordered from.                                                           *)
(***************************************************************************)
CONSTANTS Users, Sessions, Photos, Events, EventOf

VARIABLES
    basket,    \* the photos each owner has chosen
    dropped,   \* photos taken out of the present basket
    billed     \* sets of photos ordered from the present basket

basketVars == <<basket, dropped, billed>>

BasketInit ==
    /\ basket = [w \in Users \cup Sessions |-> {}]
    /\ dropped = [w \in Users \cup Sessions |-> {}]
    /\ billed = [u \in Users |-> {}]

Part(u, e) == {p \in basket[u] : EventOf[p] = e}

Put(w, p) ==
    /\ basket' = [basket EXCEPT ![w] = @ \cup {p}]
    /\ dropped' = [dropped EXCEPT ![w] = @ \ {p}]
    /\ UNCHANGED billed

Take(w, p) ==
    /\ p \in basket[w]
    /\ basket' = [basket EXCEPT ![w] = @ \ {p}]
    /\ dropped' = [dropped EXCEPT ![w] = @ \cup {p}]
    /\ UNCHANGED billed

\* The user adopts the basket of the session.  A user without one takes it as
\* it is, with what was taken out of it.
Adopt(u, s) ==
    /\ basket' = [basket EXCEPT ![u] = @ \cup (basket[s] \ dropped[u]), ![s] = {}]
    /\ \/ dropped' = [dropped EXCEPT ![s] = {}]
       \/ /\ basket[u] = {} /\ dropped[u] = {}
          /\ dropped' = [dropped EXCEPT ![u] = dropped[s], ![s] = {}]
    /\ UNCHANGED billed

Order(u, e) ==
    /\ Part(u, e) # {}
    /\ billed' = [billed EXCEPT ![u] = @ \cup {Part(u, e)}]
    /\ UNCHANGED <<basket, dropped>>

Empty(u) ==
    /\ \E e \in Events : Part(u, e) # {} /\ Part(u, e) \in billed[u]
    /\ basket' = [basket EXCEPT ![u] = {}]
    /\ dropped' = [dropped EXCEPT ![u] = {}]
    /\ billed' = [billed EXCEPT ![u] = {}]

BasketNext ==
    \/ \E w \in Users \cup Sessions, p \in Photos : Put(w, p) \/ Take(w, p)
    \/ \E u \in Users, s \in Sessions : Adopt(u, s)
    \/ \E u \in Users, e \in Events : Order(u, e)
    \/ \E u \in Users : Empty(u)

BasketSpec == BasketInit /\ [][BasketNext]_basketVars
=============================================================================

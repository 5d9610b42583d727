------------------------------- MODULE MCCart -------------------------------
(* The small instances of Cart: two photos, each of an event of its own. *)
EXTENDS Cart, TLC

CONSTANTS p1, p2, e1, e2

TwoEvents == (p1 :> e1) @@ (p2 :> e2)

Symmetry == Permutations(CartIds) \cup Permutations(OrderIds) \cup Permutations(Tasks)

\* A third cart appears only as long as commands have not overlapped, and goes
\* with one order; checkouts overlap only if there are orders for the lines of
\* both.
Apart ==
    /\ Cardinality(DOMAIN carts) > 2 => alone /\ Cardinality(DOMAIN orders) <= 1
    /\ \A t, x \in Tasks :
         t # x /\ "lines" \in DOMAIN task[t] /\ "lines" \in DOMAIN task[x]
            => Len(task[t].lines) + Len(task[x].lines) <= Cardinality(OrderIds)

\* Commands begin to overlap before the first order, and once a cart is closed
\* meanwhile, those in flight end and no other begins.
OverlapApart ==
    /\ alone /\ ~alone' => orders = NoRows
    /\ ~alone /\ (\E c \in DOMAIN carts : carts[c].status = "converted")
          => \A t \in Tasks : task[t] = Idle => task'[t] = Idle

ApartSpec == CartInit /\ [][CartNext /\ Apart' /\ OverlapApart]_cartVars
=============================================================================

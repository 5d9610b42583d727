--------------------------- MODULE OrderLifecycle ---------------------------
(***************************************************************************)
(* What the shop promises about an order, whatever handlers, rows and      *)
(* links do underneath: it is placed, settled by a payment or a gift, and  *)
(* delivered once a download link exists for it; it can be cancelled until *)
(* it is delivered as a sale.  A link is made for a settled order only,    *)
(* and stays.                                                              *)
(***************************************************************************)
CONSTANTS OrderIds

VARIABLES
    stage,     \* where each order stands
    linked     \* orders a download link has been made for

lifecycleVars == <<stage, linked>>

LifecycleInit ==
    /\ stage = [o \in OrderIds |-> "absent"]
    /\ linked = {}

Move(o, from, to) ==
    /\ stage[o] \in from
    /\ stage' = [stage EXCEPT ![o] = to]
    /\ UNCHANGED linked

Place(o) == Move(o, {"absent"}, "open")
Settle(o) == Move(o, {"open"}, "paid") \/ Move(o, {"open"}, "gifted")
CallOff(o) == Move(o, {"open", "paid", "gifted", "gift_delivered"}, "cancelled")

MakeLink(o) ==
    /\ stage[o] \in {"paid", "gifted"}
    /\ o \notin linked
    /\ linked' = linked \cup {o}
    /\ UNCHANGED stage

Deliver(o) ==
    /\ o \in linked
    /\ Move(o, {"paid"}, "delivered") \/ Move(o, {"gifted"}, "gift_delivered")

LifecycleNext == \E o \in OrderIds :
    Place(o) \/ Settle(o) \/ CallOff(o) \/ MakeLink(o) \/ Deliver(o)

LifecycleSpec == LifecycleInit /\ [][LifecycleNext]_lifecycleVars
=============================================================================

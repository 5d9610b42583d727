------------------------------ MODULE Pricing ------------------------------
(***************************************************************************)
(* What photos cost: the tiers, the calculator, what an event's own tiers  *)
(* resolve to, and how a checkout bills the lines of a cart.  Prices are   *)
(* in cents.  The default tiers have whole cents, so the rounding of a     *)
(* subtotal changes nothing here.                                          *)
(***************************************************************************)
EXTENDS Integers, Sequences, FiniteSets, Functions

CONSTANTS
    Galleries,     \* events a cart may hold photos of
    MaxPhotos      \* photos of one event in a cart

ASSUME PricingAssumption == MaxPhotos \in Nat \ {0}

VARIABLES
    shown,         \* photos of each event in the cart of a customer
    charged        \* the lines of the last checkout: event and subtotal

tillVars == <<shown, charged>>

TillInit ==
    /\ shown = [g \in Galleries |-> 0]
    /\ charged = <<>>

NoMax == 0   \* a NULL maxQty: the tier has no end

TierType == [min : Int, max : Int, price : Int]

Tier(min, max, price) == [min |-> min, max |-> max, price |-> price]

\* PricingTier.create, for prices that are not negative
ValidTier(t) == t.min >= 1 /\ (t.max = NoMax \/ t.max >= t.min)

Matches(t, qty) == qty >= t.min /\ (t.max = NoMax \/ qty <= t.max)

DefaultTiers == <<Tier(1, 2, 400), Tier(3, 6, 300), Tier(7, 9, 250), Tier(10, NoMax, 200)>>

\* Event.pricing_config; <<>> is NULL.
NoConfig == <<>>

Resolve(config) ==
    IF config # NoConfig /\ \A i \in DOMAIN config : ValidTier(config[i])
    THEN config ELSE DefaultTiers

-----------------------------------------------------------------------------
(* PricingCalculator                                                       *)

\* Seeded bug: the tiers are taken as they are stored.
AsStored(tiers) == tiers

Precedes(tiers, i, j) ==
    tiers[i].min < tiers[j].min \/ (tiers[i].min = tiers[j].min /\ i < j)

\* Array.prototype.sort is stable: a tier comes after those that precede it.
InOrder(tiers) ==
    LET place(i) == Cardinality({j \in DOMAIN tiers : Precedes(tiers, j, i)}) + 1
    IN  [n \in DOMAIN tiers |-> tiers[CHOOSE i \in DOMAIN tiers : place(i) = n]]

\* The tiers of this order that take the quantity.
Taking(qty, tiers) == {i \in DOMAIN tiers : Matches(tiers[i], qty)}

\* Otherwise the calculator throws pricing.quantity_not_covered.
Covered(qty, tiers) == Taking(qty, tiers) # {}

\* The first that takes the quantity, and the distance to the one after it.
Calculate(qty, tiers) ==
    LET sorted == InOrder(tiers)
        i == CHOOSE k \in Taking(qty, sorted) : \A j \in Taking(qty, sorted) : k <= j
    IN  [unit |-> sorted[i].price,
         subtotal |-> sorted[i].price * qty,
         tier |-> sorted[i],
         missing |-> IF i < Len(sorted) THEN sorted[i + 1].min - qty ELSE 0]

\* GetPricingPreviewHandler
PricingPreview(qty) == Calculate(qty, DefaultTiers)

-----------------------------------------------------------------------------
(* The cart's checkout; lines are the events it names.                     *)

Total(lines) == FoldFunction(+, 0, [i \in DOMAIN lines |-> shown[lines[i]]])

\* Seeded bug: every line is priced by its own quantity.
LinePriceApart(line, lines) == Calculate(shown[line], DefaultTiers).unit

\* All lines are priced by the photos of all of them.
LinePrice(line, lines) == Calculate(Total(lines), DefaultTiers).unit

ChargeCart(lines) ==
    /\ \A i \in DOMAIN lines : shown[lines[i]] > 0
    /\ charged' = [i \in DOMAIN lines |->
         [event |-> lines[i], qty |-> shown[lines[i]],
          subtotal |-> LinePrice(lines[i], lines) * shown[lines[i]]]]
    /\ UNCHANGED shown

ShowPhotos(g, n) == shown' = [shown EXCEPT ![g] = n] /\ charged' = <<>>

TillStep ==
    \/ \E g \in Galleries, n \in 0 .. MaxPhotos : ShowPhotos(g, n)
    \/ \E lines \in UNION {[1 .. n -> Galleries] : n \in 1 .. 2} : ChargeCart(lines)

-----------------------------------------------------------------------------
AsPreviewed(bill) ==
    LET Sum(field) == FoldFunction(+, 0, [i \in DOMAIN bill |-> bill[i][field]])
    IN  Sum("subtotal") = PricingPreview(Sum("qty")).subtotal

\* However a purchase is spread over events, the subtotals of its orders add up
\* to what GET /pricing/preview shows for all of its photos.
BilledAsPreviewed == charged # <<>> => AsPreviewed(charged)
=============================================================================

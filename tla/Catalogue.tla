----------------------------- MODULE Catalogue -----------------------------
(***************************************************************************)
(* Events, their covers and their photo categories: the catalogue the      *)
(* public browses.  A category is its name, which is unique.               *)
(***************************************************************************)
EXTENDS Covers

CONSTANTS Categories

VARIABLES
    categories,    \* table photo_categories
    offered        \* table event_photo_categories: event and category

catalogueVars == <<eventVars, coverVars, categories, offered>>

CatalogueCall ==
    EventCall \cup CoverCall
    \cup [step : {"add_category"}, category : Categories]
    \cup [step : {"offer"}, event : EventIds, category : Categories]

CatalogueTablesOK ==
    /\ EventTablesOK
    /\ CoverTablesOK
    /\ categories \subseteq Categories
    /\ offered \subseteq (DOMAIN events) \X categories

CatalogueInit == EventInit /\ CoverInit /\ categories = {} /\ offered = {}

\* CreatePhotoCategoryHandler
CreateCategory(c, n) ==
    /\ n \notin categories
    /\ Start(c, [step |-> "add_category", category |-> n])
    /\ UNCHANGED <<categories, offered>>

\* name is unique.
InsertCategory(c) ==
    /\ call[c].step = "add_category"
    /\ call[c].category \notin categories
    /\ categories' = categories \cup {call[c].category}
    /\ Finish(c)
    /\ UNCHANGED offered

\* Seeded bug: the event is found although it is archived.
AssignToAny(c, e, n) ==
    /\ e \in DOMAIN events
    /\ n \in categories
    /\ Start(c, [step |-> "offer", event |-> e, category |-> n])
    /\ UNCHANGED <<categories, offered>>

\* AssignCategoryToEventHandler
AssignCategory(c, e, n) ==
    /\ Live(e)
    /\ n \in categories
    /\ Start(c, [step |-> "offer", event |-> e, category |-> n])
    /\ UNCHANGED <<categories, offered>>

\* assignToEvent
OfferCategory(c) ==
    /\ call[c].step = "offer"
    /\ offered' = offered \cup {<<call[c].event, call[c].category>>}
    /\ Finish(c)
    /\ UNCHANGED categories

UnassignCategory(e, n) ==
    /\ offered' = offered \ {<<e, n>>}
    /\ UNCHANGED <<categories, call>>

\* PhotoCategoriesController
CategoryCommand(c) ==
    \E n \in Categories : CreateCategory(c, n) \/ \E e \in EventIds : AssignCategory(c, e, n)

-----------------------------------------------------------------------------
CatalogueCommand(c) ==
    \/ EventCommand(c) /\ UNCHANGED <<coverVars, categories, offered>>
    \/ CoverCommand(c) /\ UNCHANGED <<eventVars, categories, offered>>
    \/ CategoryCommand(c) /\ UNCHANGED <<eventVars, coverVars>>

CatalogueStep(c) ==
    \/ EventStep(c) /\ UNCHANGED <<coverVars, categories, offered>>
    \/ CoverStep(c) /\ UNCHANGED <<eventVars, categories, offered>>
    \/ (InsertCategory(c) \/ OfferCategory(c)) /\ UNCHANGED <<eventVars, coverVars>>

\* Requests of one statement, and what the browser does.
CatalogueEvent ==
    \/ PricingCommand /\ UNCHANGED <<coverVars, categories, offered>>
    \/ /\ \E e \in EventIds, f \in CoverFiles : UploadCover(e, f)
       /\ UNCHANGED <<eventVars, categories, offered>>
    \/ /\ \E e \in EventIds, n \in Categories : UnassignCategory(e, n)
       /\ UNCHANGED <<eventVars, coverVars>>

-----------------------------------------------------------------------------
\* Overlapping commands save stale rows over each other, but no event is lost by
\* it: an event the default list hides can be restored, the others are in the
\* list of every operator who is on it, as active and as assigned, and an address
\* leads to one event.
EventsFindable ==
    /\ \A e \in DOMAIN events :
         /\ e \notin EventsList(FALSE) <=> Restorable(events[e])
         /\ EventsAt(events[e].slug) = {e}
    /\ \A u \in UserIds :
         AssignedEvents(u, "active") = AllAssignedEvents(u)

\* Saves of an event load and store its row around the pricing_config an admin
\* sets, and leave that column alone: it is what was set last.  (It is dormant; no
\* checkout reads it.)
PricingKept ==
    \A e \in DOMAIN events : events[e].pricing = agreed[e]

Disjoint(tiers) ==
    \A qty \in 1 .. MaxPhotos : \A i, j \in Taking(qty, tiers) : i = j

\* For a price list whose tiers do not overlap, in whatever order it is stored:
\* the calculator takes the one tier for the quantity, and a customer who adds
\* the photos it says are missing gets the next price, and no sooner.
NextPriceReached ==
    \A e \in DOMAIN events :
        LET tiers == Resolve(events[e].pricing) IN
        events[e].pricing # NoConfig /\ Disjoint(tiers) =>
            \A qty \in {q \in 1 .. MaxPhotos : Covered(q, tiers)} :
                LET got == Calculate(qty, tiers) IN
                /\ \E i \in Taking(qty, tiers) : got.unit = tiers[i].price
                /\ \A more \in 1 .. MaxPhotos - qty :
                     Covered(qty + more, tiers) =>
                        (Calculate(qty + more, tiers).tier = got.tier
                            <=> got.missing = 0 \/ more < got.missing)
=============================================================================

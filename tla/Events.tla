------------------------------- MODULE Events -------------------------------
(***************************************************************************)
(* The events table, its operators and the price list an event may have:   *)
(* the commands of the events module and of the pricing admin.  A save     *)
(* looks for another event with the slug and upserts the row in a call of  *)
(* its own; a created event then gets an operator, in two more.  Names,    *)
(* dates and places are left out of the row; the save that carries them    *)
(* writes every other column but pricing_config.                           *)
(***************************************************************************)
EXTENDS Users, Pricing

CONSTANTS
    EventIds,
    NoEvent,       \* the id of an event not yet stored
    Slugs,         \* what generateSlug makes of the names
    Suffixes,      \* nanoid(6)
    Configs        \* price lists an admin may set

VARIABLES
    events,        \* table events
    duty,          \* table event_operators: event and user
    agreed         \* the price list an admin has set last for each event

eventVars == <<events, duty, agreed>>

\* A slug is the name's, perhaps with a suffix.
SlugValue == {<<s>> : s \in Slugs} \cup Slugs \X Suffixes

\* A missing id is no event's, and no slug either.
ASSUME EventAssumption ==
    /\ NoEvent \notin EventIds \cup SlugValue
    /\ Configs \subseteq Seq(TierType)

Entity == [slug : SlugValue, status : {"active", "archived"}, deleted : BOOLEAN]
EventRow == [slug : SlugValue, status : {"active", "archived"}, deleted : BOOLEAN,
             pricing : Configs \cup {NoConfig}]

EventCall ==
    [step : {"slug", "store_event"}, event : EventIds \cup {NoEvent}, row : Entity]
    \cup [step : {"staff"}, event : EventIds]
    \cup [step : {"assign", "unassign"}, event : EventIds, user : UserIds]

EventTablesOK ==
    /\ DOMAIN events \subseteq EventIds
    /\ \A e \in DOMAIN events : events[e] \in EventRow
    /\ duty \subseteq (DOMAIN events) \X (DOMAIN users)
    /\ DOMAIN agreed = DOMAIN events

EventInit == events = NoRows /\ duty = {} /\ agreed = NoRows

-----------------------------------------------------------------------------
(* The entity, its mapper and the queries.                                 *)

EntityOf(e) ==
    [slug |-> events[e].slug, status |-> events[e].status, deleted |-> events[e].deleted]

\* findById
Live(e) == e \in DOMAIN events /\ ~events[e].deleted

\* Event.create
NewEvent(slug) == [slug |-> <<slug>>, status |-> "active", deleted |-> FALSE]

\* Event.archive
Archived(row) == [row EXCEPT !.status = "archived", !.deleted = TRUE]

\* Seeded bug: deletedAt is not reset.
RestoredDeleted(row) == [row EXCEPT !.status = "active"]

\* Event.restore
Restored(row) == [row EXCEPT !.status = "active", !.deleted = FALSE]

\* Event.restore throws for any other status.
Restorable(row) == row.status = "archived"

\* Seeded bug: the event itself counts.
SlugOfAny(e, slug) == \E x \in DOMAIN events : events[x].slug = slug

\* The slug is another event's: the query of ensureUniqueSlug, and the index.
SlugOfOther(e, slug) == \E x \in DOMAIN events \ {e} : events[x].slug = slug

\* Seeded bug: the price list is reset with the other columns.
RowWithoutPricing(e, row) ==
    [slug |-> row.slug, status |-> row.status, deleted |-> row.deleted, pricing |-> NoConfig]

\* toPersistence names no pricing_config: the column stays as it is.
RowOf(e, row) ==
    [slug |-> row.slug, status |-> row.status, deleted |-> row.deleted,
     pricing |-> IF e \in DOMAIN events THEN events[e].pricing ELSE NoConfig]

\* findFirstOperatorId takes the oldest of them.
ActiveOperators ==
    {u \in DOMAIN users : users[u].active /\ u \in DOMAIN roles /\ roles[u] = "operator"}

-----------------------------------------------------------------------------
StartSave(c, e, row) == Start(c, [step |-> "slug", event |-> e, row |-> row])

CreateEvent(c, slug) ==
    /\ StartSave(c, NoEvent, NewEvent(slug))
    /\ UNCHANGED eventVars

UpdateEvent(c, e) ==
    /\ Live(e)
    /\ StartSave(c, e, EntityOf(e))
    /\ UNCHANGED eventVars

\* ArchiveEventHandler and DeleteEventHandler
ArchiveEvent(c, e) ==
    /\ Live(e)
    /\ events[e].status # "archived"
    /\ StartSave(c, e, Archived(EntityOf(e)))
    /\ UNCHANGED eventVars

RestoreEvent(c, e) ==
    /\ e \in DOMAIN events
    /\ Restorable(events[e])
    /\ StartSave(c, e, Restored(EntityOf(e)))
    /\ UNCHANGED eventVars

\* ensureUniqueSlug
EnsureUniqueSlug(c) ==
    /\ call[c].step = "slug"
    /\ LET store == [call[c] EXCEPT !.step = "store_event"] IN
       IF SlugOfOther(call[c].event, call[c].row.slug)
       THEN \E x \in Suffixes : Goto(c, [store EXCEPT !.row.slug = Append(@, x)])
       ELSE Goto(c, store)
    /\ UNCHANGED eventVars

\* The upsert, refused by the index on slug.
StoreEvent(c, e) ==
    /\ call[c].step = "store_event"
    /\ IF call[c].event = NoEvent
       THEN e \notin DOMAIN events /\ Goto(c, [step |-> "staff", event |-> e])
       ELSE e = call[c].event /\ Finish(c)
    /\ ~SlugOfOther(e, call[c].row.slug)
    /\ events' = Upsert(events, e, RowOf(e, call[c].row))
    /\ agreed' = IF e \in DOMAIN events THEN agreed ELSE Upsert(agreed, e, NoConfig)
    /\ UNCHANGED duty

FindFirstOperator(c) ==
    /\ call[c].step = "staff"
    /\ IF ActiveOperators = {} THEN Finish(c)
       ELSE \E u \in ActiveOperators :
              Goto(c, [step |-> "assign", event |-> call[c].event, user |-> u])
    /\ UNCHANGED eventVars

AssignOperator(c, e, u) ==
    /\ Live(e)
    /\ u \in DOMAIN users
    /\ <<e, u>> \notin duty
    /\ Start(c, [step |-> "assign", event |-> e, user |-> u])
    /\ UNCHANGED eventVars

UnassignOperator(c, e, u) ==
    /\ <<e, u>> \in duty
    /\ Start(c, [step |-> "unassign", event |-> e, user |-> u])
    /\ UNCHANGED eventVars

\* assign, refused if the operator is there by now, and unassign
ChangeDuty(c) ==
    /\ call[c].step \in {"assign", "unassign"}
    /\ LET pair == <<call[c].event, call[c].user>> IN
       IF call[c].step = "assign"
       THEN pair \notin duty /\ duty' = duty \cup {pair}
       ELSE duty' = duty \ {pair}
    /\ Finish(c)
    /\ UNCHANGED <<events, agreed>>

\* SetEventPricingConfigHandler validates each tier by itself; to clear sets NULL.
SetPricingConfig(e, config) ==
    /\ e \in DOMAIN events
    /\ \A i \in DOMAIN config : ValidTier(config[i])
    /\ events' = [events EXCEPT ![e].pricing = config]
    /\ agreed' = [agreed EXCEPT ![e] = config]
    /\ UNCHANGED <<duty, call>>

\* EventsController
EventCommand(c) ==
    \/ \E s \in Slugs : CreateEvent(c, s)
    \/ \E e \in EventIds : UpdateEvent(c, e) \/ ArchiveEvent(c, e) \/ RestoreEvent(c, e)
    \/ \E e \in EventIds, u \in UserIds : AssignOperator(c, e, u) \/ UnassignOperator(c, e, u)

EventStep(c) ==
    \/ EnsureUniqueSlug(c) \/ FindFirstOperator(c) \/ ChangeDuty(c)
    \/ \E e \in EventIds : StoreEvent(c, e)

\* PricingAdminController
PricingCommand == \E e \in EventIds, config \in Configs \cup {NoConfig} : SetPricingConfig(e, config)

-----------------------------------------------------------------------------
(* What is listed.                                                         *)

\* getEventsList
EventsList(includeArchived) == {e \in DOMAIN events : includeArchived \/ ~events[e].deleted}

\* getEventDetailBySlug, existsActiveEventBySlug
EventsAt(slug) == {e \in DOMAIN events : events[e].slug = slug}

\* getAssignedEventsByStatus and its kin.  "completed", which the dashboard asks
\* for as well, is a status no code ever sets.
AssignedEvents(u, status) ==
    {e \in DOMAIN events : events[e].status = status /\ ~events[e].deleted /\ <<e, u>> \in duty}

\* getAllAssignedEventIds
AllAssignedEvents(u) == {e \in DOMAIN events : ~events[e].deleted /\ <<e, u>> \in duty}
=============================================================================

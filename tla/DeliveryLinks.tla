--------------------------- MODULE DeliveryLinks ----------------------------
(***************************************************************************)
(* The delivery_links table, the writes of CreateDeliveryLinkHandler and   *)
(* of RegenerateDeliveryHandler on it, and the public download page        *)
(* (GetDeliveryByTokenHandler), whose requests interleave at every await.  *)
(***************************************************************************)
EXTENDS OrderEntity, Naturals

CONSTANTS
    Visitors,      \* concurrent requests to the download page
    MaxAccesses    \* MAX_DELIVERY_ACCESSES (50 in the code)

ASSUME MaxAccessesAssumption == MaxAccesses \in Nat \ {0}

VARIABLES
    links,         \* table delivery_links
    elapsed,       \* links whose expires_at has passed
    visit,         \* the page request each visitor has in flight
    granted        \* history: accesses a link has given out

linkVars == <<links, elapsed, visit, granted>>

LinkRow == [order           : OrderIds,
            status          : {"active", "downloaded", "expired"},
            downloadCount   : Nat,
            firstDownloaded : BOOLEAN]

NoVisit == [step |-> "idle"]
Visit == {NoVisit} \cup [step : {"expire"}, link : LinkIds, seen : LinkRow]
                   \cup [step : {"record", "first"}, link : LinkIds]

LinkTablesOK ==
    /\ DOMAIN links \subseteq LinkIds
    /\ \A l \in DOMAIN links : links[l] \in LinkRow
    /\ elapsed \subseteq LinkIds
    /\ visit \in [Visitors -> Visit]
    /\ granted \in [LinkIds -> Nat]

LinkInit ==
    /\ links = NoRows
    /\ elapsed = {}
    /\ visit = [v \in Visitors |-> NoVisit]
    /\ granted = [l \in LinkIds |-> 0]

-----------------------------------------------------------------------------
\* DeliveryLink.create
NewLink(o) == [order |-> o, status |-> "active",
               downloadCount |-> 0, firstDownloaded |-> FALSE]

\* DeliveryLinkWriteRepository.invalidateByOrderId
InvalidateByOrderId(o) ==
    links' = [l \in DOMAIN links |->
                IF links[l].order = o THEN [links[l] EXCEPT !.status = "expired"]
                ELSE links[l]]

\* Seeded bug: the index is unique among the links that still answer.
OrderIdTakenByLive(o) ==
    \E l \in DOMAIN links : links[l].order = o /\ links[l].status # "expired"

\* delivery_links.order_id is UNIQUE: the insert of a second row for an order
\* fails, whatever the status of the first one.
OrderIdTaken(o) == \E l \in DOMAIN links : links[l].order = o

\* DeliveryLinkWriteRepository.save of a link made a moment ago: its id is new.
InsertLink(l, o) ==
    /\ l \notin DOMAIN links
    /\ links' = Upsert(links, l, NewLink(o))

\* The clock passes expires_at.
LinkElapses(l) ==
    /\ l \in DOMAIN links \ elapsed
    /\ elapsed' = elapsed \cup {l}
    /\ UNCHANGED <<links, visit, granted>>

-----------------------------------------------------------------------------
\* DeliveryLink.checkExpiration, on the row just read.
Expired(l, row) == row.status = "expired" \/ l \in elapsed

\* Seeded bug: the handler saves the row as it was read, not as expired.
OpenDeliveryPageUnmarked(v, l) ==
    /\ visit[v] = NoVisit
    /\ l \in DOMAIN links
    /\ visit' = [visit EXCEPT ![v] =
                   IF Expired(l, links[l])
                   THEN [step |-> "expire", link |-> l, seen |-> links[l]]
                   ELSE [step |-> "record", link |-> l]]
    /\ UNCHANGED <<links, elapsed, granted>>

\* GetDeliveryByTokenHandler up to its first write: findByToken, then
\* checkExpiration on the entity, which keeps the row as it was read.
OpenDeliveryPage(v, l) ==
    /\ visit[v] = NoVisit
    /\ l \in DOMAIN links
    /\ visit' = [visit EXCEPT ![v] =
                   IF Expired(l, links[l])
                   THEN [step |-> "expire", link |-> l,
                         seen |-> [links[l] EXCEPT !.status = "expired"]]
                   ELSE [step |-> "record", link |-> l]]
    /\ UNCHANGED <<links, elapsed, granted>>

\* The lazy expiry is saved as a whole row: the counter of the row read goes
\* back to the table with it.  The page answers 410.
SaveLazyExpiry(v) ==
    /\ visit[v].step = "expire"
    /\ links' = Upsert(links, visit[v].link, visit[v].seen)
    /\ visit' = [visit EXCEPT ![v] = NoVisit]
    /\ UNCHANGED <<elapsed, granted>>

\* Seeded bugs in the WHERE clause: the cap alone, the status alone.
AccessByCount(l) == links[l].downloadCount < MaxAccesses
AccessByStatus(l) == links[l].status \in {"active", "downloaded"}

\* The WHERE clause of tryRecordAccess.
AccessAllowed(l) ==
    /\ links[l].downloadCount < MaxAccesses
    /\ links[l].status \in {"active", "downloaded"}

\* DeliveryLinkWriteRepository.tryRecordAccess, its conditional UPDATE.
RecordAccess(v) ==
    /\ visit[v].step = "record"
    /\ LET l == visit[v].link IN
       /\ AccessAllowed(l)
       /\ links' = [links EXCEPT ![l].downloadCount = @ + 1,
                                 ![l].status = "downloaded"]
       /\ granted' = [granted EXCEPT ![l] = @ + 1]
       /\ visit' = [visit EXCEPT ![v].step = "first"]
    /\ UNCHANGED elapsed

\* The UPDATE matched no row: 410, delivery.access_limit_exceeded.
RefuseAccess(v) ==
    /\ visit[v].step = "record"
    /\ ~AccessAllowed(visit[v].link)
    /\ visit' = [visit EXCEPT ![v] = NoVisit]
    /\ UNCHANGED <<links, elapsed, granted>>

\* The follow-up UPDATE of tryRecordAccess; then the page is read and its
\* download URLs are signed, which changes nothing.
SetFirstDownload(v) ==
    /\ visit[v].step = "first"
    /\ links' = [links EXCEPT ![visit[v].link].firstDownloaded = TRUE]
    /\ visit' = [visit EXCEPT ![v] = NoVisit]
    /\ UNCHANGED <<elapsed, granted>>

\* The request dies: a query fails, the process restarts.
VisitFails(v) ==
    /\ visit[v] # NoVisit
    /\ visit' = [visit EXCEPT ![v] = NoVisit]
    /\ UNCHANGED <<links, elapsed, granted>>

VisitStep(v) ==
    \/ SaveLazyExpiry(v)
    \/ RecordAccess(v)
    \/ RefuseAccess(v)
    \/ SetFirstDownload(v)
    \/ VisitFails(v)
=============================================================================

# TLA+ model of the th-cycling-photo backend

The backend sells photos of cycling events. Photographers upload photos, an AI service reads bib
numbers and jersey colours, reviewers and retouchers work on the photos, customers fill carts or
receive preview links, place orders, pay outside the system, and download what they bought from a
delivery link. It is a NestJS application (CQRS: one handler class per command or query) over
PostgreSQL through Prisma, with two BullMQ queues on Redis, Backblaze B2 as file storage and
Cloudflare KV and Workers as CDN.

One fact shapes every model here. A handler is a chain of awaited calls; **no transaction and no lock
spans a handler** (`$transaction` is used inside three repository methods only), and most writes are
`save(entity)`, an upsert of *every* column of an entity that was loaded some awaits ago. So handlers
interleave at every await, a save may overwrite what others wrote since the load, and a process that
dies leaves the first half of its writes in place. The models have one action per database or storage
call that matters and one for the death of the handler at any point.

## Inventory

Paths are below `src/src/modules/` unless they say otherwise.

| Component | State it keeps | Operations that change state | Talks to |
|---|---|---|---|
| orders | `orders`, `order_items` | place from gallery / from preview, notify payment info, confirm payment, gift, cancel, send delivery, regenerate delivery | deliveries (CommandBus), previews (repository), notifications (events) |
| deliveries | `delivery_links` | create link, invalidate, lazy expiry, counted access | orders |
| previews | `preview_links`, `preview_link_photos` | create, first view, lazy expiry, conversion | orders |
| cart | `carts`, `cart_items` | add, remove, merge after login, checkout | orders, pricing, auth (profile) |
| pricing | `events.pricing_config` | set, clear (dormant: no checkout reads it); the calculator is a pure function over the default tiers | cart |
| photos | `photos`, retouched files, KV slugs | confirm batch, review, confirm retouched, categories, retouch flag | storage, KV, both queues, orders (completion) |
| photos: corrections | `photo_bibs`, `photo_colors`, `corrections` | add, soft-delete, correct | photos |
| classifications | `photo_processings`, detections, bibs, colours | one job per photo: three attempts | AI service, photos |
| embeddings | `photos.embedding` | one job per photo | CDN, AI service |
| auth | `refresh_tokens`, `users` | register, login, refresh, logout | users |
| users | `users`, `user_roles`, `user_phones` | create, update, (de)activate, reset password, avatar, phones | storage |
| events | `events`, `event_operators` | create, update, archive, delete, restore, assign operators | users |
| event-assets, photo-categories | `event_assets`, `photo_categories`, `event_photo_categories` | confirm/delete asset; create, assign, unassign category | events, storage |
| notifications | `notifications` | created from in-process events and pushed over a WebSocket; mark read | orders, photos |
| operator, locations, event-types, participant-categories | none of their own, or seeded tables | queries | |
| shared, `src/workers/` | none | adapters, HTTP plumbing, CDN image workers | |

What is hard, and what correctness means there:

* **Orders and deliveries** - overlapping admin commands on one order, a three-write delivery that may
  stop in the middle, a cap on downloads under parallel requests, expiry written lazily by readers. An
  order must follow its life cycle, be delivered once, and never without a link; a link must belong to a
  settled order and keep its cap.
* **Previews** - check-then-create on "one order per preview link", four handlers that save the same row.
* **Cart** - several tabs of one customer, before and after login; a checkout of several writes and no
  key to recognise its retry. Nothing may be lost from a basket except into an order.
* **Photo pipeline** - at-least-once jobs that hold a loaded photo for minutes while people review and
  retouch it; retries, dead workers, batches confirmed again. A result must be stored before the photo
  says so, a review must hold, a job must end.
* **Photo files** - a file is found through four systems (row, KV, CDN worker, storage) that are written one
  after another, with KV failures only logged. Where the backend points to, something must be.
* **Corrections** - an append-only log read before it is appended to, and several queries that each work out
  what it comes to. What they show must agree, and nothing once read may be lost from the record.
* **Pages** - tabs, counts, lists, queues and statistics are separate queries over columns that stale saves write
  back together. What two pages say of the same rows must agree.
* **Accounts, catalogue, notifications** - tokens that outlive logouts and deactivations, phones and their primary,
  stale saves of events, check-then-act on slugs, events emitted in a process that may die.
* **Prices** - tiers in any order, with gaps and overlaps, and totals split over orders.

`PROJECT.json` lists each hazard at its line with the properties that cover it.

## Modules

Five families, each with one MC module for its small instance (`MCPipeline` serves two findings). A family is a chain of EXTENDS, lowest first;
*abstract* modules are brought in by INSTANCE with a refinement mapping.

**Fulfilment** (orders, deliveries, previews)

| Module | Models | Remarks |
|---|---|---|
| `Tables` | the upsert behind every `save` | a table is a partial function from ids to rows |
| `OrderEntity` | `Order` entity, its repository's writes; the ids shared by the commercial tables | status and which timestamps are set; prices, names and audit users are abstracted away |
| `DeliveryLinks` | `delivery_links`, its repository, the download page | `visit` is a page request in flight |
| `PreviewLinks` | `preview_links`, the preview page | `watch` is a page request in flight |
| `Orders` | the six admin commands and `CreateDeliveryLinkHandler` | `request` is a command in flight, with the entity it holds |
| `OrderPlacement` | orders from gallery and preview | `submission` is a customer's request in flight |
| `Fulfilment` | the four above composed; properties | `OneAtATime` switches overlapping off |
| `OrderViews` | list, detail and statistics of orders | each page an operator over the tables |
| `FulfilmentProofs` | the inductive invariants and the theorems of `Fulfilment` and `OrderViews`; in its second half, for requests that do not overlap | extended by `MCFulfilment`, whose run checks the invariant |
| `OrderLifecycle` | *abstract*: what the shop promises about an order | implemented by `Fulfilment` when requests do not overlap |

**Cart**

| Module | Models | Remarks |
|---|---|---|
| `Cart` | the four cart commands | `task` is a command in flight; `bill` is history |
| `Basket` | *abstract*: what the cart promises a customer | implemented by `Cart` when commands do not overlap |
| `CartProofs` | the theorems | |

**Studio** (photos and the people and pages around them)

| Module | Models | Remarks |
|---|---|---|
| `PhotoRows` | `photos`, the `Photo` entity, the retouched files | |
| `RetouchOrders` | `requires_retouch`, order items, `order.retouch_completed` and its queries | `quiet` is history |
| `Classification` | the job queue and `ProcessPhotoClassificationHandler` | `attempt` holds the photo loaded at the start |
| `PhotoPipeline` | batch confirmation, review, retouched upload; composition | `desk` is a handler in flight |
| `Attributes` | `photo_bibs`, `photo_colors`, `corrections`; the search and the detail over them; worker and editors composed (`StudioSpec`) | `edits` is a handler in flight; a result and its readings are one transaction. The AI reads any string (`Values`), reviewers enter `BibNumbers` and `Palette`, searches ask for `AskedNumbers` |
| `AttributeSheet` | *abstract*: what reviewers are promised of bibs and colours | implemented by `Attributes`, overlapping or not |
| `Gallery` | the public gallery, the reviewers' lists, queue and resume point | events and covers are one step each here |
| `Dashboard` | the operators' and administrators' pages of work | |
| `PipelineProofs`, `StudioProofs` | the theorems of `PhotoPipeline`; those of `Attributes`, `Gallery` and `Dashboard` | |
| `Counting` | lemmas on sums, on places in an order, and on induction | shared by the proofs of pages, prices and activity |

**Photo files**

| Module | Models | Remarks |
|---|---|---|
| `PhotoFiles` | KV slugs, the embedding queue, the CDN worker's routing, download URLs and manifests, the backfill | extends `PhotoPipeline`; the watermark worker is read from `src/workers/watermark-worker` |
| `FilesProofs` | the theorems | builds on `PipelineProofs` |

**Backoffice**

| Module | Models | Remarks |
|---|---|---|
| `Users` | `users`, `user_roles`, `refresh_tokens`, access tokens (`badges`), avatar files; auth and staff commands | `call` is a command in flight, for the whole family; `torn` is history |
| `Phones` | `user_phones` and its four commands | |
| `Accounts` | both composed; the lists of users and buyers | `alone`: no two commands have overlapped so far |
| `AccountBook` | *abstract*: accounts, sessions and who is admitted | implemented by `Accounts` while `alone` |
| `Pricing` | tiers, calculator, resolver, the bill of a checkout | pure operators over price lists, in cents; every checkout bills with the default list |
| `Events` | events, their operators and price lists | |
| `Covers` | cover rows, files and slugs; the pages that show them | `unsettled` is history |
| `Catalogue` | photo categories; composition | |
| `Programme` | *abstract*: what the catalogue promises | implemented by `Catalogue` while `alone` |
| `Notices` | signals, the WebSocket bridge, `notifications` | a signal in the bridge is a handler in flight |
| `Backoffice` | all of these composed | |
| `Activity` | the recent activity of an operator | has its own log; checked in the same run |
| `BackofficeProofs`, `ActivityProofs` | the theorems; those of `Activity` | |

Reading an action: its guard is the code's condition at that call; a command the code refuses (404, 422)
changes nothing and has no action. A handler's queries that only reject are part of the action they
guard. `...Fails`, `...Throws`, `...Dies` end a handler anywhere: a query that throws, or a restart.
Identifiers are random UUIDs or nanoids in the code; an action that inserts takes an id no row has. A query
is an operator over the tables, and a property says what two of them must have to do with each other.

What the abstractions leave out, and why it is sound for the properties: the contents of columns no guard
reads (names, labels, audit users, regions, confidences), the text of answers, the clock (a link or a token may
elapse at any time), and the order of jobs in a queue. An answer of the AI service is the image it is about,
whether it is valid and the readings that are stored. Definitions whose comment starts with "Seeded bug" are not
part of the model: they are plausible mistakes in the operator below them, kept to show that the property
named for them can fail.

## Runs

`CHECK_DEADLOCK FALSE` is set in every configuration: ids are finite and most statuses final, so each
instance comes to a state where nobody has anything left to ask for; that is not a deadlock of the code.

| Run | Instance | Shows |
|---|---|---|
| `fulfilment` | one order with 2 links, 2 admins and 2 visitors, cap 1; or 1 preview link, 2 customers and 1 page request, 2 orders | the invariants of `Fulfilment`, its inductive invariant and `StatsMatchList` under every interleaving and death |
| `serial` | 2 orders, 1 link, 1 preview link, no overlap | `Fulfilment` implements `OrderLifecycle`; one order per preview link; items stamped; conversion final |
| `cart` | 3 carts, 2 orders, 1 user, 1 session, 2 commands at once, 2 photos of 2 events | cart ownership; `CheckoutComplete`; `Cart` implements `Basket` |
| `studio` | 2 photos, 2 events, 2 files, 2 attempts, 1 stall, 2 desks, 2 editors, 2 attributes, 2 bib numbers that are colours as well and 1 string that is neither (`blur`), 2 corrections, 1 order, 1 operator | results before status, coherent rows, `ReviewSettles`, completion announced, the sheet and its audit trail, gallery, search and dashboard |
| `files` | 2 uploads, 2 clients, 2 attempts, 1 stall, 2 files | one photo per upload, files served, both queues drain |
| `backoffice` | 2 users, 3 phones, 2 events, 2 commands at once, 2 cover files, 1 category, 1 signal, 5 price lists, 10 photos, 5 rows of activity | accounts, phones, events, covers, prices, notifications, activity |
| `regenerate` | violation | regenerating a delivery link always fails on `order_id` UNIQUE |
| `lost_update` | violation | overlapping commands leave the documented transitions |
| `cart_merge` | violation | two overlapping merges close the user's own cart |
| `stuck_photo` | violation | after three unavailable answers a photo stays in processing with no job |
| `retouch_again` | violation | a confirmation sent twice deletes the file it confirms |
| `missed_plate` | violation | a photo whose only reading is no number is in neither the search nor the section for missed plates |

**Instances in parts.** The families are too large for one instance with everything in it. Where parts of a family
share little state, its run explores several smaller instances one after another: `MCFulfilment` and `MCCart` state what
may not happen together (`ApartSpec`), `MCStudio`, `MCFiles` and `MCBackoffice` have a variable `part`, fixed in the
initial state, that says which instance a behaviour belongs to (`PartSpec`). A part only removes steps from the
family's own next-state relation; the comment at the head of each MC module says which. Every property is checked
in every part, and each part is there for an interplay that the others leave out:

* `studio`: *queue* (every failure of the attempts against a review or a retouch), *answer* (the worker against two
  handlers on the same photo), *sheet* (two editors of bibs and colours), *retouch* (two retouchers, a reviewer
  and an order of two photos), *desk* (lists, gallery and dashboard over two photos, with an operator who
  comes and goes).
* `files`: *queue* (one upload confirmed by two clients), *files* (two uploads, KV and embedding failures,
  backfill), *retouch* (two clients replace a retouched version).
* `backoffice`: *accounts*, *phones*, *events*, *covers*, *prices*, *notices*, *till*, *activity*. Commands whose
  properties say nothing of overlapping do not overlap in the parts that check only these.

What is lost by this: in the instances, a photo is never both retouched and corrected, and a user does not change while
his event does, except where a part says so. These components touch no common column, or (the flag, the KV entries,
event operators) only one a single statement writes.

**Why the bounds are enough.** The rows of one table do not influence each other except through unique
indexes, so one row with two concurrent handlers meets every race of two writers and a reader; a second id is there
for the insert that must fail, a retry that creates one too many, or a cart after a merge and a checkout. A
cap of 1 is reached and exceeded by two visitors. Two events and two lines are the least for a checkout that
stops half way. Two attempts in `studio` and `files` stand for the code's three: a first one that fails and a last
one; `stuck_photo` has three. It also allows more stalls than BullMQ's default of one, so that its trace shows the
unavailable service and not a worker that dies twice, which ends in the same state. Two corrections are
the least for a chain. `FetchFactor = 2` stands for the code's 5: with five rows of
activity a page then meets more rows than it fetches. `PriceLists` has lists out of order, with gaps, with
overlaps and the default; ten photos pass the last boundary of each.
Two files of an avatar or a cover are what a late confirmation needs: the second takes the place of the first.
The theorems remove the bounds for the properties they state.

Symmetry is used in runs without liveness; box properties quantify over the symmetric sets.

## Fairness

Only the two queues have it: `PipelineSpec` and `FilesSpec` state weak fairness of each classification attempt's and
each embedding attempt's next step, and `MCFiles` the same of the steps its part allows. The worker process is
restarted when it dies, BullMQ delivers waiting jobs, and every call a worker awaits returns or throws
(the AI call has a timeout). A step may succeed or fail as it likes: `QueuesDrain` does not assume that anything ever
works, and the death of a worker is not fair, nor is anything a client does. All other specifications are safety only:
their handlers start on requests from people who may never come.

## Proofs

Each family has its theorems in modules of their own. They hold for every number of rows, customers, handlers, workers
and retries; they assume what the modules that declare the constants assume (`NoPreviewAssumption`,
`MaxAccessesAssumption`, `OneAtATimeAssumption`, `CartAssumption`, `PhotoAssumption`, `JobAssumption`,
`AttributeAssumption`, `GalleryAssumption`, `DashboardAssumption`, `FilesAssumption`, `UserAssumption`, `EventAssumption`,
`PricingAssumption`, `ActivityAssumption`), which say that NULL is not a value, that a 404 is not a storage key, that a job
has an attempt, that there are finitely many ids (`DashboardAssumption`: without it a page has no count), that a price list
is a list of tiers (`EventAssumption`), and the like. The theorems on requests that do not overlap also
assume `OneAtATime`, the constant that keeps them apart.

| Module | Theorems | What they state |
|---|---|---|
| `FulfilmentProofs` | `TypeCorrect`, `InductiveInvariant`, `RowsStayCoherent`, `DeliveriesHaveLinks`, `LinksFollowSettlement`, `OneAnnouncement`, `CapHolds`, `ConversionsHaveOrders`, `PagesAgree`, `ExpiryIsFinal` | every safety property of run `fulfilment` |
| `FulfilmentProofs` | `SerialInvariant`, `PreviewsOrderedOnce`, `DeliveriesStamped`, `ConversionsAreFinal`, `LifecycleIsKept` | those of run `serial`; the last: `Fulfilment` implements `OrderLifecycle` |
| `CartProofs` | `CartInvariantHolds`, `CartTypeCorrect`, `CheckoutsAreComplete`, `BasketsAreKept` | those of run `cart`; the last: `Cart` implements `Basket` |
| `PipelineProofs` | `PipelineInvariantHolds`, `PipelineTypeCorrect`, `ProcessedPhotosHaveResults`, `PhotosCoherent`, `UploadsHaveOnePhoto`, `CompletionsAnnounced`, `ReviewsSettle` | those of `PhotoPipeline` |
| `StudioProofs` | `StudioInvariantHolds`, `CorrectionsChain`, `FoundPhotosShow`, `AttributesImplementSheet`, `GalleryImplementsStudio`, `GalleryKeepsPhotos`, `GalleryTypeCorrect`, `GalleryIsComplete`, `PagesAgree` | those of run `studio`; the sheet is implemented, overlapping or not |
| `FilesProofs` | `FilesInvariantHolds`, `FilesTypeCorrect`, `PhotosAreServed`, `FilesKeepUploads` | the safety of run `files` |
| `BackofficeProofs` | `BackofficeInvariantHolds`, `BackofficeTypeCorrect`, `ContactIsKept`, `EventsStayFindable`, `PricingIsKept`, `PushesAreListed`, `FilesAreServed`, `BookIsKept`, `ProgrammeIsKept`, `NextPriceIsReached`, `BillsAreAsPreviewed` | those of run `backoffice`; `BookIsKept` and `ProgrammeIsKept`: `AccountBook` and `Programme` are implemented |
| `ActivityProofs` | `ActivityIsTold` | `ActivityPagesExact`, and the same for pages of any size |

Hardly any of these properties is inductive: each speaks of tables, and what keeps it true is what the handlers in flight
remember. The inductive invariants therefore say of every copy in memory what it may still be relied on for.

* **Fulfilment** (`Inductive`). `EntitiesOK`: an entity in memory is one a sequential history could have.
  `DeliveryBacked`: a copy that says delivered was made after the link; `order_id` rows are never deleted, so the
  link is still there. `SoleSender`: the unique index acts as a lock nobody releases, so at most one request is past
  the insert, and nobody once the event was emitted. `AccessesCounted`: the counter of a link that still answers
  equals the accesses given; a lazily saved older counter comes back only together with the status expired.
  `ConversionBacked`: every copy that says converted was made after the order. Each part has an Init lemma and
  a Next lemma with one step per action; `TablesGrow` and `LinksGrow` (rows are never deleted) carry the rest.
  `PagesAgree` reads `RowsCoherent` and `DeliveredHasLink` through the queries.
* **Serial** (`SerialInductive`). One handler is in flight, and what it holds is what it would make of the rows as
  they are. Then each handler comes to one step of `OrderLifecycle` and stutters otherwise, deaths included.
* **Cart** (`CartInductive`). What is written stays, whatever overlaps: a cart keeps its user, an order its bill, so a
  checkout can count on the lines it has done; the partial unique indexes leave an owner one active cart. Only while
  commands have not overlapped is what a command has read still so, and that is when `Basket` is implemented.
* **Pipeline** (`PipelineInductive`). A copy of a photo carries what holds of the row: its key, coherent timestamps, and a
  stored result if it says processed. Then it does not matter which copy is saved last. Ids on their way to the queue
  are shared by nobody (`EnqueuingFresh`), an unfinished job has attempts left, and a complete order is announced, awaited,
  or noted as got there with nobody to notice (`CompleteSeen`).
* **Studio** (`AttributesInductive`). A correction is of a field its row has, to a value the field can take; until two edits
  overlap, one editor at most is busy, and what he appends says what is shown. What is shown is a function of the log
  (`LatestIn`), so the queries agree by definition of that function and every append is one step of `AttributeSheet`.
  Gallery adds steps that leave the studio alone, so `GallerySpec` implies `StudioSpec`, whose steps are steps of the
  pipeline: what is proved below holds above.
* **Files** (`FilesInductive`). The slug a batch will register is that of the row made for its key (`BatchesOK`); a slug in KV leads to
  its row, and one is missing only if it was lost or is to come (`SlugsOK`). No two rows name one retouched file
  (`FilesDistinct`). `FileSafe`: as long as handlers of a photo do not overlap, the copy in hand names the file of the row,
  and nobody but the one who replaces it is about to delete it. The last part failed at first for a history of three handlers and
  two photos, larger than the instance; `Spoil` now counts it (see below).
* **Backoffice** (`BackofficeInductive`). Users, events and categories are never deleted, so what a command names is there
  whatever overlaps; the indexes on phones and slugs hold always. While commands have not overlapped (`alone`), what the one in
  flight has read is current. Every step begins a command, goes on with it, or leaves it (`Begins`, `GoesOn`,
  `Otherwise`), which keeps one lemma per step of a command and not per action.

  What `FilesServed` and `KeepsBook` say is worded after the code. A confirmation of a cover or an avatar is checked for its key
  prefix and not for the file, so a file confirmed before it is there, or again after another took its place (and deleted it),
  is named by the row and not in storage; the call in flight remembers whether the file was `there`, and `unsettled` and
  `torn` keep the events and users it happened to out of `FilesServed` until a file that is there is confirmed. The access
  tokens of `KeepsBook` last until they run out (`BadgeLapses`), through logout and suspension; the abstract `Leave` lets
  their holder go, and what lets him in again is an open session of an active account.

* **Pages of work** (`PagesAgree`). No invariant of their own: what the queries of a page have in common with those of another
  is in the rows, so each part of `DashboardAgrees` is shown of any state that is well typed and has the invariants above. The
  counts of a summary are one cardinality, those of its events are added up: they agree because the photos of two events are
  disjoint (`SumOfGroups`). A list ordered by file name has every photo at the place that the resume point computes
  by counting the photos before it (`ListedAtPlace`).
* **Prices** (`NextPriceIsReached`, `BillsAreAsPreviewed`). The sorted list is a bijection of the stored one in which starts do
  not decrease (`TiersInOrder`), so for tiers that do not overlap the one after the tier taken starts beyond every quantity
  that tier takes. A bill prices all lines alike, and a price times a sum is the sum of the products (`SumIsNatural`).
* **Activity** (`ActivityIsTold`). After each row, the loop's lines count every row so far once (`RowsTold`), and a line with
  another after it stays (`LinesStay`). If the lines up to the page's end stand for no more rows than are fetched of a kind, all
  these rows are fetched. What needs an argument is the next row, which may not be: then every row before it is of
  one kind, of which nothing later is fetched either, so the next row fetched is of the other kind and opens a line
  as well (`NextFetchedOpens`).

**Induction.** No backend instantiates an induction theorem over an operator, but a minimal counterexample needs none: a
set of naturals has a least member, and a set of subsets of a finite set one that contains no other (`LeastNatural`,
`SmallestSet`, both from the well-foundedness theorems of the library). `Climbing` is induction with the property given as a
set. So `Counting` proves that a function which obeys the equation of the library's fold is the only one (`AddsUpUnique`),
and gives one in closed form: a sum of sizes is the size of the union (`SumOfGroups`), a sum of naturals that of as many units.
`LoopRuns` shows in the same way that the loop of `Activity` is defined for a log of any length.

Three definitions are written for this: the stable sort of the tiers (`InOrder`) and the list by file name (`ByFilename`)
by the places of their members, the reduce over the rows of the log (`Buckets`) as a recursive function over the places fetched.

The inductive invariant of `Fulfilment` is checked by its run; the others were evaluated with TLC on the instances of
their runs before they were proved.

**Only model-checked**, and why:

* `QueuesDrain`: liveness under fairness is out of the prover's reach.
* The violation runs: a counterexample is a trace.

## What the code does that a reader may not expect

Beside the violation runs, whose findings are in `PROJECT.json`. The models contain these behaviours unless it says
otherwise; the properties that pass say what holds nevertheless.

* Two overlapping submissions of one preview link create two orders (no unique index on
  `orders.preview_link_id`), and a checkout that died half way and is retried orders again.
* A send that dies between its link and its save can not be repeated, because of the unique index `regenerate` meets.
* A review may be undone by a worker or retoucher that loaded the photo before it (`ReviewSettles` says when it can
  no longer be). An attempt that fails after its result is stored is retried and stores a second set of bibs and colours.
* A batch confirmed again after a death before the enqueue leaves its photos without a job, and gives jobs and slugs to ids
  that have no row. The embedding of a photo whose slug is missing is given up after three attempts; a backfill
  brings the slug, not the embedding.
* A preview link takes photos of any event, and so does its order, though its handler says "Validate photos belong to this
  event" (`create-preview-link.handler.ts:33`) and only counts them. Such a photo counts as work to retouch for its own event,
  in none of whose orders it is found (`Strayed`); `RetouchListed` says what the pages still agree on.
* Dismissing the last photo of an order to be retouched announces nothing; the administrators' own list of pending
  retouches does not ask for `requires_retouch`.
* The public gallery lists photos of any status, though its controller says "List completed photos"
  (`public-events.controller.ts:58`); an order from the gallery refuses those not yet processed, a cart takes them.
* The confirmation of a retouched version asks only that the file is under the event's `retouched/` prefix. A file that was confirmed
  for one photo, given up and then confirmed for another can be deleted by a handler that loaded the first photo before.
* A photo whose only readings are no numbers is found by no search and is not in the section for photos without a bib
  (finding of `missed_plate`); `GalleryComplete` says exactly which photos are in which. A bib the AI read as more than six digits
  can be searched for, up to ten, but not entered by a reviewer.
* A correction of a colour to NULL counts as none in the detail, which falls back to what the AI read, while the search by
  colour no longer finds the photo by it: `FoundIsShown` is one way only.
* **Prices per event are dormant.** An admin's price list is stored in `pricing_config`, but no checkout reads it
  and nothing calls the resolver (`set-event-pricing-config.handler.ts:10-13`,
  `event-pricing-resolver.service.ts:22-27`); the cart and its checkout use the default tiers over all events together.
  `PricingKept` only says that saves of an event leave that column alone, and `Resolve` is modelled for the path kept ready.
* A cover or avatar confirmed again after another took its place deletes the present file and names one that is gone.
* The search by colour does not look at `secondary_color`.
* A stale update of a user activates a deactivated one again. A user whose role insert failed counts as an operator.
  Deletions and changes of the primary phone that overlap may take the last or the primary one.
* The status `completed` of an event is never set, so the list of completed events is always empty.
* Confirming a cover whose file is the present one leaves the old slug in KV.
* The bridge pushes the id of the first recipient's notification to every recipient (`ws-event-bridge.ts:72`); for the
  others, marking that id as read changes nothing.
* The page of recent activity is exact only while its lines stand for few rows (`ActivityPagesExact`); one longer
  series of corrections hides what came before it, and the reported total is that of the rows fetched.
* The statistics' counts and revenue are two reads, between which an order may change (the model reads them at once).

## Not modelled

* The category of a photo (`bulkUpdateCategory`): no other modelled operation reads it; its lost update is that of `PhotoRows`.
* The slugs of retouched versions; `PhotoFiles` follows the slugs of originals and the files of both.
* Locations, event types, participant categories: lookup tables filled by seeds, and a validator without state.
* Text search, sums of money, file sizes, paging of lists other than the photos list and the activity: no property tells
  them apart.
* HTTP plumbing (filters, guards, envelopes), the storage adapter, DTO validation: no state. (What the DTOs of bibs and colours
  let in is part of `Attributes` and `Gallery`.) The CDN's images, caches and
  referer check and the QR worker: pure functions of a request.
* Uniqueness of file names in `generate-presigned-url`: the browser's upload itself happens outside the repository, so
  a key is confirmed only once it is in storage.

## Plan

Done: the five families modelled, checked, and every property proved but for `QueuesDrain`. Left:

1. `categories` of photos and the slugs of retouched versions, in `PhotoRows` and `PhotoFiles`.
2. The customer's own pages over orders and deliveries next to `OrderViews`.

------------------------------ MODULE Activity ------------------------------
(***************************************************************************)
(* The recent activity of an operator: the photos he retouched and the     *)
(* corrections he made, the newest first, those of one kind and event that *)
(* are close in time told as one.  A page is made of the newest rows of    *)
(* each kind, a fixed number of them for every line of the page.           *)
(*                                                                         *)
(* Two rows of the same instant are left out.                              *)
(***************************************************************************)
EXTENDS Naturals, Sequences, FiniteSets, Functions

CONSTANTS
    FetchFactor,   \* rows fetched of each kind for a line of the page (5 in the code)
    Window,        \* ACTIVITY_GROUP_WINDOW_MS
    MaxRows,       \* bound: rows of the log
    Places         \* events the operator works on

ASSUME ActivityAssumption == {FetchFactor, Window, MaxRows} \subseteq Nat \ {0}

VARIABLE log       \* the operator's retouches and corrections, the newest first

Row == [type : {"retouch", "review"}, event : Places, at : Nat]

ActivityInit == log = <<>>

\* A correction, or a photo retouched.  A photo retouched again leaves its old
\* place in the log: the times between two rows stand for that too.
Record ==
    /\ Len(log) < MaxRows
    /\ \E type \in {"retouch", "review"}, e \in Places, gap \in 1 .. Window + 1 :
         log' = <<[type |-> type, event |-> e,
                   at |-> gap + IF log = <<>> THEN 0 ELSE log[1].at]>> \o log

-----------------------------------------------------------------------------
\* A row of the log falls into the bucket before it.
SameBucket(bucket, row) ==
    /\ bucket.type = row.type
    /\ bucket.event = row.event
    /\ bucket.at - row.at <= Window

Put(buckets, row) ==
    LET n == Len(buckets) IN
    IF n > 0 /\ SameBucket(buckets[n], row)
    THEN [buckets EXCEPT ![n].count = @ + 1]
    ELSE Append(buckets, [type |-> row.type, event |-> row.event, at |-> row.at, count |-> 1])

\* The rows of the log at these places, from the newest on.
Buckets(places) ==
    LET told[i \in 0 .. Len(log)] ==
            IF i = 0 THEN <<>>
            ELSE IF i \in places THEN Put(told[i - 1], log[i]) ELSE told[i - 1]
    IN  told[Len(log)]

\* The places of the newest n rows of each kind.
Newest(n) ==
    {i \in DOMAIN log : Cardinality({j \in 1 .. i : log[j].type = log[i].type}) <= n}

\* Seeded bug: as many rows as the page has lines.
FetchedForLines(skip, take) == skip + take

\* fetchSize
Fetched(skip, take) == (skip + take) * FetchFactor

\* getRecentActivity; a page is cut from the buckets of what was fetched.
RecentActivity(skip, take) ==
    LET buckets == Buckets(Newest(Fetched(skip, take)))
    IN  SubSeq(buckets, skip + 1, IF skip + take < Len(buckets) THEN skip + take ELSE Len(buckets))

ActivitySpec == ActivityInit /\ [][Record]_log

-----------------------------------------------------------------------------
Rows(buckets) == FoldFunction(+, 0, [i \in DOMAIN buckets |-> buckets[i].count])

PageExact(skip, take) ==
    LET told == SubSeq(Buckets(DOMAIN log), 1, skip + take) IN
    (skip + take <= Len(Buckets(DOMAIN log)) /\ Rows(told) <= (skip + take) * FetchFactor)
        => RecentActivity(skip, take) = SubSeq(told, skip + 1, skip + take)

\* A page tells the operator's log as it is, though it is made of a part of it
\* only: nothing is counted short, split, joined over a gap or left out, as long
\* as the lines up to its end stand for FetchFactor rows each on average.
ActivityPagesExact == \A skip \in 0 .. 1, take \in 1 .. 2 : PageExact(skip, take)
=============================================================================

----------------------------- MODULE Backoffice -----------------------------
(***************************************************************************)
(* Accounts, catalogue, notifications and till composed.  They meet in the *)
(* users table, where a created event looks for its first operator and the *)
(* bridge for the admins, and in the operators of an event.                *)
(***************************************************************************)
EXTENDS Accounts, Catalogue, Notices

backofficeVars == <<accountVars, catalogueVars, noticeVars, tillVars>>

BackofficeTypeOK ==
    /\ AccountTablesOK
    /\ CatalogueTablesOK
    /\ NoticesOK
    /\ call \in [Calls -> {Idle} \cup UserCall \cup PhoneCall \cup CatalogueCall]

BackofficeInit == AccountsInit /\ CatalogueInit /\ NoticeInit /\ TillInit

BackofficeNext ==
    \/ AccountsNext /\ UNCHANGED <<catalogueVars, noticeVars, tillVars>>
    \/ /\ \/ /\ \E c \in Calls : CatalogueCommand(c)
             /\ alone' = (alone /\ \A d \in Calls : call[d] = Idle)
          \/ \E c \in Calls : CatalogueStep(c) /\ UNCHANGED alone
          \/ CatalogueEvent /\ UNCHANGED alone
       /\ UNCHANGED <<userVars, phones, noticeVars, tillVars>>
    \/ NoticeStep /\ UNCHANGED <<accountVars, catalogueVars, tillVars>>
    \/ TillStep /\ UNCHANGED <<accountVars, catalogueVars, noticeVars>>

BackofficeSpec == BackofficeInit /\ [][BackofficeNext]_backofficeVars

-----------------------------------------------------------------------------
\* As long as commands have not overlapped: the CDN serves the cover that the
\* administrators and the public are shown of an event, archived or not, and the
\* avatar a user names is in storage.  Excepted are those whose last command died
\* or lost a KV call half way, and those whose last confirmation was of a file not in
\* storage (never put there, or deleted when another took its place); confirming a
\* file that is there repairs either.
FilesServed ==
    alone => /\ \A e \in EventsList(TRUE) \ unsettled :
                  EventCard(e).cover # NoCover => Served(EventCard(e).cover)
             /\ \A e \in PublicEvents \ unsettled : Served(PublicCard(e).cover)
             /\ \A u \in DOMAIN users \ torn :
                  users[u].avatar # NoAvatar => <<u, users[u].avatar>> \in shelf

Show == INSTANCE Programme WITH
    Shows <- EventIds, Addresses <- SlugValue, NoAddress <- NoEvent,
    Crew <- UserIds, Genres <- Categories,
    phase <- [e \in EventIds |->
        IF e \notin DOMAIN events THEN "none"
        ELSE IF events[e].status = "active" THEN "open" ELSE "closed"],
    address <- [e \in EventIds |->
        IF e \in DOMAIN events THEN events[e].slug ELSE NoEvent],
    crew <- duty, genres <- categories, offers <- offered, display <- DOMAIN covers

\* As long as they have not overlapped, dying anywhere, the commands implement
\* Programme: nothing is put on an archived event, and nothing else opens it.
KeepsProgramme ==
    /\ Show!ProgrammeInit
    /\ [][alone' => [Show!ProgrammeNext]_(Show!programmeVars)]_backofficeVars
=============================================================================

---------------------------- MODULE MCBackoffice ----------------------------
(***************************************************************************)
(* The small instance of Backoffice.  Its parts share no state but the     *)
(* operators an event may get and the users a signal is for, so a run      *)
(* explores them one at a time:                                            *)
(*   accounts   users, tokens and avatars;                                 *)
(*   phones     a user and the phones;                                     *)
(*   events     one operator, then the commands of events and categories;  *)
(*   covers     one event and its cover;                                   *)
(*   prices     one event and its price lists;                             *)
(*   notices    one event and two users, then a signal;                    *)
(*   till       the cart and its bill;                                     *)
(*   activity   what an operator did.                                      *)
(***************************************************************************)
EXTENDS Backoffice, Activity, TLC

VARIABLE part

\* Price lists out of order, with a gap, and with tiers that overlap.
PriceLists ==
    {<<Tier(4, NoMax, 100), Tier(1, 3, 200)>>,
     <<Tier(6, 8, 50), Tier(1, 2, 300), Tier(3, 5, 100)>>,
     <<Tier(5, NoMax, 100), Tier(2, 3, 200)>>,
     <<Tier(1, 5, 300), Tier(4, NoMax, 200)>>,
     DefaultTiers}

\* What a part leaves alone; it comes first for TLC's sake.
Kept ==
    /\ part' = part
    /\ part # "accounts" => UNCHANGED <<tokens, badges, shelf, torn>>
    /\ part \notin {"accounts", "phones", "events", "notices"} => UNCHANGED <<users, roles>>
    /\ part \in {"accounts", "phones", "till"} => UNCHANGED catalogueVars
    /\ part # "till" => UNCHANGED tillVars
    /\ part # "notices" => UNCHANGED noticeVars
    /\ part = "till" => UNCHANGED <<call, alone>>
    /\ part \notin {"events", "covers"} => UNCHANGED coverVars
    /\ part # "events" => UNCHANGED <<categories, offered>>

EventSteps == {"slug", "store_event", "staff", "assign", "unassign"}
CoverSteps == {"drop_file", "drop_slug", "save_cover", "register_slug",
               "remove_file", "remove_row", "remove_slug"}

\* The operator is there before the first event.
OneOperator ==
    \/ /\ events = NoRows /\ UNCHANGED catalogueVars
       /\ \A c \in Calls : call'[c].step \notin EventSteps
    \/ UNCHANGED <<users, roles>>

\* Nor is there a category once they overlap.
NoCategory == categories' = {} /\ offered' = {}

PhoneSteps == {"add_phone", "save_phone", "count_phones", "delete_phone", "set_primary"}

\* The commands of a part.
StepsOf(p) ==
    CASE p = "accounts" -> {"register", "create", "role", "token",
                             "save", "save_avatar", "unshelve"}
      [] p = "phones" -> PhoneSteps \cup {"register", "create", "role"}
      [] p = "events" -> EventSteps \cup {"create", "role", "add_category", "offer"}
      [] p = "covers" -> EventSteps \cup CoverSteps
      [] p = "notices" -> EventSteps \cup {"create", "role", "save"}
      [] OTHER -> EventSteps

\* Those that may overlap: no property says anything of the others once they have.
OverlappingOf(p) ==
    CASE p = "phones" -> PhoneSteps
      [] p \in {"accounts", "covers", "notices"} -> {}
      [] OTHER -> {"slug", "store_event", "staff"}

InPart ==
    \A c \in Calls : call'[c].step \in
        {"idle"} \cup (IF alone' THEN StepsOf(part) ELSE OverlappingOf(part))

\* Users and the event are there before the first signal.
SetUpFirst ==
    (\E s \in Signals : bridge'[s] # Unheard) => UNCHANGED <<call, users, roles, duty>>

OneUser == Cardinality(DOMAIN users') <= 1

\* Nor does a confirmation come in once there are two.
NoAvatars ==
    /\ shelf' = {} /\ torn' = {}
    /\ \A c \in Calls : call'[c].step \notin {"save_avatar", "unshelve"}
    /\ \A u \in DOMAIN users' : users'[u].avatar = NoAvatar

OneEvent == Cardinality(DOMAIN events') <= 1

BackofficePart ==
    /\ part # "activity"
    /\ Kept
    /\ BackofficeNext
    /\ UNCHANGED log
    /\ part # "prices" => \A e \in DOMAIN events' : events'[e].pricing = NoConfig
    /\ part # "till" => InPart
    /\ CASE part = "notices" -> SetUpFirst
         [] part = "accounts" -> OneUser \/ NoAvatars
         [] OTHER -> OneUser
    /\ part \in {"covers", "prices", "notices"} => OneEvent
    /\ part = "events" =>
         OneOperator /\ ((alone' /\ OneEvent) \/ NoCategory)

ActivityPart ==
    /\ part = "activity"
    /\ Record
    /\ UNCHANGED <<backofficeVars, part>>

PartNext == BackofficePart \/ ActivityPart

PartInit ==
    /\ BackofficeInit
    /\ ActivityInit
    /\ part \in {"accounts", "phones", "events", "covers", "prices", "notices", "till", "activity"}

PartSpec ==
    /\ PartInit
    /\ [][PartNext]_<<backofficeVars, log, part>>

Symmetry ==
    Permutations(UserIds) \cup Permutations(Emails) \cup Permutations(PhoneIds)
    \cup Permutations(EventIds) \cup Permutations(Calls)
=============================================================================

------------------------------ MODULE Accounts ------------------------------
(***************************************************************************)
(* Users and Phones composed: a registration writes to both in one         *)
(* transaction.  "alone" remembers whether commands have ever overlapped:  *)
(* several promises are kept only as long as they do not, and no code      *)
(* keeps them from it.                                                     *)
(***************************************************************************)
EXTENDS Phones

VARIABLES alone

accountVars == <<userVars, phones, call, alone>>

AccountTablesOK ==
    /\ UserTablesOK
    /\ PhoneTableOK
    /\ alone \in BOOLEAN

AccountsInit ==
    /\ UserInit
    /\ phones = NoRows
    /\ call = [c \in Calls |-> Idle]
    /\ alone = TRUE

\* AuthUserRepository.register: user, role, profile and primary phone
RegisterCustomer(c, u, p) ==
    /\ InsertCustomer(c, u)
    /\ p \notin DOMAIN phones
    /\ phones' = Upsert(phones, p, [user |-> u, primary |-> TRUE])

\* A query throws, or the process dies.
CallFails(c) ==
    /\ call[c] # Idle
    /\ Finish(c)
    /\ UNCHANGED <<userVars, phones>>

Command(c) ==
    /\ \/ UserCommand(c) /\ UNCHANGED phones
       \/ PhoneCommand(c) /\ UNCHANGED userVars
    /\ alone' = (alone /\ \A d \in Calls : call[d] = Idle)

CommandStep(c) ==
    /\ \/ UserStep(c) /\ UNCHANGED phones
       \/ PhoneStep(c) /\ UNCHANGED userVars
       \/ \E u \in UserIds, p \in PhoneIds : RegisterCustomer(c, u, p)
       \/ CallFails(c)
    /\ UNCHANGED alone

SingleStatement == UserEvent /\ UNCHANGED <<phones, alone>>

AccountsNext ==
    \/ \E c \in Calls : Command(c) \/ CommandStep(c)
    \/ SingleStatement

AccountsSpec == AccountsInit /\ [][AccountsNext]_accountVars

-----------------------------------------------------------------------------
(* What is listed.                                                         *)

AnyRole == "any"

\* getUsersList, without the search in the names
UsersList(includeInactive, role) ==
    {u \in DOMAIN users :
        /\ includeInactive \/ users[u].active
        /\ role \in Role => u \in DOMAIN roles /\ roles[u] = role}

\* getBuyersList: the customers, active or not, each with the primary phone.
BuyersList == [u \in {x \in DOMAIN roles : roles[x] = "customer"} |-> PrimaryOf(u)]

-----------------------------------------------------------------------------
\* However commands overlap: first phones added at once, stale updates and
\* changes of the primary phone never leave a user with two primary phones.  As
\* long as they have not, dying anywhere, a user with phones has a primary one and
\* every buyer listed has a phone to call: orders of the cart take it as contact.
ContactKept ==
    /\ \A u \in DOMAIN users : Cardinality(PrimaryOf(u)) <= 1
    /\ alone => /\ \A u \in DOMAIN users : PhonesOf(u) # {} => PrimaryOf(u) # {}
                /\ \A u \in DOMAIN BuyersList : BuyersList[u] # {}

LiveTokens == {t \in DOMAIN tokens : ~tokens[t].revoked /\ ~tokens[t].lapsed}

Book == INSTANCE AccountBook WITH
    Holders <- UserIds, Secrets <- Passwords, NoSecret <- NoAvatar, Sessions <- TokenIds,
    standing <- [u \in UserIds |->
        IF u \in UsersList(FALSE, AnyRole) THEN "active"
        ELSE IF u \in UsersList(TRUE, AnyRole) THEN "suspended" ELSE "none"],
    secret <- [u \in UserIds |->
        IF u \in DOMAIN users THEN users[u].password ELSE NoAvatar],
    holder <- [t \in LiveTokens |-> tokens[t].user],
    spent <- DOMAIN tokens \ LiveTokens,
    admitted <- {b.user : b \in badges}

\* The account commands implement AccountBook, an account standing in it as the
\* administrators' list shows it.  An access token outlives logout and suspension,
\* but once it has run out only an open session of an active account, or a new
\* one, lets its holder in again, whatever dies half way.
KeepsBook == Book!BookInit /\ [][alone' => [Book!BookNext]_(Book!bookVars)]_accountVars
=============================================================================

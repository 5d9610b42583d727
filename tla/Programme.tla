----------------------------- MODULE Programme -----------------------------
(***************************************************************************)
(* What the catalogue commands promise, each as one step: an event is      *)
(* announced once, at an address of its own that it keeps; it is closed    *)
(* and opened again; and only while it is open is anything new put on it:  *)
(* an operator, a category or a cover.                                     *)
(***************************************************************************)
CONSTANTS Shows, Addresses, NoAddress, Crew, Genres

VARIABLES
    phase,         \* "none", "open" or "closed"
    address,       \* where the public finds it
    crew,          \* its operators
    genres,        \* the categories there are
    offers,        \* shows and their categories
    display        \* shows with a cover

programmeVars == <<phase, address, crew, genres, offers, display>>

ProgrammeInit ==
    /\ phase = [s \in Shows |-> "none"]
    /\ address = [s \in Shows |-> NoAddress]
    /\ crew = {} /\ genres = {} /\ offers = {} /\ display = {}

AnnounceShow(s, a) ==
    /\ phase[s] = "none"
    /\ \A x \in Shows : address[x] # a
    /\ phase' = [phase EXCEPT ![s] = "open"]
    /\ address' = [address EXCEPT ![s] = a]
    /\ UNCHANGED <<crew, genres, offers, display>>

CloseShow(s) ==
    /\ phase[s] = "open"
    /\ phase' = [phase EXCEPT ![s] = "closed"]
    /\ UNCHANGED <<address, crew, genres, offers, display>>

ReopenShow(s) ==
    /\ phase[s] = "closed"
    /\ phase' = [phase EXCEPT ![s] = "open"]
    /\ UNCHANGED <<address, crew, genres, offers, display>>

Join(s, m) ==
    /\ phase[s] = "open"
    /\ crew' = crew \cup {<<s, m>>}
    /\ UNCHANGED <<phase, address, genres, offers, display>>

Quit(s, m) ==
    /\ crew' = crew \ {<<s, m>>}
    /\ UNCHANGED <<phase, address, genres, offers, display>>

AddGenre(g) ==
    /\ g \notin genres
    /\ genres' = genres \cup {g}
    /\ UNCHANGED <<phase, address, crew, offers, display>>

Offer(s, g) ==
    /\ phase[s] = "open"
    /\ g \in genres
    /\ offers' = offers \cup {<<s, g>>}
    /\ UNCHANGED <<phase, address, crew, genres, display>>

Withdraw(s, g) ==
    /\ offers' = offers \ {<<s, g>>}
    /\ UNCHANGED <<phase, address, crew, genres, display>>

PutCover(s) ==
    /\ phase[s] = "open"
    /\ display' = display \cup {s}
    /\ UNCHANGED <<phase, address, crew, genres, offers>>

TakeCover(s) ==
    /\ display' = display \ {s}
    /\ UNCHANGED <<phase, address, crew, genres, offers>>

ProgrammeNext ==
    \/ \E s \in Shows : CloseShow(s) \/ ReopenShow(s) \/ PutCover(s) \/ TakeCover(s)
    \/ \E s \in Shows, a \in Addresses : AnnounceShow(s, a)
    \/ \E s \in Shows, m \in Crew : Join(s, m) \/ Quit(s, m)
    \/ \E g \in Genres : AddGenre(g) \/ \E s \in Shows : Offer(s, g) \/ Withdraw(s, g)
=============================================================================

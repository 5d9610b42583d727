------------------------------- MODULE Phones -------------------------------
(***************************************************************************)
(* The phones of a user, of which one is the primary: what a customer's    *)
(* order takes as contact.  Numbers, labels and the WhatsApp flag are left *)
(* out; the save that carries them also writes is_primary.                 *)
(***************************************************************************)
EXTENDS Users, FiniteSets, Naturals

CONSTANTS PhoneIds

VARIABLES phones   \* table user_phones

PhoneRow == [user : UserIds, primary : BOOLEAN]

PhoneCall ==
    [step : {"add_phone"}, row : PhoneRow]
    \cup [step : {"save_phone", "count_phones", "delete_phone", "set_primary"},
          phone : PhoneIds, row : PhoneRow]

PhoneTableOK ==
    /\ DOMAIN phones \subseteq PhoneIds
    /\ \A p \in DOMAIN phones : phones[p] \in PhoneRow

PhonesOf(u) == {p \in DOMAIN phones : phones[p].user = u}

PrimaryOf(u) == {p \in PhonesOf(u) : phones[p].primary}

\* idx_user_primary_phone, the partial unique index on user_id
SecondPrimary(p, row) == row.primary /\ PrimaryOf(row.user) \ {p} # {}

SavePhone(p, row) ==
    /\ ~SecondPrimary(p, row)
    /\ phones' = Upsert(phones, p, row)

-----------------------------------------------------------------------------
\* UserPhone.create makes a phone that is not primary; the first is.
AddPhone(c, u) ==
    /\ u \in DOMAIN users
    /\ Start(c, [step |-> "add_phone",
                 row |-> [user |-> u, primary |-> PhonesOf(u) = {}]])
    /\ UNCHANGED phones

InsertPhone(c, p) ==
    /\ call[c].step = "add_phone"
    /\ p \notin DOMAIN phones
    /\ SavePhone(p, call[c].row)
    /\ Finish(c)

\* The other commands load the phone first and find its owner.
LoadPhone(c, step, u, p) ==
    /\ p \in DOMAIN phones
    /\ phones[p].user = u
    /\ Start(c, [step |-> step, phone |-> p, row |-> phones[p]])
    /\ UNCHANGED phones

\* The upsert brings a phone back that was deleted in between.
SaveUpdatedPhone(c) ==
    /\ call[c].step = "save_phone"
    /\ SavePhone(call[c].phone, call[c].row)
    /\ Finish(c)

\* Seeded bug: the primary phone may be deleted.
AnyDeletable(row) == Cardinality(PhonesOf(row.user)) > 1

\* "cannot_delete_last_phone", "cannot_delete_primary_phone"
Deletable(row) == Cardinality(PhonesOf(row.user)) > 1 /\ ~row.primary

CountPhones(c) ==
    /\ call[c].step = "count_phones"
    /\ Deletable(call[c].row)
    /\ Goto(c, [call[c] EXCEPT !.step = "delete_phone"])
    /\ UNCHANGED phones

DeletePhone(c) ==
    /\ call[c].step = "delete_phone"
    /\ call[c].phone \in DOMAIN phones
    /\ phones' = [p \in DOMAIN phones \ {call[c].phone} |-> phones[p]]
    /\ Finish(c)

\* setPrimary: one transaction
SetPrimary(c) ==
    /\ call[c].step = "set_primary"
    /\ call[c].phone \in DOMAIN phones
    /\ phones' = [p \in DOMAIN phones |->
         IF p \in PhonesOf(call[c].row.user)
         THEN [phones[p] EXCEPT !.primary = p = call[c].phone] ELSE phones[p]]
    /\ Finish(c)

\* UserPhonesController
PhoneCommand(c) ==
    \/ \E u \in UserIds : AddPhone(c, u)
    \/ \E u \in UserIds, p \in PhoneIds,
          step \in {"save_phone", "count_phones", "set_primary"} : LoadPhone(c, step, u, p)

PhoneStep(c) ==
    \/ \E p \in PhoneIds : InsertPhone(c, p)
    \/ SaveUpdatedPhone(c) \/ CountPhones(c) \/ DeletePhone(c) \/ SetPrimary(c)
=============================================================================

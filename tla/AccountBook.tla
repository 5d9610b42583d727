---------------------------- MODULE AccountBook ----------------------------
(***************************************************************************)
(* What the account commands promise, each as one step: an account is      *)
(* opened once and then active or suspended, only its holder's password    *)
(* opens a session, and a session admits its holder, for a while and again *)
(* and again, while it lasts and the account is active.                    *)
(***************************************************************************)
CONSTANTS Holders, Secrets, NoSecret, Sessions

VARIABLES
    standing,      \* "none", "active" or "suspended"
    secret,        \* the password in force
    holder,        \* whom an open session belongs to (a partial function)
    spent,         \* sessions closed for good
    admitted       \* holders who are let in for now

bookVars == <<standing, secret, holder, spent, admitted>>

BookInit ==
    /\ standing = [h \in Holders |-> "none"]
    /\ secret = [h \in Holders |-> NoSecret]
    /\ holder = [s \in {} |-> {}]
    /\ spent = {}
    /\ admitted = {}

Open(h, w) ==
    /\ standing[h] = "none"
    /\ standing' = [standing EXCEPT ![h] = "active"]
    /\ secret' = [secret EXCEPT ![h] = w]
    /\ UNCHANGED <<holder, spent, admitted>>

Suspend(h) ==
    /\ standing[h] = "active"
    /\ standing' = [standing EXCEPT ![h] = "suspended"]
    /\ UNCHANGED <<secret, holder, spent, admitted>>

Reinstate(h) ==
    /\ standing[h] = "suspended"
    /\ standing' = [standing EXCEPT ![h] = "active"]
    /\ UNCHANGED <<secret, holder, spent, admitted>>

ChangeSecret(h, w) ==
    /\ standing[h] # "none"
    /\ secret' = [secret EXCEPT ![h] = w]
    /\ UNCHANGED <<standing, holder, spent, admitted>>

\* An active account, a session nobody has used.
StartSession(h, s) ==
    /\ standing[h] = "active"
    /\ s \notin DOMAIN holder \cup spent
    /\ holder' = [x \in DOMAIN holder \cup {s} |-> IF x = s THEN h ELSE holder[x]]
    /\ admitted' = admitted \cup {h}
    /\ UNCHANGED <<standing, secret, spent>>

UseSession(s) ==
    /\ s \in DOMAIN holder
    /\ standing[holder[s]] = "active"
    /\ admitted' = admitted \cup {holder[s]}
    /\ UNCHANGED <<standing, secret, holder, spent>>

\* His time is up, whatever became of the session and the account meanwhile.
Leave(h) ==
    /\ admitted' = admitted \ {h}
    /\ UNCHANGED <<standing, secret, holder, spent>>

CloseSession(s) ==
    /\ s \in DOMAIN holder
    /\ holder' = [x \in DOMAIN holder \ {s} |-> holder[x]]
    /\ spent' = spent \cup {s}
    /\ UNCHANGED <<standing, secret, admitted>>

BookNext ==
    \/ \E h \in Holders, w \in Secrets : Open(h, w) \/ ChangeSecret(h, w)
    \/ \E h \in Holders : Suspend(h) \/ Reinstate(h) \/ Leave(h)
    \/ \E h \in Holders, s \in Sessions : StartSession(h, s)
    \/ \E s \in Sessions : UseSession(s) \/ CloseSession(s)
=============================================================================

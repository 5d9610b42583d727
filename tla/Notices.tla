------------------------------ MODULE Notices ------------------------------
(***************************************************************************)
(* Notifications.  A handler emits a signal and goes on; the bridge finds  *)
(* who is to be told, writes a row for each of them, and pushes the signal *)
(* to their open sockets.  A row is known by its signal and its user; what *)
(* it says is left out.                                                    *)
(***************************************************************************)
EXTENDS Events

CONSTANTS
    Signals,       \* emitted events of the application
    NoActor        \* a signal that nobody is kept from hearing

VARIABLES
    bridge,        \* the listener of each signal
    notices,       \* table notifications: signal and user to is_read
    told           \* what was pushed: signal, user and the row it names

noticeVars == <<bridge, notices, told>>

Unheard == [step |-> "none"]
Heard == [step |-> "over"]

BridgeState ==
    {Unheard, Heard}
    \cup [step : {"operators"}, event : EventIds, actor : UserIds]
    \cup [step : {"admins"}, extra : SUBSET UserIds, actor : UserIds \cup {NoActor}]
    \cup [step : {"create", "push"}, to : SUBSET UserIds]

NoticesOK ==
    /\ bridge \in [Signals -> BridgeState]
    /\ DOMAIN notices \subseteq Signals \X UserIds
    /\ \A n \in DOMAIN notices : notices[n] \in BOOLEAN
    /\ told \subseteq Signals \X UserIds \X (Signals \X UserIds)

NoticeInit ==
    /\ bridge = [s \in Signals |-> Unheard]
    /\ notices = NoRows
    /\ told = {}

Listen(s, state) == bridge' = [bridge EXCEPT ![s] = state]

-----------------------------------------------------------------------------
(* NotificationsService and ConfirmRetouchedUploadHandler emit.            *)

\* Only a paid order is for the operators of its event, too.
EmitOrderPaid(s, e, by) ==
    /\ bridge[s] = Unheard
    /\ e \in DOMAIN events /\ by \in DOMAIN users
    /\ Listen(s, [step |-> "operators", event |-> e, actor |-> by])
    /\ UNCHANGED <<notices, told>>

\* The other signals; those of orders name their actor, or none.
Emit(s, by) ==
    /\ bridge[s] = Unheard
    /\ by \in (DOMAIN users) \cup {NoActor}
    /\ Listen(s, [step |-> "admins", extra |-> {}, actor |-> by])
    /\ UNCHANGED <<notices, told>>

-----------------------------------------------------------------------------
(* WsEventBridge                                                           *)

FindOperators(s) ==
    /\ bridge[s].step = "operators"
    /\ Listen(s, [step |-> "admins", actor |-> bridge[s].actor,
                  extra |-> {u \in UserIds : <<bridge[s].event, u>> \in duty}])
    /\ UNCHANGED <<notices, told>>

\* findActiveAdminIds
ActiveAdmins == {u \in DOMAIN roles : roles[u] = "admin" /\ users[u].active}

FindRecipients(s) ==
    /\ bridge[s].step = "admins"
    /\ LET to == (ActiveAdmins \cup bridge[s].extra) \ {bridge[s].actor} IN
       Listen(s, IF to = {} THEN Heard ELSE [step |-> "create", to |-> to])
    /\ UNCHANGED <<notices, told>>

\* Seeded bug: an insert that fails does not keep the others from the push.
PushesAnyway(stored, to) == stored # {}

\* createMany is a Promise.all of inserts: if one throws the bridge gives up,
\* and the others are there all the same.
PushesAfter(stored, to) == stored = to

CreateNotices(s) ==
    /\ bridge[s].step = "create"
    /\ \E stored \in SUBSET bridge[s].to :
         /\ notices' = [n \in DOMAIN notices \cup {s} \X stored |->
                          IF n \in DOMAIN notices THEN notices[n] ELSE FALSE]
         /\ Listen(s, IF PushesAfter(stored, bridge[s].to)
                      THEN [bridge[s] EXCEPT !.step = "push"] ELSE Heard)
    /\ UNCHANGED told

\* One message for all: it names the row of the first of them.
Push(s) ==
    /\ bridge[s].step = "push"
    /\ \E first \in bridge[s].to :
         told' = told \cup {<<s, u, <<s, first>>>> : u \in bridge[s].to}
    /\ Listen(s, Heard)
    /\ UNCHANGED notices

\* The process restarts.
BridgeDies(s) ==
    /\ bridge[s] \notin {Unheard, Heard}
    /\ Listen(s, Heard)
    /\ UNCHANGED <<notices, told>>

-----------------------------------------------------------------------------
(* NotificationsController                                                 *)

\* markAsRead of a row another user has changes nothing.
MarkAsRead(u, n) ==
    /\ n \in DOMAIN notices /\ n[2] = u
    /\ notices' = [notices EXCEPT ![n] = TRUE]
    /\ UNCHANGED <<bridge, told>>

MarkAllAsRead(u) ==
    /\ notices' = [n \in DOMAIN notices |-> notices[n] \/ n[2] = u]
    /\ UNCHANGED <<bridge, told>>

\* getList, getUnreadCount
NoticesOf(u, isRead) == {n \in DOMAIN notices : n[2] = u /\ notices[n] \in isRead}

NoticeStep ==
    \/ \E s \in Signals :
         \/ FindOperators(s) \/ FindRecipients(s) \/ CreateNotices(s) \/ Push(s) \/ BridgeDies(s)
         \/ \E by \in UserIds \cup {NoActor} : Emit(s, by)
         \/ \E e \in EventIds, by \in UserIds : EmitOrderPaid(s, e, by)
    \/ \E u \in UserIds : MarkAllAsRead(u) \/ \E n \in DOMAIN notices : MarkAsRead(u, n)

-----------------------------------------------------------------------------
\* Nobody is pushed a notification that he will not find in his list again,
\* though the inserts for the others may fail and the process may die.
PushedIsListed ==
    \A p \in told : <<p[1], p[2]>> \in NoticesOf(p[2], BOOLEAN)
=============================================================================

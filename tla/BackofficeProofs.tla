-------------------------- MODULE BackofficeProofs --------------------------
(***************************************************************************)
(* The theorems of Backoffice, for any number of users, phones, events,    *)
(* commands in flight and signals.  Order of the argument: what a command  *)
(* names is there, since users, events and categories are never deleted;   *)
(* the indexes on phones and slugs; while commands have not overlapped,    *)
(* what the one in flight has read is current; the promises of             *)
(* AccountBook and of Programme; the calculator and the bill.              *)
(***************************************************************************)
EXTENDS Backoffice, Counting

-----------------------------------------------------------------------------
(* The inductive invariant.                                                *)

Calling == {Idle} \cup UserCall \cup PhoneCall \cup CatalogueCall

OfUser == {"role", "token", "save", "save_avatar", "unshelve", "assign", "unassign"}
OfPhone == {"add_phone", "save_phone", "count_phones", "delete_phone", "set_primary"}
OfRow == {"slug", "store_event"}
OfCover == {"drop_file", "drop_slug", "save_cover", "register_slug",
            "remove_file", "remove_row", "remove_slug"}
OfEvent == {"staff", "assign", "unassign", "offer"} \cup OfCover

\* What a command names is there, and stays there: whatever overlaps.
NamesRows(q) ==
    /\ q.step \in OfUser => q.user \in DOMAIN users
    /\ q.step \in {"create", "role"} => q.role # "customer"
    /\ q.step \in OfPhone => q.row.user \in DOMAIN users
    /\ q.step \in OfEvent => q.event \in DOMAIN events
    /\ q.step = "offer" => q.category \in categories

\* A save of an event carries a row in order: a new one is active, and its slug
\* has no suffix yet when it is looked for; another keeps its slug.
CarriesEvent(q) ==
    q.step \in OfRow =>
        /\ q.row.deleted <=> q.row.status = "archived"
        /\ q.event = NoEvent =>
             /\ q.row.status = "active"
             /\ q.step = "slug" => \E s \in Slugs : q.row.slug = <<s>>
        /\ q.event # NoEvent =>
             q.event \in DOMAIN events /\ q.row.slug = events[q.event].slug

CallsOK ==
    /\ call \in [Calls -> Calling]
    /\ \A c \in Calls : NamesRows(call[c]) /\ CarriesEvent(call[c])

\* The archived are the deleted ones, slugs are unique, and prices as agreed.
EventsOK ==
    \A e \in DOMAIN events :
        /\ events[e].deleted <=> events[e].status = "archived"
        /\ \A x \in DOMAIN events \ {e} : events[x].slug # events[e].slug
        /\ events[e].pricing = agreed[e]

\* A phone has a user, and of the phones of a user one at most is primary.
PhonesOK ==
    /\ \A p \in DOMAIN phones : phones[p].user \in DOMAIN users
    /\ \A u \in UserIds : \A p, r \in PrimaryOf(u) : p = r

CoversApart ==
    \A e, x \in DOMAIN covers : covers[e].slug = covers[x].slug => e = x

\* What is pushed, or about to be, is in the table.
PushesOK ==
    /\ \A s \in Signals : bridge[s].step = "push" =>
         \A u \in bridge[s].to : <<s, u>> \in DOMAIN notices
    /\ \A p \in told : <<p[1], p[2]>> \in DOMAIN notices

TablesOK == AccountTablesOK /\ CatalogueTablesOK /\ NoticesOK

-----------------------------------------------------------------------------
(* While commands have not overlapped.                                     *)

\* What the command in flight has read is what is stored.
CurrentUser(q) ==
    /\ q.step = "token" => users[q.user].active
    /\ q.step = "save" =>
         /\ q.row.avatar = users[q.user].avatar
         /\ \/ q.row.active = users[q.user].active
            \/ q.row.password = users[q.user].password
    /\ q.step \in {"save_avatar", "unshelve"} =>
         /\ q.row.active = users[q.user].active
         /\ q.row.password = users[q.user].password
    /\ q.step = "save_avatar" /\ q.there => <<q.user, q.row.avatar>> \in shelf
    /\ q.step = "unshelve" =>
         (q.there => <<q.user, q.file>> \in shelf) /\ q.row.avatar # q.file

CurrentPhone(q) ==
    /\ q.step = "add_phone" => (q.row.primary <=> PhonesOf(q.row.user) = {})
    /\ q.step \in OfPhone \ {"add_phone"} =>
         q.phone \in DOMAIN phones /\ phones[q.phone] = q.row
    /\ q.step = "delete_phone" => ~q.row.primary

HasCover(e, row) == e \in DOMAIN covers /\ covers[e] = row

CurrentEvent(q) ==
    /\ q.step \in {"staff", "assign", "offer", "drop_file", "drop_slug", "save_cover"} =>
         Live(q.event)
    /\ q.step \in {"drop_file", "drop_slug", "save_cover"} /\ q.there =>
         <<q.event, q.file>> \in assetFiles
    /\ q.step = "drop_file" => q.old.file # q.file
    /\ q.step \in {"drop_file", "drop_slug", "remove_file", "remove_row"} =>
         HasCover(q.event, q.old)
    /\ q.step = "register_slug" =>
         HasCover(q.event, q.row) /\ (q.there => <<q.event, q.row.file>> \in assetFiles)
    /\ q.step \in {"drop_slug", "register_slug", "remove_row"} => q.event \in unsettled
    /\ q.step = "remove_slug" => \A e \in DOMAIN covers : covers[e].slug # q.old.slug

Current(q) == CurrentUser(q) /\ CurrentPhone(q) /\ CurrentEvent(q)

OneCall == \A c, d \in Calls : call[c] # Idle /\ call[d] # Idle => c = d

\* Who has a phone has a primary one, and a customer has a phone.
PrimaryKept ==
    /\ \A u \in DOMAIN users : PhonesOf(u) # {} => PrimaryOf(u) # {}
    /\ \A u \in DOMAIN roles : roles[u] = "customer" => PrimaryOf(u) # {}

\* Avatars are where the users say, and covers where their slugs lead.
AvatarsKept ==
    \A u \in DOMAIN users \ torn :
        users[u].avatar # NoAvatar => <<u, users[u].avatar>> \in shelf

CoversKept ==
    \A e \in DOMAIN covers \ unsettled :
        /\ covers[e].slug \in DOMAIN kv
        /\ kv[covers[e].slug] = <<e, covers[e].file>>
        /\ <<e, covers[e].file>> \in assetFiles

AloneOK ==
    alone =>
        /\ OneCall
        /\ \A c \in Calls : Current(call[c])
        /\ PrimaryKept /\ AvatarsKept /\ CoversKept

Overlapping == CallsOK /\ EventsOK /\ PhonesOK /\ CoversApart /\ PushesOK

BackofficeInductive == BackofficeTypeOK /\ Overlapping /\ AloneOK

-----------------------------------------------------------------------------
(* Calls and rows.                                                         *)

\* Every step of a user command has its own record.
LEMMA UserShapes ==
    ASSUME NEW q \in Calling
    PROVE  /\ q.step = "register" =>
                q \in [step : {"register"}, email : Emails, password : Passwords]
           /\ q.step = "create" =>
                q \in [step : {"create"}, email : Emails, password : Passwords, role : Role]
           /\ q.step = "role" => q \in [step : {"role"}, user : UserIds, role : Role]
           /\ q.step = "token" => q \in [step : {"token"}, user : UserIds, role : Role]
           /\ q.step = "save" => q \in [step : {"save"}, user : UserIds, row : UserRow]
           /\ q.step = "save_avatar" =>
                q \in [step : {"save_avatar"}, user : UserIds, row : UserRow, there : BOOLEAN]
           /\ q.step = "unshelve" =>
                q \in [step : {"unshelve"}, user : UserIds, row : UserRow, file : Avatars,
                       there : BOOLEAN]
  BY DEF Calling, UserCall, PhoneCall, CatalogueCall, EventCall, CoverCall, Idle

\* Every step of a phone command has its own record.
LEMMA PhoneShapes ==
    ASSUME NEW q \in Calling
    PROVE  /\ q.step = "add_phone" => q \in [step : {"add_phone"}, row : PhoneRow]
           /\ q.step \in OfPhone \ {"add_phone"} =>
                q \in [step : {"save_phone", "count_phones", "delete_phone", "set_primary"},
                       phone : PhoneIds, row : PhoneRow]
  BY DEF Calling, UserCall, PhoneCall, CatalogueCall, EventCall, CoverCall, Idle, OfPhone

\* Every step of an event or category command has its own record.
LEMMA EventShapes ==
    ASSUME NEW q \in Calling
    PROVE  /\ q.step \in OfRow =>
                q \in [step : {"slug", "store_event"}, event : EventIds \cup {NoEvent}, row : Entity]
           /\ q.step = "staff" => q \in [step : {"staff"}, event : EventIds]
           /\ q.step \in {"assign", "unassign"} =>
                q \in [step : {"assign", "unassign"}, event : EventIds, user : UserIds]
           /\ q.step = "add_category" => q \in [step : {"add_category"}, category : Categories]
           /\ q.step = "offer" => q \in [step : {"offer"}, event : EventIds, category : Categories]
  BY DEF Calling, UserCall, PhoneCall, CatalogueCall, EventCall, CoverCall, Idle, OfRow

\* Every step of a cover command has its own record.
LEMMA CoverShapes ==
    ASSUME NEW q \in Calling
    PROVE  /\ q.step \in {"drop_file", "drop_slug", "save_cover"} =>
                q \in [step : {"drop_file", "drop_slug", "save_cover"}, event : EventIds,
                       old : CoverRow \cup {NoCover}, file : CoverFiles, there : BOOLEAN]
           /\ q.step = "register_slug" =>
                q \in [step : {"register_slug"}, event : EventIds, row : CoverRow, there : BOOLEAN]
           /\ q.step \in {"remove_file", "remove_row", "remove_slug"} =>
                q \in [step : {"remove_file", "remove_row", "remove_slug"}, event : EventIds,
                       old : CoverRow]
  BY DEF Calling, UserCall, PhoneCall, CatalogueCall, EventCall, CoverCall, Idle

\* A command of each kind is a call.
LEMMA CallsAre ==
    /\ Idle \in Calling
    /\ UserCall \subseteq Calling /\ PhoneCall \subseteq Calling
    /\ EventCall \subseteq Calling /\ CoverCall \subseteq Calling
    /\ [step : {"add_category"}, category : Categories] \subseteq Calling
    /\ [step : {"offer"}, event : EventIds, category : Categories] \subseteq Calling
  BY DEF Calling, CatalogueCall

\* nanoid(6) after a slug of a name makes a slug.
LEMMA Suffixed ==
    ASSUME NEW s \in Slugs, NEW x \in Suffixes
    PROVE  Append(<<s>>, x) \in SlugValue
  <1> DEFINE A == Append(<<s>>, x)
  <1>1. \A i \in 1 .. 2 : A[i] = <<s, x>>[i]
    OBVIOUS
  <1>2. A = [i \in 1 .. 2 |-> A[i]]
    <2>1. <<s>> \in Seq(Slugs \cup Suffixes) /\ Len(<<s>>) = 1
      OBVIOUS
    <2> QED BY <2>1
  <1>3. <<s, x>> = [i \in 1 .. 2 |-> <<s, x>>[i]]
    OBVIOUS
  <1> HIDE DEF A
  <1>4. A = <<s, x>>
    BY <1>1, <1>2, <1>3
  <1> QED BY <1>4 DEF A, SlugValue

\* Rows are never deleted, and an event keeps its slug.
Grow ==
    /\ DOMAIN users \subseteq DOMAIN users'
    /\ DOMAIN events \subseteq DOMAIN events'
    /\ \A e \in DOMAIN events : events'[e].slug = events[e].slug
    /\ categories \subseteq categories'

\* So what a command names stays there.
LEMMA NamesStay ==
    ASSUME Grow, NEW q, NamesRows(q), CarriesEvent(q)
    PROVE  NamesRows(q)' /\ CarriesEvent(q)'
  <1>1. NamesRows(q)'
    BY DEF Grow, NamesRows
  <1>2. CarriesEvent(q)'
    BY DEF Grow, CarriesEvent
  <1> QED BY <1>1, <1>2

-----------------------------------------------------------------------------
(* A command that begins.                                                  *)

\* It names rows it has just read.
Fresh(q) == q \in Calling /\ NamesRows(q) /\ CarriesEvent(q) /\ Current(q)

\* A call that is not about an event or a phone is fresh if its user is.
LEMMA FreshOfUser ==
    ASSUME NEW q \in Calling, q.step \notin OfPhone \cup OfRow \cup OfEvent,
           q.step \in OfUser => q.user \in DOMAIN users,
           q.step \in {"create", "role"} => q.role # "customer",
           CurrentUser(q)
    PROVE  Fresh(q)
  <1>1. NamesRows(q) /\ CarriesEvent(q)
    BY DEF NamesRows, CarriesEvent, OfEvent, OfCover
  <1>2. CurrentPhone(q)
    BY DEF CurrentPhone, OfPhone
  <1>3. CurrentEvent(q)
    BY DEF CurrentEvent, OfEvent, OfCover
  <1> QED BY <1>1, <1>2, <1>3 DEF Fresh, Current

\* The commands of auth and of the users module.
LEMMA UserCommandBegins ==
    ASSUME TablesOK, NEW c \in Calls, UserCommand(c)
    PROVE  UNCHANGED userVars /\ \E q \in Calling : Fresh(q) /\ Start(c, q)
  <1> DEFINE Goal == UNCHANGED userVars /\ \E q \in Calling : Fresh(q) /\ Start(c, q)
  <1> USE DEF OfPhone, OfRow, OfEvent, OfUser, OfCover
  <1>1. ASSUME NEW e \in Emails, NEW pw \in Passwords, Register(c, e, pw) PROVE Goal
    <2> DEFINE q == [step |-> "register", email |-> e, password |-> pw]
    <2>1. q \in Calling
      BY CallsAre DEF UserCall
    <2>2. Fresh(q)
      BY <2>1, FreshOfUser DEF CurrentUser
    <2> QED BY <1>1, <2>1, <2>2 DEF Register
  <1>2. ASSUME NEW e \in Emails, NEW pw \in Passwords, NEW role \in {"admin", "operator"},
               CreateUser(c, e, pw, role)
        PROVE  Goal
    <2> DEFINE q == [step |-> "create", email |-> e, password |-> pw, role |-> role]
    <2>1. q \in Calling
      BY CallsAre DEF UserCall, Role
    <2>2. Fresh(q)
      BY <2>1, FreshOfUser DEF CurrentUser
    <2> QED BY <1>2, <2>1, <2>2 DEF CreateUser
  <1>3. ASSUME NEW u \in UserIds, NEW pw \in Passwords, Login(c, u, pw) PROVE Goal
    <2> DEFINE q == [step |-> "token", user |-> u, role |-> RoleOf(u)]
    <2>1. u \in DOMAIN users /\ users[u].active /\ Start(c, q) /\ UNCHANGED userVars
      BY <1>3 DEF Login
    <2>2. RoleOf(u) \in Role
      BY DEF RoleOf, Role, TablesOK, AccountTablesOK, UserTablesOK
    <2>3. q \in Calling
      BY <2>2, CallsAre DEF UserCall
    <2>4. Fresh(q)
      BY <2>1, <2>3, FreshOfUser DEF CurrentUser
    <2> QED BY <2>1, <2>3, <2>4
  <1>4. ASSUME NEW u \in UserIds, u \in DOMAIN users, NEW row \in UserRow,
               row.avatar = users[u].avatar,
               row.active = users[u].active \/ row.password = users[u].password,
               Start(c, [step |-> "save", user |-> u, row |-> row]), UNCHANGED userVars
        PROVE  Goal
    <2> DEFINE q == [step |-> "save", user |-> u, row |-> row]
    <2>1. q \in Calling
      BY CallsAre DEF UserCall
    <2>2. CurrentUser(q)
      BY <1>4 DEF CurrentUser
    <2>3. Fresh(q)
      BY <1>4, <2>1, <2>2, FreshOfUser
    <2> QED BY <1>4, <2>1, <2>3
  <1>5. \A u \in DOMAIN users :
            /\ users[u] \in UserRow
            /\ \A b \in BOOLEAN : [users[u] EXCEPT !.active = b] \in UserRow
            /\ \A pw \in Passwords : [users[u] EXCEPT !.password = pw] \in UserRow
            /\ \A f \in Avatars : [users[u] EXCEPT !.avatar = f] \in UserRow
    BY DEF TablesOK, AccountTablesOK, UserTablesOK, UserRow
  <1>6. ASSUME NEW u \in UserIds, NEW pw \in Passwords, ResetPassword(c, u, pw) PROVE Goal
    <2> DEFINE row == [users[u] EXCEPT !.password = pw]
    <2>1. row \in UserRow
      BY <1>5, <1>6 DEF ResetPassword
    <2>2. row.avatar = users[u].avatar /\ row.active = users[u].active
      BY <1>5, <1>6 DEF ResetPassword, UserRow
    <2> QED BY <1>4, <1>6, <2>1, <2>2 DEF ResetPassword
  <1>7. ASSUME NEW u \in UserIds, Deactivate(c, u) PROVE Goal
    <2> DEFINE row == [users[u] EXCEPT !.active = FALSE]
    <2>1. row \in UserRow
      BY <1>5, <1>7 DEF Deactivate
    <2>2. row.avatar = users[u].avatar /\ row.password = users[u].password
      BY <1>5, <1>7 DEF Deactivate, UserRow
    <2> QED BY <1>4, <1>7, <2>1, <2>2 DEF Deactivate
  <1>8. ASSUME NEW u \in UserIds, Reactivate(c, u) PROVE Goal
    <2> DEFINE row == [users[u] EXCEPT !.active = TRUE]
    <2>1. row \in UserRow
      BY <1>5, <1>8 DEF Reactivate
    <2>2. row.avatar = users[u].avatar /\ row.password = users[u].password
      BY <1>5, <1>8 DEF Reactivate, UserRow
    <2> QED BY <1>4, <1>8, <2>1, <2>2 DEF Reactivate
  <1>9. ASSUME NEW u \in UserIds, UpdateUser(c, u) PROVE Goal
    BY <1>4, <1>5, <1>9 DEF UpdateUser
  <1>10. ASSUME NEW u \in UserIds, NEW f \in Avatars, ConfirmAvatar(c, u, f) PROVE Goal
    <2> DEFINE there == <<u, f>> \in shelf
    <2>0. there \in BOOLEAN
      OBVIOUS
    <2>1. CASE Replaces(users[u], f)
      <3> DEFINE q == [step |-> "unshelve", user |-> u, row |-> users[u], file |-> f,
                       there |-> there]
      <3>1. u \in DOMAIN users /\ Start(c, q) /\ UNCHANGED userVars
        BY <1>10, <2>1 DEF ConfirmAvatar
      <3>2. q \in Calling
        <4> HIDE DEF there
        <4> QED BY <1>5, <2>0, <3>1, CallsAre DEF UserCall
      <3>3. Fresh(q)
        BY <2>1, <3>1, <3>2, FreshOfUser DEF CurrentUser, Replaces
      <3> QED BY <3>1, <3>2, <3>3
    <2>2. CASE ~Replaces(users[u], f)
      <3> DEFINE row == [users[u] EXCEPT !.avatar = f]
                 q == [step |-> "save_avatar", user |-> u, row |-> row, there |-> there]
      <3>1. u \in DOMAIN users /\ Start(c, q) /\ UNCHANGED userVars
        BY <1>10, <2>2 DEF ConfirmAvatar
      <3>2. row \in UserRow
        BY <1>5, <3>1
      <3>3. row.avatar = f /\ row.active = users[u].active /\ row.password = users[u].password
        BY <1>5, <3>1 DEF UserRow
      <3>4. q \in Calling
        <4> HIDE DEF row, there
        <4> QED BY <2>0, <3>2, CallsAre DEF UserCall
      <3> HIDE DEF row
      <3>5. Fresh(q)
        BY <3>1, <3>3, <3>4, FreshOfUser DEF CurrentUser
      <3> QED BY <3>1, <3>4, <3>5
    <2> QED BY <2>1, <2>2
  <1> QED BY <1>1, <1>2, <1>3, <1>6, <1>7, <1>8, <1>9, <1>10 DEF UserCommand

\* The commands on phones.
LEMMA PhoneCommandBegins ==
    ASSUME TablesOK, PhonesOK, NEW c \in Calls, PhoneCommand(c)
    PROVE  UNCHANGED phones /\ \E q \in Calling : Fresh(q) /\ Start(c, q)
  <1> DEFINE Goal == UNCHANGED phones /\ \E q \in Calling : Fresh(q) /\ Start(c, q)
  <1>1. ASSUME NEW q \in Calling, q.step \in OfPhone \ {"delete_phone"},
               q.row.user \in DOMAIN users, CurrentPhone(q)
        PROVE  Fresh(q)
    <2>1. NamesRows(q) /\ CarriesEvent(q)
      BY <1>1 DEF NamesRows, CarriesEvent, OfPhone, OfUser, OfRow, OfEvent, OfCover
    <2>2. CurrentUser(q) /\ CurrentEvent(q)
      BY <1>1 DEF CurrentUser, CurrentEvent, OfPhone
    <2> QED BY <1>1, <2>1, <2>2 DEF Fresh, Current
  <1>2. ASSUME NEW u \in UserIds, AddPhone(c, u) PROVE Goal
    <2> DEFINE row == [user |-> u, primary |-> PhonesOf(u) = {}]
               q == [step |-> "add_phone", row |-> row]
    <2>1. u \in DOMAIN users /\ Start(c, q) /\ UNCHANGED phones
      BY <1>2 DEF AddPhone
    <2>2. row \in PhoneRow
      BY DEF PhoneRow
    <2>3. q \in Calling
      BY <2>2, CallsAre DEF PhoneCall
    <2>4. CurrentPhone(q)
      BY DEF CurrentPhone, OfPhone
    <2>5. Fresh(q)
      BY <1>1, <2>1, <2>3, <2>4 DEF OfPhone
    <2> QED BY <2>1, <2>3, <2>5
  <1>3. ASSUME NEW u \in UserIds, NEW p \in PhoneIds,
               NEW step \in {"save_phone", "count_phones", "set_primary"}, LoadPhone(c, step, u, p)
        PROVE  Goal
    <2> DEFINE q == [step |-> step, phone |-> p, row |-> phones[p]]
    <2>1. p \in DOMAIN phones /\ Start(c, q) /\ UNCHANGED phones
      BY <1>3 DEF LoadPhone
    <2>2. phones[p] \in PhoneRow /\ phones[p].user \in DOMAIN users
      BY <2>1 DEF TablesOK, AccountTablesOK, PhoneTableOK, PhonesOK
    <2>3. q \in Calling
      BY <2>2, CallsAre DEF PhoneCall
    <2>4. CurrentPhone(q)
      BY <2>1 DEF CurrentPhone
    <2>5. Fresh(q)
      BY <1>1, <2>2, <2>3, <2>4 DEF OfPhone
    <2> QED BY <2>1, <2>3, <2>5
  <1> QED BY <1>2, <1>3 DEF PhoneCommand

\* The commands on events, covers and categories.
LEMMA CatalogueCommandBegins ==
    ASSUME TablesOK, EventsOK, NEW c \in Calls, CatalogueCommand(c)
    PROVE  UNCHANGED catalogueVars /\ \E q \in Calling : Fresh(q) /\ Start(c, q)
  <1> DEFINE Goal == UNCHANGED catalogueVars /\ \E q \in Calling : Fresh(q) /\ Start(c, q)
  <1>1. ASSUME NEW q \in Calling, q.step \in OfEvent \cup {"add_category"},
               q.step \in OfEvent => q.event \in DOMAIN events,
               q.step \in {"assign", "unassign"} => q.user \in DOMAIN users,
               q.step = "offer" => q.category \in categories, CurrentEvent(q)
        PROVE  Fresh(q)
    <2>1. NamesRows(q) /\ CarriesEvent(q)
      BY <1>1 DEF NamesRows, CarriesEvent, OfPhone, OfUser, OfRow, OfEvent, OfCover
    <2>2. CurrentUser(q) /\ CurrentPhone(q)
      BY <1>1 DEF CurrentUser, CurrentPhone, OfPhone, OfEvent, OfCover
    <2> QED BY <1>1, <2>1, <2>2 DEF Fresh, Current
  <1>2. ASSUME NEW e \in EventIds \cup {NoEvent}, NEW row \in Entity, StartSave(c, e, row),
               row.deleted <=> row.status = "archived",
               e = NoEvent => row.status = "active" /\ \E s \in Slugs : row.slug = <<s>>,
               e # NoEvent => e \in DOMAIN events /\ row.slug = events[e].slug
        PROVE  \E q \in Calling : Fresh(q) /\ Start(c, q)
    <2> DEFINE q == [step |-> "slug", event |-> e, row |-> row]
    <2>1. q \in Calling
      BY CallsAre DEF EventCall
    <2>2. NamesRows(q)
      BY DEF NamesRows, OfPhone, OfUser, OfEvent, OfCover
    <2>3. CarriesEvent(q)
      BY <1>2 DEF CarriesEvent
    <2>4. CurrentUser(q) /\ CurrentPhone(q) /\ CurrentEvent(q)
      BY DEF CurrentUser, CurrentPhone, CurrentEvent, OfPhone
    <2> QED BY <1>2, <2>1, <2>2, <2>3, <2>4 DEF Fresh, Current, StartSave
  <1>3. \A e \in DOMAIN events :
           /\ e \in EventIds /\ e # NoEvent
           /\ EntityOf(e) \in Entity /\ EntityOf(e).slug = events[e].slug
           /\ EntityOf(e).deleted = events[e].deleted /\ EntityOf(e).status = events[e].status
    BY EventAssumption DEF EntityOf, Entity, EventRow, TablesOK, CatalogueTablesOK, EventTablesOK
  <1>4. ASSUME NEW s \in Slugs, CreateEvent(c, s)
        PROVE  UNCHANGED eventVars /\ \E q \in Calling : Fresh(q) /\ Start(c, q)
    <2>1. NewEvent(s) \in Entity
      BY DEF NewEvent, Entity, SlugValue
    <2>2. NewEvent(s).slug = <<s>> /\ NewEvent(s).status = "active" /\ ~NewEvent(s).deleted
      BY DEF NewEvent
    <2>3. \E q \in Calling : Fresh(q) /\ Start(c, q)
      BY <1>2, <1>4, <2>1, <2>2 DEF CreateEvent
    <2> QED BY <1>4, <2>3 DEF CreateEvent
  <1>5. ASSUME NEW e \in EventIds, UpdateEvent(c, e)
        PROVE  UNCHANGED eventVars /\ \E q \in Calling : Fresh(q) /\ Start(c, q)
    BY <1>2, <1>3, <1>5 DEF UpdateEvent, Live, EventsOK
  <1>6. ASSUME NEW e \in EventIds, ArchiveEvent(c, e)
        PROVE  UNCHANGED eventVars /\ \E q \in Calling : Fresh(q) /\ Start(c, q)
    <2> DEFINE row == Archived(EntityOf(e))
    <2>1. e \in DOMAIN events /\ StartSave(c, e, row) /\ UNCHANGED eventVars
      BY <1>6 DEF ArchiveEvent, Live
    <2>2. row \in Entity /\ row.slug = events[e].slug /\ row.deleted /\ row.status = "archived"
      BY <1>3, <2>1 DEF Archived, Entity
    <2> HIDE DEF row
    <2> QED BY <1>2, <1>3, <2>1, <2>2
  <1>7. ASSUME NEW e \in EventIds, RestoreEvent(c, e)
        PROVE  UNCHANGED eventVars /\ \E q \in Calling : Fresh(q) /\ Start(c, q)
    <2> DEFINE row == Restored(EntityOf(e))
    <2>1. e \in DOMAIN events /\ StartSave(c, e, row) /\ UNCHANGED eventVars
      BY <1>7 DEF RestoreEvent
    <2>2. row \in Entity /\ row.slug = events[e].slug /\ ~row.deleted /\ row.status = "active"
      BY <1>3, <2>1 DEF Restored, Entity
    <2> HIDE DEF row
    <2> QED BY <1>2, <1>3, <2>1, <2>2
  <1>8. ASSUME NEW e \in EventIds, NEW u \in UserIds, AssignOperator(c, e, u)
        PROVE  UNCHANGED eventVars /\ \E q \in Calling : Fresh(q) /\ Start(c, q)
    <2> DEFINE q == [step |-> "assign", event |-> e, user |-> u]
    <2>1. Live(e) /\ u \in DOMAIN users /\ Start(c, q) /\ UNCHANGED eventVars
      BY <1>8 DEF AssignOperator
    <2>2. q \in Calling
      BY CallsAre DEF EventCall
    <2>3. Fresh(q)
      BY <1>1, <2>1, <2>2 DEF CurrentEvent, OfEvent, Live
    <2> QED BY <2>1, <2>2, <2>3
  <1>9. ASSUME NEW e \in EventIds, NEW u \in UserIds, UnassignOperator(c, e, u)
        PROVE  UNCHANGED eventVars /\ \E q \in Calling : Fresh(q) /\ Start(c, q)
    <2> DEFINE q == [step |-> "unassign", event |-> e, user |-> u]
    <2>1. <<e, u>> \in duty /\ Start(c, q) /\ UNCHANGED eventVars
      BY <1>9 DEF UnassignOperator
    <2>2. e \in DOMAIN events /\ u \in DOMAIN users
      BY <2>1 DEF TablesOK, CatalogueTablesOK, EventTablesOK
    <2>3. q \in Calling
      BY CallsAre DEF EventCall
    <2>4. Fresh(q)
      BY <1>1, <2>2, <2>3 DEF CurrentEvent, OfEvent
    <2> QED BY <2>1, <2>3, <2>4
  <1>10. CASE EventCommand(c) /\ UNCHANGED <<coverVars, categories, offered>>
    <2>1. UNCHANGED eventVars /\ \E q \in Calling : Fresh(q) /\ Start(c, q)
      BY <1>4, <1>5, <1>6, <1>7, <1>8, <1>9, <1>10 DEF EventCommand
    <2> QED BY <1>10, <2>1 DEF catalogueVars
  <1>11. ASSUME NEW e \in EventIds, DeleteCover(c, e)
         PROVE  UNCHANGED coverVars /\ \E q \in Calling : Fresh(q) /\ Start(c, q)
    <2> DEFINE q == [step |-> "remove_file", event |-> e, old |-> covers[e]]
    <2>1. e \in DOMAIN covers /\ Start(c, q) /\ UNCHANGED coverVars
      BY <1>11 DEF DeleteCover
    <2>2. covers[e] \in CoverRow /\ e \in DOMAIN events
      BY <2>1 DEF TablesOK, CatalogueTablesOK, CoverTablesOK
    <2>3. q \in Calling
      BY <2>2, CallsAre DEF CoverCall
    <2>4. Fresh(q)
      BY <1>1, <2>1, <2>2, <2>3 DEF CurrentEvent, OfEvent, OfCover, HasCover
    <2> QED BY <2>1, <2>3, <2>4
  <1>12. ASSUME NEW e \in EventIds, NEW f \in CoverFiles, ConfirmCover(c, e, f)
         PROVE  UNCHANGED coverVars /\ \E q \in Calling : Fresh(q) /\ Start(c, q)
    <2> DEFINE old == FindCover(e)
               step == IF ReplacesCover(old, f) THEN "drop_file" ELSE "save_cover"
               there == <<e, f>> \in assetFiles
               q == [step |-> step, event |-> e, old |-> old, file |-> f, there |-> there]
    <2>1. Live(e) /\ Start(c, q) /\ UNCHANGED coverVars
      BY <1>12 DEF ConfirmCover
    <2>2. old \in CoverRow \cup {NoCover} /\ (old # NoCover => HasCover(e, old))
      BY DEF FindCover, HasCover, TablesOK, CatalogueTablesOK, CoverTablesOK
    <2> HIDE DEF old
    <2>3. q \in Calling
      <3>1. there \in BOOLEAN /\ step \in {"drop_file", "save_cover"}
        OBVIOUS
      <3> HIDE DEF there, step
      <3> QED BY <2>2, <3>1, CallsAre DEF CoverCall
    <2>4. CurrentEvent(q)
      BY <2>1, <2>2 DEF CurrentEvent, ReplacesCover
    <2>5. Fresh(q)
      BY <1>1, <2>1, <2>3, <2>4 DEF OfEvent, OfCover, Live
    <2> QED BY <2>1, <2>3, <2>5
  <1>13. CASE CoverCommand(c) /\ UNCHANGED <<eventVars, categories, offered>>
    <2>1. UNCHANGED coverVars /\ \E q \in Calling : Fresh(q) /\ Start(c, q)
      BY <1>11, <1>12, <1>13 DEF CoverCommand
    <2> QED BY <1>13, <2>1 DEF catalogueVars
  <1>14. CASE CategoryCommand(c) /\ UNCHANGED <<eventVars, coverVars>>
    <2>1. ASSUME NEW n \in Categories, CreateCategory(c, n) PROVE Goal
      <3> DEFINE q == [step |-> "add_category", category |-> n]
      <3>1. q \in Calling
        BY CallsAre
      <3>2. Fresh(q)
        BY <1>1, <3>1 DEF CurrentEvent, OfEvent, OfCover
      <3> QED BY <1>14, <2>1, <3>1, <3>2 DEF CreateCategory, catalogueVars
    <2>2. ASSUME NEW n \in Categories, NEW e \in EventIds, AssignCategory(c, e, n) PROVE Goal
      <3> DEFINE q == [step |-> "offer", event |-> e, category |-> n]
      <3>1. Live(e) /\ n \in categories /\ Start(c, q) /\ UNCHANGED <<categories, offered>>
        BY <2>2 DEF AssignCategory
      <3>2. q \in Calling
        BY CallsAre
      <3>3. Fresh(q)
        BY <1>1, <3>1, <3>2 DEF CurrentEvent, OfEvent, Live
      <3> QED BY <1>14, <3>1, <3>2, <3>3 DEF catalogueVars
    <2> QED BY <1>14, <2>1, <2>2 DEF CategoryCommand
  <1> QED BY <1>10, <1>13, <1>14 DEF CatalogueCommand

-----------------------------------------------------------------------------
(* A command that goes on.                                                 *)

\* Its next step names rows that are there, and what it has read stays current
\* through its own steps.
Moves(c) ==
    /\ call[c] # Idle
    /\ \E q \in Calling :
         /\ call' = [call EXCEPT ![c] = q]
         /\ NamesRows(q)' /\ CarriesEvent(q)'
         /\ Current(call[c]) => Current(q)'

\* An idle call names nothing.
LEMMA IdleNames ==
    /\ NamesRows(Idle)' /\ CarriesEvent(Idle)' /\ Current(Idle)'
    /\ NamesRows(Idle) /\ CarriesEvent(Idle) /\ Current(Idle)
  <1> USE DEF Idle, OfUser, OfPhone, OfRow, OfCover, OfEvent
  <1>1. NamesRows(Idle)' /\ CarriesEvent(Idle)' /\ NamesRows(Idle) /\ CarriesEvent(Idle)
    BY DEF NamesRows, CarriesEvent
  <1>2. CurrentUser(Idle)' /\ CurrentPhone(Idle)' /\ CurrentEvent(Idle)'
    BY DEF CurrentUser, CurrentPhone, CurrentEvent
  <1>3. CurrentUser(Idle) /\ CurrentPhone(Idle) /\ CurrentEvent(Idle)
    BY DEF CurrentUser, CurrentPhone, CurrentEvent
  <1> QED BY <1>1, <1>2, <1>3 DEF Current

\* A command that finishes.
LEMMA FinishMoves ==
    ASSUME NEW c \in Calls, call[c] # Idle, Finish(c)
    PROVE  Moves(c)
  BY IdleNames, CallsAre DEF Moves, Finish, Goto

\* A command on users that goes on.
LEMMA UserMoves ==
    ASSUME NEW c \in Calls, NEW q \in Calling, call[c] # Idle, Goto(c, q),
           q.step \notin OfPhone \cup OfRow \cup OfEvent,
           q.step \in OfUser => q.user \in DOMAIN users',
           q.step \in {"create", "role"} => q.role # "customer",
           Current(call[c]) => CurrentUser(q)'
    PROVE  Moves(c)
  <1>1. NamesRows(q)' /\ CarriesEvent(q)'
    BY DEF NamesRows, CarriesEvent, OfEvent, OfCover
  <1>2. CurrentPhone(q)' /\ CurrentEvent(q)'
    BY DEF CurrentPhone, CurrentEvent, OfPhone, OfEvent, OfCover
  <1> QED BY <1>1, <1>2 DEF Moves, Goto, Current

\* What an insert of a user does.
LEMMA InsertUserIs ==
    ASSUME UserTablesOK, NEW u \in UserIds, NEW e \in Emails, NEW pw \in Passwords,
           InsertUser(u, e, pw)
    PROVE  /\ u \notin DOMAIN users
           /\ DOMAIN users' = DOMAIN users \cup {u}
           /\ users'[u] = NewUser(e, pw)
           /\ \A x \in DOMAIN users : users'[x] = users[x]
           /\ DOMAIN users' \subseteq UserIds
           /\ \A x \in DOMAIN users' : users'[x] \in UserRow
  <1>1. /\ u \notin DOMAIN users
        /\ DOMAIN users' = DOMAIN users \cup {u}
        /\ users'[u] = NewUser(e, pw)
        /\ \A x \in DOMAIN users : users'[x] = users[x]
    BY DEF InsertUser, Upsert
  <1>2. NewUser(e, pw) \in UserRow
    BY DEF NewUser, UserRow
  <1> QED BY <1>1, <1>2 DEF UserTablesOK

\* The steps of the commands on users.
LEMMA UserStepMoves ==
    ASSUME UserTablesOK, CallsOK, NEW c \in Calls, UserStep(c)
    PROVE  UserTablesOK' /\ DOMAIN users \subseteq DOMAIN users' /\ Moves(c)
  <1> DEFINE Goal == UserTablesOK' /\ DOMAIN users \subseteq DOMAIN users' /\ Moves(c)
  <1> USE DEF OfPhone, OfRow, OfEvent, OfUser, OfCover
  <1>0. call[c] \in Calling /\ NamesRows(call[c])
    BY DEF CallsOK
  <1>1. ASSUME NEW t \in TokenIds, StoreToken(c, t) PROVE Goal
    <2>1. call[c].step = "token" /\ call[c] # Idle
      BY <1>1 DEF StoreToken, Idle
    <2>2. call[c].user \in DOMAIN users /\ call[c].user \in UserIds /\ call[c].role \in Role
      BY <1>0, <2>1, UserShapes DEF NamesRows
    <2>3. DOMAIN tokens' = DOMAIN tokens \cup {t}
          /\ tokens'[t] = [user |-> call[c].user, revoked |-> FALSE, lapsed |-> FALSE]
          /\ \A x \in DOMAIN tokens : x # t => tokens'[x] = tokens[x]
      BY <1>1 DEF StoreToken, GiveSession, Upsert
    <2>4. tokens'[t] \in TokenRow /\ tokens'[t].user \in DOMAIN users
      BY <2>2, <2>3 DEF TokenRow
    <2>5. badges' = badges \cup {[user |-> call[c].user, role |-> call[c].role]}
      BY <1>1 DEF StoreToken, GiveSession
    <2>6. badges' \subseteq Badge
      BY <2>2, <2>5 DEF Badge, UserTablesOK
    <2>7. UNCHANGED <<users, roles, shelf, torn>> /\ Moves(c)
      BY <1>1, <2>1, FinishMoves DEF StoreToken
    <2> QED BY <2>3, <2>4, <2>6, <2>7 DEF UserTablesOK
  <1>2. ASSUME NEW u \in UserIds, InsertStaff(c, u) PROVE Goal
    <2> DEFINE q == [step |-> "role", user |-> u, role |-> call[c].role]
    <2>1. call[c].step = "create" /\ call[c] # Idle /\ Goto(c, q)
      BY <1>2 DEF InsertStaff, Idle
    <2>2. /\ call[c].email \in Emails /\ call[c].password \in Passwords
          /\ call[c].role \in Role /\ call[c].role # "customer"
      BY <1>0, <2>1, UserShapes DEF NamesRows
    <2>3. InsertUser(u, call[c].email, call[c].password) /\ UNCHANGED <<roles, tokens, badges, shelf, torn>>
      BY <1>2 DEF InsertStaff
    <2>4. q \in Calling
      BY <2>2, CallsAre DEF UserCall
    <2>5. Moves(c)
      BY <2>1, <2>2, <2>3, <2>4, InsertUserIs, UserMoves DEF CurrentUser
    <2> QED BY <2>2, <2>3, <2>5, InsertUserIs DEF UserTablesOK
  <1>3. CASE AssignRole(c)
    <2>1. call[c].step = "role" /\ call[c] # Idle
      BY <1>3 DEF AssignRole, Idle
    <2>2. call[c].user \in DOMAIN users /\ call[c].role \in Role
      BY <1>0, <2>1, UserShapes DEF NamesRows
    <2>3. DOMAIN roles' = DOMAIN roles \cup {call[c].user} /\ roles'[call[c].user] = call[c].role
          /\ \A x \in DOMAIN roles : x # call[c].user => roles'[x] = roles[x]
      BY <1>3 DEF AssignRole, Upsert
    <2>4. UNCHANGED <<users, tokens, badges, shelf, torn>> /\ Moves(c)
      BY <1>3, <2>1, FinishMoves DEF AssignRole
    <2> QED BY <2>2, <2>3, <2>4 DEF UserTablesOK
  <1>4. CASE DeleteOldAvatar(c)
    <2>1. PICK k \in Calling : k = call[c]
      BY <1>0
    <2> DEFINE row == [k.row EXCEPT !.avatar = k.file]
               q == [step |-> "save_avatar", user |-> k.user, row |-> row, there |-> k.there]
    <2>2. k.step = "unshelve" /\ call[c] # Idle /\ Goto(c, q)
      BY <1>4, <2>1 DEF DeleteOldAvatar, Idle
    <2>3. /\ k.user \in DOMAIN users /\ k.user \in UserIds /\ k.row \in UserRow
          /\ k.file \in Avatars /\ k.there \in BOOLEAN
      BY <1>0, <2>1, <2>2, UserShapes DEF NamesRows
    <2>4. /\ row \in UserRow /\ row.avatar = k.file
          /\ row.active = k.row.active /\ row.password = k.row.password
      BY <2>3 DEF UserRow
    <2>5. /\ shelf' = shelf \ {<<k.user, k.row.avatar>>} /\ torn' = torn \cup {k.user}
          /\ UNCHANGED <<users, roles, tokens, badges>>
      BY <1>4, <2>1 DEF DeleteOldAvatar
    <2>6. q \in Calling
      BY <2>3, <2>4, CallsAre DEF UserCall
    <2> HIDE DEF row
    <2>7. ASSUME Current(call[c]) PROVE CurrentUser(q)'
      BY <2>1, <2>2, <2>4, <2>5, <2>7 DEF Current, CurrentUser
    <2>8. Moves(c)
      BY <2>2, <2>3, <2>5, <2>6, <2>7, UserMoves
    <2> QED BY <2>3, <2>5, <2>8 DEF UserTablesOK
  <1>5. CASE SaveUser(c)
    <2>1. call[c].step \in {"save", "save_avatar"} /\ call[c] # Idle
      BY <1>5 DEF SaveUser, Idle
    <2>2. call[c].user \in DOMAIN users /\ call[c].row \in UserRow
      BY <1>0, <2>1, UserShapes DEF NamesRows
    <2>3. DOMAIN users' = DOMAIN users \cup {call[c].user} /\ users'[call[c].user] = call[c].row
          /\ \A x \in DOMAIN users : x # call[c].user => users'[x] = users[x]
      BY <1>5 DEF SaveUser, Upsert
    <2>4. /\ UNCHANGED <<roles, tokens, badges, shelf>> /\ Moves(c)
          /\ torn' \subseteq torn \cup {call[c].user}
      BY <1>5, <2>1, FinishMoves DEF SaveUser
    <2>5. DOMAIN users' = DOMAIN users
      BY <2>2, <2>3
    <2> QED BY <2>2, <2>3, <2>4, <2>5 DEF UserTablesOK
  <1> QED BY <1>1, <1>2, <1>3, <1>4, <1>5 DEF UserStep

\* A phone that is stored under the index is the only primary one, if it is.
LEMMA StoredPhone ==
    ASSUME PhoneTableOK, PhonesOK, NEW p \in PhoneIds, NEW row \in PhoneRow,
           row.user \in DOMAIN users', SavePhone(p, row), DOMAIN users \subseteq DOMAIN users'
    PROVE  PhoneTableOK' /\ PhonesOK'
  <1>1. /\ DOMAIN phones' = DOMAIN phones \cup {p} /\ phones'[p] = row
        /\ \A x \in DOMAIN phones : x # p => phones'[x] = phones[x]
    BY DEF SavePhone, Upsert
  <1>2. PhoneTableOK'
    BY <1>1 DEF PhoneTableOK
  <1>3. ASSUME NEW u \in UserIds, NEW x \in PrimaryOf(u)', NEW y \in PrimaryOf(u)' PROVE x = y
    <2>1. \A z \in PrimaryOf(u)' : z # p => z \in PrimaryOf(u)
      BY <1>1 DEF PrimaryOf, PhonesOf
    <2>2. CASE p \in PrimaryOf(u)'
      <3>1. row.primary /\ row.user = u
        BY <1>1, <2>2 DEF PrimaryOf, PhonesOf
      <3>2. PrimaryOf(u) \ {p} = {}
        BY <3>1 DEF SavePhone, SecondPrimary
      <3> QED BY <1>3, <2>1, <3>2
    <2>3. CASE p \notin PrimaryOf(u)'
      BY <1>3, <2>1, <2>3 DEF PhonesOK
    <2> QED BY <2>2, <2>3
  <1> QED BY <1>1, <1>2, <1>3 DEF PhonesOK

\* The transaction of a registration.
LEMMA RegisterMoves ==
    ASSUME AccountTablesOK, CallsOK, PhonesOK, NEW c \in Calls,
           NEW u \in UserIds, NEW p \in PhoneIds, RegisterCustomer(c, u, p)
    PROVE  /\ UserTablesOK' /\ PhoneTableOK' /\ PhonesOK'
           /\ DOMAIN users \subseteq DOMAIN users' /\ Moves(c)
  <1> DEFINE q == [step |-> "token", user |-> u, role |-> "customer"]
  <1>1. call[c].step = "register" /\ call[c] # Idle /\ Goto(c, q)
    BY DEF RegisterCustomer, InsertCustomer, Idle
  <1>2. call[c].email \in Emails /\ call[c].password \in Passwords
    BY <1>1, UserShapes DEF CallsOK
  <1>3. /\ InsertUser(u, call[c].email, call[c].password)
        /\ roles' = Upsert(roles, u, "customer") /\ UNCHANGED <<tokens, badges, shelf, torn>>
    BY DEF RegisterCustomer, InsertCustomer
  <1>4. /\ u \notin DOMAIN users /\ DOMAIN users' = DOMAIN users \cup {u}
        /\ users'[u] = NewUser(call[c].email, call[c].password)
        /\ DOMAIN users' \subseteq UserIds /\ \A x \in DOMAIN users' : users'[x] \in UserRow
    BY <1>2, <1>3, InsertUserIs DEF AccountTablesOK
  <1>5. DOMAIN roles' = DOMAIN roles \cup {u} /\ roles'[u] = "customer"
        /\ \A x \in DOMAIN roles : x # u => roles'[x] = roles[x]
    BY <1>3 DEF Upsert
  <1>6. UserTablesOK'
    BY <1>3, <1>4, <1>5 DEF UserTablesOK, AccountTablesOK, Role
  <1>7. Moves(c)
    <2>1. q \in Calling
      BY CallsAre DEF UserCall, Role
    <2>2. users'[u].active
      BY <1>4 DEF NewUser
    <2>3. CurrentUser(q)'
      BY <2>2 DEF CurrentUser
    <2> QED BY <1>1, <1>4, <2>1, <2>3, UserMoves DEF OfPhone, OfRow, OfEvent, OfCover, OfUser
  <1>8. PhoneTableOK' /\ PhonesOK'
    <2> DEFINE row == [user |-> u, primary |-> TRUE]
    <2>1. PhonesOf(u) = {}
      BY <1>4 DEF PhonesOf, PhonesOK
    <2>2. row \in PhoneRow /\ row.user = u
      BY DEF PhoneRow
    <2>3. phones' = Upsert(phones, p, row)
      BY DEF RegisterCustomer
    <2> HIDE DEF row
    <2>4. SavePhone(p, row)
      BY <2>1, <2>2, <2>3 DEF SavePhone, SecondPrimary, PrimaryOf
    <2> QED BY <1>4, <2>2, <2>4, StoredPhone DEF AccountTablesOK
  <1> QED BY <1>4, <1>6, <1>7, <1>8

\* The steps of the commands on phones.
LEMMA PhoneStepMoves ==
    ASSUME AccountTablesOK, CallsOK, PhonesOK, NEW c \in Calls, PhoneStep(c), UNCHANGED userVars
    PROVE  PhoneTableOK' /\ PhonesOK' /\ Moves(c)
  <1> DEFINE Goal == PhoneTableOK' /\ PhonesOK' /\ Moves(c)
  <1>1. PICK k \in Calling : k = call[c]
    BY DEF CallsOK
  <1>2. /\ k.step \in OfPhone => k.row.user \in DOMAIN users /\ k.row \in PhoneRow
        /\ k.step \in OfPhone \ {"add_phone"} => k.phone \in PhoneIds
    BY <1>1, PhoneShapes DEF CallsOK, NamesRows, OfPhone
  <1>3. users' = users
    BY DEF userVars
  <1>4. ASSUME NEW p \in PhoneIds, InsertPhone(c, p) PROVE Goal
    <2>1. k.step = "add_phone" /\ call[c] # Idle /\ SavePhone(p, k.row) /\ Finish(c)
      BY <1>1, <1>4 DEF InsertPhone, Idle
    <2> QED BY <1>2, <1>3, <2>1, StoredPhone, FinishMoves DEF AccountTablesOK, OfPhone
  <1>5. CASE SaveUpdatedPhone(c)
    <2>1. k.step = "save_phone" /\ call[c] # Idle /\ SavePhone(k.phone, k.row) /\ Finish(c)
      BY <1>1, <1>5 DEF SaveUpdatedPhone, Idle
    <2> QED BY <1>2, <1>3, <2>1, StoredPhone, FinishMoves DEF AccountTablesOK, OfPhone
  <1>6. CASE CountPhones(c)
    <2> DEFINE q == [k EXCEPT !.step = "delete_phone"]
    <2>1. k.step = "count_phones" /\ call[c] # Idle /\ Goto(c, q) /\ UNCHANGED phones /\ ~k.row.primary
      BY <1>1, <1>6 DEF CountPhones, Idle, Deletable
    <2>2. q \in [step : {"delete_phone"}, phone : PhoneIds, row : PhoneRow]
          /\ q.phone = k.phone /\ q.row = k.row /\ q.step = "delete_phone"
      BY <2>1, PhoneShapes DEF OfPhone
    <2>3. q \in Calling
      BY <2>2, CallsAre DEF PhoneCall
    <2> HIDE DEF q
    <2>4. NamesRows(q)' /\ CarriesEvent(q)'
      BY <1>2, <1>3, <2>1, <2>2 DEF NamesRows, CarriesEvent, OfPhone, OfUser, OfRow, OfEvent, OfCover
    <2>5. CurrentUser(q)' /\ CurrentEvent(q)'
      BY <2>2 DEF CurrentUser, CurrentEvent
    <2>6. ASSUME Current(call[c]) PROVE CurrentPhone(q)'
      BY <1>1, <2>1, <2>2, <2>6 DEF Current, CurrentPhone, OfPhone
    <2>7. Moves(c)
      BY <2>1, <2>3, <2>4, <2>5, <2>6 DEF Moves, Goto, Current
    <2>8. PhoneTableOK' /\ PhonesOK'
      BY <1>3, <2>1 DEF PhoneTableOK, PhonesOK, AccountTablesOK, PrimaryOf, PhonesOf
    <2> QED BY <2>7, <2>8
  <1>7. CASE DeletePhone(c)
    <2>1. k.step = "delete_phone" /\ call[c] # Idle /\ Finish(c)
          /\ phones' = [p \in DOMAIN phones \ {k.phone} |-> phones[p]]
      BY <1>1, <1>7 DEF DeletePhone, Idle
    <2>2. PhoneTableOK'
      BY <2>1 DEF PhoneTableOK, AccountTablesOK
    <2>3. \A u : \A x \in PrimaryOf(u)' : x \in PrimaryOf(u)
      BY <2>1 DEF PrimaryOf, PhonesOf
    <2>4. PhonesOK'
      BY <1>3, <2>1, <2>3 DEF PhonesOK
    <2> QED BY <2>1, <2>2, <2>4, FinishMoves
  <1>8. CASE SetPrimary(c)
    <2> DEFINE mine == PhonesOf(k.row.user)
    <2>1. /\ k.step = "set_primary" /\ call[c] # Idle /\ Finish(c)
          /\ phones' = [p \in DOMAIN phones |->
               IF p \in mine THEN [phones[p] EXCEPT !.primary = p = k.phone] ELSE phones[p]]
      BY <1>1, <1>8 DEF SetPrimary, Idle
    <2>2. \A p \in DOMAIN phones : phones[p] \in PhoneRow
      BY DEF AccountTablesOK, PhoneTableOK
    <2>3. ASSUME NEW p \in DOMAIN phones
          PROVE  /\ phones'[p] \in PhoneRow /\ phones'[p].user = phones[p].user
                 /\ p \in mine => (phones'[p].primary <=> p = k.phone)
                 /\ p \notin mine => phones'[p] = phones[p]
      BY <2>1, <2>2 DEF PhoneRow
    <2>4. PhoneTableOK'
      BY <2>1, <2>3 DEF PhoneTableOK, AccountTablesOK
    <2>5. ASSUME NEW u \in UserIds, NEW x \in PrimaryOf(u)', NEW y \in PrimaryOf(u)' PROVE x = y
      <3>1. x \in PhonesOf(u) /\ y \in PhonesOf(u) /\ x \in DOMAIN phones /\ y \in DOMAIN phones
            /\ phones'[x].primary /\ phones'[y].primary
        BY <2>1, <2>3, <2>5 DEF PrimaryOf, PhonesOf
      <3>2. CASE u = k.row.user
        BY <2>3, <3>1, <3>2
      <3>3. CASE u # k.row.user
        <4>1. x \notin mine /\ y \notin mine
          BY <3>1, <3>3 DEF PhonesOf
        <4>2. x \in PrimaryOf(u) /\ y \in PrimaryOf(u)
          BY <2>3, <3>1, <4>1 DEF PrimaryOf
        <4> QED BY <4>2 DEF PhonesOK
      <3> QED BY <3>2, <3>3
    <2>6. PhonesOK'
      BY <1>3, <2>1, <2>3, <2>5 DEF PhonesOK
    <2> QED BY <2>1, <2>4, <2>6, FinishMoves
  <1> QED BY <1>4, <1>5, <1>6, <1>7, <1>8 DEF PhoneStep

\* The steps of the commands on events.
LEMMA EventStepMoves ==
    ASSUME EventTablesOK, UserTablesOK, CallsOK, EventsOK, NEW c \in Calls, EventStep(c),
           UNCHANGED <<userVars, categories>>
    PROVE  EventTablesOK' /\ EventsOK' /\ Grow /\ Moves(c)
  <1> DEFINE Goal == EventTablesOK' /\ EventsOK' /\ Grow /\ Moves(c)
  <1> USE DEF OfPhone, OfRow, OfEvent, OfUser, OfCover
  <1>1. PICK k \in Calling : k = call[c]
    BY DEF CallsOK
  <1>2. NamesRows(k) /\ CarriesEvent(k) /\ users' = users
    BY <1>1 DEF CallsOK, userVars
  <1>3. ASSUME UNCHANGED eventVars PROVE EventTablesOK' /\ EventsOK' /\ Grow
    BY <1>2, <1>3 DEF EventTablesOK, EventsOK, Grow, eventVars
  <1>4. ASSUME NEW q \in Calling, call[c] # Idle, Goto(c, q), q.step \in {"staff", "assign"},
               q.event \in DOMAIN events', q.step = "assign" => q.user \in DOMAIN users',
               Current(call[c]) => Live(q.event)'
        PROVE  Moves(c)
    <2>1. NamesRows(q)' /\ CarriesEvent(q)'
      BY <1>4 DEF NamesRows, CarriesEvent
    <2>2. CurrentUser(q)' /\ CurrentPhone(q)'
      BY <1>4 DEF CurrentUser, CurrentPhone
    <2>3. Current(call[c]) => CurrentEvent(q)'
      BY <1>4 DEF CurrentEvent
    <2> QED BY <1>4, <2>1, <2>2, <2>3 DEF Moves, Goto, Current
  <1>5. CASE EnsureUniqueSlug(c)
    <2>1. k.step = "slug" /\ call[c] # Idle /\ UNCHANGED eventVars
      <3>1. call[c].step = "slug" /\ UNCHANGED eventVars
        BY <1>5, Zenon DEF EnsureUniqueSlug
      <3> QED BY <1>1, <3>1 DEF Idle
    <2>2. k \in [step : {"slug", "store_event"}, event : EventIds \cup {NoEvent}, row : Entity]
      BY <2>1, EventShapes
    <2>3. ASSUME NEW q \in [step : {"store_event"}, event : {k.event}, row : Entity], Goto(c, q),
                 q.row.deleted = k.row.deleted, q.row.status = k.row.status,
                 k.event # NoEvent => q.row.slug = k.row.slug
          PROVE  Moves(c)
      <3>1. q \in Calling
        BY <2>2, <2>3, CallsAre DEF EventCall
      <3>2. CarriesEvent(q)'
        BY <1>2, <2>1, <2>3 DEF CarriesEvent, eventVars
      <3>3. NamesRows(q)' /\ CurrentUser(q)' /\ CurrentPhone(q)' /\ CurrentEvent(q)'
        BY <2>3 DEF NamesRows, CurrentUser, CurrentPhone, CurrentEvent
      <3> QED BY <2>1, <2>3, <3>1, <3>2, <3>3 DEF Moves, Goto, Current
    <2> DEFINE store == [k EXCEPT !.step = "store_event"]
    <2>4. store \in [step : {"store_event"}, event : {k.event}, row : Entity] /\ store.row = k.row
          /\ store = [step |-> "store_event", event |-> k.event, row |-> k.row]
      BY <2>2
    <2>5. CASE SlugOfOther(k.event, k.row.slug)
      <3>1. k.event = NoEvent
        BY <1>2, <2>1, <2>5 DEF SlugOfOther, CarriesEvent, EventsOK
      <3>2. PICK s \in Slugs : k.row.slug = <<s>>
        BY <1>2, <2>1, <3>1 DEF CarriesEvent
      <3>3. PICK x \in Suffixes : Goto(c, [store EXCEPT !.row.slug = Append(@, x)])
        BY <1>1, <1>5, <2>5 DEF EnsureUniqueSlug
      <3> DEFINE row == [k.row EXCEPT !.slug = Append(<<s>>, x)]
                 q == [step |-> "store_event", event |-> k.event, row |-> row]
      <3>4. Append(<<s>>, x) \in SlugValue
        BY Suffixed
      <3>5. row \in Entity /\ row.deleted = k.row.deleted /\ row.status = k.row.status
        BY <2>2, <3>4 DEF Entity
      <3>6. [store EXCEPT !.row.slug = Append(@, x)] = q
        <4>1. store.row.slug = <<s>> /\ store \in [step : {"store_event"}, event : {k.event}, row : Entity]
          BY <2>4, <3>2
        <4> HIDE DEF store
        <4>2. [store EXCEPT !.row.slug = Append(@, x)]
                = [store EXCEPT !.row = [store.row EXCEPT !.slug = Append(store.row.slug, x)]]
          OBVIOUS
        <4>3. [store.row EXCEPT !.slug = Append(store.row.slug, x)] = row
          BY <2>4, <4>1
        <4> HIDE DEF row
        <4>4. [store EXCEPT !.row = row] = q
          BY <2>4
        <4> HIDE DEF q
        <4> QED BY <4>2, <4>3, <4>4
      <3>7. Goto(c, q)
        BY <3>3, <3>6
      <3> HIDE DEF row, store
      <3>8. Moves(c)
        BY <2>3, <3>1, <3>5, <3>7
      <3> QED BY <1>3, <2>1, <3>8
    <2>6. CASE ~SlugOfOther(k.event, k.row.slug)
      <3>1. Goto(c, store)
        BY <1>1, <1>5, <2>6 DEF EnsureUniqueSlug
      <3> HIDE DEF store
      <3>2. Moves(c)
        BY <2>3, <2>4, <3>1
      <3> QED BY <1>3, <2>1, <3>2
    <2> QED BY <2>5, <2>6
  <1>6. CASE FindFirstOperator(c)
    <2>1. k.step = "staff" /\ call[c] # Idle /\ UNCHANGED eventVars
      BY <1>1, <1>6 DEF FindFirstOperator, Idle
    <2>2. k.event \in DOMAIN events /\ k.event \in EventIds /\ (Current(k) => Live(k.event))
      BY <1>2, <2>1, EventShapes DEF NamesRows, Current, CurrentEvent
    <2>3. CASE ActiveOperators = {}
      BY <1>3, <1>6, <2>1, <2>3, FinishMoves DEF FindFirstOperator
    <2>4. CASE ActiveOperators # {}
      <3>1. PICK u \in ActiveOperators :
              Goto(c, [step |-> "assign", event |-> k.event, user |-> u])
        BY <1>1, <1>6, <2>4 DEF FindFirstOperator
      <3> DEFINE q == [step |-> "assign", event |-> k.event, user |-> u]
      <3>2. u \in DOMAIN users /\ u \in UserIds
        BY DEF ActiveOperators, UserTablesOK
      <3>3. q \in Calling
        BY <2>2, <3>2, CallsAre DEF EventCall
      <3>4. Moves(c)
        BY <1>1, <1>2, <1>4, <2>1, <2>2, <3>1, <3>2, <3>3 DEF Live, eventVars
      <3> QED BY <1>3, <2>1, <3>4
    <2> QED BY <2>3, <2>4
  <1>7. CASE ChangeDuty(c)
    <2>1. k.step \in {"assign", "unassign"} /\ call[c] # Idle /\ Finish(c) /\ UNCHANGED <<events, agreed>>
      BY <1>1, <1>7 DEF ChangeDuty, Idle
    <2>2. k.event \in DOMAIN events /\ k.user \in DOMAIN users
      BY <1>2, <2>1 DEF NamesRows
    <2>3. duty' \subseteq duty \cup {<<k.event, k.user>>}
      BY <1>1, <1>7 DEF ChangeDuty
    <2>4. EventTablesOK'
      BY <1>2, <2>1, <2>2, <2>3 DEF EventTablesOK
    <2>5. EventsOK' /\ Grow
      BY <1>2, <2>1 DEF EventsOK, Grow
    <2> QED BY <2>1, <2>4, <2>5, FinishMoves
  <1>8. ASSUME NEW e \in EventIds, StoreEvent(c, e) PROVE Goal
    <2>1. /\ k.step = "store_event" /\ call[c] # Idle /\ UNCHANGED duty
          /\ ~SlugOfOther(e, k.row.slug)
          /\ DOMAIN events' = DOMAIN events \cup {e} /\ events'[e] = RowOf(e, k.row)
          /\ \A x \in DOMAIN events : x # e => events'[x] = events[x]
          /\ IF k.event = NoEvent
             THEN e \notin DOMAIN events /\ Goto(c, [step |-> "staff", event |-> e])
             ELSE e = k.event /\ Finish(c)
      BY <1>1, <1>8 DEF StoreEvent, Idle, Upsert
    <2>2. k.row \in Entity
      BY <2>1, EventShapes
    <2>3. /\ events'[e] \in EventRow
          /\ events'[e].slug = k.row.slug /\ events'[e].status = k.row.status
          /\ events'[e].deleted = k.row.deleted
          /\ events'[e].pricing = IF e \in DOMAIN events THEN events[e].pricing ELSE NoConfig
      BY <2>1, <2>2 DEF RowOf, EventRow, Entity, EventTablesOK
    <2>4. /\ DOMAIN agreed' = DOMAIN events'
          /\ e \notin DOMAIN events => agreed'[e] = NoConfig
          /\ \A x \in DOMAIN events : agreed'[x] = agreed[x]
      BY <1>8, <2>1 DEF StoreEvent, Upsert, EventTablesOK
    <2>5. EventTablesOK'
      BY <1>2, <2>1, <2>3, <2>4 DEF EventTablesOK
    <2>6. e \in DOMAIN events => k.row.slug = events[e].slug
      BY <1>2, <2>1 DEF CarriesEvent
    <2>7. Grow
      BY <1>2, <2>1, <2>3, <2>6 DEF Grow
    <2>8. EventsOK'
      <3> SUFFICES ASSUME NEW x \in DOMAIN events'
                   PROVE  /\ events'[x].deleted <=> events'[x].status = "archived"
                          /\ \A y \in DOMAIN events' \ {x} : events'[y].slug # events'[x].slug
                          /\ events'[x].pricing = agreed'[x]
        BY DEF EventsOK
      <3>1. events'[x].deleted <=> events'[x].status = "archived"
        BY <1>2, <2>1, <2>3 DEF EventsOK, CarriesEvent
      <3>2. \A y \in DOMAIN events' \ {x} : events'[y].slug # events'[x].slug
        BY <2>1, <2>3 DEF EventsOK, SlugOfOther
      <3>3. events'[x].pricing = agreed'[x]
        BY <2>1, <2>3, <2>4 DEF EventsOK
      <3> QED BY <3>1, <3>2, <3>3
    <2>9. Moves(c)
      <3>1. CASE k.event = NoEvent
        <4> DEFINE q == [step |-> "staff", event |-> e]
        <4>1. q \in Calling
          BY CallsAre DEF EventCall
        <4>2. Live(e)'
          BY <1>2, <2>1, <2>3, <3>1 DEF Live, CarriesEvent
        <4> QED BY <1>4, <2>1, <3>1, <4>1, <4>2
      <3>2. CASE k.event # NoEvent
        BY <2>1, <3>2, FinishMoves
      <3> QED BY <3>1, <3>2
    <2> QED BY <2>5, <2>7, <2>8, <2>9
  <1> QED BY <1>5, <1>6, <1>7, <1>8 DEF EventStep

\* A command on covers that goes on.
LEMMA CoverMoves ==
    ASSUME NEW c \in Calls, NEW q \in Calling, call[c] # Idle, Goto(c, q), q.step \in OfCover,
           q.event \in DOMAIN events', Current(call[c]) => CurrentEvent(q)'
    PROVE  Moves(c)
  <1> USE DEF OfPhone, OfRow, OfEvent, OfUser, OfCover
  <1>1. NamesRows(q)' /\ CarriesEvent(q)'
    BY DEF NamesRows, CarriesEvent
  <1>2. CurrentUser(q)' /\ CurrentPhone(q)'
    BY DEF CurrentUser, CurrentPhone
  <1> QED BY <1>1, <1>2 DEF Moves, Goto, Current

\* The steps of the commands on covers.
LEMMA CoverStepMoves ==
    ASSUME CoverTablesOK, CallsOK, CoversApart, NEW c \in Calls, CoverStep(c), UNCHANGED eventVars
    PROVE  CoverTablesOK' /\ CoversApart' /\ Moves(c)
  <1> DEFINE Goal == CoverTablesOK' /\ CoversApart' /\ Moves(c)
  <1> USE DEF OfCover, OfEvent
  <1>1. PICK k \in Calling : k = call[c]
    BY DEF CallsOK
  <1>2. /\ k.step \in OfCover => k.event \in DOMAIN events
        /\ events' = events
    BY <1>1 DEF CallsOK, NamesRows, eventVars
  <1>3. /\ k.step \in {"drop_file", "drop_slug", "save_cover"} =>
             k.event \in EventIds /\ k.file \in CoverFiles /\ k.old \in CoverRow \cup {NoCover}
             /\ k.there \in BOOLEAN
             /\ k = [step |-> k.step, event |-> k.event, old |-> k.old, file |-> k.file,
                     there |-> k.there]
        /\ k.step = "register_slug" => k.event \in EventIds /\ k.row \in CoverRow
             /\ k.there \in BOOLEAN
        /\ k.step \in {"remove_file", "remove_row", "remove_slug"} =>
             k.event \in EventIds /\ k.old \in CoverRow
             /\ k = [step |-> k.step, event |-> k.event, old |-> k.old]
    BY CoverShapes
  <1>4. CASE DropOldFile(c)
    <2> DEFINE q == [k EXCEPT !.step = "drop_slug"]
    <2>1. /\ k.step = "drop_file" /\ call[c] # Idle /\ Goto(c, q) /\ UNCHANGED <<covers, kv>>
          /\ assetFiles' = assetFiles \ {<<k.event, k.old.file>>}
          /\ unsettled' = unsettled \cup {k.event}
      BY <1>1, <1>4 DEF DropOldFile, Idle
    <2>2. q = [step |-> "drop_slug", event |-> k.event, old |-> k.old, file |-> k.file,
               there |-> k.there]
      BY <1>3, <2>1
    <2> HIDE DEF q
    <2>3. q \in Calling
      BY <1>3, <2>1, <2>2, CallsAre DEF CoverCall
    <2>4. ASSUME Current(call[c]) PROVE CurrentEvent(q)'
      BY <1>1, <1>2, <2>1, <2>2, <2>4 DEF Current, CurrentEvent, HasCover, Live
    <2>5. Moves(c)
      BY <1>2, <2>1, <2>2, <2>3, <2>4, CoverMoves
    <2>6. CoverTablesOK' /\ CoversApart'
      BY <1>2, <1>3, <2>1 DEF CoverTablesOK, CoversApart
    <2> QED BY <2>5, <2>6
  <1>5. CASE DropOldSlug(c)
    <2> DEFINE q == [k EXCEPT !.step = "save_cover"]
    <2>1. /\ k.step = "drop_slug" /\ call[c] # Idle /\ Goto(c, q)
          /\ UNCHANGED <<covers, assetFiles, unsettled>>
          /\ kv' = Without(kv, k.old.slug) \/ UNCHANGED kv
      BY <1>1, <1>5 DEF DropOldSlug, Idle
    <2>2. q = [step |-> "save_cover", event |-> k.event, old |-> k.old, file |-> k.file,
               there |-> k.there]
      BY <1>3, <2>1
    <2> HIDE DEF q
    <2>3. q \in Calling
      BY <1>3, <2>1, <2>2, CallsAre DEF CoverCall
    <2>4. ASSUME Current(call[c]) PROVE CurrentEvent(q)'
      BY <1>1, <1>2, <2>1, <2>2, <2>4 DEF Current, CurrentEvent, Live
    <2>5. Moves(c)
      BY <1>2, <2>1, <2>2, <2>3, <2>4, CoverMoves
    <2>6. CoverTablesOK' /\ CoversApart'
      BY <1>2, <2>1 DEF CoverTablesOK, CoversApart, Without
    <2> QED BY <2>5, <2>6
  <1>6. ASSUME NEW s \in AssetSlugs, SaveCover(c, s) PROVE Goal
    <2> DEFINE row == [file |-> k.file, slug |-> s]
               q == [step |-> "register_slug", event |-> k.event, row |-> row,
                     there |-> k.there]
    <2>1. /\ k.step = "save_cover" /\ call[c] # Idle /\ Goto(c, q)
          /\ \A e \in DOMAIN covers : covers[e].slug # s
          /\ covers' = Upsert(covers, k.event, row)
          /\ unsettled' = unsettled \cup {k.event}
          /\ UNCHANGED <<assetFiles, kv>>
      BY <1>1, <1>6 DEF SaveCover, Idle
    <2>2. row \in CoverRow /\ row.slug = s /\ row.file = k.file
      BY <1>3, <2>1 DEF CoverRow
    <2>3. q \in Calling
      BY <1>3, <2>1, <2>2, CallsAre DEF CoverCall
    <2> HIDE DEF row
    <2>4. DOMAIN covers' = DOMAIN covers \cup {k.event} /\ covers'[k.event] = row
          /\ \A e \in DOMAIN covers : e # k.event => covers'[e] = covers[e]
      BY <2>1 DEF Upsert
    <2>5. ASSUME Current(call[c]) PROVE CurrentEvent(q)'
      BY <1>1, <2>1, <2>2, <2>4, <2>5 DEF Current, CurrentEvent, HasCover
    <2>6. Moves(c)
      BY <1>2, <2>1, <2>3, <2>5, CoverMoves
    <2>7. CoverTablesOK'
      BY <1>2, <1>3, <2>1, <2>2, <2>4 DEF CoverTablesOK
    <2>8. CoversApart'
      BY <2>1, <2>2, <2>4 DEF CoversApart
    <2> QED BY <2>6, <2>7, <2>8
  <1>7. CASE RegisterSlug(c)
    <2>1. /\ k.step = "register_slug" /\ call[c] # Idle /\ Finish(c)
          /\ UNCHANGED <<covers, assetFiles>> /\ unsettled' \subseteq unsettled
          /\ kv' = kv \/ kv' = Upsert(kv, k.row.slug, <<k.event, k.row.file>>)
      BY <1>1, <1>7 DEF RegisterSlug, Idle
    <2>2. k.row.slug \in AssetSlugs /\ k.row.file \in CoverFiles /\ k.event \in EventIds
      BY <1>3, <2>1 DEF CoverRow
    <2>3. DOMAIN kv' \subseteq AssetSlugs /\ \A s \in DOMAIN kv' : kv'[s] \in EventIds \X CoverFiles
      BY <2>1, <2>2 DEF CoverTablesOK, Upsert
    <2>4. CoverTablesOK' /\ CoversApart'
      BY <1>2, <2>1, <2>3 DEF CoverTablesOK, CoversApart
    <2> QED BY <2>1, <2>4, FinishMoves
  <1>8. CASE RemoveFile(c)
    <2> DEFINE q == [k EXCEPT !.step = "remove_row"]
    <2>1. /\ k.step = "remove_file" /\ call[c] # Idle /\ Goto(c, q) /\ UNCHANGED <<covers, kv>>
          /\ assetFiles' = assetFiles \ {<<k.event, k.old.file>>}
          /\ unsettled' = unsettled \cup {k.event}
      BY <1>1, <1>8 DEF RemoveFile, Idle
    <2>2. q = [step |-> "remove_row", event |-> k.event, old |-> k.old]
      BY <1>3, <2>1
    <2> HIDE DEF q
    <2>3. q \in Calling
      BY <1>3, <2>1, <2>2, CallsAre DEF CoverCall
    <2>4. ASSUME Current(call[c]) PROVE CurrentEvent(q)'
      BY <1>1, <2>1, <2>2, <2>4 DEF Current, CurrentEvent, HasCover
    <2>5. Moves(c)
      BY <1>2, <2>1, <2>2, <2>3, <2>4, CoverMoves
    <2>6. CoverTablesOK' /\ CoversApart'
      BY <1>2, <1>3, <2>1 DEF CoverTablesOK, CoversApart
    <2> QED BY <2>5, <2>6
  <1>9. CASE RemoveRow(c)
    <2> DEFINE q == [k EXCEPT !.step = "remove_slug"]
    <2>1. /\ k.step = "remove_row" /\ call[c] # Idle /\ Goto(c, q) /\ UNCHANGED <<assetFiles, kv>>
          /\ k.event \in DOMAIN covers /\ covers' = Without(covers, k.event)
          /\ unsettled' \subseteq unsettled
      BY <1>1, <1>9 DEF RemoveRow, Idle
    <2>2. q = [step |-> "remove_slug", event |-> k.event, old |-> k.old]
      BY <1>3, <2>1
    <2> HIDE DEF q
    <2>3. q \in Calling
      BY <1>3, <2>1, <2>2, CallsAre DEF CoverCall
    <2>4. DOMAIN covers' = DOMAIN covers \ {k.event} /\ \A e \in DOMAIN covers' : covers'[e] = covers[e]
      BY <2>1 DEF Without
    <2>5. ASSUME Current(call[c]) PROVE CurrentEvent(q)'
      <3>1. covers[k.event] = k.old
        BY <1>1, <2>1, <2>5 DEF Current, CurrentEvent, HasCover
      <3>2. \A e \in DOMAIN covers' : covers'[e].slug # k.old.slug
        BY <2>1, <2>4, <3>1 DEF CoversApart
      <3> QED BY <2>2, <3>2 DEF CurrentEvent
    <2>6. Moves(c)
      BY <1>2, <2>1, <2>2, <2>3, <2>5, CoverMoves
    <2>7. CoverTablesOK' /\ CoversApart'
      BY <1>2, <2>1, <2>4 DEF CoverTablesOK, CoversApart
    <2> QED BY <2>6, <2>7
  <1>10. CASE RemoveSlug(c)
    <2>1. /\ k.step = "remove_slug" /\ call[c] # Idle /\ Finish(c)
          /\ UNCHANGED <<covers, assetFiles, unsettled>>
          /\ kv' = Without(kv, k.old.slug) \/ UNCHANGED kv
      BY <1>1, <1>10 DEF RemoveSlug, Idle
    <2>2. CoverTablesOK' /\ CoversApart'
      BY <1>2, <2>1 DEF CoverTablesOK, CoversApart, Without
    <2> QED BY <2>1, <2>2, FinishMoves
  <1> QED BY <1>4, <1>5, <1>6, <1>7, <1>8, <1>9, <1>10 DEF CoverStep

\* The steps of the commands on categories.
LEMMA CategoryStepMoves ==
    ASSUME CatalogueTablesOK, CallsOK, NEW c \in Calls, InsertCategory(c) \/ OfferCategory(c),
           UNCHANGED <<userVars, eventVars>>
    PROVE  /\ categories' \subseteq Categories /\ offered' \subseteq (DOMAIN events) \X categories'
           /\ Grow /\ Moves(c)
  <1>1. PICK k \in Calling : k = call[c] /\ NamesRows(k)
    BY DEF CallsOK
  <1>2. users' = users /\ events' = events
    BY DEF userVars, eventVars
  <1>3. CASE InsertCategory(c)
    <2>1. /\ k.step = "add_category" /\ call[c] # Idle /\ Finish(c)
          /\ categories' = categories \cup {k.category} /\ UNCHANGED offered
      BY <1>1, <1>3 DEF InsertCategory, Idle
    <2>2. k.category \in Categories
      BY <2>1, EventShapes
    <2> QED BY <1>2, <2>1, <2>2, FinishMoves DEF CatalogueTablesOK, Grow
  <1>4. CASE OfferCategory(c)
    <2>1. /\ k.step = "offer" /\ call[c] # Idle /\ Finish(c)
          /\ offered' = offered \cup {<<k.event, k.category>>} /\ UNCHANGED categories
      BY <1>1, <1>4 DEF OfferCategory, Idle
    <2>2. k.event \in DOMAIN events /\ k.category \in categories
      BY <1>1, <2>1 DEF NamesRows, OfEvent
    <2> QED BY <1>2, <2>1, <2>2, FinishMoves DEF CatalogueTablesOK, Grow
  <1> QED BY <1>3, <1>4

-----------------------------------------------------------------------------
(* Signals.                                                                *)

\* What the bridge holds at each step.
LEMMA BridgeShapes ==
    ASSUME NEW b \in BridgeState
    PROVE  /\ b.step = "operators" => b.event \in EventIds /\ b.actor \in UserIds
           /\ b.step = "admins" => b.extra \subseteq UserIds /\ b.actor \in UserIds \cup {NoActor}
           /\ b.step \in {"create", "push"} =>
                b.to \subseteq UserIds /\ b = [step |-> b.step, to |-> b.to]
  BY DEF BridgeState, Unheard, Heard

\* A state the bridge comes to.
LEMMA ListenOK ==
    ASSUME NoticesOK, NEW s \in Signals, NEW b \in BridgeState, Listen(s, b)
    PROVE  /\ bridge' \in [Signals -> BridgeState] /\ bridge'[s] = b
           /\ \A x \in Signals : x # s => bridge'[x] = bridge[x]
  BY DEF NoticesOK, Listen

\* A push tells those whose rows are there.
LEMMA NoticesKeep ==
    ASSUME UserTablesOK, NoticesOK, PushesOK, NoticeStep
    PROVE  NoticesOK' /\ PushesOK'
  <1> DEFINE Goal == NoticesOK' /\ PushesOK'
  <1>1. ASSUME NEW s \in Signals, NEW b \in BridgeState, Listen(s, b),
               UNCHANGED <<notices, told>>, b.step # "push"
        PROVE  Goal
    <2>1. NoticesOK'
      BY <1>1, ListenOK DEF NoticesOK
    <2>2. \A x \in Signals : bridge'[x].step = "push" => x # s /\ bridge'[x] = bridge[x]
      BY <1>1, ListenOK
    <2>3. PushesOK'
      BY <1>1, <2>2 DEF PushesOK
    <2> QED BY <2>1, <2>3
  <1>2. Unheard \in BridgeState /\ Heard \in BridgeState /\ Heard.step # "push"
    BY DEF BridgeState, Unheard, Heard
  <1>3. ASSUME NEW s \in Signals, NEW e \in EventIds, NEW by \in UserIds, EmitOrderPaid(s, e, by)
        PROVE  Goal
    <2>1. [step |-> "operators", event |-> e, actor |-> by] \in BridgeState
      BY DEF BridgeState
    <2> QED BY <1>1, <1>3, <2>1 DEF EmitOrderPaid
  <1>4. ASSUME NEW s \in Signals, NEW by \in UserIds \cup {NoActor}, Emit(s, by) PROVE Goal
    <2>1. [step |-> "admins", extra |-> {}, actor |-> by] \in BridgeState
      BY DEF BridgeState
    <2> QED BY <1>1, <1>4, <2>1 DEF Emit
  <1>5. ASSUME NEW s \in Signals, FindOperators(s) PROVE Goal
    <2> DEFINE b == [step |-> "admins", actor |-> bridge[s].actor,
                     extra |-> {u \in UserIds : <<bridge[s].event, u>> \in duty}]
    <2>1. bridge[s].actor \in UserIds /\ Listen(s, b) /\ UNCHANGED <<notices, told>>
      BY <1>5, BridgeShapes DEF FindOperators, NoticesOK
    <2>2. b \in BridgeState
      BY <2>1 DEF BridgeState
    <2> QED BY <1>1, <2>1, <2>2
  <1>6. ASSUME NEW s \in Signals, FindRecipients(s) PROVE Goal
    <2> DEFINE to == (ActiveAdmins \cup bridge[s].extra) \ {bridge[s].actor}
    <2>1. /\ bridge[s].step = "admins" /\ UNCHANGED <<notices, told>>
          /\ Listen(s, IF to = {} THEN Heard ELSE [step |-> "create", to |-> to])
      BY <1>6 DEF FindRecipients
    <2>2. to \subseteq UserIds
      BY <2>1, BridgeShapes DEF ActiveAdmins, UserTablesOK, NoticesOK
    <2> HIDE DEF to
    <2>3. [step |-> "create", to |-> to] \in BridgeState
      BY <2>2 DEF BridgeState
    <2>4. CASE to = {}
      BY <1>1, <1>2, <2>1, <2>4
    <2>5. CASE to # {}
      BY <1>1, <2>1, <2>3, <2>5
    <2> QED BY <2>4, <2>5
  <1>7. ASSUME NEW s \in Signals, CreateNotices(s) PROVE Goal
    <2>1. PICK b \in BridgeState : b = bridge[s] /\ b.step = "create"
      BY <1>7 DEF CreateNotices, NoticesOK
    <2>2. PICK stored \in SUBSET b.to :
            /\ notices' = [n \in DOMAIN notices \cup {s} \X stored |->
                             IF n \in DOMAIN notices THEN notices[n] ELSE FALSE]
            /\ Listen(s, IF PushesAfter(stored, b.to) THEN [b EXCEPT !.step = "push"] ELSE Heard)
      BY <1>7, <2>1 DEF CreateNotices
    <2>3. b.to \subseteq UserIds /\ [b EXCEPT !.step = "push"] = [step |-> "push", to |-> b.to]
      BY <2>1, BridgeShapes
    <2>4. DOMAIN notices' = DOMAIN notices \cup {s} \X stored
          /\ DOMAIN notices' \subseteq Signals \X UserIds
      BY <2>2, <2>3 DEF NoticesOK
    <2>5. \A n \in DOMAIN notices' : notices'[n] \in BOOLEAN
      BY <2>2 DEF NoticesOK
    <2>6. UNCHANGED told
      BY <1>7 DEF CreateNotices
    <2>7. CASE stored = b.to
      <3> DEFINE q == [step |-> "push", to |-> b.to]
      <3>1. q \in BridgeState /\ Listen(s, q)
        BY <2>2, <2>3, <2>7 DEF BridgeState, PushesAfter
      <3>2. /\ bridge' \in [Signals -> BridgeState] /\ bridge'[s] = q
            /\ \A x \in Signals : x # s => bridge'[x] = bridge[x]
        BY <3>1, ListenOK
      <3>3. \A u \in b.to : <<s, u>> \in DOMAIN notices'
        BY <2>4, <2>7
      <3> QED BY <2>4, <2>5, <2>6, <3>2, <3>3 DEF NoticesOK, PushesOK
    <2>8. CASE stored # b.to
      <3>1. Listen(s, Heard)
        BY <2>2, <2>8 DEF PushesAfter
      <3>2. /\ bridge' \in [Signals -> BridgeState] /\ bridge'[s] = Heard
            /\ \A x \in Signals : x # s => bridge'[x] = bridge[x]
        BY <1>2, <3>1, ListenOK
      <3> QED BY <1>2, <2>4, <2>5, <2>6, <3>2 DEF NoticesOK, PushesOK
    <2> QED BY <2>7, <2>8
  <1>8. ASSUME NEW s \in Signals, Push(s) PROVE Goal
    <2>1. bridge[s].step = "push" /\ bridge[s].to \subseteq UserIds
      BY <1>8, BridgeShapes DEF Push, NoticesOK
    <2>2. PICK first \in bridge[s].to :
            told' = told \cup {<<s, u, <<s, first>>>> : u \in bridge[s].to}
      BY <1>8 DEF Push
    <2>3. told' \subseteq Signals \X UserIds \X (Signals \X UserIds)
      BY <2>1, <2>2 DEF NoticesOK
    <2>4. UNCHANGED notices /\ Listen(s, Heard)
      BY <1>8 DEF Push
    <2>5. /\ bridge' \in [Signals -> BridgeState] /\ bridge'[s] = Heard
          /\ \A x \in Signals : x # s => bridge'[x] = bridge[x]
      BY <1>2, <2>4, ListenOK
    <2>6. ASSUME NEW p \in told' PROVE <<p[1], p[2]>> \in DOMAIN notices'
      <3>1. CASE p \in told
        BY <2>4, <3>1 DEF PushesOK
      <3>2. CASE p \notin told
        <4>1. PICK u \in bridge[s].to : p = <<s, u, <<s, first>>>>
          BY <2>2, <2>6, <3>2
        <4>2. <<s, u>> \in DOMAIN notices
          BY <2>1 DEF PushesOK
        <4> QED BY <2>4, <4>1, <4>2
      <3> QED BY <3>1, <3>2
    <2> QED BY <1>2, <2>3, <2>4, <2>5, <2>6 DEF NoticesOK, PushesOK
  <1>9. ASSUME NEW s \in Signals, BridgeDies(s) PROVE Goal
    BY <1>1, <1>2, <1>9 DEF BridgeDies
  <1>10. ASSUME NEW u \in UserIds, MarkAllAsRead(u) PROVE Goal
    BY <1>10 DEF MarkAllAsRead, NoticesOK, PushesOK
  <1>11. ASSUME NEW u \in UserIds, NEW n \in DOMAIN notices, MarkAsRead(u, n) PROVE Goal
    BY <1>11 DEF MarkAsRead, NoticesOK, PushesOK
  <1> QED BY <1>3, <1>4, <1>5, <1>6, <1>7, <1>8, <1>9, <1>10, <1>11 DEF NoticeStep

-----------------------------------------------------------------------------
(* Every step.                                                             *)

\* Requests of one statement on users.
LEMMA UserEventKeeps ==
    ASSUME UserTablesOK, UserEvent
    PROVE  UserTablesOK' /\ UNCHANGED <<users, roles, torn, call>> /\ shelf \subseteq shelf'
  <1>1. ASSUME NEW t \in TokenIds, Refresh(t)
        PROVE  UserTablesOK' /\ UNCHANGED <<users, roles, torn, call>> /\ shelf \subseteq shelf'
    <2>1. tokens[t].user \in UserIds /\ RoleOf(tokens[t].user) \in Role
      BY <1>1 DEF Refresh, UserTablesOK, RoleOf, Role
    <2>2. badges' \subseteq Badge
      BY <1>1, <2>1 DEF Refresh, UserTablesOK, Badge
    <2> QED BY <1>1, <2>2 DEF Refresh, UserTablesOK
  <1>2. ASSUME NEW t \in TokenIds, Logout(t) \/ TokenLapses(t)
        PROVE  UserTablesOK' /\ UNCHANGED <<users, roles, torn, call>> /\ shelf \subseteq shelf'
    <2>1. t \in DOMAIN tokens /\ UNCHANGED <<users, roles, badges, shelf, torn, call>>
      BY <1>2 DEF Logout, TokenLapses
    <2>2. tokens' = [tokens EXCEPT ![t].revoked = TRUE] \/ tokens' = [tokens EXCEPT ![t].lapsed = TRUE]
      BY <1>2 DEF Logout, TokenLapses, Revoke
    <2>3. \A x \in DOMAIN tokens : tokens[x] \in TokenRow /\ tokens[x].user \in DOMAIN users
      BY DEF UserTablesOK
    <2>4. DOMAIN tokens' = DOMAIN tokens
          /\ \A x \in DOMAIN tokens : tokens'[x] \in TokenRow /\ tokens'[x].user = tokens[x].user
      <3>1. ASSUME NEW row \in TokenRow
            PROVE  /\ [row EXCEPT !.revoked = TRUE] \in TokenRow
                   /\ [row EXCEPT !.lapsed = TRUE] \in TokenRow
                   /\ [row EXCEPT !.revoked = TRUE].user = row.user
                   /\ [row EXCEPT !.lapsed = TRUE].user = row.user
        BY DEF TokenRow
      <3>2. CASE tokens' = [tokens EXCEPT ![t].revoked = TRUE]
        <4>1. /\ DOMAIN tokens' = DOMAIN tokens
              /\ tokens'[t] = [tokens[t] EXCEPT !.revoked = TRUE]
              /\ \A x \in DOMAIN tokens : x # t => tokens'[x] = tokens[x]
          BY <2>1, <3>2
        <4>2. PICK row \in TokenRow : row = tokens[t]
          BY <2>1, <2>3
        <4>3. tokens'[t] = [row EXCEPT !.revoked = TRUE]
          BY <4>1, <4>2
        <4>4. tokens'[t] \in TokenRow /\ tokens'[t].user = row.user
          BY <3>1, <4>3
        <4> QED BY <2>3, <4>1, <4>2, <4>4
      <3>3. CASE tokens' = [tokens EXCEPT ![t].lapsed = TRUE]
        <4>1. /\ DOMAIN tokens' = DOMAIN tokens
              /\ tokens'[t] = [tokens[t] EXCEPT !.lapsed = TRUE]
              /\ \A x \in DOMAIN tokens : x # t => tokens'[x] = tokens[x]
          BY <2>1, <3>3
        <4>2. PICK row \in TokenRow : row = tokens[t]
          BY <2>1, <2>3
        <4>3. tokens'[t] = [row EXCEPT !.lapsed = TRUE]
          BY <4>1, <4>2
        <4>4. tokens'[t] \in TokenRow /\ tokens'[t].user = row.user
          BY <3>1, <4>3
        <4> QED BY <2>3, <4>1, <4>2, <4>4
      <3> QED BY <2>2, <3>2, <3>3
    <2> QED BY <2>1, <2>3, <2>4 DEF UserTablesOK
  <1>3. ASSUME NEW u \in UserIds, NEW f \in Avatars, UploadAvatar(u, f)
        PROVE  UserTablesOK' /\ UNCHANGED <<users, roles, torn, call>> /\ shelf \subseteq shelf'
    BY <1>3 DEF UploadAvatar, UserTablesOK
  <1>4. ASSUME NEW b \in badges, BadgeLapses(b)
        PROVE  UserTablesOK' /\ UNCHANGED <<users, roles, torn, call>> /\ shelf \subseteq shelf'
    BY <1>4 DEF BadgeLapses, UserTablesOK
  <1> QED BY <1>1, <1>2, <1>3, <1>4 DEF UserEvent

\* Requests of one statement on events and categories.
LEMMA CatalogueEventKeeps ==
    ASSUME CatalogueTablesOK, EventsOK, CoversApart, CatalogueEvent, UNCHANGED userVars
    PROVE  /\ CatalogueTablesOK' /\ EventsOK' /\ CoversApart' /\ Grow
           /\ UNCHANGED <<covers, kv, unsettled, call>> /\ assetFiles \subseteq assetFiles'
           /\ \A e : Live(e) => Live(e)'
  <1>0. users' = users
    BY DEF userVars
  <1>1. CASE PricingCommand /\ UNCHANGED <<coverVars, categories, offered>>
    <2>1. PICK e \in EventIds, config \in Configs \cup {NoConfig} : SetPricingConfig(e, config)
      BY <1>1 DEF PricingCommand
    <2>2. /\ e \in DOMAIN events /\ UNCHANGED <<duty, call>>
          /\ events' = [events EXCEPT ![e].pricing = config]
          /\ agreed' = [agreed EXCEPT ![e] = config]
      BY <2>1 DEF SetPricingConfig
    <2>3. \A x \in DOMAIN events : events[x] \in EventRow
      BY DEF CatalogueTablesOK, EventTablesOK
    <2>4. /\ DOMAIN events' = DOMAIN events /\ DOMAIN agreed' = DOMAIN agreed
          /\ \A x \in DOMAIN events :
               /\ events'[x] \in EventRow
               /\ events'[x].slug = events[x].slug /\ events'[x].status = events[x].status
               /\ events'[x].deleted = events[x].deleted
               /\ events'[x].pricing = IF x = e THEN config ELSE events[x].pricing
      BY <2>2, <2>3 DEF EventRow
    <2>5. \A x \in DOMAIN events : agreed'[x] = IF x = e THEN config ELSE agreed[x]
      BY <2>2 DEF CatalogueTablesOK, EventTablesOK
    <2>6. EventTablesOK'
      BY <1>0, <2>2, <2>4 DEF CatalogueTablesOK, EventTablesOK
    <2>7. EventsOK'
      BY <2>4, <2>5 DEF EventsOK
    <2>8. CatalogueTablesOK' /\ CoversApart'
      BY <1>1, <2>4, <2>6 DEF CatalogueTablesOK, CoverTablesOK, CoversApart, coverVars
    <2>9. Grow /\ \A x : Live(x) => Live(x)'
      BY <1>0, <1>1, <2>4 DEF Grow, Live
    <2> QED BY <1>1, <2>2, <2>7, <2>8, <2>9 DEF coverVars
  <1>2. ASSUME NEW e \in EventIds, NEW f \in CoverFiles, UploadCover(e, f),
               UNCHANGED <<eventVars, categories, offered>>
        PROVE  /\ CatalogueTablesOK' /\ EventsOK' /\ CoversApart' /\ Grow
               /\ UNCHANGED <<covers, kv, unsettled, call>> /\ assetFiles \subseteq assetFiles'
               /\ \A x : Live(x) => Live(x)'
    <2>1. EventTablesOK' /\ EventsOK' /\ Grow /\ \A x : Live(x) => Live(x)'
      BY <1>0, <1>2 DEF CatalogueTablesOK, EventTablesOK, EventsOK, Grow, Live, eventVars
    <2>2. CoverTablesOK' /\ CoversApart'
      BY <1>2 DEF CatalogueTablesOK, CoverTablesOK, CoversApart, eventVars, UploadCover
    <2> QED BY <1>2, <2>1, <2>2 DEF CatalogueTablesOK, UploadCover, eventVars
  <1>3. ASSUME NEW e \in EventIds, NEW n \in Categories, UnassignCategory(e, n),
               UNCHANGED <<eventVars, coverVars>>
        PROVE  /\ CatalogueTablesOK' /\ EventsOK' /\ CoversApart' /\ Grow
               /\ UNCHANGED <<covers, kv, unsettled, call>> /\ assetFiles \subseteq assetFiles'
               /\ \A x : Live(x) => Live(x)'
    <2>1. EventTablesOK' /\ EventsOK' /\ Grow /\ \A x : Live(x) => Live(x)'
      BY <1>0, <1>3 DEF CatalogueTablesOK, EventTablesOK, EventsOK, Grow, Live, eventVars, UnassignCategory
    <2>2. CoverTablesOK' /\ CoversApart'
      BY <1>3 DEF CatalogueTablesOK, CoverTablesOK, CoversApart, eventVars, coverVars
    <2> QED BY <1>3, <2>1, <2>2 DEF CatalogueTablesOK, UnassignCategory, eventVars, coverVars
  <1> QED BY <1>1, <1>2, <1>3 DEF CatalogueEvent

\* A command begins: nothing is stored, and all others were over if it is alone.
Begins ==
    /\ \E c \in Calls, q \in Calling : Fresh(q) /\ Start(c, q)
    /\ UNCHANGED <<userVars, phones, catalogueVars>>
    /\ alone' = (alone /\ \A d \in Calls : call[d] = Idle)

\* One that has begun goes on, fails or dies.
GoesOn ==
    /\ \E c \in Calls :
         /\ Moves(c)
         /\ \/ /\ \/ UserStep(c) /\ UNCHANGED phones
                  \/ PhoneStep(c) /\ UNCHANGED userVars
                  \/ \E u \in UserIds, p \in PhoneIds : RegisterCustomer(c, u, p)
                  \/ CallFails(c)
               /\ UNCHANGED catalogueVars
            \/ CatalogueStep(c) /\ UNCHANGED <<userVars, phones>>
    /\ UNCHANGED alone

\* Something else happens.
Otherwise ==
    /\ UNCHANGED <<call, alone>>
    /\ \/ UserEvent /\ UNCHANGED <<phones, catalogueVars>>
       \/ CatalogueEvent /\ UNCHANGED <<userVars, phones>>
       \/ UNCHANGED <<userVars, phones, catalogueVars>>

\* However it changes, a call names what is there.
LEMMA CallsKeep ==
    ASSUME CallsOK, Grow, Begins \/ (\E c \in Calls : Moves(c)) \/ UNCHANGED call
    PROVE  CallsOK'
  <1>1. \A d \in Calls : \/ NamesRows(call[d])' /\ CarriesEvent(call[d])'
                        \/ call'[d] # call[d]
    <2> TAKE d \in Calls
    <2>1. PICK q \in Calling : q = call[d]
      BY DEF CallsOK
    <2>2. NamesRows(q)' /\ CarriesEvent(q)'
      BY <2>1, NamesStay DEF CallsOK
    <2>3. CASE call'[d] = call[d]
      BY <2>1, <2>2, <2>3
    <2> QED BY <2>3
  <1>2. CASE Begins
    <2>1. PICK c \in Calls, q \in Calling : Fresh(q) /\ Start(c, q)
      BY <1>2 DEF Begins
    <2>2. call' = [call EXCEPT ![c] = q]
      BY <2>1 DEF Start, Goto
    <2>3. NamesRows(q)' /\ CarriesEvent(q)'
      BY <2>1, NamesStay DEF Fresh
    <2> QED BY <1>1, <2>2, <2>3 DEF CallsOK
  <1>3. CASE \E c \in Calls : Moves(c)
    <2>1. PICK c \in Calls, q \in Calling :
            call' = [call EXCEPT ![c] = q] /\ NamesRows(q)' /\ CarriesEvent(q)'
      BY <1>3 DEF Moves
    <2> QED BY <1>1, <2>1 DEF CallsOK
  <1>4. CASE UNCHANGED call
    BY <1>1, <1>4 DEF CallsOK
  <1> QED BY <1>2, <1>3, <1>4

\* Users are added, and nothing else is touched of the catalogue.
LEMMA CatalogueFrame ==
    ASSUME CatalogueTablesOK, EventsOK, CoversApart,
           DOMAIN users \subseteq DOMAIN users', UNCHANGED catalogueVars
    PROVE  CatalogueTablesOK' /\ EventsOK' /\ CoversApart' /\ Grow
  <1> USE DEF catalogueVars, eventVars, coverVars
  <1>1. CatalogueTablesOK'
    BY DEF CatalogueTablesOK, EventTablesOK, CoverTablesOK
  <1>2. EventsOK' /\ CoversApart' /\ Grow
    BY DEF EventsOK, CoversApart, Grow
  <1> QED BY <1>1, <1>2

\* Nothing is touched of the accounts.
LEMMA AccountFrame ==
    ASSUME UserTablesOK, PhoneTableOK, PhonesOK, UNCHANGED <<userVars, phones>>
    PROVE  UserTablesOK' /\ PhoneTableOK' /\ PhonesOK'
  <1> USE DEF userVars
  <1>1. UserTablesOK'
    BY DEF UserTablesOK
  <1>2. PhoneTableOK' /\ PhonesOK'
    BY DEF PhoneTableOK, PhonesOK, PrimaryOf, PhonesOf
  <1> QED BY <1>1, <1>2

\* Users are added, and nothing else is touched of the phones.
LEMMA PhoneFrame ==
    ASSUME PhoneTableOK, PhonesOK, DOMAIN users \subseteq DOMAIN users', UNCHANGED phones
    PROVE  PhoneTableOK' /\ PhonesOK'
  BY DEF PhoneTableOK, PhonesOK, PrimaryOf, PhonesOf

\* Nothing is touched of the notices.
LEMMA NoticeFrame ==
    ASSUME NoticesOK, PushesOK, UNCHANGED noticeVars
    PROVE  NoticesOK' /\ PushesOK'
  BY DEF NoticesOK, PushesOK, noticeVars

\* What a step keeps however commands overlap.
Keeps == UserTablesOK' /\ PhoneTableOK' /\ PhonesOK' /\ CatalogueTablesOK' /\ EventsOK'
         /\ CoversApart' /\ Grow

\* A step of an account command.
LEMMA AccountStepsAre ==
    ASSUME TablesOK, Overlapping, AccountsNext, UNCHANGED <<catalogueVars, noticeVars, tillVars>>
    PROVE  Keeps /\ (Begins \/ GoesOn \/ Otherwise)
  <1> USE DEF TablesOK, AccountTablesOK, Overlapping
  <1>1. ASSUME NEW c \in Calls, Command(c) PROVE Keeps /\ Begins
    <2>1. alone' = (alone /\ \A d \in Calls : call[d] = Idle)
      BY <1>1, Zenon DEF Command
    <2>2. UNCHANGED <<userVars, phones>> /\ \E q \in Calling : Fresh(q) /\ Start(c, q)
      BY <1>1, UserCommandBegins, PhoneCommandBegins DEF Command
    <2>3. DOMAIN users \subseteq DOMAIN users'
      BY <2>2 DEF userVars
    <2>4. Keeps
      BY <2>2, <2>3, AccountFrame, CatalogueFrame DEF Keeps
    <2>5. UNCHANGED <<userVars, phones, catalogueVars>> /\ \E d \in Calls, q \in Calling : Fresh(q) /\ Start(d, q)
      BY <2>2
    <2>6. Begins
      BY <2>1, <2>5, Zenon DEF Begins
    <2> QED BY <2>4, <2>6
  <1>2. ASSUME NEW c \in Calls, CommandStep(c) PROVE Keeps /\ GoesOn
    <2>1. CASE UserStep(c) /\ UNCHANGED phones
      BY <1>2, <2>1, UserStepMoves, PhoneFrame, CatalogueFrame DEF Keeps, GoesOn, CommandStep
    <2>2. CASE PhoneStep(c) /\ UNCHANGED userVars
      <3>1. UserTablesOK' /\ DOMAIN users \subseteq DOMAIN users'
        BY <2>2 DEF UserTablesOK, userVars
      <3>2. PhoneTableOK' /\ PhonesOK' /\ Moves(c)
        BY <2>2, PhoneStepMoves
      <3> QED BY <1>2, <2>2, <3>1, <3>2, CatalogueFrame DEF Keeps, GoesOn, CommandStep
    <2>3. ASSUME NEW u \in UserIds, NEW p \in PhoneIds, RegisterCustomer(c, u, p)
          PROVE  Keeps /\ GoesOn
      BY <1>2, <2>3, RegisterMoves, CatalogueFrame DEF Keeps, GoesOn, CommandStep
    <2>4. CASE CallFails(c)
      <3>1. Moves(c) /\ UNCHANGED <<userVars, phones>>
        BY <2>4, FinishMoves DEF CallFails
      <3>2. DOMAIN users \subseteq DOMAIN users'
        BY <3>1 DEF userVars
      <3> QED BY <1>2, <2>4, <3>1, <3>2, AccountFrame, CatalogueFrame DEF Keeps, GoesOn, CommandStep
    <2> QED BY <1>2, <2>1, <2>2, <2>3, <2>4 DEF CommandStep
  <1>3. CASE SingleStatement
    <2>1. UserEvent /\ UNCHANGED <<phones, alone>>
      BY <1>3 DEF SingleStatement
    <2>2. UserTablesOK' /\ UNCHANGED <<users, call>>
      BY <2>1, UserEventKeeps
    <2>3. Keeps
      BY <2>1, <2>2, PhoneFrame, CatalogueFrame DEF Keeps
    <2> QED BY <2>1, <2>2, <2>3 DEF Otherwise
  <1> QED BY <1>1, <1>2, <1>3 DEF AccountsNext

\* A step of a catalogue command.
LEMMA CatalogueStepsAre ==
    ASSUME TablesOK, Overlapping, NEW c \in Calls, CatalogueStep(c), UNCHANGED <<userVars, phones>>
    PROVE  Keeps /\ Moves(c)
  <1> USE DEF TablesOK, AccountTablesOK, Overlapping
  <1>1. UserTablesOK' /\ PhoneTableOK' /\ PhonesOK' /\ users' = users
    BY AccountFrame DEF userVars
  <1>2. CASE EventStep(c) /\ UNCHANGED <<coverVars, categories, offered>>
    <2>1. EventTablesOK' /\ EventsOK' /\ Grow /\ Moves(c)
      BY <1>2, EventStepMoves DEF CatalogueTablesOK
    <2>2. CoverTablesOK' /\ CoversApart'
      BY <1>2, <2>1 DEF CatalogueTablesOK, CoverTablesOK, CoversApart, coverVars, Grow
    <2>3. CatalogueTablesOK'
      BY <1>2, <2>1, <2>2 DEF CatalogueTablesOK, Grow
    <2> QED BY <1>1, <2>1, <2>2, <2>3 DEF Keeps
  <1>3. CASE CoverStep(c) /\ UNCHANGED <<eventVars, categories, offered>>
    <2>1. CoverTablesOK' /\ CoversApart' /\ Moves(c)
      BY <1>3, CoverStepMoves DEF CatalogueTablesOK
    <2>2. EventTablesOK' /\ EventsOK' /\ Grow
      BY <1>1, <1>3 DEF CatalogueTablesOK, EventTablesOK, EventsOK, Grow, eventVars
    <2>3. CatalogueTablesOK'
      BY <1>3, <2>1, <2>2 DEF CatalogueTablesOK, Grow, eventVars
    <2> QED BY <1>1, <2>1, <2>2, <2>3 DEF Keeps
  <1>4. CASE (InsertCategory(c) \/ OfferCategory(c)) /\ UNCHANGED <<eventVars, coverVars>>
    <2>1. /\ categories' \subseteq Categories /\ offered' \subseteq (DOMAIN events) \X categories'
          /\ Grow /\ Moves(c)
      BY <1>4, CategoryStepMoves
    <2>2. EventTablesOK' /\ EventsOK'
      BY <1>1, <1>4 DEF CatalogueTablesOK, EventTablesOK, EventsOK, eventVars
    <2>3. CoverTablesOK' /\ CoversApart'
      BY <1>4 DEF CatalogueTablesOK, CoverTablesOK, CoversApart, coverVars, eventVars
    <2>4. CatalogueTablesOK'
      BY <1>4, <2>1, <2>2, <2>3 DEF CatalogueTablesOK, eventVars
    <2> QED BY <1>1, <2>1, <2>2, <2>3, <2>4 DEF Keeps
  <1> QED BY <1>2, <1>3, <1>4 DEF CatalogueStep

\* Every step begins a command, takes one on, or is none of a command.
LEMMA StepsAre ==
    ASSUME TablesOK, Overlapping, [BackofficeNext]_backofficeVars
    PROVE  TablesOK' /\ Overlapping' /\ Grow /\ (Begins \/ GoesOn \/ Otherwise)
  <1> DEFINE Goal == Keeps /\ (Begins \/ GoesOn \/ Otherwise)
  <1>1. ASSUME UNCHANGED accountVars, UNCHANGED catalogueVars PROVE Goal
    <2>1. UNCHANGED <<userVars, phones, call, alone>>
      BY <1>1 DEF accountVars
    <2>2. DOMAIN users \subseteq DOMAIN users'
      BY <2>1 DEF userVars
    <2>3. Keeps
      BY <1>1, <2>1, <2>2, AccountFrame, CatalogueFrame
         DEF TablesOK, AccountTablesOK, Overlapping, Keeps
    <2> QED BY <1>1, <2>1, <2>3 DEF Otherwise
  <1>2. ASSUME AccountsNext, UNCHANGED <<catalogueVars, noticeVars, tillVars>> PROVE Goal
    BY <1>2, AccountStepsAre
  <1>3. ASSUME NEW c \in Calls, CatalogueCommand(c),
               alone' = (alone /\ \A d \in Calls : call[d] = Idle), UNCHANGED <<userVars, phones>>
        PROVE  Goal
    <2>1. UNCHANGED catalogueVars /\ \E q \in Calling : Fresh(q) /\ Start(c, q)
      BY <1>3, CatalogueCommandBegins DEF Overlapping
    <2>2. DOMAIN users \subseteq DOMAIN users'
      BY <1>3 DEF userVars
    <2>3. Keeps
      BY <1>3, <2>1, <2>2, AccountFrame, CatalogueFrame
         DEF TablesOK, AccountTablesOK, Overlapping, Keeps
    <2>4. UNCHANGED <<userVars, phones, catalogueVars>> /\ \E d \in Calls, q \in Calling : Fresh(q) /\ Start(d, q)
      BY <1>3, <2>1
    <2>5. Begins
      BY <1>3, <2>4, Zenon DEF Begins
    <2> QED BY <2>3, <2>5
  <1>4. ASSUME NEW c \in Calls, CatalogueStep(c), UNCHANGED <<userVars, phones, alone>> PROVE Goal
    <2>1. Keeps /\ Moves(c)
      BY <1>4, CatalogueStepsAre
    <2>2. GoesOn
      BY <1>4, <2>1 DEF GoesOn
    <2> QED BY <2>1, <2>2
  <1>5. ASSUME CatalogueEvent, UNCHANGED <<userVars, phones, alone>> PROVE Goal
    <2>1. CatalogueTablesOK' /\ EventsOK' /\ CoversApart' /\ Grow /\ UNCHANGED call
      BY <1>5, CatalogueEventKeeps DEF TablesOK, Overlapping
    <2>2. Keeps
      BY <1>5, <2>1, AccountFrame DEF TablesOK, AccountTablesOK, Overlapping, Keeps
    <2> QED BY <1>5, <2>1, <2>2 DEF Otherwise
  <1>6. Goal
    <2>1. CASE NoticeStep /\ UNCHANGED <<accountVars, catalogueVars, tillVars>>
      BY <1>1, <2>1
    <2>2. CASE TillStep /\ UNCHANGED <<accountVars, catalogueVars, noticeVars>>
      BY <1>1, <2>2
    <2>3. CASE UNCHANGED backofficeVars
      BY <1>1, <2>3 DEF backofficeVars
    <2>4. CASE \E c \in Calls : CatalogueCommand(c)
               /\ alone' = (alone /\ \A d \in Calls : call[d] = Idle) /\ UNCHANGED <<userVars, phones>>
      BY <1>3, <2>4
    <2>5. CASE (\E c \in Calls : CatalogueStep(c)) /\ UNCHANGED <<userVars, phones, alone>>
      BY <1>4, <2>5
    <2>6. CASE CatalogueEvent /\ UNCHANGED <<userVars, phones, alone>>
      BY <1>5, <2>6
    <2>7. CASE AccountsNext /\ UNCHANGED <<catalogueVars, noticeVars, tillVars>>
      BY <1>2, <2>7
    <2>8. CASE BackofficeNext
      <3> HIDE DEF Goal
      <3> QED BY <2>1, <2>2, <2>4, <2>5, <2>6, <2>7, <2>8, Zenon DEF BackofficeNext
    <2> QED BY <2>3, <2>8
  <1>7. NoticesOK' /\ PushesOK'
    <2>1. CASE NoticeStep
      BY <2>1, NoticesKeep DEF TablesOK, AccountTablesOK, Overlapping
    <2>2. CASE UNCHANGED noticeVars
      BY <2>2, NoticeFrame DEF TablesOK, Overlapping
    <2> QED BY <2>1, <2>2 DEF BackofficeNext, backofficeVars
  <1>8. alone' \in BOOLEAN
    <2>1. CASE Begins
      BY <2>1, Zenon DEF Begins
    <2>2. CASE UNCHANGED alone
      BY <2>2 DEF TablesOK, AccountTablesOK
    <2> QED BY <1>6, <2>1, <2>2 DEF GoesOn, Otherwise
  <1>9. CallsOK'
    <2>1. Begins \/ (\E c \in Calls : Moves(c)) \/ UNCHANGED call
      BY <1>6 DEF GoesOn, Otherwise
    <2> QED BY <1>6, <2>1, CallsKeep DEF Overlapping, Keeps
  <1> QED BY <1>6, <1>7, <1>8, <1>9 DEF Keeps, TablesOK, AccountTablesOK, Overlapping

-----------------------------------------------------------------------------
(* What is kept while commands have not overlapped.                        *)

\* What is stored stays as it was read when only files and drafts are added.
LEMMA CurrentStays ==
    ASSUME UNCHANGED <<users, phones, covers, unsettled>>, shelf \subseteq shelf',
           assetFiles \subseteq assetFiles', \A e : Live(e) => Live(e)', NEW q, Current(q)
    PROVE  Current(q)'
  <1>1. CurrentUser(q)'
    BY DEF Current, CurrentUser
  <1>2. CurrentPhone(q)'
    BY DEF Current, CurrentPhone, PhonesOf
  <1>3. CurrentEvent(q)'
    BY DEF Current, CurrentEvent, HasCover
  <1> QED BY <1>1, <1>2, <1>3 DEF Current

\* Who has phones keeps a primary one: the commands on users.
LEMMA UserStepKeepsPrimary ==
    ASSUME UserTablesOK, PhonesOK, CallsOK, PrimaryKept, NEW c \in Calls, UserStep(c),
           UNCHANGED phones
    PROVE  PrimaryKept'
  <1>1. \A x : PhonesOf(x)' = PhonesOf(x) /\ PrimaryOf(x)' = PrimaryOf(x)
    BY DEF PhonesOf, PrimaryOf
  <1>2. CASE UNCHANGED <<users, roles>>
    BY <1>1, <1>2 DEF PrimaryKept
  <1>3. ASSUME NEW u \in UserIds, InsertStaff(c, u) PROVE PrimaryKept'
    <2>1. DOMAIN users' = DOMAIN users \cup {u} /\ u \notin DOMAIN users /\ UNCHANGED roles
      BY <1>3 DEF InsertStaff, InsertUser, Upsert
    <2>2. PhonesOf(u) = {}
      BY <2>1 DEF PhonesOf, PhonesOK
    <2> QED BY <1>1, <2>1, <2>2 DEF PrimaryKept
  <1>4. CASE AssignRole(c)
    <2>1. PICK k \in Calling : k = call[c] /\ NamesRows(k)
      BY DEF CallsOK
    <2>2. /\ k.step = "role" /\ UNCHANGED users
          /\ \A x \in DOMAIN roles' :
               IF x = k.user THEN roles'[x] = k.role ELSE x \in DOMAIN roles /\ roles'[x] = roles[x]
      BY <1>4, <2>1 DEF AssignRole, Upsert
    <2>3. k.role # "customer"
      BY <2>1, <2>2 DEF NamesRows
    <2> QED BY <1>1, <2>2, <2>3 DEF PrimaryKept
  <1>5. CASE SaveUser(c)
    <2>1. PICK k \in Calling : k = call[c] /\ NamesRows(k)
      BY DEF CallsOK
    <2>2. k.step \in {"save", "save_avatar"} /\ DOMAIN users' = DOMAIN users \cup {k.user}
          /\ UNCHANGED roles
      BY <1>5, <2>1 DEF SaveUser, Upsert
    <2>3. k.user \in DOMAIN users
      BY <2>1, <2>2 DEF NamesRows, OfUser
    <2> QED BY <1>1, <2>2, <2>3 DEF PrimaryKept
  <1> QED BY <1>2, <1>3, <1>4, <1>5 DEF UserStep, StoreToken, DeleteOldAvatar

\* Who has phones keeps a primary one: a registration stores it with the user.
LEMMA RegisterKeepsPrimary ==
    ASSUME PhonesOK, PrimaryKept, NEW c \in Calls,
           NEW u \in UserIds, NEW p \in PhoneIds, RegisterCustomer(c, u, p)
    PROVE  PrimaryKept'
  <1>1. /\ DOMAIN users' = DOMAIN users \cup {u} /\ DOMAIN roles' = DOMAIN roles \cup {u}
        /\ \A x \in DOMAIN roles : x # u => roles'[x] = roles[x]
    BY DEF RegisterCustomer, InsertCustomer, InsertUser, Upsert
  <1>2. /\ DOMAIN phones' = DOMAIN phones \cup {p} /\ p \notin DOMAIN phones
        /\ phones'[p] = [user |-> u, primary |-> TRUE]
        /\ \A x \in DOMAIN phones : phones'[x] = phones[x]
    BY DEF RegisterCustomer, Upsert
  <1>3. p \in PrimaryOf(u)'
    BY <1>2 DEF PrimaryOf, PhonesOf
  <1>4. \A x : x # u => PhonesOf(x)' = PhonesOf(x) /\ PrimaryOf(x)' = PrimaryOf(x)
    BY <1>2 DEF PrimaryOf, PhonesOf
  <1> QED BY <1>1, <1>3, <1>4 DEF PrimaryKept

\* Who has phones keeps a primary one: the commands on phones, which have read
\* what is stored.
LEMMA PhoneStepKeepsPrimary ==
    ASSUME PhoneTableOK, CallsOK, PrimaryKept, NEW c \in Calls, PhoneStep(c), UNCHANGED userVars,
           Current(call[c])
    PROVE  PrimaryKept'
  <1>1. PICK k \in Calling : k = call[c] /\ NamesRows(k) /\ CurrentPhone(k)
    BY DEF CallsOK, Current
  <1>2. UNCHANGED <<users, roles>>
    BY DEF userVars
  <1>3. CASE UNCHANGED phones
    BY <1>2, <1>3 DEF PrimaryKept, PrimaryOf, PhonesOf
  <1>4. ASSUME NEW p \in PhoneIds, InsertPhone(c, p) PROVE PrimaryKept'
    <2>1. /\ k.step = "add_phone" /\ p \notin DOMAIN phones
          /\ DOMAIN phones' = DOMAIN phones \cup {p} /\ phones'[p] = k.row
          /\ \A x \in DOMAIN phones : phones'[x] = phones[x]
      BY <1>1, <1>4 DEF InsertPhone, SavePhone, Upsert
    <2>2. k.row.primary <=> PhonesOf(k.row.user) = {}
      BY <1>1, <2>1 DEF CurrentPhone
    <2>3. \A x : PrimaryOf(x) \subseteq PrimaryOf(x)'
      BY <2>1 DEF PrimaryOf, PhonesOf
    <2>4. \A x : x # k.row.user => PhonesOf(x)' = PhonesOf(x)
      BY <2>1 DEF PhonesOf
    <2>5. k.row.primary => p \in PrimaryOf(k.row.user)'
      BY <2>1 DEF PrimaryOf, PhonesOf
    <2> QED BY <1>2, <2>2, <2>3, <2>4, <2>5 DEF PrimaryKept
  <1>5. CASE SaveUpdatedPhone(c)
    <2>1. k.step = "save_phone" /\ phones' = Upsert(phones, k.phone, k.row)
      BY <1>1, <1>5 DEF SaveUpdatedPhone, SavePhone
    <2>2. k.phone \in DOMAIN phones /\ phones[k.phone] = k.row
      BY <1>1, <2>1 DEF CurrentPhone, OfPhone
    <2>3. /\ DOMAIN phones' = DOMAIN phones
          /\ \A x \in DOMAIN phones : phones'[x] = phones[x]
      BY <2>1, <2>2 DEF Upsert
    <2>4. \A x : PhonesOf(x)' = PhonesOf(x) /\ PrimaryOf(x)' = PrimaryOf(x)
      BY <2>3 DEF PhonesOf, PrimaryOf
    <2> QED BY <1>2, <2>4 DEF PrimaryKept
  <1>6. CASE DeletePhone(c)
    <2>1. /\ k.step = "delete_phone"
          /\ phones' = [p \in DOMAIN phones \ {k.phone} |-> phones[p]]
      BY <1>1, <1>6 DEF DeletePhone
    <2>2. k.phone \in DOMAIN phones /\ ~phones[k.phone].primary
      BY <1>1, <2>1 DEF CurrentPhone, OfPhone
    <2>3. \A x : PhonesOf(x)' \subseteq PhonesOf(x) /\ PrimaryOf(x)' = PrimaryOf(x)
      BY <2>1, <2>2 DEF PhonesOf, PrimaryOf
    <2> QED BY <1>2, <2>3 DEF PrimaryKept
  <1>7. CASE SetPrimary(c)
    <2> DEFINE mine == PhonesOf(k.row.user)
    <2>1. /\ k.step = "set_primary"
          /\ phones' = [p \in DOMAIN phones |->
               IF p \in mine THEN [phones[p] EXCEPT !.primary = p = k.phone] ELSE phones[p]]
      BY <1>1, <1>7 DEF SetPrimary
    <2>2. k.phone \in mine
      BY <1>1, <2>1 DEF CurrentPhone, OfPhone, PhonesOf
    <2>3. \A p \in DOMAIN phones : phones[p] \in PhoneRow
      BY DEF PhoneTableOK
    <2>4. DOMAIN phones' = DOMAIN phones /\ \A p \in DOMAIN phones :
            /\ phones'[p].user = phones[p].user
            /\ p \in mine => (phones'[p].primary <=> p = k.phone)
            /\ p \notin mine => phones'[p] = phones[p]
      BY <2>1, <2>3 DEF PhoneRow
    <2>5. k.phone \in PrimaryOf(k.row.user)'
      BY <2>2, <2>4 DEF PrimaryOf, PhonesOf
    <2>6. \A x : x # k.row.user => PhonesOf(x)' = PhonesOf(x) /\ PrimaryOf(x)' = PrimaryOf(x)
      BY <2>4 DEF PrimaryOf, PhonesOf
    <2> QED BY <1>2, <2>5, <2>6 DEF PrimaryKept
  <1> QED BY <1>3, <1>4, <1>5, <1>6, <1>7 DEF PhoneStep, CountPhones

\* The avatars users name stay in storage: the commands on users.
LEMMA UserStepKeepsAvatars ==
    ASSUME UserTablesOK, CallsOK, AvatarsKept, NEW c \in Calls, UserStep(c), Current(call[c])
    PROVE  AvatarsKept'
  <1>1. PICK k \in Calling : k = call[c] /\ NamesRows(k) /\ CurrentUser(k)
    BY DEF CallsOK, Current
  <1>2. CASE UNCHANGED <<users, shelf, torn>>
    BY <1>2 DEF AvatarsKept
  <1>3. ASSUME NEW u \in UserIds, InsertStaff(c, u) PROVE AvatarsKept'
    <2>1. /\ DOMAIN users' = DOMAIN users \cup {u} /\ users'[u].avatar = NoAvatar
          /\ \A x \in DOMAIN users : users'[x] = users[x]
          /\ UNCHANGED <<shelf, torn>>
      BY <1>3 DEF InsertStaff, InsertUser, Upsert, NewUser
    <2> QED BY <2>1 DEF AvatarsKept
  <1>4. CASE DeleteOldAvatar(c)
    <2>1. /\ shelf' = shelf \ {<<k.user, k.row.avatar>>} /\ torn' = torn \cup {k.user}
          /\ UNCHANGED users
      BY <1>1, <1>4 DEF DeleteOldAvatar
    <2> QED BY <2>1 DEF AvatarsKept
  <1>5. CASE SaveUser(c)
    <2>1. /\ k.step \in {"save", "save_avatar"} /\ UNCHANGED shelf
          /\ DOMAIN users' = DOMAIN users \cup {k.user} /\ users'[k.user] = k.row
          /\ \A x \in DOMAIN users : x # k.user => users'[x] = users[x]
          /\ torn' = IF k.step = "save" THEN torn
                     ELSE IF k.there THEN torn \ {k.user} ELSE torn \cup {k.user}
      BY <1>1, <1>5 DEF SaveUser, Upsert
    <2>2. k.user \in DOMAIN users
      BY <1>1, <2>1 DEF NamesRows, OfUser
    <2>3. CASE k.step = "save"
      <3>1. k.row.avatar = users[k.user].avatar
        BY <1>1, <2>3 DEF CurrentUser
      <3> QED BY <2>1, <2>2, <2>3, <3>1 DEF AvatarsKept
    <2>4. CASE k.step = "save_avatar"
      <3>1. CASE k.there
        <4>1. <<k.user, k.row.avatar>> \in shelf
          BY <1>1, <2>4, <3>1 DEF CurrentUser
        <4> QED BY <2>1, <2>2, <2>4, <3>1, <4>1 DEF AvatarsKept
      <3>2. CASE ~k.there
        BY <2>1, <2>2, <2>4, <3>2 DEF AvatarsKept
      <3> QED BY <3>1, <3>2
    <2> QED BY <2>1, <2>3, <2>4
  <1> QED BY <1>2, <1>3, <1>4, <1>5 DEF UserStep, StoreToken, AssignRole

\* A registered customer has no avatar yet.
LEMMA RegisterKeepsAvatars ==
    ASSUME AvatarsKept, NEW c \in Calls,
           NEW u \in UserIds, NEW p \in PhoneIds, RegisterCustomer(c, u, p)
    PROVE  AvatarsKept'
  <1>1. /\ DOMAIN users' = DOMAIN users \cup {u} /\ users'[u].avatar = NoAvatar
        /\ \A x \in DOMAIN users : users'[x] = users[x]
        /\ UNCHANGED <<shelf, torn>>
    BY DEF RegisterCustomer, InsertCustomer, InsertUser, Upsert, NewUser
  <1> QED BY <1>1 DEF AvatarsKept

\* Covers stay served: the commands on covers.
LEMMA CoverStepKeepsCovers ==
    ASSUME CallsOK, CoversApart, CoversKept, NEW c \in Calls, CoverStep(c), Current(call[c])
    PROVE  CoversKept'
  <1>1. PICK k \in Calling : k = call[c] /\ CurrentEvent(k)
    BY DEF CallsOK, Current
  <1>2. CASE DropOldFile(c) \/ RemoveFile(c)
    <2>1. /\ UNCHANGED <<covers, kv>> /\ assetFiles' = assetFiles \ {<<k.event, k.old.file>>}
          /\ unsettled' = unsettled \cup {k.event}
      BY <1>1, <1>2 DEF DropOldFile, RemoveFile
    <2> QED BY <2>1 DEF CoversKept
  <1>3. CASE DropOldSlug(c)
    <2>1. /\ k.step = "drop_slug" /\ UNCHANGED <<covers, assetFiles, unsettled>>
          /\ kv' = Without(kv, k.old.slug) \/ UNCHANGED kv
      BY <1>1, <1>3 DEF DropOldSlug
    <2>2. k.event \in unsettled /\ k.event \in DOMAIN covers /\ covers[k.event] = k.old
      BY <1>1, <2>1 DEF CurrentEvent, HasCover
    <2>3. \A e \in DOMAIN covers \ unsettled : covers[e].slug # k.old.slug
      BY <2>2 DEF CoversApart
    <2> QED BY <2>1, <2>3 DEF CoversKept, Without
  <1>4. ASSUME NEW s \in AssetSlugs, SaveCover(c, s) PROVE CoversKept'
    <2>1. /\ DOMAIN covers' = DOMAIN covers \cup {k.event}
          /\ \A e \in DOMAIN covers : e # k.event => covers'[e] = covers[e]
          /\ unsettled' = unsettled \cup {k.event} /\ UNCHANGED <<assetFiles, kv>>
      BY <1>1, <1>4 DEF SaveCover, Upsert
    <2> QED BY <2>1 DEF CoversKept
  <1>5. CASE RegisterSlug(c)
    <2>1. /\ k.step = "register_slug" /\ UNCHANGED <<covers, assetFiles>>
          /\ \/ /\ kv' = Upsert(kv, k.row.slug, <<k.event, k.row.file>>)
                /\ unsettled' = IF k.there THEN unsettled \ {k.event} ELSE unsettled
             \/ UNCHANGED <<kv, unsettled>>
      BY <1>1, <1>5 DEF RegisterSlug
    <2>2. /\ k.event \in DOMAIN covers /\ covers[k.event] = k.row
          /\ k.there => <<k.event, k.row.file>> \in assetFiles
          /\ k.event \in unsettled
      BY <1>1, <2>1 DEF CurrentEvent, HasCover
    <2>3. CASE /\ kv' = Upsert(kv, k.row.slug, <<k.event, k.row.file>>)
               /\ unsettled' = IF k.there THEN unsettled \ {k.event} ELSE unsettled
      <3>1. /\ DOMAIN kv' = DOMAIN kv \cup {k.row.slug}
            /\ kv'[k.row.slug] = <<k.event, k.row.file>>
            /\ \A s \in DOMAIN kv : s # k.row.slug => kv'[s] = kv[s]
        BY <2>3 DEF Upsert
      <3>2. \A e \in DOMAIN covers : e # k.event => covers[e].slug # k.row.slug
        BY <2>2 DEF CoversApart
      <3>3. CASE k.there
        BY <2>1, <2>2, <2>3, <3>1, <3>2, <3>3 DEF CoversKept
      <3>4. CASE ~k.there
        BY <2>1, <2>2, <2>3, <3>1, <3>2, <3>4 DEF CoversKept
      <3> QED BY <3>3, <3>4
    <2>4. CASE UNCHANGED <<kv, unsettled>>
      BY <2>1, <2>4 DEF CoversKept
    <2> QED BY <2>1, <2>3, <2>4
  <1>6. CASE RemoveRow(c)
    <2>1. /\ DOMAIN covers' = DOMAIN covers \ {k.event}
          /\ \A e \in DOMAIN covers' : covers'[e] = covers[e]
          /\ unsettled' = unsettled \ {k.event} /\ UNCHANGED <<assetFiles, kv>>
      BY <1>1, <1>6 DEF RemoveRow, Without
    <2> QED BY <2>1 DEF CoversKept
  <1>7. CASE RemoveSlug(c)
    <2>1. /\ k.step = "remove_slug" /\ UNCHANGED <<covers, assetFiles, unsettled>>
          /\ kv' = Without(kv, k.old.slug) \/ UNCHANGED kv
      BY <1>1, <1>7 DEF RemoveSlug
    <2>2. \A e \in DOMAIN covers : covers[e].slug # k.old.slug
      BY <1>1, <2>1 DEF CurrentEvent
    <2> QED BY <2>1, <2>2 DEF CoversKept, Without
  <1> QED BY <1>2, <1>3, <1>4, <1>5, <1>6, <1>7 DEF CoverStep

\* A command that goes on alone keeps what the three say.
LEMMA GoesOnKeeps ==
    ASSUME TablesOK, Overlapping, alone, AloneOK, GoesOn
    PROVE  OneCall' /\ (\A d \in Calls : Current(call[d])')
           /\ PrimaryKept' /\ AvatarsKept' /\ CoversKept'
  <1>0. OneCall /\ (\A d \in Calls : Current(call[d])) /\ PrimaryKept /\ AvatarsKept /\ CoversKept
    BY DEF AloneOK
  <1>1. PICK c \in Calls :
         /\ Moves(c)
         /\ \/ /\ \/ UserStep(c) /\ UNCHANGED phones
                  \/ PhoneStep(c) /\ UNCHANGED userVars
                  \/ \E u \in UserIds, p \in PhoneIds : RegisterCustomer(c, u, p)
                  \/ CallFails(c)
               /\ UNCHANGED catalogueVars
            \/ CatalogueStep(c) /\ UNCHANGED <<userVars, phones>>
    BY DEF GoesOn
  <1>2. PICK q \in Calling : call' = [call EXCEPT ![c] = q] /\ Current(q)'
    BY <1>0, <1>1 DEF Moves
  <1>3. call[c] # Idle /\ \A d \in Calls : d # c => call[d] = Idle
    BY <1>0, <1>1 DEF Moves, OneCall
  <1>4. call'[c] = q /\ \A d \in Calls : d # c => call'[d] = Idle
    BY <1>2, <1>3 DEF Overlapping, CallsOK
  <1>5. OneCall'
    BY <1>4 DEF OneCall
  <1>6. \A d \in Calls : Current(call[d])'
    BY <1>2, <1>4, IdleNames
  <1>7. ASSUME UNCHANGED <<userVars, phones>> PROVE PrimaryKept' /\ AvatarsKept'
    BY <1>0, <1>7 DEF PrimaryKept, AvatarsKept, PrimaryOf, PhonesOf, userVars
  <1>8. ASSUME UNCHANGED catalogueVars PROVE CoversKept'
    BY <1>0, <1>8 DEF CoversKept, catalogueVars, coverVars
  <1>9. PrimaryKept' /\ AvatarsKept' /\ CoversKept'
    <2> USE DEF TablesOK, AccountTablesOK, Overlapping
    <2>1. CASE UserStep(c) /\ UNCHANGED phones /\ UNCHANGED catalogueVars
      BY <1>0, <1>8, <2>1, UserStepKeepsPrimary, UserStepKeepsAvatars
    <2>2. CASE PhoneStep(c) /\ UNCHANGED userVars /\ UNCHANGED catalogueVars
      <3>1. AvatarsKept'
        BY <1>0, <2>2 DEF AvatarsKept, userVars
      <3> QED BY <1>0, <1>8, <2>2, <3>1, PhoneStepKeepsPrimary
    <2>3. CASE (\E u \in UserIds, p \in PhoneIds : RegisterCustomer(c, u, p)) /\ UNCHANGED catalogueVars
      BY <1>0, <1>8, <2>3, RegisterKeepsPrimary, RegisterKeepsAvatars
    <2>4. CASE CallFails(c) /\ UNCHANGED catalogueVars
      BY <1>7, <1>8, <2>4 DEF CallFails
    <2>5. CASE CatalogueStep(c) /\ UNCHANGED <<userVars, phones>>
      <3>1. CASE CoverStep(c)
        BY <1>0, <1>7, <2>5, <3>1, CoverStepKeepsCovers
      <3>2. CASE UNCHANGED coverVars
        BY <1>0, <1>7, <2>5, <3>2 DEF CoversKept, coverVars
      <3> QED BY <2>5, <3>1, <3>2 DEF CatalogueStep
    <2> QED BY <1>1, <2>1, <2>2, <2>3, <2>4, <2>5
  <1> QED BY <1>5, <1>6, <1>9

\* While commands have not overlapped, what the one in flight has read is current,
\* whoever has phones has a primary one, and files are where they are looked for.
LEMMA AloneKeeps ==
    ASSUME TablesOK, Overlapping, AloneOK, Begins \/ GoesOn \/ Otherwise
    PROVE  AloneOK'
  <1>1. CASE Begins
    <2>1. PICK c \in Calls, q \in Calling : Fresh(q) /\ Start(c, q)
      BY <1>1 DEF Begins
    <2>2. UNCHANGED <<userVars, phones, catalogueVars>>
      BY <1>1 DEF Begins
    <2>3. ASSUME alone' PROVE alone /\ \A d \in Calls : call[d] = Idle
      BY <1>1, <2>3, Zenon DEF Begins
    <2>4. ASSUME alone'
          PROVE  OneCall' /\ (\A d \in Calls : Current(call[d])')
                 /\ PrimaryKept' /\ AvatarsKept' /\ CoversKept'
      <3>1. call'[c] = q /\ \A d \in Calls : d # c => call'[d] = Idle
        BY <2>1, <2>3, <2>4 DEF Start, Goto, Overlapping, CallsOK
      <3>2. OneCall'
        BY <3>1 DEF OneCall
      <3>3. Current(q)'
        <4>1. UNCHANGED <<users, phones, covers, unsettled, shelf, assetFiles, events>>
          BY <2>2 DEF userVars, catalogueVars, coverVars, eventVars
        <4>2. \A e : Live(e) => Live(e)'
          BY <4>1 DEF Live
        <4> QED BY <2>1, <4>1, <4>2, CurrentStays DEF Fresh
      <3>4. \A d \in Calls : Current(call[d])'
        BY <3>1, <3>3, IdleNames
      <3>5. PrimaryKept' /\ AvatarsKept'
        BY <2>2, <2>3, <2>4
           DEF AloneOK, PrimaryKept, AvatarsKept, PrimaryOf, PhonesOf, userVars
      <3>6. CoversKept'
        BY <2>2, <2>3, <2>4 DEF AloneOK, CoversKept, catalogueVars, coverVars
      <3> QED BY <3>2, <3>4, <3>5, <3>6
    <2> QED BY <2>4 DEF AloneOK
  <1>2. CASE GoesOn
    <2>1. alone' = alone
      BY <1>2 DEF GoesOn
    <2> QED BY <1>2, <2>1, GoesOnKeeps DEF AloneOK
  <1>3. CASE Otherwise
    <2>1. UNCHANGED <<call, alone, phones>>
      BY <1>3 DEF Otherwise
    <2>2. /\ UNCHANGED <<users, roles, torn, covers, unsettled, kv>>
          /\ shelf \subseteq shelf' /\ assetFiles \subseteq assetFiles'
          /\ \A e : Live(e) => Live(e)'
      <3>1. CASE UserEvent /\ UNCHANGED <<phones, catalogueVars>>
        <4>1. UNCHANGED <<users, roles, torn>> /\ shelf \subseteq shelf'
          BY <3>1, UserEventKeeps DEF TablesOK, AccountTablesOK
        <4> QED BY <3>1, <4>1 DEF catalogueVars, coverVars, eventVars, Live
      <3>2. CASE CatalogueEvent /\ UNCHANGED <<userVars, phones>>
        <4>1. /\ UNCHANGED <<covers, kv, unsettled>> /\ assetFiles \subseteq assetFiles'
              /\ \A e : Live(e) => Live(e)'
          BY <3>2, CatalogueEventKeeps DEF TablesOK, Overlapping
        <4> QED BY <3>2, <4>1 DEF userVars
      <3>3. CASE UNCHANGED <<userVars, phones, catalogueVars>>
        BY <3>3 DEF userVars, catalogueVars, coverVars, eventVars, Live
      <3> QED BY <1>3, <3>1, <3>2, <3>3 DEF Otherwise
    <2>3. ASSUME alone
          PROVE  OneCall' /\ (\A d \in Calls : Current(call[d])')
                 /\ PrimaryKept' /\ AvatarsKept' /\ CoversKept'
      <3>1. OneCall'
        BY <2>1, <2>3 DEF AloneOK, OneCall
      <3>2. \A d \in Calls : Current(call[d])'
        <4> TAKE d \in Calls
        <4>1. PICK q \in Calling : q = call[d] /\ Current(q)
          BY <2>3 DEF AloneOK, Overlapping, CallsOK
        <4>2. Current(q)'
          BY <2>1, <2>2, <4>1, CurrentStays
        <4> QED BY <2>1, <4>1, <4>2
      <3>3. PrimaryKept' /\ AvatarsKept' /\ CoversKept'
        BY <2>1, <2>2, <2>3
           DEF AloneOK, PrimaryKept, AvatarsKept, CoversKept, PrimaryOf, PhonesOf
      <3> QED BY <3>1, <3>2, <3>3
    <2> QED BY <2>1, <2>3 DEF AloneOK
  <1> QED BY <1>1, <1>2, <1>3

-----------------------------------------------------------------------------
(* What holds of every run.                                                *)

\* It holds at the start, when nothing is stored and nothing in flight.
LEMMA BackofficeStart == BackofficeInit => BackofficeInductive
  <1> SUFFICES ASSUME BackofficeInit PROVE BackofficeInductive
    OBVIOUS
  <1>1. /\ users = NoRows /\ roles = NoRows /\ tokens = NoRows /\ phones = NoRows
        /\ events = NoRows /\ agreed = NoRows /\ covers = NoRows /\ kv = NoRows
        /\ notices = NoRows /\ told = {} /\ duty = {} /\ categories = {} /\ offered = {}
        /\ badges = {} /\ shelf = {} /\ torn = {} /\ assetFiles = {} /\ unsettled = {}
        /\ bridge = [s \in Signals |-> Unheard] /\ call = [c \in Calls |-> Idle] /\ alone = TRUE
    BY DEF BackofficeInit, AccountsInit, UserInit, CatalogueInit, EventInit, CoverInit, NoticeInit
  <1>2. DOMAIN NoRows = {}
    BY DEF NoRows
  <1>3. UserTablesOK /\ PhoneTableOK /\ alone \in BOOLEAN
    BY <1>1, <1>2 DEF UserTablesOK, PhoneTableOK
  <1>4. CatalogueTablesOK
    BY <1>1, <1>2 DEF CatalogueTablesOK, EventTablesOK, CoverTablesOK
  <1>5. NoticesOK
    BY <1>1, <1>2 DEF NoticesOK, BridgeState
  <1>6. call \in [Calls -> Calling] /\ \A c \in Calls : call[c] = Idle
    BY <1>1 DEF Calling
  <1>7. CallsOK
    BY <1>6, IdleNames DEF CallsOK
  <1>8. EventsOK /\ PhonesOK /\ CoversApart /\ PushesOK
    BY <1>1, <1>2 DEF EventsOK, PhonesOK, PrimaryOf, PhonesOf, CoversApart, PushesOK, Unheard
  <1>9. AloneOK
    <2>1. OneCall /\ \A c \in Calls : Current(call[c])
      BY <1>6, IdleNames DEF OneCall
    <2>2. PrimaryKept /\ AvatarsKept /\ CoversKept
      BY <1>1, <1>2 DEF PrimaryKept, AvatarsKept, CoversKept
    <2> QED BY <2>1, <2>2 DEF AloneOK
  <1> QED BY <1>3, <1>4, <1>5, <1>6, <1>7, <1>8, <1>9
          DEF BackofficeInductive, BackofficeTypeOK, AccountTablesOK, Overlapping, Calling

\* Every step keeps it.
LEMMA BackofficeStep ==
    ASSUME BackofficeInductive, [BackofficeNext]_backofficeVars
    PROVE  BackofficeInductive'
  <1>1. TablesOK /\ Overlapping /\ AloneOK
    BY DEF BackofficeInductive, BackofficeTypeOK, TablesOK
  <1>2. TablesOK' /\ Overlapping' /\ (Begins \/ GoesOn \/ Otherwise)
    BY <1>1, StepsAre
  <1>3. AloneOK'
    BY <1>1, <1>2, AloneKeeps
  <1>4. BackofficeTypeOK'
    BY <1>2 DEF TablesOK, BackofficeTypeOK, Overlapping, CallsOK, Calling
  <1> QED BY <1>2, <1>3, <1>4 DEF BackofficeInductive

\* Whatever commands, signals and failures interleave: what a call names exists, the
\* indexes hold, and while commands have not overlapped what was read is current.
THEOREM BackofficeInvariantHolds == BackofficeSpec => []BackofficeInductive
  <1>1. BackofficeInductive /\ [BackofficeNext]_backofficeVars => BackofficeInductive'
    BY BackofficeStep
  <1> QED BY BackofficeStart, <1>1, PTL DEF BackofficeSpec

\* The tables, the KV entries and the calls in flight keep their types: a slug
\* changed by ensureUniqueSlug is still one, a row loaded and saved still fits.
THEOREM BackofficeTypeCorrect == BackofficeSpec => []BackofficeTypeOK
  <1>1. BackofficeInductive => BackofficeTypeOK
    BY DEF BackofficeInductive
  <1> QED BY BackofficeInvariantHolds, <1>1, PTL

\* The partial index alone keeps a user from two primary phones, however UserPhones
\* commands overlap; while they have not, whoever has phones has a primary one, and
\* every customer has, for the checkout to take as contact.
THEOREM ContactIsKept == BackofficeSpec => []ContactKept
  <1>1. ASSUME BackofficeInductive PROVE ContactKept
    <2>1. PhonesOK /\ (alone => PrimaryKept)
      BY <1>1 DEF BackofficeInductive, Overlapping, AloneOK
    <2>2. ASSUME NEW u \in DOMAIN users PROVE Cardinality(PrimaryOf(u)) <= 1
      <3>1. u \in UserIds
        BY <1>1 DEF BackofficeInductive, BackofficeTypeOK, AccountTablesOK, UserTablesOK
      <3>2. \A p, r \in PrimaryOf(u) : p = r
        BY <2>1, <3>1 DEF PhonesOK
      <3>3. CASE PrimaryOf(u) = {}
        BY <3>3, FS_EmptySet
      <3>4. CASE PrimaryOf(u) # {}
        <4>1. PICK p : PrimaryOf(u) = {p}
          BY <3>2, <3>4
        <4>2. Cardinality({p}) = 1
          BY FS_Singleton
        <4> QED BY <4>1, <4>2
      <3> QED BY <3>3, <3>4
    <2>3. ASSUME alone, NEW u \in DOMAIN BuyersList PROVE BuyersList[u] # {}
      BY <2>1, <2>3 DEF BuyersList, PrimaryKept
    <2> QED BY <2>1, <2>2, <2>3 DEF ContactKept, PrimaryKept
  <1> QED BY BackofficeInvariantHolds, <1>1, PTL

\* Saves of stale events lose none: the default list, the list of the archived and the
\* lists of the operators agree, and the unique slug leads the public to one event.
THEOREM EventsStayFindable == BackofficeSpec => []EventsFindable
  <1>1. ASSUME BackofficeInductive PROVE EventsFindable
    <2>1. EventsOK /\ \A e \in DOMAIN events : events[e] \in EventRow
      BY <1>1 DEF BackofficeInductive, Overlapping, BackofficeTypeOK, CatalogueTablesOK, EventTablesOK
    <2>2. ASSUME NEW e \in DOMAIN events
          PROVE  /\ e \notin EventsList(FALSE) <=> Restorable(events[e])
                 /\ EventsAt(events[e].slug) = {e}
      <3>1. e \notin EventsList(FALSE) <=> Restorable(events[e])
        BY <2>1 DEF EventsOK, EventsList, Restorable
      <3>2. EventsAt(events[e].slug) = {e}
        BY <2>1 DEF EventsOK, EventsAt
      <3> QED BY <3>1, <3>2
    <2>3. ASSUME NEW u \in UserIds PROVE AssignedEvents(u, "active") = AllAssignedEvents(u)
      BY <2>1 DEF EventsOK, AssignedEvents, AllAssignedEvents, EventRow
    <2> QED BY <2>2, <2>3 DEF EventsFindable
  <1> QED BY BackofficeInvariantHolds, <1>1, PTL

\* The event's mapper leaves pricing_config out: the column holds what
\* SetEventPricingConfigHandler stored last, whatever stale saves come after.
THEOREM PricingIsKept == BackofficeSpec => []PricingKept
  <1>1. BackofficeInductive => PricingKept
    BY DEF BackofficeInductive, Overlapping, EventsOK, PricingKept
  <1> QED BY BackofficeInvariantHolds, <1>1, PTL

\* The bridge pushes only after all its inserts are through: a pushed notification is
\* in the list of everybody it was pushed to.
THEOREM PushesAreListed == BackofficeSpec => []PushedIsListed
  <1>1. ASSUME BackofficeInductive PROVE PushedIsListed
    <2>1. /\ PushesOK /\ \A n \in DOMAIN notices : notices[n] \in BOOLEAN
          /\ told \subseteq Signals \X UserIds \X (Signals \X UserIds)
      BY <1>1 DEF BackofficeInductive, Overlapping, BackofficeTypeOK, NoticesOK
    <2>2. ASSUME NEW p \in told PROVE <<p[1], p[2]>> \in NoticesOf(p[2], BOOLEAN)
      BY <2>1 DEF PushesOK, NoticesOf
    <2> QED BY <2>2 DEF PushedIsListed
  <1> QED BY BackofficeInvariantHolds, <1>1, PTL

\* While commands have not overlapped, a cover shown is served under its slug and an
\* avatar named is in storage, but for those whose command died, whose KV call failed
\* or whose confirmation was of a file not in storage, which no handler asks.
THEOREM FilesAreServed == BackofficeSpec => []FilesServed
  <1>1. ASSUME BackofficeInductive PROVE FilesServed
    <2> SUFFICES ASSUME alone PROVE
             /\ \A e \in EventsList(TRUE) \ unsettled :
                  EventCard(e).cover # NoCover => Served(EventCard(e).cover)
             /\ \A e \in PublicEvents \ unsettled : Served(PublicCard(e).cover)
             /\ \A u \in DOMAIN users \ torn :
                  users[u].avatar # NoAvatar => <<u, users[u].avatar>> \in shelf
      BY DEF FilesServed
    <2>1. AvatarsKept /\ CoversKept
      BY <1>1 DEF BackofficeInductive, AloneOK
    <2>2. ASSUME NEW e \in DOMAIN covers \ unsettled PROVE Served(CoverSlug(e))
      BY <2>1 DEF CoversKept, Served, CoverSlug
    <2>3. \A e : CoverSlug(e) # NoCover => e \in DOMAIN covers
      BY DEF CoverSlug
    <2> QED BY <2>1, <2>2, <2>3 DEF AvatarsKept, EventCard, PublicCard, PublicEvents
  <1> QED BY BackofficeInvariantHolds, <1>1, PTL

-----------------------------------------------------------------------------
(* The refinement of AccountBook.                                          *)

\* The abstract state that KeepsBook sees.
Standing ==
    [u \in UserIds |->
        IF u \in UsersList(FALSE, AnyRole) THEN "active"
        ELSE IF u \in UsersList(TRUE, AnyRole) THEN "suspended" ELSE "none"]
Secret == [u \in UserIds |-> IF u \in DOMAIN users THEN users[u].password ELSE NoAvatar]
Holder == [t \in LiveTokens |-> tokens[t].user]
Spent == DOMAIN tokens \ LiveTokens
Admitted == {b.user : b \in badges}

\* What it says of a user.
LEMMA StandingIs ==
    ASSUME NEW u \in UserIds
    PROVE  /\ u \notin DOMAIN users => Standing[u] = "none" /\ Secret[u] = NoAvatar
           /\ u \in DOMAIN users =>
                /\ Standing[u] = IF users[u].active THEN "active" ELSE "suspended"
                /\ Secret[u] = users[u].password
           /\ u \notin DOMAIN users' => Standing'[u] = "none" /\ Secret'[u] = NoAvatar
           /\ u \in DOMAIN users' =>
                /\ Standing'[u] = IF users'[u].active THEN "active" ELSE "suspended"
                /\ Secret'[u] = users'[u].password
  <1>1. AnyRole \notin Role
    BY DEF AnyRole, Role
  <1>2. /\ u \in UsersList(FALSE, AnyRole) <=> u \in DOMAIN users /\ users[u].active
        /\ u \in UsersList(TRUE, AnyRole) <=> u \in DOMAIN users
    BY <1>1 DEF UsersList
  <1>3. /\ u \in UsersList(FALSE, AnyRole)' <=> u \in DOMAIN users' /\ users'[u].active
        /\ u \in UsersList(TRUE, AnyRole)' <=> u \in DOMAIN users'
    BY <1>1 DEF UsersList
  <1> QED BY <1>2, <1>3 DEF Standing, Secret

\* Users that stay are seen as before.
LEMMA UsersSeen ==
    ASSUME UNCHANGED users
    PROVE  UNCHANGED <<Standing, Secret>>
  <1>1. \A u \in UserIds : Standing'[u] = Standing[u] /\ Secret'[u] = Secret[u]
    BY StandingIs
  <1> QED BY <1>1 DEF Standing, Secret

\* Tokens that stay are seen as before.
LEMMA TokensSeen ==
    ASSUME UNCHANGED tokens
    PROVE  UNCHANGED <<Holder, Spent>>
  BY DEF Holder, Spent, LiveTokens

\* So are badges.
LEMMA BadgesSeen ==
    ASSUME UNCHANGED badges
    PROVE  UNCHANGED Admitted
  BY DEF Admitted

\* Whom a badge more admits.
LEMMA BadgeAdmits ==
    ASSUME NEW h, NEW r, badges' = badges \cup {[user |-> h, role |-> r]}
    PROVE  Admitted' = Admitted \cup {h}
  <1>1. Admitted' = {b.user : b \in badges \cup {[user |-> h, role |-> r]}}
    BY DEF Admitted
  <1>2. [user |-> h, role |-> r].user = h
    OBVIOUS
  <1>3. {b.user : b \in badges \cup {[user |-> h, role |-> r]}} = {b.user : b \in badges} \cup {h}
    BY <1>2
  <1> QED BY <1>1, <1>3 DEF Admitted

\* A step of AccountBook, or none.
BookAdvances ==
    \/ UNCHANGED <<Standing, Secret, Holder, Spent, Admitted>>
    \/ \E h \in UserIds, w \in Passwords :
         /\ Standing[h] = "none"
         /\ Standing' = [Standing EXCEPT ![h] = "active"]
         /\ Secret' = [Secret EXCEPT ![h] = w]
         /\ UNCHANGED <<Holder, Spent, Admitted>>
    \/ \E h \in UserIds, w \in Passwords :
         /\ Standing[h] # "none"
         /\ Secret' = [Secret EXCEPT ![h] = w]
         /\ UNCHANGED <<Standing, Holder, Spent, Admitted>>
    \/ \E h \in UserIds :
         /\ Standing[h] = "active"
         /\ Standing' = [Standing EXCEPT ![h] = "suspended"]
         /\ UNCHANGED <<Secret, Holder, Spent, Admitted>>
    \/ \E h \in UserIds :
         /\ Standing[h] = "suspended"
         /\ Standing' = [Standing EXCEPT ![h] = "active"]
         /\ UNCHANGED <<Secret, Holder, Spent, Admitted>>
    \/ \E h \in UserIds, s \in TokenIds :
         /\ Standing[h] = "active"
         /\ s \notin DOMAIN Holder \cup Spent
         /\ Holder' = [x \in DOMAIN Holder \cup {s} |-> IF x = s THEN h ELSE Holder[x]]
         /\ Admitted' = Admitted \cup {h}
         /\ UNCHANGED <<Standing, Secret, Spent>>
    \/ \E s \in TokenIds :
         /\ s \in DOMAIN Holder
         /\ Standing[Holder[s]] = "active"
         /\ Admitted' = Admitted \cup {Holder[s]}
         /\ UNCHANGED <<Standing, Secret, Holder, Spent>>
    \/ \E s \in TokenIds :
         /\ s \in DOMAIN Holder
         /\ Holder' = [x \in DOMAIN Holder \ {s} |-> Holder[x]]
         /\ Spent' = Spent \cup {s}
         /\ UNCHANGED <<Standing, Secret, Admitted>>
    \/ \E h \in UserIds :
         /\ Admitted' = Admitted \ {h}
         /\ UNCHANGED <<Standing, Secret, Holder, Spent>>

\* A session is opened for a user who is active.
LEMMA TokenAdvances ==
    ASSUME BackofficeInductive, alone, NEW c \in Calls, NEW t \in TokenIds, StoreToken(c, t)
    PROVE  BookAdvances
  <1>1. PICK k \in Calling : k = call[c] /\ NamesRows(k) /\ CurrentUser(k)
    BY DEF BackofficeInductive, Overlapping, CallsOK, AloneOK, Current
  <1>2. /\ k.step = "token" /\ t \notin DOMAIN tokens /\ UNCHANGED users
        /\ badges' = badges \cup {[user |-> k.user, role |-> k.role]}
        /\ DOMAIN tokens' = DOMAIN tokens \cup {t}
        /\ tokens'[t] = [user |-> k.user, revoked |-> FALSE, lapsed |-> FALSE]
        /\ \A x \in DOMAIN tokens : tokens'[x] = tokens[x]
    BY <1>1 DEF StoreToken, GiveSession, Upsert
  <1>3. k.user \in UserIds /\ k.user \in DOMAIN users /\ users[k.user].active
    BY <1>1, <1>2, UserShapes DEF NamesRows, CurrentUser, OfUser
  <1>4. Standing[k.user] = "active"
    BY <1>3, StandingIs
  <1>5. LiveTokens' = LiveTokens \cup {t} /\ t \notin DOMAIN Holder \cup Spent /\ Spent' = Spent
    BY <1>2 DEF LiveTokens, Holder, Spent
  <1>6. Holder' = [x \in DOMAIN Holder \cup {t} |-> IF x = t THEN k.user ELSE Holder[x]]
    <2>1. DOMAIN Holder' = DOMAIN Holder \cup {t} /\ t \notin DOMAIN Holder
      BY <1>5 DEF Holder
    <2>2. Holder'[t] = k.user
      BY <1>2, <1>5 DEF Holder
    <2>3. \A x \in DOMAIN Holder : Holder'[x] = Holder[x]
      BY <1>2, <1>5 DEF Holder, LiveTokens
    <2>4. Holder' = [x \in DOMAIN Holder' |-> Holder'[x]]
      BY DEF Holder
    <2> QED BY <2>1, <2>2, <2>3, <2>4
  <1> QED BY <1>2, <1>3, <1>4, <1>5, <1>6, UsersSeen, BadgeAdmits DEF BookAdvances

\* An account is opened with the password of the form.
LEMMA InsertAdvances ==
    ASSUME UserTablesOK, NEW u \in UserIds, NEW e \in Emails, NEW w \in Passwords,
           InsertUser(u, e, w), UNCHANGED <<tokens, badges>>
    PROVE  BookAdvances
  <1>1. /\ u \notin DOMAIN users /\ DOMAIN users' = DOMAIN users \cup {u}
        /\ users'[u].active /\ users'[u].password = w
        /\ \A x \in DOMAIN users : users'[x] = users[x]
    <2>1. /\ u \notin DOMAIN users /\ DOMAIN users' = DOMAIN users \cup {u}
          /\ users'[u] = NewUser(e, w) /\ \A x \in DOMAIN users : users'[x] = users[x]
      BY InsertUserIs
    <2> QED BY <2>1 DEF NewUser
  <1>2. Standing[u] = "none" /\ Standing'[u] = "active" /\ Secret'[u] = w
    BY <1>1, StandingIs
  <1>3. \A x \in UserIds : x # u => Standing'[x] = Standing[x] /\ Secret'[x] = Secret[x]
    BY <1>1, StandingIs
  <1>4. Standing' = [Standing EXCEPT ![u] = "active"] /\ Secret' = [Secret EXCEPT ![u] = w]
    BY <1>2, <1>3 DEF Standing, Secret
  <1> QED BY <1>2, <1>4, TokensSeen, BadgesSeen DEF BookAdvances

\* A save of what is current changes one thing at most.
LEMMA SaveAdvances ==
    ASSUME BackofficeInductive, alone, NEW c \in Calls, SaveUser(c)
    PROVE  BookAdvances
  <1>1. PICK k \in Calling : k = call[c] /\ NamesRows(k) /\ CurrentUser(k)
    BY DEF BackofficeInductive, Overlapping, CallsOK, AloneOK, Current
  <1>2. /\ k.step \in {"save", "save_avatar"} /\ UNCHANGED <<tokens, badges>>
        /\ DOMAIN users' = DOMAIN users \cup {k.user} /\ users'[k.user] = k.row
        /\ \A x \in DOMAIN users : x # k.user => users'[x] = users[x]
    BY <1>1 DEF SaveUser, Upsert
  <1>3. /\ k.user \in UserIds /\ k.user \in DOMAIN users /\ k.row \in UserRow
        /\ users[k.user] \in UserRow
    BY <1>1, <1>2, UserShapes
       DEF NamesRows, OfUser, BackofficeInductive, BackofficeTypeOK, AccountTablesOK, UserTablesOK
  <1>4. \/ k.row.active = users[k.user].active
        \/ k.row.password = users[k.user].password
    BY <1>1, <1>2 DEF CurrentUser
  <1>5. \A x \in UserIds : x # k.user => Standing'[x] = Standing[x] /\ Secret'[x] = Secret[x]
    BY <1>2, StandingIs
  <1>6. /\ Standing[k.user] = IF users[k.user].active THEN "active" ELSE "suspended"
        /\ Standing'[k.user] = IF k.row.active THEN "active" ELSE "suspended"
        /\ Secret[k.user] = users[k.user].password /\ Secret'[k.user] = k.row.password
    BY <1>2, <1>3, StandingIs
  <1>7. UNCHANGED <<Holder, Spent, Admitted>>
    BY <1>2, TokensSeen, BadgesSeen
  <1>8. k.row.active \in BOOLEAN /\ users[k.user].active \in BOOLEAN /\ k.row.password \in Passwords
    BY <1>3 DEF UserRow
  <1>9. CASE k.row.active = users[k.user].active
    <2>1. Standing'[k.user] = Standing[k.user] /\ Standing[k.user] # "none"
      BY <1>6, <1>9
    <2>2. UNCHANGED Standing
      BY <1>5, <2>1 DEF Standing
    <2>3. Secret' = [Secret EXCEPT ![k.user] = k.row.password]
      BY <1>5, <1>6 DEF Secret
    <2> QED BY <1>3, <1>7, <1>8, <2>1, <2>2, <2>3 DEF BookAdvances
  <1>10. CASE k.row.active # users[k.user].active
    <2>1. UNCHANGED Secret
      BY <1>4, <1>5, <1>6, <1>10 DEF Secret
    <2>2. CASE users[k.user].active
      <3>1. Standing[k.user] = "active" /\ Standing'[k.user] = "suspended"
        BY <1>6, <1>8, <1>10, <2>2
      <3>2. Standing' = [Standing EXCEPT ![k.user] = "suspended"]
        BY <1>5, <3>1 DEF Standing
      <3> QED BY <1>3, <1>7, <2>1, <3>1, <3>2 DEF BookAdvances
    <2>3. CASE ~users[k.user].active
      <3>1. Standing[k.user] = "suspended" /\ Standing'[k.user] = "active"
        BY <1>6, <1>8, <1>10, <2>3
      <3>2. Standing' = [Standing EXCEPT ![k.user] = "active"]
        BY <1>5, <3>1 DEF Standing
      <3> QED BY <1>3, <1>7, <2>1, <3>1, <3>2 DEF BookAdvances
    <2> QED BY <2>2, <2>3
  <1> QED BY <1>9, <1>10

\* A token that is revoked or lapses closes its session, if that was still open.
LEMMA CloseAdvances ==
    ASSUME UserTablesOK, NEW t \in TokenIds, Logout(t) \/ TokenLapses(t)
    PROVE  BookAdvances
  <1>1. /\ t \in DOMAIN tokens /\ UNCHANGED <<users, badges>>
        /\ \/ tokens' = [tokens EXCEPT ![t].revoked = TRUE]
           \/ tokens' = [tokens EXCEPT ![t].lapsed = TRUE]
    BY DEF Logout, TokenLapses, Revoke
  <1>2. PICK row \in TokenRow : row = tokens[t]
    BY <1>1 DEF UserTablesOK
  <1>3. PICK new \in TokenRow : new = tokens'[t] /\ new.user = row.user /\ (new.revoked \/ new.lapsed)
    <2>1. \/ tokens'[t] = [row EXCEPT !.revoked = TRUE]
          \/ tokens'[t] = [row EXCEPT !.lapsed = TRUE]
      BY <1>1, <1>2
    <2>2. /\ [row EXCEPT !.revoked = TRUE] \in TokenRow /\ [row EXCEPT !.lapsed = TRUE] \in TokenRow
          /\ [row EXCEPT !.revoked = TRUE].user = row.user /\ [row EXCEPT !.lapsed = TRUE].user = row.user
          /\ [row EXCEPT !.revoked = TRUE].revoked /\ [row EXCEPT !.lapsed = TRUE].lapsed
      BY DEF TokenRow
    <2> QED BY <2>1, <2>2
  <1>4. DOMAIN tokens' = DOMAIN tokens /\ \A x \in DOMAIN tokens : x # t => tokens'[x] = tokens[x]
    BY <1>1
  <1>5. LiveTokens' = LiveTokens \ {t}
    BY <1>1, <1>3, <1>4 DEF LiveTokens
  <1>6. \A x \in LiveTokens' : tokens'[x] = tokens[x]
    BY <1>4, <1>5 DEF LiveTokens
  <1>7. Holder' = [x \in DOMAIN Holder \ {t} |-> Holder[x]]
    BY <1>5, <1>6 DEF Holder
  <1>8. UNCHANGED <<Standing, Secret, Admitted>>
    BY <1>1, UsersSeen, BadgesSeen
  <1>9. CASE t \in LiveTokens
    <2>1. Spent' = Spent \cup {t} /\ t \in DOMAIN Holder
      BY <1>1, <1>4, <1>5, <1>9 DEF Spent, Holder, LiveTokens
    <2> QED BY <1>7, <1>8, <2>1 DEF BookAdvances
  <1>10. CASE t \notin LiveTokens
    <2>1. Spent' = Spent /\ LiveTokens' = LiveTokens
      BY <1>1, <1>4, <1>5, <1>10 DEF Spent, LiveTokens
    <2>2. Holder' = Holder
      BY <1>6, <2>1 DEF Holder
    <2> QED BY <1>8, <2>1, <2>2 DEF BookAdvances
  <1> QED BY <1>9, <1>10

\* A command that is alone now was alone before.
LEMMA AloneBefore ==
    ASSUME Begins \/ GoesOn \/ Otherwise, alone'
    PROVE  alone
  BY Zenon DEF Begins, GoesOn, Otherwise

\* A badge less lets one holder go, or none.
LEMMA BadgeLeaves ==
    ASSUME NEW b \in badges, BadgeLapses(b), UserTablesOK
    PROVE  BookAdvances
  <1>1. badges' = badges \ {b} /\ UNCHANGED <<users, tokens>>
    BY DEF BadgeLapses
  <1>2. b.user \in UserIds
    BY DEF UserTablesOK, Badge
  <1>3. CASE \E x \in badges \ {b} : x.user = b.user
    <2>1. Admitted' = Admitted
      BY <1>1, <1>3 DEF Admitted
    <2> QED BY <1>1, <2>1, UsersSeen, TokensSeen DEF BookAdvances
  <1>4. CASE ~\E x \in badges \ {b} : x.user = b.user
    <2>1. Admitted' = Admitted \ {b.user}
      BY <1>1, <1>4 DEF Admitted
    <2> QED BY <1>1, <1>2, <2>1, UsersSeen, TokensSeen DEF BookAdvances
  <1> QED BY <1>3, <1>4

\* Every step of commands that have not overlapped is one of AccountBook, or none.
LEMMA BookSteps ==
    ASSUME BackofficeInductive, [BackofficeNext]_backofficeVars, alone'
    PROVE  BookAdvances
  <1>1. TablesOK /\ Overlapping /\ AloneOK
    BY DEF BackofficeInductive, BackofficeTypeOK, TablesOK
  <1>2. (Begins \/ GoesOn \/ Otherwise) /\ alone
    BY <1>1, StepsAre, AloneBefore
  <1>3. ASSUME UNCHANGED <<users, tokens, badges>> PROVE BookAdvances
    BY <1>3, UsersSeen, TokensSeen, BadgesSeen DEF BookAdvances
  <1>4. ASSUME UNCHANGED userVars PROVE BookAdvances
    BY <1>3, <1>4 DEF userVars
  <1>5. UserTablesOK
    BY <1>1 DEF TablesOK, AccountTablesOK
  <1>6. CASE Begins
    BY <1>4, <1>6 DEF Begins
  <1>7. ASSUME NEW c \in Calls, UserStep(c) PROVE BookAdvances
    <2>1. ASSUME NEW u \in UserIds, InsertStaff(c, u) PROVE BookAdvances
      <3>1. PICK k \in Calling : k = call[c]
        BY <1>1 DEF Overlapping, CallsOK
      <3>2. k.step = "create" /\ InsertUser(u, k.email, k.password) /\ UNCHANGED <<tokens, badges>>
        BY <2>1, <3>1 DEF InsertStaff
      <3>3. k.email \in Emails /\ k.password \in Passwords
        BY <3>2, UserShapes
      <3> QED BY <1>5, <3>2, <3>3, InsertAdvances
    <2> QED BY <1>2, <1>3, <1>7, <2>1, TokenAdvances, SaveAdvances
            DEF UserStep, AssignRole, DeleteOldAvatar
  <1>8. ASSUME NEW c \in Calls, NEW u \in UserIds, NEW p \in PhoneIds, RegisterCustomer(c, u, p)
        PROVE  BookAdvances
    <2>1. PICK k \in Calling : k = call[c]
      BY <1>1 DEF Overlapping, CallsOK
    <2>2. k.step = "register" /\ InsertUser(u, k.email, k.password) /\ UNCHANGED <<tokens, badges>>
      BY <1>8, <2>1 DEF RegisterCustomer, InsertCustomer
    <2>3. k.email \in Emails /\ k.password \in Passwords
      BY <2>2, UserShapes
    <2> QED BY <1>5, <2>2, <2>3, InsertAdvances
  <1>9. CASE GoesOn
    BY <1>4, <1>7, <1>8, <1>9 DEF GoesOn, CallFails
  <1>10. ASSUME UserEvent PROVE BookAdvances
    <2>1. ASSUME NEW t \in TokenIds, Refresh(t) PROVE BookAdvances
      <3>1. /\ t \in LiveTokens /\ users[tokens[t].user].active /\ UNCHANGED <<users, tokens>>
            /\ badges' = badges \cup {[user |-> tokens[t].user, role |-> RoleOf(tokens[t].user)]}
        BY <2>1 DEF Refresh, LiveTokens
      <3>2. tokens[t].user \in DOMAIN users /\ tokens[t].user \in UserIds
        BY <1>5, <3>1 DEF UserTablesOK, LiveTokens
      <3>3. t \in DOMAIN Holder /\ Holder[t] = tokens[t].user /\ Standing[Holder[t]] = "active"
        BY <3>1, <3>2, StandingIs DEF Holder
      <3>4. Admitted' = Admitted \cup {Holder[t]}
        BY <3>1, <3>3, BadgeAdmits
      <3> QED BY <3>1, <3>3, <3>4, UsersSeen, TokensSeen DEF BookAdvances
    <2>2. ASSUME NEW u \in UserIds, NEW f \in Avatars, UploadAvatar(u, f) PROVE BookAdvances
      BY <1>3, <2>2 DEF UploadAvatar
    <2> QED BY <1>5, <1>10, <2>1, <2>2, CloseAdvances, BadgeLeaves DEF UserEvent
  <1>11. CASE Otherwise
    BY <1>4, <1>10, <1>11 DEF Otherwise
  <1> QED BY <1>2, <1>6, <1>9, <1>11

\* Account commands that have not overlapped keep the promises of AccountBook: an
\* account is opened once, a save suspends, reinstates or sets a password and never
\* two of them, and when an access token has run out only an open session of an
\* active account, or a new one, lets its holder in again.
THEOREM BookIsKept == BackofficeSpec => KeepsBook
  <1>1. BackofficeInit => Book!BookInit
    <2> SUFFICES ASSUME BackofficeInit PROVE Book!BookInit
      OBVIOUS
    <2>1. users = NoRows /\ tokens = NoRows /\ badges = {}
      BY DEF BackofficeInit, AccountsInit, UserInit
    <2>2. DOMAIN users = {} /\ DOMAIN tokens = {} /\ LiveTokens = {}
      BY <2>1 DEF NoRows, LiveTokens
    <2>3. [t \in LiveTokens |-> tokens[t].user] = [s \in {} |-> {}]
      BY <2>2
    <2> QED BY <2>1, <2>2, <2>3 DEF Book!BookInit, UsersList
  <1>2. BookAdvances => [Book!BookNext]_(Book!bookVars)
    BY DEF BookAdvances, Standing, Secret, Holder, Spent, Admitted,
           Book!BookNext, Book!bookVars, Book!Open, Book!ChangeSecret, Book!Suspend,
           Book!Reinstate, Book!StartSession, Book!UseSession, Book!CloseSession, Book!Leave
  <1>3. BackofficeInductive /\ [BackofficeNext]_backofficeVars =>
            [alone' => [Book!BookNext]_(Book!bookVars)]_accountVars
    BY <1>2, BookSteps
  <1> QED BY <1>1, <1>3, BackofficeInvariantHolds, PTL DEF BackofficeSpec, KeepsBook

-----------------------------------------------------------------------------
(* The refinement of Programme.                                            *)

\* The abstract state that KeepsProgramme sees, with duty, categories and offered.
Phase ==
    [e \in EventIds |->
        IF e \notin DOMAIN events THEN "none"
        ELSE IF events[e].status = "active" THEN "open" ELSE "closed"]
Address == [e \in EventIds |-> IF e \in DOMAIN events THEN events[e].slug ELSE NoEvent]
Display == DOMAIN covers

\* Events that keep their status and slug are seen as before.
LEMMA EventsSeen ==
    ASSUME DOMAIN events' = DOMAIN events,
           \A e \in DOMAIN events : /\ events'[e].slug = events[e].slug
                                    /\ events'[e].status = events[e].status
    PROVE  UNCHANGED <<Phase, Address>>
  BY DEF Phase, Address

\* A live event is open.
LEMMA LiveIsOpen ==
    ASSUME TablesOK, EventsOK, NEW e, Live(e)
    PROVE  e \in EventIds /\ Phase[e] = "open"
  <1>1. e \in DOMAIN events /\ e \in EventIds /\ events[e] \in EventRow /\ ~events[e].deleted
    BY DEF Live, TablesOK, CatalogueTablesOK, EventTablesOK
  <1>2. events[e].status = "active"
    BY <1>1 DEF EventsOK, EventRow
  <1> QED BY <1>1, <1>2 DEF Phase

\* A step of Programme, or none.
ProgrammeAdvances ==
    \/ UNCHANGED <<Phase, Address, duty, categories, offered, Display>>
    \/ \E s \in EventIds, a \in SlugValue :
         /\ Phase[s] = "none"
         /\ \A x \in EventIds : Address[x] # a
         /\ Phase' = [Phase EXCEPT ![s] = "open"]
         /\ Address' = [Address EXCEPT ![s] = a]
         /\ UNCHANGED <<duty, categories, offered, Display>>
    \/ \E s \in EventIds :
         /\ \/ Phase[s] = "open" /\ Phase' = [Phase EXCEPT ![s] = "closed"]
            \/ Phase[s] = "closed" /\ Phase' = [Phase EXCEPT ![s] = "open"]
         /\ UNCHANGED <<Address, duty, categories, offered, Display>>
    \/ \E s \in EventIds, m \in UserIds :
         /\ \/ Phase[s] = "open" /\ duty' = duty \cup {<<s, m>>}
            \/ duty' = duty \ {<<s, m>>}
         /\ UNCHANGED <<Phase, Address, categories, offered, Display>>
    \/ \E g \in Categories :
         /\ g \notin categories
         /\ categories' = categories \cup {g}
         /\ UNCHANGED <<Phase, Address, duty, offered, Display>>
    \/ \E g \in Categories, s \in EventIds :
         /\ \/ Phase[s] = "open" /\ g \in categories /\ offered' = offered \cup {<<s, g>>}
            \/ offered' = offered \ {<<s, g>>}
         /\ UNCHANGED <<Phase, Address, duty, categories, Display>>
    \/ \E s \in EventIds :
         /\ \/ Phase[s] = "open" /\ Display' = Display \cup {s}
            \/ Display' = Display \ {s}
         /\ UNCHANGED <<Phase, Address, duty, categories, offered>>

\* A save announces, closes or opens one event.
LEMMA StoreAdvances ==
    ASSUME TablesOK, CallsOK, EventsOK, NEW c \in Calls, NEW e \in EventIds, StoreEvent(c, e),
           UNCHANGED <<coverVars, categories, offered>>
    PROVE  ProgrammeAdvances
  <1>1. PICK k \in Calling : k = call[c] /\ CarriesEvent(k)
    BY DEF CallsOK
  <1>2. /\ k.step = "store_event" /\ UNCHANGED duty /\ ~SlugOfOther(e, k.row.slug)
        /\ k.event = NoEvent => e \notin DOMAIN events
        /\ k.event # NoEvent => e = k.event
        /\ DOMAIN events' = DOMAIN events \cup {e} /\ events'[e] = RowOf(e, k.row)
        /\ \A x \in DOMAIN events : x # e => events'[x] = events[x]
    BY <1>1 DEF StoreEvent, Upsert
  <1>3. k.row \in Entity /\ events'[e].slug = k.row.slug /\ events'[e].status = k.row.status
    BY <1>2, EventShapes DEF OfRow, RowOf
  <1>4. k.row.slug \in SlugValue /\ k.row.status \in {"active", "archived"}
    BY <1>3 DEF Entity
  <1>5. UNCHANGED <<duty, categories, offered, Display>>
    BY <1>2 DEF Display, coverVars
  <1>6. \A x \in EventIds : x # e => Phase'[x] = Phase[x] /\ Address'[x] = Address[x]
    BY <1>2 DEF Phase, Address
  <1>7. /\ Phase'[e] = IF k.row.status = "active" THEN "open" ELSE "closed"
        /\ Address'[e] = k.row.slug
    BY <1>2, <1>3 DEF Phase, Address
  <1>8. CASE k.event = NoEvent
    <2>1. e \notin DOMAIN events /\ k.row.status = "active"
      BY <1>1, <1>2, <1>8 DEF CarriesEvent, OfRow
    <2>2. Phase[e] = "none" /\ Phase' = [Phase EXCEPT ![e] = "open"]
          /\ Address' = [Address EXCEPT ![e] = k.row.slug]
      <3>1. Phase[e] = "none" /\ Phase'[e] = "open"
        BY <1>7, <2>1 DEF Phase
      <3>2. Phase' = [Phase EXCEPT ![e] = "open"]
        BY <1>6, <3>1 DEF Phase
      <3>3. Address' = [Address EXCEPT ![e] = k.row.slug]
        BY <1>6, <1>7 DEF Address
      <3> QED BY <3>1, <3>2, <3>3
    <2>3. \A x \in EventIds : Address[x] # k.row.slug
      BY <1>2, <1>4, <2>1, EventAssumption DEF Address, SlugOfOther
    <2> QED BY <1>4, <1>5, <2>2, <2>3 DEF ProgrammeAdvances
  <1>9. CASE k.event # NoEvent
    <2>1. e \in DOMAIN events /\ k.row.slug = events[e].slug
      BY <1>1, <1>2, <1>9 DEF CarriesEvent, OfRow
    <2>2. UNCHANGED Address
      BY <1>6, <1>7, <2>1 DEF Address
    <2>3. Phase[e] = IF events[e].status = "active" THEN "open" ELSE "closed"
      BY <2>1 DEF Phase
    <2>4. CASE Phase'[e] = Phase[e]
      <3>1. UNCHANGED Phase
        BY <1>6, <2>4 DEF Phase
      <3> QED BY <1>5, <2>2, <3>1 DEF ProgrammeAdvances
    <2>5. CASE Phase'[e] = "open" /\ Phase[e] = "closed"
      <3>1. Phase' = [Phase EXCEPT ![e] = "open"]
        BY <1>6, <2>5 DEF Phase
      <3> QED BY <1>5, <2>2, <2>5, <3>1 DEF ProgrammeAdvances
    <2>6. CASE Phase'[e] = "closed" /\ Phase[e] = "open"
      <3>1. Phase' = [Phase EXCEPT ![e] = "closed"]
        BY <1>6, <2>6 DEF Phase
      <3> QED BY <1>5, <2>2, <2>6, <3>1 DEF ProgrammeAdvances
    <2> QED BY <1>7, <2>3, <2>4, <2>5, <2>6
  <1> QED BY <1>8, <1>9

\* The steps of commands on events, covers and categories that are alone: nothing is
\* put on an event that is closed.
LEMMA CatalogueStepAdvances ==
    ASSUME TablesOK, Overlapping, NEW c \in Calls, Current(call[c]), CatalogueStep(c)
    PROVE  ProgrammeAdvances
  <1>1. PICK k \in Calling : k = call[c] /\ NamesRows(k) /\ CurrentEvent(k)
    BY DEF Overlapping, CallsOK, Current
  <1>2. TablesOK /\ CallsOK /\ EventsOK
    BY DEF Overlapping
  <1>3. ASSUME UNCHANGED events PROVE UNCHANGED <<Phase, Address>>
    BY <1>3 DEF Phase, Address
  <1>4. ASSUME UNCHANGED covers PROVE UNCHANGED Display
    BY <1>4 DEF Display
  <1>5. CASE EventStep(c) /\ UNCHANGED <<coverVars, categories, offered>>
    <2>1. UNCHANGED Display
      BY <1>4, <1>5 DEF coverVars
    <2>2. CASE UNCHANGED eventVars
      BY <1>3, <1>5, <2>1, <2>2 DEF ProgrammeAdvances, eventVars
    <2>3. CASE ChangeDuty(c)
      <3>1. /\ k.step \in {"assign", "unassign"} /\ UNCHANGED <<events, agreed>>
            /\ \/ k.step = "assign" /\ duty' = duty \cup {<<k.event, k.user>>}
               \/ duty' = duty \ {<<k.event, k.user>>}
        BY <1>1, <2>3 DEF ChangeDuty
      <3>2. k.event \in EventIds /\ k.user \in UserIds
        BY <3>1, EventShapes
      <3>3. k.step = "assign" => Phase[k.event] = "open"
        BY <1>1, <1>2, LiveIsOpen DEF CurrentEvent
      <3> QED BY <1>3, <1>5, <2>1, <3>1, <3>2, <3>3 DEF ProgrammeAdvances
    <2> QED BY <1>2, <1>5, <2>2, <2>3, StoreAdvances
            DEF EventStep, EnsureUniqueSlug, FindFirstOperator
  <1>6. CASE CoverStep(c) /\ UNCHANGED <<eventVars, categories, offered>>
    <2>1. UNCHANGED <<Phase, Address, duty>>
      BY <1>3, <1>6 DEF eventVars
    <2>2. CASE UNCHANGED covers
      BY <1>4, <1>6, <2>1, <2>2 DEF ProgrammeAdvances
    <2>3. ASSUME NEW s \in AssetSlugs, SaveCover(c, s) PROVE ProgrammeAdvances
      <3>1. k.step = "save_cover" /\ DOMAIN covers' = DOMAIN covers \cup {k.event}
        BY <1>1, <2>3 DEF SaveCover, Upsert
      <3>2. k.event \in EventIds /\ Phase[k.event] = "open"
        BY <1>1, <1>2, <3>1, LiveIsOpen DEF CurrentEvent
      <3> QED BY <1>6, <2>1, <3>1, <3>2 DEF ProgrammeAdvances, Display
    <2>4. CASE RemoveRow(c)
      <3>1. k.step = "remove_row" /\ DOMAIN covers' = DOMAIN covers \ {k.event}
        BY <1>1, <2>4 DEF RemoveRow, Without
      <3>2. k.event \in EventIds
        BY <3>1, CoverShapes
      <3> QED BY <1>6, <2>1, <3>1, <3>2 DEF ProgrammeAdvances, Display
    <2> QED BY <1>6, <2>2, <2>3, <2>4
            DEF CoverStep, DropOldFile, DropOldSlug, RegisterSlug, RemoveFile, RemoveSlug
  <1>7. CASE (InsertCategory(c) \/ OfferCategory(c)) /\ UNCHANGED <<eventVars, coverVars>>
    <2>1. UNCHANGED <<Phase, Address, duty, Display>>
      BY <1>3, <1>4, <1>7 DEF eventVars, coverVars
    <2>2. CASE InsertCategory(c)
      <3>1. /\ k.step = "add_category" /\ k.category \notin categories
            /\ categories' = categories \cup {k.category} /\ UNCHANGED offered
        BY <1>1, <2>2 DEF InsertCategory
      <3>2. k.category \in Categories
        BY <3>1, EventShapes
      <3> QED BY <2>1, <3>1, <3>2 DEF ProgrammeAdvances
    <2>3. CASE OfferCategory(c)
      <3>1. /\ k.step = "offer" /\ offered' = offered \cup {<<k.event, k.category>>}
            /\ UNCHANGED categories
        BY <1>1, <2>3 DEF OfferCategory
      <3>2. k.category \in Categories /\ k.event \in EventIds /\ k.category \in categories
        BY <1>1, <3>1, EventShapes DEF NamesRows
      <3>3. Phase[k.event] = "open"
        BY <1>1, <1>2, <3>1, LiveIsOpen DEF CurrentEvent
      <3> QED BY <2>1, <3>1, <3>2, <3>3 DEF ProgrammeAdvances
    <2> QED BY <1>7, <2>2, <2>3
  <1> QED BY <1>5, <1>6, <1>7 DEF CatalogueStep

\* Requests of one statement change no status, and withdraw a category at most.
LEMMA CatalogueEventAdvances ==
    ASSUME TablesOK, Overlapping, CatalogueEvent
    PROVE  ProgrammeAdvances
  <1>1. ASSUME NEW e \in EventIds, NEW config \in Configs \cup {NoConfig}, SetPricingConfig(e, config),
               UNCHANGED <<coverVars, categories, offered>>
        PROVE  ProgrammeAdvances
    <2>1. \A x \in DOMAIN events : events[x] \in EventRow
      BY DEF TablesOK, CatalogueTablesOK, EventTablesOK
    <2>2. events' = [events EXCEPT ![e].pricing = config] /\ UNCHANGED duty
      BY <1>1 DEF SetPricingConfig
    <2>3. DOMAIN events' = DOMAIN events
          /\ \A x \in DOMAIN events : events'[x].slug = events[x].slug /\ events'[x].status = events[x].status
      BY <2>1, <2>2 DEF EventRow
    <2> QED BY <1>1, <2>2, <2>3, EventsSeen DEF ProgrammeAdvances, Display, coverVars
  <1>2. ASSUME NEW e \in EventIds, NEW f \in CoverFiles, UploadCover(e, f),
               UNCHANGED <<eventVars, categories, offered>>
        PROVE  ProgrammeAdvances
    BY <1>2, EventsSeen DEF ProgrammeAdvances, UploadCover, Display, eventVars
  <1>3. ASSUME NEW e \in EventIds, NEW n \in Categories, UnassignCategory(e, n),
               UNCHANGED <<eventVars, coverVars>>
        PROVE  ProgrammeAdvances
    <2>1. UNCHANGED <<Phase, Address, duty, Display>>
      BY <1>3, EventsSeen DEF Display, eventVars, coverVars
    <2> QED BY <1>3, <2>1 DEF ProgrammeAdvances, UnassignCategory
  <1> QED BY <1>1, <1>2, <1>3 DEF CatalogueEvent, PricingCommand

\* Every step of commands that have not overlapped is one of Programme, or none.
LEMMA ProgrammeSteps ==
    ASSUME BackofficeInductive, [BackofficeNext]_backofficeVars, alone'
    PROVE  ProgrammeAdvances
  <1>1. TablesOK /\ Overlapping /\ AloneOK
    BY DEF BackofficeInductive, BackofficeTypeOK, TablesOK
  <1>2. (Begins \/ GoesOn \/ Otherwise) /\ alone
    BY <1>1, StepsAre, AloneBefore
  <1>3. ASSUME UNCHANGED catalogueVars PROVE ProgrammeAdvances
    BY <1>3, EventsSeen DEF ProgrammeAdvances, catalogueVars, eventVars, coverVars, Display
  <1>4. \A c \in Calls : Current(call[c])
    BY <1>1, <1>2 DEF AloneOK
  <1>5. CASE GoesOn
    BY <1>1, <1>3, <1>4, <1>5, CatalogueStepAdvances DEF GoesOn
  <1>6. CASE Begins \/ Otherwise
    BY <1>1, <1>3, <1>6, CatalogueEventAdvances DEF Begins, Otherwise
  <1> QED BY <1>2, <1>5, <1>6

\* Catalogue commands that have not overlapped keep the promises of Programme: an
\* event is announced once at an address of its own, saves only close and open it,
\* and no operator, category or cover comes on it while it is closed.
THEOREM ProgrammeIsKept == BackofficeSpec => KeepsProgramme
  <1>1. BackofficeInit => Show!ProgrammeInit
    <2> SUFFICES ASSUME BackofficeInit PROVE Show!ProgrammeInit
      OBVIOUS
    <2>1. events = NoRows /\ covers = NoRows /\ duty = {} /\ categories = {} /\ offered = {}
      BY DEF BackofficeInit, CatalogueInit, EventInit, CoverInit
    <2>2. DOMAIN events = {} /\ DOMAIN covers = {}
      BY <2>1 DEF NoRows
    <2> QED BY <2>1, <2>2 DEF Show!ProgrammeInit
  <1>2. ProgrammeAdvances => [Show!ProgrammeNext]_(Show!programmeVars)
    BY DEF ProgrammeAdvances, Phase, Address, Display,
           Show!ProgrammeNext, Show!programmeVars, Show!AnnounceShow, Show!CloseShow,
           Show!ReopenShow, Show!Join, Show!Quit, Show!AddGenre, Show!Offer, Show!Withdraw,
           Show!PutCover, Show!TakeCover
  <1>3. BackofficeInductive /\ [BackofficeNext]_backofficeVars =>
            [alone' => [Show!ProgrammeNext]_(Show!programmeVars)]_backofficeVars
    BY <1>2, ProgrammeSteps
  <1> QED BY <1>1, <1>3, BackofficeInvariantHolds, PTL DEF BackofficeSpec, KeepsProgramme

-----------------------------------------------------------------------------
(* Price lists and bills.                                                  *)

\* What the comparison of the sort puts before what.
TierOrder(tiers) ==
    {pair \in (DOMAIN tiers) \X (DOMAIN tiers) : Precedes(tiers, pair[1], pair[2])}

\* The tiers in the order of the calculator: each of them once, by its minimum.
LEMMA TiersInOrder ==
    ASSUME NEW tiers \in Seq(TierType)
    PROVE  \E at \in Bijection(DOMAIN tiers, DOMAIN tiers) :
             /\ InOrder(tiers) = [n \in DOMAIN tiers |-> tiers[at[n]]]
             /\ \A m, n \in DOMAIN tiers : m < n => tiers[at[m]].min <= tiers[at[n]].min
  <1> DEFINE D == DOMAIN tiers  R == TierOrder(tiers)  place == Place(R, D)
             at == [n \in D |-> CHOOSE i \in D : place[i] = n]
  <1>1. /\ D = 1 .. Len(tiers) /\ Len(tiers) \in Nat
        /\ \A i \in D : i \in Int /\ tiers[i].min \in Int
    <2>1. D = 1 .. Len(tiers) /\ Len(tiers) \in Nat /\ \A i \in D : tiers[i] \in TierType
      OBVIOUS
    <2>2. \A t \in TierType : t.min \in Int
      BY DEF TierType
    <2> QED BY <2>1, <2>2
  <1>2. IsFiniteSet(D) /\ Cardinality(D) = Len(tiers)
    BY <1>1, FS_Interval
  <1>3. Orders(R, D)
    <2>1. \A i, j \in D : <<i, j>> \in R <=> Precedes(tiers, i, j)
      BY DEF TierOrder
    <2> HIDE DEF R, D
    <2>2. \A i \in D : ~Precedes(tiers, i, i)
      BY <1>1 DEF Precedes
    <2>3. \A i, j, k \in D :
            Precedes(tiers, i, j) /\ Precedes(tiers, j, k) => Precedes(tiers, i, k)
      BY <1>1 DEF Precedes
    <2>4. \A i, j \in D : i = j \/ Precedes(tiers, i, j) \/ Precedes(tiers, j, i)
      BY <1>1 DEF Precedes
    <2> QED BY <2>1, <2>2, <2>3, <2>4 DEF Orders
  <1>4. place \in Bijection(D, D) /\ \A i, j \in D : <<i, j>> \in R <=> place[i] < place[j]
    <2>1. D = 1 .. Cardinality(D)
      BY <1>1, <1>2
    <2> HIDE DEF D, R
    <2> QED BY <1>2, <1>3, <2>1, PlacesTaken
  <1>5. \A n \in D : at[n] \in D /\ place[at[n]] = n
    <2> HIDE DEF place, D
    <2> QED BY <1>4 DEF Bijection, Surjection
  <1>6. at \in Bijection(D, D)
    <2>1. \A m, n \in D : at[m] = at[n] => m = n
      <3> HIDE DEF at, place
      <3> QED BY <1>5
    <2>2. \A i \in D : \E n \in D : at[n] = i
      <3> SUFFICES ASSUME NEW i \in D PROVE at[place[i]] = i /\ place[i] \in D
        OBVIOUS
      <3>1. place[i] \in D
        <4> HIDE DEF place, D
        <4> QED BY <1>4 DEF Bijection, Injection
      <3>2. at[place[i]] \in D /\ place[at[place[i]]] = place[i]
        <4> HIDE DEF at, place
        <4> QED BY <1>5, <3>1
      <3> HIDE DEF at, place, D
      <3> QED BY <1>4, <3>1, <3>2 DEF Bijection, Injection, IsInjective
    <2>3. at \in [D -> D]
      <3> HIDE DEF place
      <3> QED BY <1>5
    <2> HIDE DEF at, D
    <2> QED BY <2>1, <2>2, <2>3 DEF Bijection, Injection, Surjection, IsInjective
  <1>7. \A m, n \in D : m < n => tiers[at[m]].min <= tiers[at[n]].min
    <2> SUFFICES ASSUME NEW m \in D, NEW n \in D, m < n
                 PROVE  tiers[at[m]].min <= tiers[at[n]].min
      OBVIOUS
    <2>1. at[m] \in D /\ at[n] \in D /\ <<at[m], at[n]>> \in R
      <3> HIDE DEF at, place, R, D
      <3> QED BY <1>4, <1>5
    <2>2. Precedes(tiers, at[m], at[n])
      <3> HIDE DEF at
      <3> QED BY <2>1 DEF TierOrder
    <2> HIDE DEF at, D
    <2> QED BY <1>1, <2>1, <2>2 DEF Precedes
  <1>8. InOrder(tiers) = [n \in D |-> tiers[at[n]]]
    <2>1. \A i \in D : place[i] = Cardinality({j \in D : Precedes(tiers, j, i)}) + 1
      <3> SUFFICES ASSUME NEW i \in D
                   PROVE  Earlier(i, R, D) = {j \in D : Precedes(tiers, j, i)}
        BY DEF Place
      <3> QED BY DEF Earlier, TierOrder
    <2>2. ASSUME NEW n \in D
          PROVE  (CHOOSE i \in D : Cardinality({j \in D : Precedes(tiers, j, i)}) + 1 = n) = at[n]
      <3> DEFINE there == CHOOSE i \in D : Cardinality({j \in D : Precedes(tiers, j, i)}) + 1 = n
      <3>1. at[n] \in D /\ Cardinality({j \in D : Precedes(tiers, j, at[n])}) + 1 = n
        <4> HIDE DEF at, place
        <4> QED BY <1>5, <2>1
      <3>2. there \in D /\ Cardinality({j \in D : Precedes(tiers, j, there)}) + 1 = n
        <4> HIDE DEF at, place, D
        <4> QED BY <3>1
      <3>3. place[there] = place[at[n]]
        <4> HIDE DEF at, place, there
        <4> QED BY <1>5, <2>1, <3>2
      <3> HIDE DEF at, place, there, D
      <3> QED BY <1>4, <3>1, <3>2, <3>3 DEF Bijection, Injection, IsInjective, there
    <2>3. InOrder(tiers) = [n \in D |->
            tiers[CHOOSE i \in D : Cardinality({j \in D : Precedes(tiers, j, i)}) + 1 = n]]
      BY DEF InOrder
    <2> HIDE DEF at
    <2> QED BY <2>2, <2>3
  <1> HIDE DEF at
  <1> QED BY <1>6, <1>7, <1>8

\* S lists the tiers in the order of the calculator, and at[q] is the place of the
\* one that it takes for q.
Sorting(tiers, S, at) ==
    /\ \A m, n \in 1 .. Len(tiers) : m < n => S[m].min <= S[n].min
    /\ \A n \in 1 .. Len(tiers) : ValidTier(S[n]) /\ \E i \in DOMAIN tiers : S[n] = tiers[i]
    /\ \A q \in 1 .. MaxPhotos : \A m, n \in 1 .. Len(tiers) :
         Matches(S[m], q) /\ Matches(S[n], q) => m = n
    /\ \A q \in 1 .. MaxPhotos : Covered(q, tiers) =>
         /\ at[q] \in 1 .. Len(tiers)
         /\ Matches(S[at[q]], q)
         /\ Calculate(q, tiers).tier = S[at[q]]
         /\ Calculate(q, tiers).unit = S[at[q]].price
         /\ Calculate(q, tiers).missing
              = IF at[q] < Len(tiers) THEN S[at[q] + 1].min - q ELSE 0

\* Of tiers that do not overlap the calculator takes the one for the quantity, and
\* the next one starts where it says.
LEMMA CalculatorTakes ==
    ASSUME NEW tiers \in Seq(TierType), \A i \in DOMAIN tiers : ValidTier(tiers[i]), Disjoint(tiers)
    PROVE  \E S \in [1 .. Len(tiers) -> TierType], at \in [1 .. MaxPhotos -> Int] :
             Sorting(tiers, S, at)
  <1> DEFINE D == DOMAIN tiers  S == InOrder(tiers)
  <1>0. D = 1 .. Len(tiers) /\ Len(tiers) \in Nat /\ \A i \in D : tiers[i] \in TierType
    OBVIOUS
  <1>1. PICK to \in Bijection(D, D) :
           /\ S = [n \in D |-> tiers[to[n]]]
           /\ \A m, n \in D : m < n => tiers[to[m]].min <= tiers[to[n]].min
    BY TiersInOrder
  <1>2. /\ to \in [D -> D]
        /\ \A m, n \in D : to[m] = to[n] => m = n
        /\ \A i \in D : \E n \in D : to[n] = i
    <2> HIDE DEF D
    <2> QED BY <1>1 DEF Bijection, Injection, Surjection, IsInjective
  <1>3. DOMAIN S = D /\ \A n \in D : S[n] = tiers[to[n]]
    BY <1>1
  <1> HIDE DEF S
  <1>4. S \in [D -> TierType] /\ Len(S) = Len(tiers)
    <2>1. \A n \in D : S[n] \in TierType
      BY <1>0, <1>2, <1>3
    <2>2. S = [n \in D |-> S[n]]
      BY <1>1, <1>3
    <2>3. S \in [1 .. Len(tiers) -> TierType]
      BY <1>0, <2>1, <2>2
    <2> QED BY <1>0, <2>3
  <1>5. \A m, n \in D : m < n => S[m].min <= S[n].min
    <2> HIDE DEF D
    <2> QED BY <1>1, <1>3
  <1>6. \A n \in D : ValidTier(S[n]) /\ \E i \in D : S[n] = tiers[i]
    BY <1>2, <1>3
  <1>7. ASSUME NEW q \in 1 .. MaxPhotos, NEW m \in D, NEW n \in D, Matches(S[m], q), Matches(S[n], q)
        PROVE  m = n
    <2>1. to[m] \in Taking(q, tiers) /\ to[n] \in Taking(q, tiers)
      BY <1>2, <1>3, <1>7 DEF Taking
    <2>2. to[m] = to[n]
      BY <2>1 DEF Disjoint
    <2> QED BY <1>2, <2>2
  <1> DEFINE first(q) == CHOOSE k \in Taking(q, S) : \A j \in Taking(q, S) : k <= j
             at == [q \in 1 .. MaxPhotos |-> IF Covered(q, tiers) THEN first(q) ELSE 0]
  <1>8. ASSUME NEW q \in 1 .. MaxPhotos, Covered(q, tiers)
        PROVE  first(q) \in D /\ Matches(S[first(q)], q)
    <2>1. PICK i \in D : Matches(tiers[i], q)
      BY <1>8 DEF Covered, Taking
    <2>2. PICK n \in D : to[n] = i
      BY <1>2
    <2>3. n \in Taking(q, S)
      BY <1>3, <2>1, <2>2 DEF Taking
    <2>4. \A j \in Taking(q, S) : j = n
      BY <1>3, <1>7, <2>3 DEF Taking
    <2>5. n <= n
      BY <1>0
    <2>6. first(q) \in Taking(q, S)
      BY <2>3, <2>4, <2>5
    <2> HIDE DEF first
    <2> QED BY <1>3, <2>6 DEF Taking
  <1>9. \A q : /\ Calculate(q, tiers).tier = S[first(q)]
               /\ Calculate(q, tiers).unit = S[first(q)].price
               /\ Calculate(q, tiers).missing = IF first(q) < Len(S) THEN S[first(q) + 1].min - q ELSE 0
    BY DEF Calculate, S
  <1>10. at \in [1 .. MaxPhotos -> Int]
    <2>1. \A q \in 1 .. MaxPhotos : at[q] \in Int
      <3> HIDE DEF first
      <3> QED BY <1>0, <1>8
    <2> HIDE DEF first
    <2> QED BY <2>1
  <1>11. \A q \in 1 .. MaxPhotos : Covered(q, tiers) => at[q] = first(q)
    <2> HIDE DEF first
    <2> QED OBVIOUS
  <1> HIDE DEF at, first
  <1>12. \A q \in 1 .. MaxPhotos : Covered(q, tiers) =>
                  /\ at[q] \in 1 .. Len(tiers)
                  /\ Matches(S[at[q]], q)
                  /\ Calculate(q, tiers).tier = S[at[q]]
                  /\ Calculate(q, tiers).unit = S[at[q]].price
                  /\ Calculate(q, tiers).missing
                       = IF at[q] < Len(tiers) THEN S[at[q] + 1].min - q ELSE 0
    BY <1>0, <1>4, <1>8, <1>9, <1>11
  <1>13. S \in [1 .. Len(tiers) -> TierType]
    BY <1>0, <1>4
  <1>14. \A m, n \in 1 .. Len(tiers) : m < n => S[m].min <= S[n].min
    BY <1>0, <1>5
  <1>15. \A n \in 1 .. Len(tiers) : ValidTier(S[n]) /\ \E i \in DOMAIN tiers : S[n] = tiers[i]
    BY <1>0, <1>6
  <1>16. \A q \in 1 .. MaxPhotos : \A m, n \in 1 .. Len(tiers) :
            Matches(S[m], q) /\ Matches(S[n], q) => m = n
    BY <1>0, <1>7
  <1> HIDE DEF D
  <1>17. Sorting(tiers, S, at)
    BY <1>12, <1>14, <1>15, <1>16 DEF Sorting
  <1> QED BY <1>10, <1>13, <1>17

\* A customer who adds the photos said to be missing gets the next price, and no
\* sooner.
LEMMA NextPrice ==
    ASSUME NEW tiers \in Seq(TierType), \A i \in DOMAIN tiers : ValidTier(tiers[i]), Disjoint(tiers),
           NEW qty \in 1 .. MaxPhotos, Covered(qty, tiers)
    PROVE  LET got == Calculate(qty, tiers) IN
           /\ \E i \in Taking(qty, tiers) : got.unit = tiers[i].price
           /\ \A more \in 1 .. MaxPhotos - qty :
                Covered(qty + more, tiers) =>
                   (Calculate(qty + more, tiers).tier = got.tier
                       <=> got.missing = 0 \/ more < got.missing)
  <1> DEFINE N == 1 .. Len(tiers)
  <1>0. Len(tiers) \in Nat /\ DOMAIN tiers = N /\ MaxPhotos \in Nat
    BY PricingAssumption
  <1>a. PICK S \in [N -> TierType], at \in [1 .. MaxPhotos -> Int] : Sorting(tiers, S, at)
    BY CalculatorTakes
  <1>1. /\ \A m, n \in N : m < n => S[m].min <= S[n].min
        /\ \A n \in N : ValidTier(S[n]) /\ \E i \in DOMAIN tiers : S[n] = tiers[i]
        /\ \A q \in 1 .. MaxPhotos : \A m, n \in N :
             Matches(S[m], q) /\ Matches(S[n], q) => m = n
        /\ \A q \in 1 .. MaxPhotos : Covered(q, tiers) =>
             /\ at[q] \in N
             /\ Matches(S[at[q]], q)
             /\ Calculate(q, tiers).tier = S[at[q]]
             /\ Calculate(q, tiers).unit = S[at[q]].price
             /\ Calculate(q, tiers).missing
                  = IF at[q] < Len(tiers) THEN S[at[q] + 1].min - q ELSE 0
    BY <1>a DEF Sorting
  <1>2. \A n \in N : S[n].min \in Int /\ S[n].max \in Int
    BY <1>1 DEF TierType
  <1> DEFINE i == at[qty]  missing == Calculate(qty, tiers).missing
  <1>3. /\ i \in N /\ Matches(S[i], qty)
        /\ Calculate(qty, tiers).tier = S[i]
        /\ Calculate(qty, tiers).unit = S[i].price
        /\ missing = IF i < Len(tiers) THEN S[i + 1].min - qty ELSE 0
    BY <1>1
  <1> HIDE DEF i, missing, N
  <1>4. \E x \in Taking(qty, tiers) : Calculate(qty, tiers).unit = tiers[x].price
    <2>1. PICK x \in DOMAIN tiers : S[i] = tiers[x]
      BY <1>1, <1>3
    <2>2. x \in Taking(qty, tiers)
      BY <1>3, <2>1 DEF Taking
    <2> QED BY <1>3, <2>1, <2>2
  <1>5. ASSUME NEW r \in 1 .. MaxPhotos, qty <= r, Matches(S[i], r), i < Len(tiers)
        PROVE  S[i + 1].min > r
    <2>1. i + 1 \in N /\ i < i + 1 /\ i # i + 1
      BY <1>0, <1>3, <1>5 DEF N
    <2>2. S[i].min <= S[i + 1].min /\ ValidTier(S[i + 1])
      BY <1>1, <1>3, <2>1
    <2> DEFINE m == S[i + 1].min
    <2>3. m \in Int /\ m >= 1 /\ S[i].min \in Int /\ S[i].max \in Int /\ S[i + 1].max \in Int
      BY <1>2, <1>3, <2>1, <2>2 DEF ValidTier
    <2> SUFFICES ASSUME m <= r PROVE FALSE
      BY <1>0, <2>3
    <2>4. m \in 1 .. MaxPhotos
      BY <1>0, <2>3
    <2>5. Matches(S[i + 1], m)
      BY <2>2, <2>3 DEF Matches, ValidTier
    <2>6. Matches(S[i], m)
      BY <1>5, <2>2, <2>3 DEF Matches
    <2> HIDE DEF m
    <2> QED BY <1>1, <1>3, <2>1, <2>4, <2>5, <2>6
  <1>6. ASSUME NEW more \in 1 .. MaxPhotos - qty, Covered(qty + more, tiers)
        PROVE  Calculate(qty + more, tiers).tier = Calculate(qty, tiers).tier
                 <=> missing = 0 \/ more < missing
    <2> DEFINE r == qty + more  k == at[r]
    <2>1. r \in 1 .. MaxPhotos /\ qty <= r /\ qty \in Int /\ more \in Int /\ more >= 1
      BY <1>0
    <2>2. k \in N /\ Matches(S[k], r) /\ Calculate(r, tiers).tier = S[k]
      BY <1>1, <1>6, <2>1
    <2>3. i < Len(tiers) => missing > 0
      <3> SUFFICES ASSUME i < Len(tiers) PROVE missing > 0
        OBVIOUS
      <3>1. S[i + 1].min > qty
        BY <1>3, <1>5, <2>1
      <3>2. i + 1 \in N
        BY <1>0, <1>3 DEF N
      <3> QED BY <1>2, <1>3, <2>1, <3>1, <3>2
    <2>4. ASSUME S[k] = S[i] PROVE missing = 0 \/ more < missing
      <3>1. CASE i < Len(tiers)
        <4>1. S[i + 1].min > r
          BY <1>5, <2>1, <2>2, <2>4, <3>1
        <4>2. i + 1 \in N
          BY <1>0, <1>3, <3>1 DEF N
        <4> QED BY <1>2, <1>3, <2>1, <3>1, <4>1, <4>2
      <3>2. CASE ~(i < Len(tiers))
        BY <1>3, <3>2
      <3> QED BY <3>1, <3>2
    <2>5. ASSUME missing = 0 \/ more < missing PROVE S[k] = S[i]
      <3>1. k <= i
        <4> SUFFICES ASSUME k > i PROVE FALSE
          BY <1>0, <1>3, <2>2 DEF N
        <4>1. i < Len(tiers) /\ i + 1 \in N /\ (k = i + 1 \/ i + 1 < k)
          BY <1>0, <1>3, <2>2 DEF N
        <4>2. S[i + 1].min <= S[k].min
          BY <1>1, <1>2, <2>2, <4>1
        <4>3. r < S[i + 1].min
          BY <1>2, <1>3, <2>1, <2>3, <2>5, <4>1
        <4>4. S[k].min <= r
          BY <1>2, <2>1, <2>2 DEF Matches
        <4> HIDE DEF r, k
        <4> QED BY <1>2, <2>1, <2>2, <4>1, <4>2, <4>3, <4>4
      <3>2. S[k].min <= S[i].min
        <4>0. k \in Int /\ i \in Int /\ S[i].min \in Int
          BY <1>0, <1>2, <1>3, <2>2 DEF N
        <4>1. CASE k = i
          BY <4>0, <4>1
        <4>2. CASE k < i
          <5> HIDE DEF k
          <5> QED BY <1>1, <1>3, <2>2, <4>2
        <4> HIDE DEF k
        <4> QED BY <3>1, <4>0, <4>1, <4>2
      <3>3. Matches(S[k], qty)
        BY <1>2, <1>3, <2>1, <2>2, <3>2 DEF Matches, NoMax
      <3> QED BY <1>1, <1>3, <2>2, <3>3
    <2> QED BY <1>3, <2>2, <2>4, <2>5
  <1> QED BY <1>4, <1>6 DEF missing

\* For every event with tiers that do not overlap, a customer who adds the photos
\* said to be missing gets the next price, and no sooner.
THEOREM NextPriceIsReached == BackofficeSpec => []NextPriceReached
  <1>1. DefaultTiers \in Seq(TierType) /\ \A i \in DOMAIN DefaultTiers : ValidTier(DefaultTiers[i])
    <2>1. DefaultTiers \in Seq(TierType)
      BY DEF DefaultTiers, Tier, NoMax, TierType
    <2>2. DOMAIN DefaultTiers = 1 .. 4
      BY DEF DefaultTiers
    <2>3. ASSUME NEW i \in 1 .. 4 PROVE ValidTier(DefaultTiers[i])
      <3>1. i = 1 \/ i = 2 \/ i = 3 \/ i = 4
        OBVIOUS
      <3> QED BY <3>1 DEF DefaultTiers, Tier, NoMax, ValidTier
    <2> QED BY <2>1, <2>2, <2>3
  <1>2. ASSUME BackofficeInductive, NEW e \in DOMAIN events
        PROVE  LET tiers == Resolve(events[e].pricing) IN
               tiers \in Seq(TierType) /\ \A i \in DOMAIN tiers : ValidTier(tiers[i])
    <2>1. events[e].pricing \in Configs \cup {NoConfig}
      BY <1>2 DEF BackofficeInductive, BackofficeTypeOK, CatalogueTablesOK, EventTablesOK, EventRow
    <2>2. events[e].pricing \in Configs => events[e].pricing \in Seq(TierType)
      BY EventAssumption
    <2> QED BY <1>1, <2>1, <2>2 DEF Resolve
  <1>3. BackofficeInductive => NextPriceReached
    <2> SUFFICES ASSUME BackofficeInductive, NEW e \in DOMAIN events,
                        Disjoint(Resolve(events[e].pricing)),
                        NEW qty \in 1 .. MaxPhotos, Covered(qty, Resolve(events[e].pricing))
                 PROVE  LET tiers == Resolve(events[e].pricing)  got == Calculate(qty, tiers) IN
                        /\ \E i \in Taking(qty, tiers) : got.unit = tiers[i].price
                        /\ \A more \in 1 .. MaxPhotos - qty :
                             Covered(qty + more, tiers) =>
                                (Calculate(qty + more, tiers).tier = got.tier
                                    <=> got.missing = 0 \/ more < got.missing)
      BY DEF NextPriceReached
    <2> DEFINE tiers == Resolve(events[e].pricing)
    <2>1. tiers \in Seq(TierType) /\ \A i \in DOMAIN tiers : ValidTier(tiers[i])
      BY <1>2
    <2>2. Disjoint(tiers) /\ Covered(qty, tiers)
      OBVIOUS
    <2> HIDE DEF tiers
    <2>3. LET got == Calculate(qty, tiers) IN
           /\ \E i \in Taking(qty, tiers) : got.unit = tiers[i].price
           /\ \A more \in 1 .. MaxPhotos - qty :
                Covered(qty + more, tiers) =>
                   (Calculate(qty + more, tiers).tier = got.tier
                       <=> got.missing = 0 \/ more < got.missing)
      BY <2>1, <2>2, NextPrice
    <2> QED BY <2>3 DEF tiers
  <1> QED BY BackofficeInvariantHolds, <1>3, PTL

-----------------------------------------------------------------------------
(* The till.                                                               *)

\* The default tiers have a price for any number of photos.
LEMMA DefaultPrice ==
    ASSUME NEW q \in Nat, q >= 1
    PROVE  /\ Calculate(q, DefaultTiers).unit \in Int
           /\ Calculate(q, DefaultTiers).subtotal = Calculate(q, DefaultTiers).unit * q
  <1> DEFINE D == DOMAIN DefaultTiers  S == InOrder(DefaultTiers)
             first == CHOOSE k \in Taking(q, S) : \A j \in Taking(q, S) : k <= j
  <1>1. DefaultTiers \in Seq(TierType) /\ D = 1 .. 4
    BY DEF DefaultTiers, Tier, NoMax, TierType
  <1>2. PICK to \in Bijection(D, D) : S = [n \in D |-> DefaultTiers[to[n]]]
    BY <1>1, TiersInOrder
  <1>3. to \in [D -> D] /\ \A i \in D : \E n \in D : to[n] = i
    <2> HIDE DEF D
    <2> QED BY <1>2 DEF Bijection, Injection, Surjection, IsInjective
  <1>4. DOMAIN S = D /\ \A n \in D : S[n] = DefaultTiers[to[n]]
    BY <1>2
  <1>5. \E i \in D : Matches(DefaultTiers[i], q)
    <2>1. CASE q <= 2
      BY <1>1, <2>1 DEF DefaultTiers, Tier, Matches, NoMax
    <2>2. CASE q > 2 /\ q <= 6
      BY <1>1, <2>2 DEF DefaultTiers, Tier, Matches, NoMax
    <2>3. CASE q > 6 /\ q <= 9
      BY <1>1, <2>3 DEF DefaultTiers, Tier, Matches, NoMax
    <2>4. CASE q > 9
      BY <1>1, <2>4 DEF DefaultTiers, Tier, Matches, NoMax
    <2> QED BY <2>1, <2>2, <2>3, <2>4
  <1> HIDE DEF S
  <1>6. Taking(q, S) \subseteq D /\ Taking(q, S) # {}
    <2> HIDE DEF D
    <2> QED BY <1>3, <1>4, <1>5 DEF Taking
  <1>7. first \in D
    <2>1. D \subseteq Nat
      BY <1>1
    <2> QED BY <1>6, <2>1, LeastNatural
  <1>8. S[first].price \in Int
    <2>1. DefaultTiers[to[first]] \in TierType
      <3> HIDE DEF first
      <3>1. to[first] \in D
        <4> HIDE DEF D
        <4> QED BY <1>3, <1>7
      <3>2. \A i \in D : DefaultTiers[i] \in TierType
        <4>1. \A tiers \in Seq(TierType) : \A i \in DOMAIN tiers : tiers[i] \in TierType
          OBVIOUS
        <4> QED BY <1>1, <4>1
      <3> HIDE DEF D
      <3> QED BY <3>1, <3>2
    <2> HIDE DEF first
    <2> QED BY <1>4, <1>7, <2>1 DEF TierType
  <1>9. Calculate(q, DefaultTiers).unit = S[first].price
        /\ Calculate(q, DefaultTiers).subtotal = S[first].price * q
    BY DEF Calculate, S
  <1> HIDE DEF first
  <1> QED BY <1>8, <1>9

\* The lines of a checkout, all priced by the photos of all of them, add up to the
\* price of a purchase of that many.
LEMMA ChargeBills ==
    ASSUME NEW n \in Nat \ {0}, NEW lines \in [1 .. n -> Galleries],
           shown \in [Galleries -> Nat], ChargeCart(lines)
    PROVE  BilledAsPreviewed'
  <1> DEFINE D == 1 .. n
             f == [i \in D |-> shown[lines[i]]]
             qty == FoldFunctionOnSet(+, 0, f, D)
             k == Calculate(qty, DefaultTiers).unit
             bill == [i \in D |-> [event |-> lines[i], qty |-> f[i], subtotal |-> k * f[i]]]
  <1>1. IsFiniteSet(D) /\ f \in [D -> Nat] /\ 1 \in D /\ f[1] > 0
    <2>1. IsFiniteSet(D)
      BY FS_Interval
    <2> QED BY <2>1 DEF ChargeCart
  <1>2. qty \in Nat /\ f[1] <= qty
    <2> HIDE DEF D, f
    <2>1. 0 \in Int
      OBVIOUS
    <2> QED BY <1>1, <2>1, SumIsNatural
  <1>3. qty >= 1
    <2> HIDE DEF f, qty
    <2> QED BY <1>1, <1>2
  <1>4. k \in Int /\ Calculate(qty, DefaultTiers).subtotal = k * qty
    <2> HIDE DEF qty
    <2> QED BY <1>2, <1>3, DefaultPrice
  <1>5. FoldFunctionOnSet(+, 0, [i \in D |-> k * f[i]], D) = k * qty
    <2> HIDE DEF D, f, k
    <2> QED BY <1>1, <1>4, SumIsNatural
  <1>6. charged' = bill
    <2>1. DOMAIN lines = D
      OBVIOUS
    <2>2. Total(lines) = qty
      BY <2>1 DEF Total, FoldFunction
    <2> QED BY <2>1, <2>2 DEF ChargeCart, LinePrice
  <1> DEFINE Sum(field) == FoldFunction(+, 0, [i \in DOMAIN bill |-> bill[i][field]])
  <1>7. Sum("qty") = qty
    <2>1. [i \in DOMAIN bill |-> bill[i].qty] = f
      <3> HIDE DEF k, D
      <3> QED OBVIOUS
    <2>2. DOMAIN f = D
      OBVIOUS
    <2> HIDE DEF bill, f, D
    <2> QED BY <2>1, <2>2 DEF FoldFunction
  <1>8. Sum("subtotal") = k * qty
    <2>1. [i \in DOMAIN bill |-> bill[i].subtotal] = [i \in D |-> k * f[i]]
      <3> HIDE DEF k, D, f
      <3> QED OBVIOUS
    <2> HIDE DEF bill, f, D, k, qty
    <2> QED BY <1>5, <2>1 DEF FoldFunction
  <1>9. Sum("subtotal") = PricingPreview(Sum("qty")).subtotal
    <2> HIDE DEF Sum, qty, k
    <2> QED BY <1>4, <1>7, <1>8 DEF PricingPreview
  <1>10. AsPreviewed(bill)
    <2> HIDE DEF bill
    <2> QED BY <1>9 DEF AsPreviewed
  <1> HIDE DEF bill
  <1> QED BY <1>6, <1>10 DEF BilledAsPreviewed

\* However a purchase is spread over events, its lines add up to the preview.
THEOREM BillsAreAsPreviewed == BackofficeSpec => []BilledAsPreviewed
  <1> DEFINE Till == shown \in [Galleries -> Nat] /\ BilledAsPreviewed
  <1>1. BackofficeInit => Till
    BY DEF BackofficeInit, TillInit, BilledAsPreviewed
  <1>2. Till /\ [BackofficeNext]_backofficeVars => Till'
    <2> SUFFICES ASSUME Till, [BackofficeNext]_backofficeVars PROVE Till'
      OBVIOUS
    <2>1. CASE UNCHANGED tillVars
      BY <2>1 DEF tillVars, BilledAsPreviewed
    <2>2. ASSUME NEW g \in Galleries, NEW n \in 0 .. MaxPhotos, ShowPhotos(g, n)
          PROVE  Till'
      <3>1. n \in Nat
        BY PricingAssumption
      <3> QED BY <2>2, <3>1 DEF ShowPhotos, BilledAsPreviewed
    <2>3. ASSUME NEW n \in 1 .. 2, NEW lines \in [1 .. n -> Galleries], ChargeCart(lines)
          PROVE  Till'
      <3>1. n \in Nat \ {0}
        OBVIOUS
      <3>2. BilledAsPreviewed'
        BY <2>3, <3>1, ChargeBills
      <3>3. UNCHANGED shown
        BY <2>3 DEF ChargeCart
      <3> QED BY <3>2, <3>3
    <2>4. CASE TillStep
      <3>1. CASE \E g \in Galleries, n \in 0 .. MaxPhotos : ShowPhotos(g, n)
        BY <2>2, <3>1
      <3>2. CASE \E lines \in UNION {[1 .. n -> Galleries] : n \in 1 .. 2} : ChargeCart(lines)
        <4> HIDE DEF Till
        <4> QED BY <2>3, <3>2
      <3> QED BY <2>4, <3>1, <3>2 DEF TillStep
    <2>5. UNCHANGED tillVars \/ TillStep
      BY DEF BackofficeNext, backofficeVars
    <2> QED BY <2>1, <2>4, <2>5
  <1> QED BY <1>1, <1>2, PTL DEF BackofficeSpec

=============================================================================

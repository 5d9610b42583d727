------------------------------- MODULE Users -------------------------------
(***************************************************************************)
(* Users, their role, their refresh tokens and their avatar files: the     *)
(* commands of the auth module and of the admin's users module.  A call is *)
(* the handler one client has in flight.  Names and last_login_at, which   *)
(* no guard reads, are left out of the row; the save that carries them     *)
(* writes every other column too and is modelled.                          *)
(***************************************************************************)
EXTENDS Tables

CONSTANTS
    UserIds, Emails, Passwords,
    TokenIds,      \* refresh tokens
    Avatars,       \* file names below users/<id>/avatar/
    NoAvatar,      \* a NULL avatar_storage_key
    Calls          \* commands that may be in flight at once

ASSUME UserAssumption == NoAvatar \notin Avatars

VARIABLES
    users,         \* table users
    roles,         \* table user_roles: the role of a user that has a row there
    tokens,        \* table refresh_tokens
    badges,        \* the access tokens in use: who they name, as what
    shelf,         \* the avatar files in storage: user and name
    torn,          \* history: users whose last avatar confirmation died half way
                   \* or was of a file that was not in storage
    call           \* the handlers in flight

userVars == <<users, roles, tokens, badges, shelf, torn>>

Role == {"admin", "operator", "customer"}
UserRow == [email : Emails, password : Passwords, active : BOOLEAN,
            avatar : Avatars \cup {NoAvatar}]
TokenRow == [user : UserIds, revoked : BOOLEAN, lapsed : BOOLEAN]
Badge == [user : UserIds, role : Role]

Idle == [step |-> "idle"]
\* there is history: the file was in storage when its confirmation came in.
UserCall ==
    [step : {"register"}, email : Emails, password : Passwords]
    \cup [step : {"create"}, email : Emails, password : Passwords, role : Role]
    \cup [step : {"role"}, user : UserIds, role : Role]
    \cup [step : {"token"}, user : UserIds, role : Role]
    \cup [step : {"save"}, user : UserIds, row : UserRow]
    \cup [step : {"save_avatar"}, user : UserIds, row : UserRow, there : BOOLEAN]
    \cup [step : {"unshelve"}, user : UserIds, row : UserRow, file : Avatars, there : BOOLEAN]

UserTablesOK ==
    /\ DOMAIN users \subseteq UserIds
    /\ \A u \in DOMAIN users : users[u] \in UserRow
    /\ DOMAIN roles \subseteq DOMAIN users
    /\ \A u \in DOMAIN roles : roles[u] \in Role
    /\ DOMAIN tokens \subseteq TokenIds
    /\ \A t \in DOMAIN tokens : tokens[t] \in TokenRow /\ tokens[t].user \in DOMAIN users
    /\ badges \subseteq Badge
    /\ shelf \subseteq UserIds \X Avatars
    /\ torn \subseteq UserIds

UserInit ==
    /\ users = NoRows /\ roles = NoRows /\ tokens = NoRows
    /\ badges = {} /\ shelf = {} /\ torn = {}

Goto(c, state) == call' = [call EXCEPT ![c] = state]

Start(c, state) == call[c] = Idle /\ Goto(c, state)

Finish(c) == Goto(c, Idle)

-----------------------------------------------------------------------------
(* The user entity and the repositories.                                   *)

\* User.create
NewUser(e, pw) == [email |-> e, password |-> pw, active |-> TRUE, avatar |-> NoAvatar]

\* email is unique.
EmailTaken(e) == \E u \in DOMAIN users : users[u].email = e

InsertUser(u, e, pw) ==
    /\ u \notin DOMAIN users
    /\ ~EmailTaken(e)
    /\ users' = Upsert(users, u, NewUser(e, pw))

\* The role a token names; a user without a row in user_roles is taken for an
\* operator.
RoleOf(u) == IF u \in DOMAIN roles THEN roles[u] ELSE "operator"

\* RefreshTokenRepository.create, with the access token signed before it
GiveSession(t, u, role) ==
    /\ t \notin DOMAIN tokens
    /\ tokens' = Upsert(tokens, t, [user |-> u, revoked |-> FALSE, lapsed |-> FALSE])
    /\ badges' = badges \cup {[user |-> u, role |-> role]}

\* revokeByHash
Revoke(t) == tokens' = [tokens EXCEPT ![t].revoked = TRUE]

-----------------------------------------------------------------------------
(* auth: register, login, refresh, logout.                                 *)

Register(c, e, pw) ==
    /\ ~EmailTaken(e)
    /\ Start(c, [step |-> "register", email |-> e, password |-> pw])
    /\ UNCHANGED userVars

\* The transaction of AuthUserRepository.register; its row in user_phones is
\* conjoined by module Accounts.
InsertCustomer(c, u) ==
    /\ call[c].step = "register"
    /\ InsertUser(u, call[c].email, call[c].password)
    /\ roles' = Upsert(roles, u, "customer")
    /\ Goto(c, [step |-> "token", user |-> u, role |-> "customer"])
    /\ UNCHANGED <<tokens, badges, shelf, torn>>

Login(c, u, pw) ==
    /\ u \in DOMAIN users
    /\ users[u].active
    /\ users[u].password = pw
    /\ Start(c, [step |-> "token", user |-> u, role |-> RoleOf(u)])
    /\ UNCHANGED userVars

StoreToken(c, t) ==
    /\ call[c].step = "token"
    /\ GiveSession(t, call[c].user, call[c].role)
    /\ Finish(c)
    /\ UNCHANGED <<users, roles, shelf, torn>>

\* Seeded bug: revoked_at is not looked at.
RefreshRevoked(t) ==
    /\ t \in DOMAIN tokens
    /\ ~tokens[t].lapsed
    /\ users[tokens[t].user].active
    /\ badges' = badges \cup {[user |-> tokens[t].user, role |-> RoleOf(tokens[t].user)]}
    /\ UNCHANGED <<users, roles, tokens, shelf, torn, call>>

\* Everything is checked on one answer of the database.
Refresh(t) ==
    /\ t \in DOMAIN tokens
    /\ ~tokens[t].revoked /\ ~tokens[t].lapsed
    /\ users[tokens[t].user].active
    /\ badges' = badges \cup {[user |-> tokens[t].user, role |-> RoleOf(tokens[t].user)]}
    /\ UNCHANGED <<users, roles, tokens, shelf, torn, call>>

Logout(t) ==
    /\ t \in DOMAIN tokens /\ ~tokens[t].revoked
    /\ Revoke(t)
    /\ UNCHANGED <<users, roles, badges, shelf, torn, call>>

\* An access token lasts jwt.accessExpirationSeconds; JwtStrategy looks at nothing
\* else of it.
BadgeLapses(b) ==
    /\ b \in badges
    /\ badges' = badges \ {b}
    /\ UNCHANGED <<users, roles, tokens, shelf, torn, call>>

\* expires_at passes.
TokenLapses(t) ==
    /\ t \in DOMAIN tokens /\ ~tokens[t].lapsed
    /\ tokens' = [tokens EXCEPT ![t].lapsed = TRUE]
    /\ UNCHANGED <<users, roles, badges, shelf, torn, call>>

-----------------------------------------------------------------------------
(* users: what an admin does.                                              *)

CreateUser(c, e, pw, role) ==
    /\ ~EmailTaken(e)
    /\ Start(c, [step |-> "create", email |-> e, password |-> pw, role |-> role])
    /\ UNCHANGED userVars

\* UserWriteRepository.save of a new user
InsertStaff(c, u) ==
    /\ call[c].step = "create"
    /\ InsertUser(u, call[c].email, call[c].password)
    /\ Goto(c, [step |-> "role", user |-> u, role |-> call[c].role])
    /\ UNCHANGED <<roles, tokens, badges, shelf, torn>>

\* ... and of its role, in a call of its own.
AssignRole(c) ==
    /\ call[c].step = "role"
    /\ roles' = Upsert(roles, call[c].user, call[c].role)
    /\ Finish(c)
    /\ UNCHANGED <<users, tokens, badges, shelf, torn>>

Deactivate(c, u) ==
    /\ u \in DOMAIN users
    /\ users[u].active
    /\ Start(c, [step |-> "save", user |-> u, row |-> [users[u] EXCEPT !.active = FALSE]])
    /\ UNCHANGED userVars

Reactivate(c, u) ==
    /\ u \in DOMAIN users
    /\ ~users[u].active
    /\ Start(c, [step |-> "save", user |-> u, row |-> [users[u] EXCEPT !.active = TRUE]])
    /\ UNCHANGED userVars

ResetPassword(c, u, pw) ==
    /\ u \in DOMAIN users
    /\ Start(c, [step |-> "save", user |-> u, row |-> [users[u] EXCEPT !.password = pw]])
    /\ UNCHANGED userVars

\* Only the names change.
UpdateUser(c, u) ==
    /\ u \in DOMAIN users
    /\ Start(c, [step |-> "save", user |-> u, row |-> users[u]])
    /\ UNCHANGED userVars

\* The browser puts the file where GenerateAvatarUrlHandler's URL points.
UploadAvatar(u, f) ==
    /\ u \in DOMAIN users
    /\ shelf' = shelf \cup {<<u, f>>}
    /\ UNCHANGED <<users, roles, tokens, badges, torn, call>>

\* There is an old file, and it is not the one being confirmed.
Replaces(row, f) == row.avatar # NoAvatar /\ row.avatar # f

\* ConfirmAvatarUploadHandler: of any file below the user's prefix.
ConfirmAvatar(c, u, f) ==
    /\ u \in DOMAIN users
    /\ LET there == <<u, f>> \in shelf IN
       Start(c, IF Replaces(users[u], f)
                THEN [step |-> "unshelve", user |-> u, row |-> users[u], file |-> f,
                      there |-> there]
                ELSE [step |-> "save_avatar", user |-> u,
                      row |-> [users[u] EXCEPT !.avatar = f], there |-> there])
    /\ UNCHANGED userVars

DeleteOldAvatar(c) ==
    /\ call[c].step = "unshelve"
    /\ LET u == call[c].user IN
       /\ shelf' = shelf \ {<<u, call[c].row.avatar>>}
       /\ torn' = torn \cup {u}
       /\ Goto(c, [step |-> "save_avatar", user |-> u,
                   row |-> [call[c].row EXCEPT !.avatar = call[c].file],
                   there |-> call[c].there])
    /\ UNCHANGED <<users, roles, tokens, badges>>

\* UserWriteRepository.save of a user loaded earlier
SaveUser(c) ==
    /\ call[c].step \in {"save", "save_avatar"}
    /\ users' = Upsert(users, call[c].user, call[c].row)
    /\ torn' = IF call[c].step = "save" THEN torn
               ELSE IF call[c].there THEN torn \ {call[c].user} ELSE torn \cup {call[c].user}
    /\ Finish(c)
    /\ UNCHANGED <<roles, tokens, badges, shelf>>

-----------------------------------------------------------------------------
\* AuthController and UsersController
UserCommand(c) ==
    \/ \E e \in Emails, pw \in Passwords : Register(c, e, pw)
    \/ \E e \in Emails, pw \in Passwords, role \in {"admin", "operator"} :
         CreateUser(c, e, pw, role)
    \/ \E u \in UserIds, pw \in Passwords : Login(c, u, pw) \/ ResetPassword(c, u, pw)
    \/ \E u \in UserIds : Deactivate(c, u) \/ Reactivate(c, u) \/ UpdateUser(c, u)
    \/ \E u \in UserIds, f \in Avatars : ConfirmAvatar(c, u, f)

UserStep(c) ==
    \/ \E t \in TokenIds : StoreToken(c, t)
    \/ \E u \in UserIds : InsertStaff(c, u)
    \/ AssignRole(c) \/ DeleteOldAvatar(c) \/ SaveUser(c)

\* Requests of one statement, and what happens outside.
UserEvent ==
    \/ \E t \in TokenIds : Refresh(t) \/ Logout(t) \/ TokenLapses(t)
    \/ \E b \in badges : BadgeLapses(b)
    \/ \E u \in UserIds, f \in Avatars : UploadAvatar(u, f)
=============================================================================

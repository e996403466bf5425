------------------------------ MODULE Accounts ------------------------------
(***************************************************************************)
(* User accounts, roles and sessions of the Kafkaesque backend: the rows    *)
(* of users, roles and role_permissions, the JWTs the server has signed,    *)
(* and the HTTP requests in flight.  One action is one SQL statement (or    *)
(* one transaction); what a handler reads in one statement it still holds,  *)
(* as a copy, when it issues the next one.                                  *)
(*                                                                          *)
(* Ids are the UUIDs of users (never reused).  None stands for an absent    *)
(* value: a field a request body leaves out, an unknown permission name,    *)
(* the random password of an SSO account that nobody knows.                 *)
(***************************************************************************)
EXTENDS Naturals, FiniteSets

CONSTANTS
  Ids, Emails, Passwords, Roles, Catalogue, None,
  SystemRoles,      \* roles seeded with is_system = TRUE
  Seeds,            \* permissions the migrations grant to each system role
  DefaultRole,      \* OIDC_DEFAULT_ROLE
  AdminEmail, AdminPassword,  \* bootstrap administrator of the configuration
  StartUsers, StartRoles, StartPerms, StartTokens, \* database at the start
  Slots,            \* requests that can be in flight at once
  Requests,         \* what clients may ask for (bounds a run)
  Faults,           \* subset of {"error", "restart"}
  MaxVersion        \* no request that bumps a token version starts above it

Op == {"login", "oidc", "changePassword", "createUser", "updateUser",
       "deleteUser", "disableUser", "enableUser", "resetPassword",
       "revokeSessions", "createRole", "updateRole", "deleteRole"}

Row == [email: Emails, pw: Passwords \cup {None}, role: Roles,
        active: BOOLEAN, ver: Nat]

\* user_id is None in a token signed for the zero user (uuid.Nil).
Token == [user: Ids \cup {None}, ver: Nat]
NobodysToken == [user |-> None, ver |-> 0]

Request == [op: Op, id: Ids \cup {None}, email: Emails \cup {None},
            role: Roles \cup {None}, active: BOOLEAN \cup {None},
            pw: Passwords \cup {None}, cur: Passwords \cup {None},
            grants: SUBSET (Catalogue \cup {None})]

\* A request of the given operation with an empty body.
Ask(op) == [op |-> op, id |-> None, email |-> None, role |-> None,
            active |-> None, pw |-> None, cur |-> None, grants |-> {}]

\* Bodies that miss a required field are answered before any statement.
Complete(a) ==
  /\ a.op \in {"createUser", "login", "oidc"} => a.email # None
  /\ a.op = "createUser" => a.id = None
  /\ a.op \in {"createUser", "login", "changePassword", "resetPassword"}
       => a.pw # None
  /\ a.op = "changePassword" => a.cur # None
  /\ a.op \in {"createUser", "createRole", "updateRole", "deleteRole"}
       => a.role # None
  /\ a.op \in {"updateUser", "deleteUser", "disableUser", "enableUser",
                "resetPassword", "revokeSessions"} => a.id # None

PC == {"idle", "perm", "load", "email", "role", "assign", "members",
       "guard", "write", "revoke", "reread", "audit"}

Slot == [pc: PC, ask: Request \cup {None}, actor: Ids \cup {None},
         me: Row \cup {None}, snap: Row \cup {None}]

Idle == [pc |-> "idle", ask |-> None, actor |-> None,
         me |-> None, snap |-> None]

ASSUME ConstantsAssumption ==
  /\ None \notin Ids \cup Emails \cup Roles \cup Passwords \cup Catalogue
  /\ None \notin Row \cup Request \cup BOOLEAN
  /\ SystemRoles \subseteq Roles /\ "ADMIN" \in SystemRoles
  /\ Seeds \in [SystemRoles -> SUBSET Catalogue]
  /\ DefaultRole \in Roles
  /\ AdminEmail \in Emails /\ AdminPassword \in Passwords
  /\ Requests \subseteq {a \in Request : Complete(a)}
  /\ MaxVersion \in Nat

\* The database a run starts from is one earlier requests can have left.
ASSUME StartAssumption ==
  /\ DOMAIN StartUsers \subseteq Ids
  /\ StartUsers \in [DOMAIN StartUsers -> Row]
  /\ SystemRoles \subseteq StartRoles /\ StartRoles \subseteq Roles
  /\ StartPerms \in [Roles -> SUBSET Catalogue]
  /\ StartTokens \subseteq Token
  /\ \A t \in StartTokens :
       t.user # None => /\ t.user \in DOMAIN StartUsers
                        /\ t.ver <= StartUsers[t.user].ver
  /\ \A i, j \in DOMAIN StartUsers :
       StartUsers[i].email = StartUsers[j].email => i = j

VARIABLES
  users,     \* table users: a function whose domain is the rows' ids
  used,      \* every id ever given to a row
  audited,   \* ids referenced by audit_logs.user_id
  roles,     \* table roles
  perms,     \* table role_permissions
  issued,    \* every token ever signed
  req        \* the request each slot is serving

vars == <<users, used, audited, roles, perms, issued, req>>

Init == /\ users = StartUsers
        /\ used = DOMAIN StartUsers
        /\ audited = {}
        /\ roles = StartRoles
        /\ perms = StartPerms
        /\ issued = StartTokens
        /\ req = [w \in Slots |-> Idle]

-----------------------------------------------------------------------------
(* The statements of the store and the reads of the handlers.              *)

Live == DOMAIN users

\* What a read, and a statement on table users alone, leave as they are.
OnlyUsers == UNCHANGED <<used, audited, roles, perms, issued>>
NoWrite == OnlyUsers /\ UNCHANGED users

\* UPDATE users SET ... WHERE id = i: no row, no effect, no error.
SetRow(i, row) == users' = [j \in Live |-> IF j = i THEN row ELSE users[j]]

\* The UNIQUE constraint on users.email, seen from a row other than i.
EmailTaken(e, i) == \E j \in Live : j # i /\ users[j].email = e

AddRow(i, row) == /\ users' = [j \in Live \cup {i} |->
                                 IF j = i THEN row ELSE users[j]]
                  /\ used' = used \cup {i}

ActiveAdmins == {i \in Live : users[i].role = "ADMIN" /\ users[i].active}

TokenOf(i, row) == [user |-> i, ver |-> row.ver]

\* What the authentication middleware accepts.
Accepted(t) == /\ t.user \in Live
               /\ users[t.user].active
               /\ users[t.user].ver = t.ver

-----------------------------------------------------------------------------
(* Control of a handler.                                                   *)

PermOf == [createUser |-> "users.create", updateUser |-> "users.update",
           deleteUser |-> "users.delete", disableUser |-> "users.disable",
           enableUser |-> "users.update",
           resetPassword |-> "users.reset_password",
           revokeSessions |-> "users.update", createRole |-> "roles.create",
           updateRole |-> "roles.update", deleteRole |-> "roles.delete"]

Bumping == {"changePassword", "resetPassword", "revokeSessions",
            "disableUser"}

Goto(w, pc) == req' = [req EXCEPT ![w].pc = pc]
Answer(w) == req' = [req EXCEPT ![w] = Idle]
Continue(w, ok, pc) == IF ok THEN Goto(w, pc) ELSE Answer(w)

\* Slip: an omitted role falls back to the actor's.
NewRoleOfActor(r) == IF r.ask.op = "updateUser" /\ r.ask.role # None
                     THEN r.ask.role ELSE r.me.role

\* The role and the active flag updateUser, deleteUser and setUserActive
\* hand to guardLastAdmin: fields left out keep the value of the copy.
NewRole(r) == IF r.ask.op = "updateUser" /\ r.ask.role # None
              THEN r.ask.role ELSE r.snap.role
\* Slip: an omitted active flag is written as it came, as null.
NewActiveOmitted(r) == IF r.ask.op = "updateUser" THEN r.ask.active
                       ELSE r.ask.op = "enableUser"

NewActive(r) == CASE r.ask.op = "updateUser" ->
                       IF r.ask.active # None THEN r.ask.active
                                              ELSE r.snap.active
                  [] r.ask.op = "enableUser" -> TRUE
                  [] OTHER -> FALSE

\* Slip: the last-administrator guard is never consulted.
AfterChecksUnguarded(r) == "write"

\* guardLastAdmin asks the database only when an ADMIN copy is demoted,
\* disabled or deleted.
AfterChecks(r) == IF /\ r.snap.role = "ADMIN"
                     /\ ~(NewRole(r) = "ADMIN" /\ NewActive(r))
                  THEN "guard" ELSE "write"

AfterEmail(r) == IF r.ask.op = "createUser" THEN "write"
                 ELSE IF r.ask.role # None THEN "role"
                 ELSE AfterChecks(r)

AfterLoad(r) == CASE r.ask.op \in {"resetPassword", "revokeSessions"} -> "write"
                  [] r.ask.op = "updateUser" ->
                       IF r.ask.email # None THEN "email" ELSE AfterEmail(r)
                  [] OTHER -> AfterChecks(r)

AfterRole == [createUser |-> "email", updateUser |-> "assign",
              createRole |-> "write", updateRole |-> "write",
              deleteRole |-> "members"]

-----------------------------------------------------------------------------
(* Requests start.                                                         *)

Serve(w, a, i, row, pc) ==
  req' = [req EXCEPT ![w] = [pc |-> pc, ask |-> a, actor |-> i,
                             me |-> row, snap |-> None]]

\* The pool of ids bounds the accounts a run creates.
RoomForNew == Cardinality(Ids \ used) >= Cardinality(Slots)

\* auth.Middleware, for every operation that needs a session.
Begin(w) ==
  /\ req[w].pc = "idle"
  /\ \E t \in issued, a \in Requests :
       /\ a.op \notin {"login", "oidc", "changePassword"}
       /\ Accepted(t)
       /\ a.id # None => a.id \in used
       /\ a.op = "createUser" => RoomForNew
       /\ a.op \in Bumping /\ a.id \in Live => users[a.id].ver < MaxVersion
       /\ Serve(w, a, t.user, users[t.user], "perm")
  /\ NoWrite

\* changePassword: no permission; the current password is compared with the
\* hash the middleware read.
BeginChangePassword(w) ==
  /\ req[w].pc = "idle"
  /\ \E t \in issued, a \in Requests :
       /\ a.op = "changePassword"
       /\ Accepted(t)
       /\ users[t.user].ver < MaxVersion
       /\ a.cur = users[t.user].pw
       /\ Serve(w, [a EXCEPT !.id = t.user], t.user, users[t.user], "write")
  /\ NoWrite

\* Login up to the second read: a failed login is only recorded.
Login(w) ==
  /\ req[w].pc = "idle"
  /\ \E a \in Requests, i \in Live :
       /\ a.op = "login"
       /\ users[i].email = a.email
       /\ LET ok == users[i].active /\ users[i].pw = a.pw
          IN  Serve(w, [a EXCEPT !.id = i], i, users[i],
                    IF ok THEN "reread" ELSE "audit")
  /\ NoWrite

\* oidcCallback for an address the identity provider vouches for.
OidcKnown(w) ==
  /\ req[w].pc = "idle"
  /\ \E a \in Requests, i \in Live :
       /\ a.op = "oidc"
       /\ users[i].email = a.email
       /\ users[i].active
       /\ issued' = issued \cup {TokenOf(i, users[i])}
  /\ UNCHANGED <<users, used, audited, roles, perms, req>>

OidcNew(w) ==
  /\ req[w].pc = "idle"
  /\ \E a \in Requests :
       /\ a.op = "oidc"
       /\ ~EmailTaken(a.email, None)
       /\ RoomForNew
       /\ Serve(w, a, None, None, "write")
  /\ NoWrite

-----------------------------------------------------------------------------
(* Requests go on, one statement at a time.                                *)

At(w, pc, ops) == req[w].pc = pc /\ req[w].ask.op \in ops

\* requirePerm: the permissions of the role the middleware read.
Authorize(w) ==
  /\ req[w].pc = "perm"
  /\ LET r == req[w]
         first == IF r.ask.op \in {"createUser", "createRole", "updateRole",
                                   "deleteRole"} THEN "role" ELSE "load"
     IN  Continue(w, PermOf[r.ask.op] \in perms[r.me.role], first)
  /\ NoWrite

\* loadUser, then the checks that need no statement.
LoadUser(w) ==
  /\ req[w].pc = "load"
  /\ LET a == req[w].ask
         self == a.id = req[w].actor /\ a.op \in {"deleteUser", "disableUser"}
         r == [req[w] EXCEPT !.snap = users[a.id]]
     IN  IF a.id \in Live /\ ~self
         THEN req' = [req EXCEPT ![w] = [r EXCEPT !.pc = AfterLoad(r)]]
         ELSE Answer(w)
  /\ NoWrite

\* GetUserByEmailAny in createUser and updateUser.
CheckEmail(w) ==
  /\ req[w].pc = "email"
  /\ LET a == req[w].ask
     IN  Continue(w, ~EmailTaken(a.email, a.id), AfterEmail(req[w]))
  /\ NoWrite

\* Slip: an unknown role is not answered.
CheckRoleSilent(w) ==
  /\ req[w].pc = "role"
  /\ (req[w].ask.role \in roles) # (req[w].ask.op = "createRole")
  /\ Goto(w, AfterRole[req[w].ask.op])
  /\ NoWrite

\* RoleExists (createUser, updateUser, createRole), GetRole (updateRole,
\* deleteRole).
CheckRole(w) ==
  /\ req[w].pc = "role"
  /\ LET a == req[w].ask
     IN  Continue(w, (a.role \in roles) # (a.op = "createRole"),
                  AfterRole[a.op])
  /\ NoWrite

\* Slip: roles.assign is not asked for.
CheckAssignOpen(w) ==
  /\ req[w].pc = "assign"
  /\ Goto(w, AfterChecks(req[w]))
  /\ NoWrite

\* updateUser: another role than the copy's needs roles.assign.
CheckAssign(w) ==
  /\ req[w].pc = "assign"
  /\ LET r == req[w]
     IN  Continue(w, \/ r.ask.role = r.snap.role
                     \/ "roles.assign" \in perms[r.me.role], AfterChecks(r))
  /\ NoWrite

\* CountActiveAdmins in guardLastAdmin.
GuardLastAdmin(w) ==
  /\ req[w].pc = "guard"
  /\ Continue(w, Cardinality(ActiveAdmins) > 1, "write")
  /\ NoWrite

\* Slips: is_system, or the number of members, is not looked at.
CheckMembersSystem(w) ==
  /\ req[w].pc = "members"
  /\ Continue(w, \A i \in Live : users[i].role # req[w].ask.role, "write")
  /\ NoWrite
CheckMembersCount(w) ==
  /\ req[w].pc = "members"
  /\ Continue(w, req[w].ask.role \in roles \ SystemRoles, "write")
  /\ NoWrite

\* DeleteRole's SELECT of is_system and the number of members.
CheckMembers(w) ==
  /\ req[w].pc = "members"
  /\ LET rid == req[w].ask.role
     IN  Continue(w, /\ rid \in roles \ SystemRoles
                     /\ \A i \in Live : users[i].role # rid, "write")
  /\ NoWrite

\* Slip: no UNIQUE constraint, the earlier look-up is trusted.
InsertUserTrusting(w) ==
  /\ At(w, "write", {"createUser"})
  /\ LET a == req[w].ask
     IN  \E i \in Ids \ used :
           AddRow(i, [email |-> a.email, pw |-> a.pw, role |-> a.role,
                      active |-> a.active # FALSE, ver |-> 1])
  /\ Goto(w, "audit")
  /\ UNCHANGED <<audited, roles, perms, issued>>

\* CreateUser's INSERT; the UNIQUE constraint has the last word.
InsertUser(w) ==
  /\ At(w, "write", {"createUser"})
  /\ LET a == req[w].ask
         row == [email |-> a.email, pw |-> a.pw, role |-> a.role,
                 active |-> a.active # FALSE, ver |-> 1]
     IN  IF EmailTaken(a.email, None)
         THEN Answer(w) /\ UNCHANGED <<users, used>>
         ELSE Goto(w, "audit") /\ \E i \in Ids \ used : AddRow(i, row)
  /\ UNCHANGED <<audited, roles, perms, issued>>

\* The INSERT of GetUserByEmailOrCreateOIDC and the token that follows; the
\* default role is not looked up and nothing is audited.
InsertOidcUser(w) ==
  /\ At(w, "write", {"oidc"})
  /\ LET a == req[w].ask
         row == [email |-> a.email, pw |-> None, role |-> DefaultRole,
                 active |-> TRUE, ver |-> 1]
     IN  IF EmailTaken(a.email, None)
         THEN UNCHANGED <<users, used, issued>>
         ELSE \E i \in Ids \ used :
                /\ AddRow(i, row)
                /\ issued' = issued \cup {TokenOf(i, row)}
  /\ Answer(w)
  /\ UNCHANGED <<audited, roles, perms>>

\* Slip: the whole copy is written back, token_version included.
UpdateUserWhole(w) ==
  /\ At(w, "write", {"updateUser"})
  /\ LET r == req[w]
     IN  SetRow(r.ask.id, [r.snap EXCEPT !.role = NewRole(r),
                                         !.active = NewActive(r)])
  /\ Goto(w, "audit")
  /\ OnlyUsers

\* UpdateUser writes every column from the copy and the body.
UpdateUser(w) ==
  /\ At(w, "write", {"updateUser"})
  /\ LET r == req[w]
         i == r.ask.id
         email == IF r.ask.email # None THEN r.ask.email ELSE r.snap.email
     IN  IF i \in Live
         THEN IF EmailTaken(email, i)
              THEN Answer(w) /\ UNCHANGED users
              ELSE /\ SetRow(i, [users[i] EXCEPT !.email = email,
                                   !.role = NewRole(r), !.active = NewActive(r)])
                   /\ Goto(w, "audit")
         ELSE Goto(w, "audit") /\ UNCHANGED users
  /\ OnlyUsers

\* DeleteUser: audit_logs.user_id forbids deleting a user it refers to.
DeleteUser(w) ==
  /\ At(w, "write", {"deleteUser"})
  /\ LET i == req[w].ask.id
     IN  IF i \in audited
         THEN Answer(w) /\ UNCHANGED users
         ELSE /\ users' = [j \in Live \ {i} |-> users[j]]
              /\ Goto(w, "audit")
  /\ OnlyUsers

\* Slip: enabling starts the account over at the first token_version.
SetUserActiveHard(w) ==
  /\ At(w, "write", {"disableUser", "enableUser"})
  /\ LET i == req[w].ask.id
         on == req[w].ask.op = "enableUser"
     IN  /\ SetRow(i, [users[i] EXCEPT !.active = on, !.ver = 1])
         /\ Goto(w, IF on THEN "audit" ELSE "revoke")
  /\ OnlyUsers

\* SetUserActive; disabling goes on to revoke the sessions.
SetUserActive(w) ==
  /\ At(w, "write", {"disableUser", "enableUser"})
  /\ LET i == req[w].ask.id
         on == req[w].ask.op = "enableUser"
     IN  /\ SetRow(i, [users[i] EXCEPT !.active = on])
         /\ Goto(w, IF on THEN "audit" ELSE "revoke")
  /\ OnlyUsers

\* Slip: the new hash leaves token_version alone.
ResetPasswordOnly(w) ==
  /\ At(w, "write", {"changePassword", "resetPassword"})
  /\ LET a == req[w].ask IN SetRow(a.id, [users[a.id] EXCEPT !.pw = a.pw])
  /\ Goto(w, "audit")
  /\ OnlyUsers

\* ResetPassword, for changePassword and resetUserPassword: one statement.
ResetPassword(w) ==
  /\ At(w, "write", {"changePassword", "resetPassword"})
  /\ LET a == req[w].ask
     IN  SetRow(a.id, [users[a.id] EXCEPT !.pw = a.pw, !.ver = @ + 1])
  /\ Goto(w, "audit")
  /\ OnlyUsers

\* Slip: revoking starts the versions over.
RevokeByReset(w) ==
  /\ At(w, "write", {"revokeSessions"}) \/ At(w, "revoke", {"disableUser"})
  /\ LET i == req[w].ask.id IN SetRow(i, [users[i] EXCEPT !.ver = 1])
  /\ Goto(w, "audit")
  /\ OnlyUsers

\* RevokeUserSessions, asked for or as the second half of disabling.
RevokeUserSessions(w) ==
  /\ At(w, "write", {"revokeSessions"}) \/ At(w, "revoke", {"disableUser"})
  /\ LET i == req[w].ask.id IN SetRow(i, [users[i] EXCEPT !.ver = @ + 1])
  /\ Goto(w, "audit")
  /\ OnlyUsers

\* CreateRole and UpdateRole: one transaction, rolled back when the id is
\* taken (or gone) or a permission is not in the catalogue.
WriteRole(w) ==
  /\ At(w, "write", {"createRole", "updateRole"})
  /\ LET a == req[w].ask
     IN  IF /\ (a.role \in roles) # (a.op = "createRole")
            /\ a.grants \subseteq Catalogue
         THEN /\ roles' = roles \cup {a.role}
              /\ perms' = [perms EXCEPT ![a.role] = a.grants]
              /\ Goto(w, "audit")
         ELSE Answer(w) /\ UNCHANGED <<roles, perms>>
  /\ UNCHANGED <<users, used, audited, issued>>

\* DELETE FROM roles, cascading to role_permissions; nothing ties users.role.
DeleteRole(w) ==
  /\ At(w, "write", {"deleteRole"})
  /\ roles' = roles \ {req[w].ask.role}
  /\ perms' = [perms EXCEPT ![req[w].ask.role] = {}]
  /\ Goto(w, "audit")
  /\ UNCHANGED <<users, used, audited, issued>>

\* The error of the second read is dropped: when it finds nothing or fails, the
\* zero user gets the token, and the audit row names nobody.
SignForNobody(w) ==
  /\ issued' = issued \cup {NobodysToken}
  /\ req' = [req EXCEPT ![w].pc = "audit", ![w].actor = None]

\* Login reads the user again and signs a token with what it finds.
Reread(w) ==
  /\ req[w].pc = "reread"
  /\ LET i == req[w].ask.id
     IN  IF i \in Live
         THEN issued' = issued \cup {TokenOf(i, users[i])} /\ Goto(w, "audit")
         ELSE SignForNobody(w)
  /\ UNCHANGED <<users, used, audited, roles, perms>>

\* InsertAudit: the row refers to the actor, so it fails, unreported, when
\* the actor is gone.
Audit(w) ==
  /\ req[w].pc = "audit"
  /\ audited' = audited \cup ({req[w].actor} \cap Live)
  /\ Answer(w)
  /\ UNCHANGED <<users, used, roles, perms, issued>>

Step(w) ==
  \/ Authorize(w) \/ LoadUser(w) \/ CheckEmail(w) \/ CheckRole(w)
  \/ CheckAssign(w) \/ GuardLastAdmin(w) \/ CheckMembers(w)
  \/ InsertUser(w) \/ InsertOidcUser(w) \/ UpdateUser(w) \/ DeleteUser(w)
  \/ SetUserActive(w) \/ ResetPassword(w) \/ RevokeUserSessions(w)
  \/ WriteRole(w) \/ DeleteRole(w) \/ Reread(w) \/ Audit(w)

-----------------------------------------------------------------------------
(* Faults.                                                                 *)

\* A statement fails (the client hung up and its context is cancelled, the
\* connection is lost).  Most handlers answer an error; a failed look-up by
\* email reads as "free", failed permissions as none, and a failed
\* RevokeUserSessions while disabling is ignored.
StatementFails(w) ==
  /\ "error" \in Faults
  /\ req[w].pc \notin {"idle", "reread"}
  /\ LET r == req[w]
     IN  CASE r.pc = "email" -> Goto(w, AfterEmail(r))
           [] r.pc = "assign" -> Continue(w, r.ask.role = r.snap.role,
                                          AfterChecks(r))
           [] r.pc = "revoke" -> Goto(w, "audit")
           [] OTHER -> Answer(w)
  /\ NoWrite

RereadFails(w) ==
  /\ "error" \in Faults
  /\ req[w].pc = "reread"
  /\ SignForNobody(w)
  /\ UNCHANGED <<users, used, audited, roles, perms>>

\* The process dies and starts again: every migration runs again, then
\* EnsureAdmin.
Restart ==
  /\ "restart" \in Faults
  /\ req' = [w \in Slots |-> Idle]
  /\ roles' = roles \cup SystemRoles
  /\ perms' = [r \in Roles |-> IF r \in SystemRoles
                               THEN perms[r] \cup Seeds[r] ELSE perms[r]]
  /\ IF Live = {} /\ used # Ids
     THEN \E i \in Ids \ used :
            AddRow(i, [email |-> AdminEmail, pw |-> AdminPassword,
                       role |-> "ADMIN", active |-> TRUE, ver |-> 1])
     ELSE UNCHANGED <<users, used>>
  /\ UNCHANGED <<audited, issued>>

Next == \/ \E w \in Slots : \/ Begin(w) \/ BeginChangePassword(w) \/ Login(w)
                            \/ OidcKnown(w) \/ OidcNew(w)
                            \/ Step(w) \/ StatementFails(w) \/ RereadFails(w)
        \/ Restart

Spec == Init /\ [][Next]_vars

\* A handler that has started runs on: the Go scheduler runs every goroutine
\* and no handler waits for another.
FairSpec == Spec /\ \A w \in Slots : WF_vars(Step(w))

-----------------------------------------------------------------------------
(* Properties.                                                             *)

\* Every variable has its type; ids in use, audit references and the
\* domain of perms fit together.
TypeOK ==
  /\ Live \subseteq used /\ used \subseteq Ids
  /\ users \in [Live -> Row]
  /\ audited \subseteq Ids
  /\ roles \subseteq Roles
  /\ perms \in [Roles -> SUBSET Catalogue]
  /\ issued \subseteq Token
  /\ req \in [Slots -> Slot]

\* A token the database no longer vouches for, whatever the active flag
\* says: its user is gone or has a newer token_version.
Revoked(t) == t.user \notin Live \/ users[t.user].ver # t.ver

\* No token is ahead of its user's token_version: token_version only grows
\* and every token carries a version that was current when it was signed, or
\* names nobody.
NoTokenFromFuture ==
  \A t \in issued : /\ t.user \in used \cup {None}
                    /\ t.user \in Live => t.ver <= users[t.user].ver

\* "JWT sessions with revocable token_version": a token that was revoked,
\* or whose user was deleted, is never good again, whatever the other
\* requests in flight write back from their copies (updateUser writes four
\* columns of a row it read several statements earlier).
RevokedStaysRevoked ==
  [][\A t \in issued : Revoked(t) => Revoked(t)']_vars

\* A password never changes under the sessions it opened: when the hash of
\* a user changes, every token signed for that user so far is revoked by the
\* same statement (changePassword and resetUserPassword).
PasswordChangeRevokes ==
  [][\A i \in Live : (i \in Live' /\ users[i].pw # users'[i].pw)
       => \A t \in issued : t.user = i => Revoked(t)']_vars

\* guardLastAdmin: some active ADMIN remains, through updateUser,
\* deleteUser and setUserActive.
AdminRemains == ActiveAdmins # {}

\* DeleteRole refuses a role that is assigned, and createUser and updateUser
\* refuse a role that does not exist: every user's role has a row.
NoDanglingRole == \A i \in Live : users[i].role \in roles

\* Two users never share an address, although createUser, updateUser and the
\* SSO callback look the address up and write it in different statements.
UniqueEmails ==
  \A i, j \in Live : users[i].email = users[j].email => i = j

\* The system roles survive every sequence of role requests, including a
\* deleteRole that decided to delete before another request changed things.
SystemRolesStay == SystemRoles \subseteq roles

\* Only a request whose actor holds roles.assign changes a user's role
\* (updateUser: "Cannot assign roles").
RoleChangeNeedsAssign ==
  [][\A w \in Slots, i \in Live :
       (/\ At(w, "write", {"updateUser"}) /\ req'[w] # req[w]
        /\ i \in Live' /\ users'[i].role # users[i].role)
       => "roles.assign" \in perms[req[w].me.role]]_vars

\* updateUser takes optional fields: what a body leaves out is not changed,
\* although UpdateUser writes every column.
UpdateChangesOnlyNamedFields ==
  [][\A w \in Slots, i \in Live :
       (/\ At(w, "write", {"updateUser"}) /\ req'[w].pc = "audit"
        /\ i \in Live')
       => LET a == req[w].ask
          IN  /\ users'[i].email # users[i].email => a.email # None
              /\ users'[i].role # users[i].role => a.role # None
              /\ users'[i].active # users[i].active => a.active # None]_vars

\* A login compares the password with one read of the row and signs with the
\* version of another.  Only where sessions were revoked in between can the two
\* disagree: a token at the version of the first read is for the password the
\* user has when it is signed, whatever other requests did to the row.
LoginProvesPassword ==
  [][\A w \in Slots, i \in Live :
       (/\ req[w].pc = "reread" /\ req'[w].pc = "audit" /\ req[w].ask.id = i
        /\ TokenOf(i, users[i]) = TokenOf(i, req[w].me))
       => users[i].pw = req[w].ask.pw]_vars

\* Every request is answered.
RequestsFinish ==
  \A w \in Slots : (req[w].pc # "idle") ~> (req[w].pc = "idle")

\* Every interleaving of requests, faults and restarts is a behaviour of the
\* session registry, which knows nothing of requests: tokens are signed at
\* the current version, versions move by one, accounts never come back.
Registry == INSTANCE SessionRegistry WITH
              version <- [i \in Live |-> users[i].ver],
              closed <- used \ Live,
              tokens <- issued,
              StartVersions <- [i \in DOMAIN StartUsers |-> StartUsers[i].ver]
ImplementsRegistry == Registry!Spec
=============================================================================

------------------------------ MODULE AdminPages ------------------------------
(***************************************************************************)
(* The Users and Roles pages in one browser tab: two lists kept by the      *)
(* query cache, the dialogs that work on a copy of a row, and the requests  *)
(* in flight, while other administrators change the same rows.              *)
(*                                                                          *)
(* The server is a table of users and one of roles (their handlers are in   *)
(* Accounts); it applies a request or refuses it in one step, some time     *)
(* before the answer arrives.  A fetch reads a table in one step as well.   *)
(***************************************************************************)
EXTENDS Permissions, FiniteSets

CONSTANTS
  Ids,          \* users, never reused
  Roles, SystemRoles, Grants, None, Asked,
  Me,           \* the signed-in user: [id, role, perms]
  StartUsers, StartRoles,
  OtherUsers,   \* <<user, row>>: what other administrators write meanwhile
  OtherRoles,   \* <<role, row>>
  MaxWrites,    \* bound on the changes of the two tables
  MaxPending,   \* bound on the requests in flight
  Faults        \* "refuse", "reply", and "users": its fetch can fail (after a
                \* failed fetch the Roles page hides its rows: left out)

VARIABLES
  users,    \* table users: row or None
  roles,    \* table roles: grants or None
  clock,    \* changes of the tables so far
  page,     \* the page on the screen
  cache,    \* query results of ["users"] and ["roles"], or None
  fetching, \* per list: None, Asked, or the answer on its way
  stale,    \* lists invalidated since their last answer
  dialog,   \* the open dialog with its copy of a row; history: the request its
            \* form has sent, while that is in flight
  pending,  \* requests in flight
  wrote     \* history, per list: the change an answer reported while its rows
            \* were shown and no rows have come for since, or 0

vars == <<users, roles, clock, page, cache, fetching, stale, dialog, pending,
          wrote>>
server == <<users, roles, clock>>
lists == <<cache, fetching, stale, wrote>>

Lists == {"users", "roles"}
Row == [role : Roles, active : BOOLEAN]
RoleRow == [grants : SUBSET Grants]

Closed == [kind |-> "none", id |-> None, form |-> None, sent |-> None]
Open(kind, id, form) ==
  dialog' = [kind |-> kind, id |-> id, form |-> form, sent |-> None]
Fill(form) == dialog' = [dialog EXCEPT !.form = form]

Ask(op, id, form) ==
  [op |-> op, id |-> id, form |-> form, phase |-> "sent", at |-> 0,
   here |-> TRUE]

ListOf(op) == IF op \in {"createRole", "updateRole", "removeRole"}
              THEN "roles" ELSE "users"

ASSUME AdminAssumption ==
  /\ None \notin Ids \cup Roles \cup Row \cup RoleRow
  /\ Me.id \in Ids /\ "DEVELOPER" \in Roles /\ SystemRoles \subseteq Roles
  /\ StartUsers \in [Ids -> Row \cup {None}] /\ StartUsers[Me.id] # None
  /\ StartRoles \in [Roles -> RoleRow \cup {None}]
  /\ \A i \in Ids : StartUsers[i] # None => StartRoles[StartUsers[i].role] # None
  /\ \A r \in SystemRoles : StartRoles[r] # None
  /\ MaxWrites \in Nat /\ MaxPending \in Nat \ {0}
  /\ Faults \subseteq {"refuse", "reply", "users"}

Members(r) == {i \in Ids : users[i] # None /\ users[i].role = r}

\* What the server answers to a list request.
Listing(q) ==
  [at |-> clock,
   rows |-> IF q = "users" THEN users
            ELSE [r \in Roles |->
                    IF roles[r] = None THEN None
                    ELSE [grants |-> roles[r].grants,
                          free |-> Members(r) = {}]]]

\* The rows on the screen.
Rows(q) == IF cache[q] = None THEN {}
           ELSE {k \in DOMAIN cache[q].rows : cache[q].rows[k] # None}

\* The lists the page shows: the dialogs of the Users page offer the roles.
Active(p) == IF p = "users" THEN Lists ELSE {"roles"}

Init == /\ users = StartUsers /\ roles = StartRoles /\ clock = 0
        /\ page = "users"
        /\ cache = [q \in Lists |-> None]
        /\ fetching = [q \in Lists |-> Asked]
        /\ stale = {} /\ dialog = Closed /\ pending = {}
        /\ wrote = [q \in Lists |-> 0]

-----------------------------------------------------------------------------
(* The query cache.                                                        *)

\* Slip: a fetch in flight is left to finish.
InvalidatedOnly(q) ==
  /\ stale' = stale \cup {q}
  /\ fetching' = [fetching EXCEPT
       ![q] = IF q \in Active(page) /\ @ = None THEN Asked ELSE @]

\* invalidateQueries: a list on the screen is fetched anew, whatever fetch is
\* on its way, but for its first one; another is marked.
Invalidated(q) ==
  /\ stale' = stale \cup {q}
  /\ fetching' = [fetching EXCEPT
       ![q] = IF q \in Active(page) /\ (cache[q] # None \/ @ = None)
              THEN Asked ELSE @]

\* A list on the screen is fetched again: the window gets the focus.
Refetch(q) ==
  /\ q \in Active(page) /\ fetching[q] = None
  /\ fetching' = [fetching EXCEPT ![q] = Asked]
  /\ UNCHANGED <<server, page, cache, stale, dialog, pending, wrote>>

ServeFetch(q) ==
  /\ fetching[q] = Asked
  /\ fetching' = [fetching EXCEPT ![q] = Listing(q)]
  /\ UNCHANGED <<server, page, cache, stale, dialog, pending, wrote>>

FetchArrives(q) ==
  /\ fetching[q] \notin {None, Asked}
  /\ cache' = [cache EXCEPT ![q] = fetching[q]]
  /\ fetching' = [fetching EXCEPT ![q] = None]
  /\ stale' = stale \ {q}
  /\ wrote' = [wrote EXCEPT ![q] = IF @ <= fetching[q].at THEN 0 ELSE @]
  /\ UNCHANGED <<server, page, dialog, pending>>

\* The old rows stay on the screen, and an invalidated list stays marked.
FetchFails(q) ==
  /\ q \in Faults
  /\ fetching[q] # None
  /\ fetching' = [fetching EXCEPT ![q] = None]
  /\ UNCHANGED <<server, page, cache, stale, dialog, pending, wrote>>

\* The other page: dialogs go with the old one, requests go on without it, and
\* what the new one shows is fetched if it is stale.
Visit(p) ==
  /\ p # page
  /\ page' = p
  /\ dialog' = Closed
  /\ pending' = {[m EXCEPT !.here = FALSE] : m \in pending}
  /\ \E old \in SUBSET Active(p) :
       /\ {q \in Active(p) : q \in stale \/ cache[q] = None} \subseteq old
       /\ fetching' = [q \in Lists |-> IF q \in old /\ fetching[q] = None
                                       THEN Asked ELSE fetching[q]]
  /\ UNCHANGED <<server, cache, stale, wrote>>

-----------------------------------------------------------------------------
(* Requests.                                                               *)

\* A button is busy while the last request of its kind is in flight.
Busy(op) == \E m \in pending : m.op = op /\ m.here

\* Room for one more change under the bound.
Room == clock + Cardinality({m \in pending : m.phase = "sent"}) < MaxWrites

Send(m) == /\ Cardinality(pending) < MaxPending /\ Room
           /\ pending' = pending \cup {m}
SendForm(m) == Send(m) /\ dialog' = [dialog EXCEPT !.sent = m]

\* What became of the request a form has sent.
Becomes(m, n) ==
  dialog' = IF dialog.sent = m THEN [dialog EXCEPT !.sent = n] ELSE dialog

\* What the server does with a request it accepts.
Accepts(m) ==
  CASE m.op = "create" -> users[m.id] = None /\ roles[m.form.role] # None
    [] m.op = "update" -> users[m.id] # None /\ roles[m.form.role] # None
    [] m.op \in {"disable", "remove"} -> users[m.id] # None /\ m.id # Me.id
    [] m.op \in {"enable", "reset", "revoke"} -> users[m.id] # None
    [] m.op = "createRole" -> roles[m.id] = None
    [] m.op = "updateRole" -> roles[m.id] # None
    [] m.op = "removeRole" -> /\ m.id \notin SystemRoles /\ Members(m.id) = {}
                              /\ roles[m.id] # None

UsersAfter(m) ==
  [users EXCEPT ![m.id] =
     CASE m.op \in {"create", "update"} -> m.form
       [] m.op = "remove" -> None
       [] m.op = "disable" -> [@ EXCEPT !.active = FALSE]
       [] m.op = "enable" -> [@ EXCEPT !.active = TRUE]
       [] OTHER -> @]

Serve(m) ==
  /\ m \in pending /\ m.phase = "sent" /\ Accepts(m)
  /\ IF ListOf(m.op) = "users"
     THEN users' = UsersAfter(m) /\ UNCHANGED roles
     ELSE /\ roles' = [roles EXCEPT ![m.id] =
                         IF m.op = "removeRole" THEN None ELSE m.form]
          /\ UNCHANGED users
  /\ clock' = clock + 1
  /\ LET done == [m EXCEPT !.phase = "done", !.at = clock + 1]
     IN  pending' = (pending \ {m}) \cup {done} /\ Becomes(m, done)
  /\ UNCHANGED <<page, lists>>

\* The dialog a success closes.
KindOf(op) ==
  CASE op = "create" -> "add" [] op = "update" -> "edit"
    [] op = "remove" -> "delete" [] op = "reset" -> "reset"
    [] op = "createRole" -> "newRole"
    [] op = "updateRole" -> "editRole" [] op = "removeRole" -> "deleteRole"
    [] OTHER -> "no dialog"

\* Revoking sessions refreshes nothing.
Notifies(op) == op # "revoke"

\* onSuccess.
Answered(m) ==
  /\ m \in pending /\ m.phase = "done"
  /\ pending' = pending \ {m}
  /\ IF Notifies(m.op) THEN Invalidated(ListOf(m.op))
                       ELSE UNCHANGED <<stale, fetching>>
  /\ wrote' = IF /\ m.op # "revoke" /\ ListOf(m.op) \in Active(page)
                 /\ cache[ListOf(m.op)] # None
              THEN [wrote EXCEPT ![ListOf(m.op)] = IF @ < m.at THEN m.at ELSE @]
              ELSE wrote
  /\ dialog' = IF m.here /\ dialog.kind = KindOf(m.op) THEN Closed ELSE dialog
  /\ UNCHANGED <<server, page, cache>>

\* onError: a message, and the dialog stays.  The answer of a request that was
\* applied can be lost.
Failed(m) ==
  /\ m \in pending
  /\ \/ m.phase = "sent" /\ (~Accepts(m) \/ "refuse" \in Faults)
     \/ m.phase = "done" /\ "reply" \in Faults
  /\ pending' = pending \ {m} /\ Becomes(m, None)
  /\ UNCHANGED <<server, page, lists>>

\* Another administrator, or a user who signs up by single sign-on.
OtherUserWrite(i, row) ==
  /\ Room /\ <<i, row>> \in OtherUsers /\ row # users[i]
  /\ row # None => roles[row.role] # None
  /\ users' = [users EXCEPT ![i] = row]
  /\ clock' = clock + 1
  /\ UNCHANGED <<roles, page, lists, dialog, pending>>

OtherRoleWrite(r, row) ==
  /\ Room /\ <<r, row>> \in OtherRoles /\ row # roles[r]
  /\ row = None => r \notin SystemRoles /\ Members(r) = {}
  /\ roles' = [roles EXCEPT ![r] = row]
  /\ clock' = clock + 1
  /\ UNCHANGED <<users, page, lists, dialog, pending>>

-----------------------------------------------------------------------------
(* The Users page.  A dialog covers the page: one at a time.               *)

\* PermissionGuard: one permission, or several in mode any or all.
PermissionGuard(p, ps, mode) ==
  IF ps = {} THEN can(Me, p)
  ELSE IF mode = "all" THEN canAll(Me, ps) ELSE canAny(Me, ps)

Idle == dialog = Closed
OnRow(q, k) == page = q /\ Idle /\ k \in Rows(q)
RowOf(q, k) == cache[q].rows[k]

\* Slip: the form starts without a status.
OpenAddBlank ==
  /\ page = "users" /\ Idle
  /\ Open("add", None, [role |-> "DEVELOPER"])
  /\ UNCHANGED <<server, page, lists, pending>>

OpenAdd ==
  /\ page = "users" /\ Idle
  /\ PermissionGuard(<<"users", "create">>, {}, "any")
  /\ Open("add", None, [role |-> "DEVELOPER", active |-> TRUE])
  /\ UNCHANGED <<server, page, lists, pending>>

\* rowActions: the menu of a row works on the row of the current list.
RowAction(i, kind) ==
  /\ OnRow("users", i)
  /\ \/ kind = "view"
     \/ kind = "edit" /\ can(Me, <<"users", "update">>)
     \/ kind = "reset" /\ can(Me, <<"users", "reset_password">>)
     \/ kind = "delete" /\ can(Me, <<"users", "delete">>) /\ i # Me.id
  /\ Open(kind, i, IF kind = "edit" THEN RowOf("users", i) ELSE None)
  /\ UNCHANGED <<server, page, lists, pending>>

Toggle(i) ==
  /\ OnRow("users", i)
  /\ can(Me, <<"users", "disable">>) /\ i # Me.id
  /\ Send(Ask(IF RowOf("users", i).active THEN "disable" ELSE "enable", i, None))
  /\ UNCHANGED <<server, page, lists, dialog>>

RevokeSessions(i) ==
  /\ OnRow("users", i)
  /\ can(Me, <<"users", "update">>)
  /\ Send(Ask("revoke", i, None))
  /\ UNCHANGED <<server, page, lists, dialog>>

\* The roles a form offers: the list, or the system roles until it is there.
RoleOptions == IF Rows("roles") # {} THEN Rows("roles") ELSE Roles \cap ROLES

\* EditUserDialog: the form is a copy made when the dialog opens; without
\* roles.assign the role is shown, not edited, but sent all the same.
EditForm(r, a) ==
  /\ dialog.kind = "edit"
  /\ r = dialog.form.role \/ (can(Me, <<"roles", "assign">>) /\ r \in RoleOptions)
  /\ a = dialog.form.active \/ can(Me, <<"users", "disable">>)
  /\ Fill([role |-> r, active |-> a])
  /\ UNCHANGED <<server, page, lists, pending>>

SubmitEdit ==
  /\ dialog.kind = "edit" /\ ~Busy("update")
  /\ SendForm(Ask("update", dialog.id, dialog.form))
  /\ UNCHANGED <<server, page, lists>>

\* AddUserDialog: the account starts active.
AddForm(r) ==
  /\ dialog.kind = "add" /\ r \in RoleOptions
  /\ Fill([dialog.form EXCEPT !.role = r])
  /\ UNCHANGED <<server, page, lists, pending>>

\* (The id is the one the server will give.)
SubmitAdd(i) ==
  /\ dialog.kind = "add" /\ ~Busy("create")
  /\ StartUsers[i] = None /\ users[i] = None
  /\ SendForm(Ask("create", i, dialog.form))
  /\ UNCHANGED <<server, page, lists>>

SubmitReset ==
  /\ dialog.kind = "reset" /\ ~Busy("reset")
  /\ SendForm(Ask("reset", dialog.id, None))
  /\ UNCHANGED <<server, page, lists>>

ConfirmDelete ==
  /\ dialog.kind = "delete" /\ ~Busy("remove")
  /\ Send(Ask("remove", dialog.id, None))
  /\ UNCHANGED <<server, page, lists, dialog>>

-----------------------------------------------------------------------------
(* The Roles page.                                                         *)

OpenCreateRole(r) ==
  /\ page = "roles" /\ Idle
  /\ PermissionGuard(<<"roles", "create">>, {}, "any")
  /\ Open("newRole", r, [grants |-> {}])
  /\ UNCHANGED <<server, page, lists, pending>>

OpenEditRole(r) ==
  /\ OnRow("roles", r) /\ can(Me, <<"roles", "update">>)
  /\ Open("editRole", r, [grants |-> RowOf("roles", r).grants])
  /\ UNCHANGED <<server, page, lists, pending>>

\* toggle and toggleCategory.
EditGrants(row) ==
  /\ dialog.kind \in {"newRole", "editRole"} /\ row # dialog.form
  /\ Fill(row)
  /\ UNCHANGED <<server, page, lists, pending>>

\* The whole set is sent.
SaveRole ==
  /\ \/ /\ dialog.kind = "newRole" /\ ~Busy("createRole")
        /\ SendForm(Ask("createRole", dialog.id, dialog.form))
     \/ /\ dialog.kind = "editRole" /\ ~Busy("updateRole")
        /\ SendForm(Ask("updateRole", dialog.id, dialog.form))
  /\ UNCHANGED <<server, page, lists>>

OpenDeleteRole(r) ==
  /\ OnRow("roles", r) /\ can(Me, <<"roles", "delete">>)
  /\ r \notin SystemRoles /\ RowOf("roles", r).free
  /\ Open("deleteRole", r, None)
  /\ UNCHANGED <<server, page, lists, pending>>

ConfirmDeleteRole ==
  /\ dialog.kind = "deleteRole" /\ ~Busy("removeRole")
  /\ Send(Ask("removeRole", dialog.id, None))
  /\ UNCHANGED <<server, page, lists, dialog>>

-----------------------------------------------------------------------------
(* Escape, the cross, a click beside the dialog, Cancel.                   *)

\* Slip: handleClose of the dialogs with a form does not look.
MayCloseAlways(kind) == TRUE

\* The confirmations close while their request is in flight.
MayClose(kind) ==
  CASE kind = "edit" -> ~Busy("update") [] kind = "add" -> ~Busy("create")
    [] kind = "reset" -> ~Busy("reset") [] kind = "newRole" -> ~Busy("createRole")
    [] kind = "editRole" -> ~Busy("updateRole")
    [] OTHER -> TRUE

CloseDialog ==
  /\ dialog # Closed /\ MayClose(dialog.kind)
  /\ dialog' = Closed
  /\ UNCHANGED <<server, page, lists, pending>>

UsersPage ==
  \/ OpenAdd \/ SubmitEdit \/ SubmitReset \/ ConfirmDelete
  \/ \E i \in Ids : \/ \E k \in {"view", "edit", "reset", "delete"} : RowAction(i, k)
                    \/ Toggle(i) \/ RevokeSessions(i) \/ SubmitAdd(i)
  \/ \E r \in Roles : AddForm(r) \/ \E a \in BOOLEAN : EditForm(r, a)

RolesPage ==
  \/ SaveRole \/ ConfirmDeleteRole
  \/ \E r \in Roles : OpenCreateRole(r) \/ OpenEditRole(r) \/ OpenDeleteRole(r)
  \/ \E row \in RoleRow : EditGrants(row)

Answers(q) == ServeFetch(q) \/ FetchArrives(q) \/ FetchFails(q)

Next ==
  \/ \E q \in Lists : Refetch(q) \/ Answers(q)
  \/ \E p \in Lists : Visit(p)
  \/ \E m \in pending : Serve(m) \/ Answered(m) \/ Failed(m)
  \/ \E i \in Ids, row \in Row \cup {None} : OtherUserWrite(i, row)
  \/ \E r \in Roles, row \in RoleRow \cup {None} : OtherRoleWrite(r, row)
  \/ UsersPage \/ RolesPage \/ CloseDialog

Spec == Init /\ [][Next]_vars

-----------------------------------------------------------------------------
(* Properties.                                                             *)

TypeOK ==
  /\ users \in [Ids -> Row \cup {None}]
  /\ roles \in [Roles -> RoleRow \cup {None}]
  /\ clock \in 0..MaxWrites
  /\ page \in Lists /\ stale \subseteq Lists
  /\ \A m \in pending : m.phase \in {"sent", "done"} /\ m.at <= clock

\* Once the answer to a change reached a page with rows of the list, the rows on
\* the screen are from after that change, or the list is being fetched, or is
\* marked to be: no fetch that read the table before brings the old rows back.
\* (While a list loads for the first time it may.)
OwnWritesShown ==
  \A q \in Lists : wrote[q] = 0 \/ fetching[q] # None \/ q \in stale

\* A form closes by the user's hand, with its page, or because the very request
\* it sent was answered with success, never by the answer to another, of the
\* same row or sent by the same form when it was open before.
FormKinds == {"edit", "add", "reset", "newRole", "editRole"}
FormsCloseByOwnAnswer ==
  [][dialog.kind \in FormKinds /\ dialog' = Closed /\ page' = page
       => \/ CloseDialog
          \/ dialog.sent \in pending /\ Answered(dialog.sent)]_vars
=============================================================================

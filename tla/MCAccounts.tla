----------------------------- MODULE MCAccounts -----------------------------
(***************************************************************************)
(* Small instances of Accounts for TLC: four ids, of which one is still     *)
(* unused at the start, two passwords, two system roles and a custom one.   *)
(* The permissions are those the modelled handlers ask for.                 *)
(***************************************************************************)
EXTENDS Accounts, TLC

CONSTANTS root, eve, sam, new,          \* ids
          eRoot, eEve, eSam, eNew,      \* addresses
          p1, p2,                       \* passwords
          w1, w2                        \* request slots

MCIds == {root, eve, sam, new}
MCEmails == {eRoot, eEve, eSam, eNew}
MCPasswords == {p1, p2}
TwoSlots == {w1, w2}
SlotSymmetry == Permutations(TwoSlots) \cup Permutations({eve, new})
MCRoles == {"ADMIN", "VIEWER", "SUPPORT"}
MCSystemRoles == {"ADMIN", "VIEWER"}
MCCatalogue == {"users.create", "users.update", "users.delete",
                "users.disable", "users.reset_password", "roles.create",
                "roles.update", "roles.delete", "roles.assign"}
MCSeeds == [r \in MCSystemRoles |-> IF r = "ADMIN" THEN MCCatalogue ELSE {}]

\* SUPPORT is a custom role that may edit users but not assign roles.
MCPerms == [r \in MCRoles |-> CASE r = "ADMIN" -> MCCatalogue
                                [] r = "SUPPORT" -> {"users.update"}
                                [] OTHER -> {}]

User(e, r) == [email |-> e, pw |-> p1, role |-> r, active |-> TRUE, ver |-> 1]

\* Two administrators; or one, a support agent and a viewer.  Their sessions
\* were opened by SSO, so nothing refers to them in the audit log yet.
TwoAdmins == root :> User(eRoot, "ADMIN") @@ eve :> User(eEve, "ADMIN")
Staff == root :> User(eRoot, "ADMIN") @@ eve :> User(eEve, "SUPPORT")
           @@ sam :> User(eSam, "VIEWER")
Couple == root :> User(eRoot, "ADMIN") @@ sam :> User(eSam, "VIEWER")
SessionOf(i) == [user |-> i, ver |-> 1]
RootSession == {SessionOf(root)}
BothSessions == {SessionOf(root), SessionOf(eve)}
AllSessions == BothSessions \cup {SessionOf(sam)}

\* Requests.
On(op, i) == [Ask(op) EXCEPT !.id = i]
Edit(i, r, a) == [Ask("updateUser") EXCEPT !.id = i, !.role = r, !.active = a]
SignIn(e, p) == [Ask("login") EXCEPT !.email = e, !.pw = p]
Sso(e) == [Ask("oidc") EXCEPT !.email = e]
Reset(i, p) == [Ask("resetPassword") EXCEPT !.id = i, !.pw = p]
Change(p, q) == [Ask("changePassword") EXCEPT !.cur = p, !.pw = q]
Add(e, r) == [Ask("createUser") EXCEPT !.email = e, !.role = r, !.pw = p1,
                                       !.active = TRUE]
Move(i, e) == [Ask("updateUser") EXCEPT !.id = i, !.email = e]
NewRoleAsk(r, g) == [Ask("createRole") EXCEPT !.role = r, !.grants = g]
SetRole(r, g) == [Ask("updateRole") EXCEPT !.role = r, !.grants = g]
DropRole(r) == [Ask("deleteRole") EXCEPT !.role = r]

\* One request at a time: everything an administrator does to accounts.
OneByOne ==
  {SignIn(eSam, p1), Add(eNew, "SUPPORT"), Sso(eNew), Reset(sam, p2),
   NewRoleAsk("SUPPORT", {"users.update"}),
   SetRole("SUPPORT", {"users.update", "roles.assign"}), DropRole("SUPPORT"),
   DropRole("VIEWER"), On("deleteUser", root), On("deleteUser", sam),
   On("deleteUser", eve), On("disableUser", root), On("disableUser", sam),
   On("enableUser", sam), Edit(root, "VIEWER", None), Edit(root, None, FALSE),
   Edit(sam, "ADMIN", None), Edit(sam, None, FALSE)}

\* Two requests in flight: the sessions of sam, a system role, and one address
\* that createUser and updateUser compete for.
TwoAtATime ==
  {SignIn(eSam, p1), Change(p1, p2), On("disableUser", sam),
   Edit(sam, None, TRUE), On("deleteUser", sam),
   Add(eNew, "VIEWER"), Move(sam, eNew), DropRole("VIEWER")}

\* What the counterexamples need, and nothing else.
DemoteEachOther == {Edit(root, "VIEWER", None), Edit(eve, "VIEWER", None)}
=============================================================================

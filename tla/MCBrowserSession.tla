-------------------------- MODULE MCBrowserSession --------------------------
(***************************************************************************)
(* A small instance of BrowserSession for TLC: two tabs, two users who sign *)
(* in, and a role that gains and loses its grants.                          *)
(***************************************************************************)
EXTENDS BrowserSession

CONSTANTS t1, t2, ann, bob, a1, b1

MCOwner == [k \in Tokens |-> IF k = b1 THEN bob ELSE ann]
MCGrants == {<<"connect", "manage">>}
Admin(ps) == [role |-> "ADMIN", perms |-> ps]
MCProfiles ==
  [u \in Users |-> IF u = ann THEN {Admin({}), Admin(MCGrants)}
                   ELSE {[role |-> "VIEWER", perms |-> {}]}]
MCStart == [u \in Users |-> IF u = ann THEN Admin(MCGrants)
                            ELSE [role |-> "VIEWER", perms |-> {}]]
\* The tabs are interchangeable: one uses the login form and single sign-on, the
\* other single sign-on and the password form.
MCPages == [t \in Tabs |-> IF t = t1 THEN {"dashboard", "users"} ELSE {"profile"}]
MCWays == [t \in Tabs |-> IF t = t1 THEN {"local", "oidc"} ELSE {"oidc"}]
=============================================================================

----------------------------- MODULE Permissions -----------------------------
(***************************************************************************)
(* What a list of permissions allows: once in the frontend, which decides   *)
(* what to show, and once in the backend, which decides what to do.  An id  *)
(* such as topic.read is the sequence of its segments; a last segment "*"   *)
(* grants a namespace.                                                      *)
(***************************************************************************)
EXTENDS Naturals, Sequences

ROLES == {"ADMIN", "OPERATOR", "DEVELOPER", "VIEWER"}
Perms(ns, acts) == {<<ns, a>> : a \in acts}

\* The frontend's copy of the grants of the system roles.
BACKEND_ROLE_PERMISSIONS ==
  LET Look == Perms("cluster", {"read"}) \cup Perms("message", {"read"})
              \cup Perms("consumer", {"read"}) \cup Perms("topic", {"read"})
              \cup Perms("schema", {"read"}) \cup Perms("connect", {"read"})
      Operate == Look \cup Perms("cluster", {"manage"})
                 \cup Perms("topic", {"create", "update", "delete"})
                 \cup Perms("message", {"publish"}) \cup Perms("consumer", {"manage"})
                 \cup Perms("connect", {"manage"}) \cup Perms("acl", {"read"})
                 \cup Perms("audit", {"read"}) \cup Perms("alert", {"manage"})
  IN  [ADMIN |-> Operate \cup Perms("schema", {"write"}) \cup Perms("acl", {"manage"}),
       OPERATOR |-> Operate,
       DEVELOPER |-> Look \cup Perms("topic", {"create"})
                     \cup Perms("message", {"publish"}),
       VIEWER |-> Look \cup Perms("acl", {"read"})]

FUTURE_IAM_PERMISSIONS ==
  [r \in ROLES |->
     IF r = "ADMIN"
     THEN Perms("users", {"read", "create", "update", "delete", "disable",
                        "reset_password"})
          \cup Perms("roles", {"read", "assign"}) \cup Perms("system", {"settings"})
     ELSE {}]

\* A role made by an administrator has no defaults.
permissionsForRole(role) ==
  IF role \in ROLES
  THEN BACKEND_ROLE_PERMISSIONS[role] \cup FUTURE_IAM_PERMISSIONS[role]
  ELSE {}

\* Slip: any permission of the namespace will do.
matchNamespace(granted, required) == \E g \in granted : g[1] = required[1]

\* The frontend looks for the id or for its first segment with a star.
matchPermission(granted, required) ==
  \/ required \in granted
  \/ <<required[1], "*">> \in granted

\* The backend takes every grant that ends in a star for a prefix.
MatchPermission(granted, required) ==
  \/ required \in granted
  \/ \E g \in granted :
       /\ Len(g) > 1 /\ g[Len(g)] = "*"
       /\ Len(required) >= Len(g)
       /\ \A i \in 1..Len(g) - 1 : required[i] = g[i]

\* usePermissions: an empty list of permissions counts as none received.
Effective(user) == IF user.perms # {} THEN user.perms
                                      ELSE permissionsForRole(user.role)
can(user, p) == matchPermission(Effective(user), p)
canAny(user, ps) == \E p \in ps : can(user, p)
canAll(user, ps) == \A p \in ps : can(user, p)

canAccessAdministration(user) ==
  canAny(user, {<<"users", "read">>, <<"roles", "read">>})
=============================================================================

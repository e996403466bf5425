---------------------------- MODULE MCAdminPages ----------------------------
(***************************************************************************)
(* A small instance of AdminPages for TLC: the administrator and a user     *)
(* still to be created; a system role and one made here.                    *)
(***************************************************************************)
EXTENDS AdminPages

CONSTANTS me, u2, g

MCMe == [id |-> me, role |-> "DEVELOPER",
         perms |-> Perms("users", {"*"})
                   \cup Perms("roles", {"read", "create", "update", "delete"})]
MCUsers == [i \in Ids |-> IF i = u2 THEN None
                          ELSE [role |-> "DEVELOPER", active |-> TRUE]]
MCOtherUsers == {<<u2, [role |-> "DEVELOPER", active |-> FALSE]>>}
MCOtherRoles == {<<"OPS", [grants |-> {}]>>}
MCRoles == [r \in Roles |-> IF r = "DEVELOPER" THEN [grants |-> {}] ELSE None]
=============================================================================

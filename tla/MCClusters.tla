----------------------------- MODULE MCClusters -----------------------------
(***************************************************************************)
(* Small instances of Clusters for TLC: one site that is registered as      *)
(* production, room for a second registration, and three users: an          *)
(* administrator, a developer, and one with a role of the company's own.    *)
(***************************************************************************)
EXTENDS Clusters

\* root may do everything; dev and app are refused some of what they send.
MCUsers == {"root", "dev", "app"}
MCRoleOf == [u \in Users |-> CASE u = "root" -> "ADMIN"
                              [] u = "dev" -> "DEVELOPER" [] OTHER -> "APP_TEAM"]
MCGrants ==
  [u \in Users |->
     CASE u = "root" -> {Needs[op] : op \in Ops}
       [] u = "dev" -> {"cluster.read", "topic.create", "message.publish"}
       [] OTHER -> {"topic.create", "topic.delete", "connect.manage"}]

Prod == [name |-> "main", env |-> "PRODUCTION", site |-> "s"]
Dev == [Prod EXCEPT !.env = "DEVELOPMENT"]
MCStartClusters == [i \in {"c1"} |-> [name |-> "main", env |-> "PRODUCTION",
                                   site |-> "s", status |-> "CONNECTED"]]
MCStartServices == [s \in Sites |-> {"topic"} \X Things]

To(op, user, body) == [op |-> op, user |-> user, cluster |-> "c1", body |-> body]
Create(user, new) == [op |-> "createCluster", user |-> user, cluster |-> None,
                      body |-> new]
MCRequests ==
  {Create("root", Dev), Create("dev", Prod),
   [Create("root", Dev) EXCEPT !.op = "testCluster", !.cluster = "c2", !.body = None]}
  \cup {To(op, "root", None) : op \in {"deleteCluster", "testCluster"}}
  \cup {To(op, "app", x) : op \in {"createTopic", "deleteTopic"}, x \in Things}
  \cup {To(op, "dev", x) : op \in {"publishMessage", "deleteTopic"}, x \in Things}
  \cup {To(op, "root", x) : op \in {"createTopic", "createConnector", "registerSchema"},
                            x \in Things}
\* Everything an administrator does to a cluster whose removal is to be audited.
Removals == {To("deleteCluster", "root", None)}
            \cup {To(op, "root", x) : op \in {"createTopic", "deleteTopic",
                    "publishMessage", "resetOffsets", "registerSchema",
                    "createConnector", "deleteConnector", "restartConnector",
                    "createACL", "deleteACL"},
                              x \in Things}
=============================================================================

------------------------------ MODULE Clusters ------------------------------
(***************************************************************************)
(* The registered clusters, the operations on what they manage (topics,     *)
(* messages, offsets, ACLs, schemas, connectors) and the audit log.         *)
(*                                                                          *)
(* One action is one SQL statement or one call of a managed service, with   *)
(* the handler's code up to the next one.  A site is a Kafka installation   *)
(* with its registry and its Connect workers; several registered clusters   *)
(* may point to one site.  Who may send what (requirePerm) is decided when  *)
(* a request starts, by the role and permissions read then.                 *)
(***************************************************************************)
EXTENDS Naturals, Sequences, FiniteSets

CONSTANTS
  None,
  Ids, Names,
  Sites,
  Users, RoleOf, Grants,   \* RoleOf[u] and Grants[u]: permissions of the role
  Things,      \* names of topics, groups, subjects, connectors, ACL resources
  Requests,    \* what clients send
  Slots,       \* requests in flight
  StartClusters, StartServices,
  Faults,      \* subset of {"statement", "call", "reply", "restart"}
  MaxFaults, MaxAudit  \* bounds on the faults and on the audit rows

VARIABLES
  clusters,    \* table clusters: [name, env, site, status] by id
  used,        \* ids given out
  audit,       \* table audit_logs: [action, user, what, cluster]
  services,    \* what every site holds: pairs of a kind and a name
  up,          \* the sites that answer
  req,         \* requests in flight
  faults

vars == <<clusters, used, audit, services, up, req, faults>>

Needs ==
  [createCluster |-> "cluster.manage", deleteCluster |-> "cluster.manage",
   testCluster |-> "cluster.read",
   createTopic |-> "topic.create", deleteTopic |-> "topic.delete",
   publishMessage |-> "message.publish", resetOffsets |-> "consumer.manage",
   registerSchema |-> "schema.write",
   createConnector |-> "connect.manage", deleteConnector |-> "connect.manage",
   restartConnector |-> "connect.manage",
   createACL |-> "acl.manage", deleteACL |-> "acl.manage"]
Ops == DOMAIN Needs
ClusterOps == {"createCluster", "deleteCluster", "testCluster"}
KafkaOps == {"createTopic", "deleteTopic", "publishMessage", "resetOffsets",
             "createACL", "deleteACL"}
Envs == {"PRODUCTION", "DEVELOPMENT"}
Statuses == {"CONNECTED", "UNREACHABLE"}

Row == [name : Names, env : Envs, site : Sites, status : Statuses]
New == [name : Names, env : Envs, site : Sites]
\* cluster is the id in the path; body a new cluster or the name of a thing.
Ask == [op : Ops, user : Users, cluster : Ids \cup {None},
        body : New \cup Things \cup {None}]
Thing == {"topic", "acl", "schema", "connector"} \X Things
Entry == [action : Ops, user : Users, what : Names \cup Things]

Idle == [at |-> "idle"]
\* id and row: the cluster the handler has loaded, or is about to insert.
Request == [at : {"load", "call", "save", "audit"}, ask : Ask,
            id : Ids \cup {None}, row : Row \cup {None}]

ASSUME ClustersAssumption ==
  /\ None \notin Ids /\ None \notin Things /\ None \notin Row
  /\ None \notin New /\ None \notin Entry
  /\ RoleOf \in [Users -> STRING]
  /\ Requests \subseteq Ask
  /\ \A ask \in Requests :
       CASE ask.op = "createCluster" -> ask.body \in New
         [] ask.op \in ClusterOps \ {"createCluster"} -> ask.cluster \in Ids
         [] OTHER -> ask.cluster \in Ids /\ ask.body \in Things
  /\ \A i \in DOMAIN StartClusters : i \in Ids /\ StartClusters[i] \in Row
  /\ \A i, j \in DOMAIN StartClusters :
       StartClusters[i].name = StartClusters[j].name => i = j
  /\ StartServices \in [Sites -> SUBSET Thing]
  /\ MaxFaults \in Nat /\ MaxAudit \in Nat

Init == /\ clusters = StartClusters
        /\ used = DOMAIN StartClusters
        /\ audit = <<>>
        /\ services = StartServices
        /\ up = Sites
        /\ req = [w \in Slots |-> Idle]
        /\ faults = 0

Fault(f) == f \in Faults /\ faults < MaxFaults /\ faults' = faults + 1
At(w, at) == req[w] # Idle /\ req[w].at = at
Goes(w, at) == req' = [req EXCEPT ![w].at = at]
Answered(w) == req' = [req EXCEPT ![w] = Idle]
Op(w) == req[w].ask.op
Audited == Ops \ {"testCluster"}

-----------------------------------------------------------------------------
(* The start of a request.                                                 *)

\* The bounds: audit rows that may still be written, and ids for new clusters.
Open == {w \in Slots : req[w] # Idle /\ Op(w) \in Audited}
Creating == {w \in Slots : req[w] # Idle /\ Op(w) = "createCluster"}
Room(op) == /\ op \in Audited => Len(audit) + Cardinality(Open) < MaxAudit
            /\ op = "createCluster" =>
                 Cardinality(Creating) < Cardinality(Ids \ used)

\* Slip: any permission will do.
PermittedAny(ask) == Grants[ask.user] # {}
\* requirePerm.
Permitted(ask) == Needs[ask.op] \in Grants[ask.user]

\* A request that may not is answered 403 and does nothing.
Begin(w, ask) ==
  /\ req[w] = Idle /\ Permitted(ask)
  /\ Room(ask.op)
  /\ req' = [req EXCEPT ![w] =
       [at |-> IF ask.op = "createCluster" THEN "call" ELSE "load",
        ask |-> ask, id |-> None, row |-> None]]
  /\ UNCHANGED <<clusters, used, audit, services, up, faults>>

\* CanModifyProduction; only createTopic asks.
MayCreateTopic(user, row) ==
  row.env = "PRODUCTION" => RoleOf[user] \in {"ADMIN", "OPERATOR"}

\* loadCluster, and what the handler decides before its first call.
LoadCluster(w) ==
  /\ At(w, "load")
  /\ LET i == req[w].ask.cluster IN
     \/ /\ i \in DOMAIN clusters
        /\ Op(w) = "createTopic" => MayCreateTopic(req[w].ask.user, clusters[i])
        /\ req' = [req EXCEPT ![w] =
             [@ EXCEPT !.at = IF Op(w) = "deleteCluster" THEN "save" ELSE "call",
                       !.id = i, !.row = clusters[i]]]
        /\ UNCHANGED faults
     \/ /\ i \in DOMAIN clusters => /\ Op(w) = "createTopic"
                                    /\ ~MayCreateTopic(req[w].ask.user, clusters[i])
        /\ Answered(w) /\ UNCHANGED faults
     \/ Fault("statement") /\ Answered(w)
  /\ UNCHANGED <<clusters, used, audit, services, up>>

-----------------------------------------------------------------------------
(* The managed services.                                                   *)

\* Kafka, as the client code uses it: what is refused for one topic, ACL or
\* partition is in a response nobody reads, and counts as done.
KafkaAfter(op, S, x) ==
  CASE op = "createTopic" -> S \cup {<<"topic", x>>}
    [] op = "deleteTopic" -> S \ {<<"topic", x>>}
    [] op = "createACL" -> S \cup {<<"acl", x>>}
    [] op = "deleteACL" -> S \ {<<"acl", x>>}
    [] OTHER -> S
KafkaAnswers(op, S, x) ==
  IF op = "publishMessage" THEN {[after |-> S, ok |-> <<"topic", x>> \in S]}
  ELSE {[after |-> T, ok |-> TRUE] : T \in {S, KafkaAfter(op, S, x)}}

\* The registry may refuse a schema.
RegistryAnswers(S, x) ==
  {[after |-> S, ok |-> FALSE], [after |-> S \cup {<<"schema", x>>}, ok |-> TRUE]}

\* Slip: the status Connect answers with is not looked at.
ConnectAnswersUnread(op, S, x) == {[after |-> S, ok |-> TRUE]}

\* Connect refuses what is there already, what is not there, and bad
\* configurations.
ConnectAnswers(op, S, x) ==
  LET there == <<"connector", x>> \in S
  IN  CASE op = "createConnector" ->
             {[after |-> S, ok |-> FALSE]}
             \cup {[after |-> S \cup {<<"connector", x>>}, ok |-> TRUE] :
                     y \in IF there THEN {} ELSE {x}}
        [] op = "deleteConnector" ->
             {[after |-> S \ {<<"connector", x>>}, ok |-> there]}
        [] OTHER -> {[after |-> S, ok |-> there]}

Answers(op, S, x) ==
  CASE op \in KafkaOps -> KafkaAnswers(op, S, x)
    [] op = "registerSchema" -> RegistryAnswers(S, x)
    [] OTHER -> ConnectAnswers(op, S, x)

\* The call of every handler that changes something in a managed service.  A
\* failure answers 502 and leaves no audit row, also when only the reply is
\* lost.
CallService(w) ==
  /\ At(w, "call") /\ Op(w) \notin ClusterOps
  /\ LET site == req[w].row.site
         answers == Answers(Op(w), services[site], req[w].ask.body)
     IN  \/ /\ site \in up
            /\ \E a \in answers :
                 /\ services' = [services EXCEPT ![site] = a.after]
                 /\ IF a.ok THEN Goes(w, "audit") ELSE Answered(w)
            /\ UNCHANGED faults
         \/ /\ site \notin up
            /\ Answered(w) /\ UNCHANGED <<services, faults>>
         \/ Fault("call") /\ Answered(w) /\ UNCHANGED services
         \/ /\ site \in up /\ Fault("reply") /\ Answered(w)
            /\ \E a \in answers : services' = [services EXCEPT ![site] = a.after]
  /\ UNCHANGED <<clusters, used, audit, up>>

-----------------------------------------------------------------------------
(* Clusters.                                                               *)

\* TestConnection, of createCluster (before the cluster has a row) and of
\* testCluster.
TestConnection(w) ==
  /\ At(w, "call") /\ Op(w) \in {"createCluster", "testCluster"}
  /\ LET new == req[w].ask.body
         site == IF Op(w) = "createCluster" THEN new.site ELSE req[w].row.site
         tested(s) == IF Op(w) = "createCluster"
                      THEN [name |-> new.name, env |-> new.env,
                            site |-> new.site, status |-> s]
                      ELSE [req[w].row EXCEPT !.status = s]
     IN  \/ /\ req' = [req EXCEPT ![w] = [@ EXCEPT !.at = "save", !.row =
                         tested(IF site \in up THEN "CONNECTED" ELSE "UNREACHABLE")]]
            /\ UNCHANGED faults
         \/ /\ Fault("call")
            /\ req' = [req EXCEPT ![w] = [@ EXCEPT !.at = "save",
                         !.row = tested("UNREACHABLE")]]
  /\ UNCHANGED <<clusters, used, audit, services, up>>

Saving(w, op) == At(w, "save") /\ Op(w) = op

\* Slip: the name is not looked at.
NameTakenNever(n) == FALSE
\* clusters.name is UNIQUE.
NameTaken(n) == \E i \in DOMAIN clusters : clusters[i].name = n

Inserted(r, i) == [r EXCEPT !.at = "audit", !.id = i]

\* CreateCluster.
InsertCluster(w) ==
  /\ Saving(w, "createCluster")
  /\ \/ /\ ~NameTaken(req[w].row.name)
        /\ \E i \in Ids \ used :
             /\ used' = used \cup {i}
             /\ clusters' = [j \in DOMAIN clusters \cup {i} |->
                               IF j = i THEN req[w].row ELSE clusters[j]]
             /\ req' = [req EXCEPT ![w] = Inserted(@, i)]
        /\ UNCHANGED faults
     \/ /\ NameTaken(req[w].row.name)
        /\ Answered(w) /\ UNCHANGED <<clusters, used, faults>>
     \/ Fault("statement") /\ Answered(w) /\ UNCHANGED <<clusters, used>>
  /\ UNCHANGED <<audit, services, up>>

\* Slip: only a failed test is stored.
WithStatusBad(cs, i, s) ==
  [j \in DOMAIN cs |-> IF j = i /\ s = "UNREACHABLE"
                       THEN [cs[j] EXCEPT !.status = s] ELSE cs[j]]
WithStatus(cs, i, s) ==
  [j \in DOMAIN cs |-> IF j = i THEN [cs[j] EXCEPT !.status = s] ELSE cs[j]]

\* UpdateClusterStatus; its error is ignored, and a cluster that is gone stays
\* gone.
UpdateClusterStatus(w) ==
  /\ Saving(w, "testCluster")
  /\ \/ /\ clusters' = WithStatus(clusters, req[w].id, req[w].row.status)
        /\ UNCHANGED faults
     \/ Fault("statement") /\ UNCHANGED clusters
  /\ Answered(w)
  /\ UNCHANGED <<used, audit, services, up>>

\* Slip: audit rows keep the id of the cluster.
DetachedNot(rows, i) == rows
\* ON DELETE SET NULL.
Detached(rows, i) ==
  [k \in DOMAIN rows |-> IF rows[k].cluster = i
                         THEN [rows[k] EXCEPT !.cluster = None] ELSE rows[k]]

\* DeleteCluster; deleting what is gone already is no error.
DeleteCluster(w) ==
  /\ Saving(w, "deleteCluster")
  /\ \/ /\ clusters' = [j \in DOMAIN clusters \ {req[w].id} |-> clusters[j]]
        /\ audit' = Detached(audit, req[w].id)
        /\ Goes(w, "audit") /\ UNCHANGED faults
     \/ Fault("statement") /\ Answered(w) /\ UNCHANGED <<clusters, audit>>
  /\ UNCHANGED <<used, services, up>>

-----------------------------------------------------------------------------
(* The audit log.                                                          *)

EntryOf(r) ==
  [action |-> r.ask.op, user |-> r.ask.user,
   what |-> IF r.ask.op \in ClusterOps THEN r.row.name ELSE r.ask.body]

\* InsertAudit; its error is ignored, and the row of a cluster that is gone is
\* refused (foreign key).
Audit(w) ==
  /\ At(w, "audit")
  /\ LET e == EntryOf(req[w]) IN
     \/ /\ req[w].id \in DOMAIN clusters
        /\ audit' = Append(audit, [action |-> e.action, user |-> e.user,
                                   what |-> e.what, cluster |-> req[w].id])
        /\ UNCHANGED faults
     \/ req[w].id \notin DOMAIN clusters /\ UNCHANGED <<audit, faults>>
     \/ Fault("statement") /\ UNCHANGED audit
  /\ Answered(w)
  /\ UNCHANGED <<clusters, used, services, up>>

-----------------------------------------------------------------------------

\* A site goes down or comes back.
SiteChanges(s) ==
  /\ up' = IF s \in up THEN up \ {s} ELSE up \cup {s}
  /\ UNCHANGED <<clusters, used, audit, services, req, faults>>

\* The process stops and starts again.
Restart ==
  /\ Fault("restart")
  /\ req' = [w \in Slots |-> Idle]
  /\ UNCHANGED <<clusters, used, audit, services, up>>

Step(w) == \/ LoadCluster(w) \/ CallService(w) \/ TestConnection(w)
           \/ InsertCluster(w) \/ UpdateClusterStatus(w) \/ DeleteCluster(w)
           \/ Audit(w)

Next == \/ \E w \in Slots : Step(w) \/ \E ask \in Requests : Begin(w, ask)
        \/ \E s \in Sites : SiteChanges(s)
        \/ Restart

Spec == Init /\ [][Next]_vars

\* A handler that has started goes on.
FairSpec == Spec /\ \A w \in Slots : WF_vars(Step(w))

-----------------------------------------------------------------------------
(* Properties.                                                             *)

\* A request at each of its steps: what it has loaded by then.
RequestOK(r) ==
  /\ r \in Request /\ r.ask \in Requests
  /\ r.at = "load" <=> r.ask.op # "createCluster" /\ r.row = None
  /\ r.row = None => r.at \in {"load", "call"}
  /\ r.at # "load" /\ r.ask.op # "createCluster" => r.id \in used
  /\ r.at = "save" => r.ask.op \in ClusterOps
  /\ r.at = "call" => r.ask.op # "deleteCluster"
  /\ r.at = "audit" => r.ask.op \in Audited /\ r.id \in used

TypeOK ==
  /\ used \subseteq Ids /\ DOMAIN clusters \subseteq used
  /\ \A i \in DOMAIN clusters : clusters[i] \in Row
  /\ \A k \in DOMAIN audit :
       /\ [action |-> audit[k].action, user |-> audit[k].user,
           what |-> audit[k].what] \in Entry
       /\ audit[k].cluster \in DOMAIN clusters \cup {None}
  /\ services \in [Sites -> SUBSET Thing] /\ up \subseteq Sites
  /\ DOMAIN req = Slots
  /\ \A w \in Slots : req[w] = Idle \/ RequestOK(req[w])
  /\ faults \in 0..MaxFaults

\* What a site holds, and which clusters are registered, changes only on behalf
\* of a user whose role was granted the permission for that change; topics of a
\* cluster registered as production when the request loaded it are created only
\* by the roles CanModifyProduction names.
Doing(perm) == \E w \in Slots : /\ req[w] # Idle /\ req'[w] # req[w]
                                /\ perm \in Grants[req[w].ask.user]
Gained(kind) == \E s \in Sites, x \in Things :
                  <<kind, x>> \in services'[s] \ services[s]
Lost(kind) == \E s \in Sites, x \in Things :
                <<kind, x>> \in services[s] \ services'[s]
ChangesPermitted ==
  [][/\ Gained("topic") =>
          /\ Doing("topic.create")
          /\ \E w \in Slots : /\ req[w] # Idle /\ req'[w] # req[w]
                              /\ MayCreateTopic(req[w].ask.user, req[w].row)
     /\ Lost("topic") => Doing("topic.delete")
     /\ Gained("acl") \/ Lost("acl") => Doing("acl.manage")
     /\ Gained("schema") => Doing("schema.write") /\ ~Lost("schema")
     /\ Gained("connector") \/ Lost("connector") => Doing("connect.manage")
     /\ DOMAIN clusters' # DOMAIN clusters => Doing("cluster.manage")]_vars

\* "audit-logged": an entry is written at most once, by whom and about what the
\* service it was done in holds since, or no longer (only what Kafka refuses
\* inside its answer is taken for done); without an entry to write nothing
\* changes but by a call whose answer is lost; and two clusters never share a
\* name, although the connection is tested between the request and the insert.
Owed == [w \in Slots |-> IF At(w, "audit") THEN EntryOf(req[w]) ELSE None]
Trail == [k \in DOMAIN audit |->
            [action |-> audit[k].action, user |-> audit[k].user,
             what |-> audit[k].what]]
Registered == {clusters[i].name : i \in DOMAIN clusters}
AuditLog == INSTANCE AuditTrail
              WITH Operators <- Slots, Entries <- Entry, registered <- Registered,
                   owed <- Owed, trail <- Trail
ImplementsTrail == AuditLog!Spec

\* Tests that overlap write what they saw in any order; once a site stays up or
\* down and its cluster is tested again and again, the status ends up right.
Testing(i) == \E w \in Slots : At(w, "call") /\ Op(w) = "testCluster"
                               /\ req[w].id = i
Settled(i, on, status) ==
  <>[](i \in DOMAIN clusters /\ (clusters[i].site \in up <=> on))
    /\ []<>Testing(i)
    => <>[](i \in DOMAIN clusters /\ clusters[i].status = status)
StatusSettles ==
  \A i \in Ids : Settled(i, TRUE, "CONNECTED") /\ Settled(i, FALSE, "UNREACHABLE")

\* "admin actions audit-logged": a cluster that was deleted leaves an entry.
RemovalAudited ==
  [][\A w \in Slots :
       /\ At(w, "audit") /\ Op(w) = "deleteCluster" /\ req'[w] = Idle
       => Len(audit') > Len(audit)]_vars
=============================================================================

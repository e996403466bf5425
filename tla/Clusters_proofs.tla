--------------------------- MODULE Clusters_proofs ---------------------------
(***************************************************************************)
(* Theorems about Clusters, for any clusters, sites, users, grants and      *)
(* numbers of requests in flight.                                           *)
(***************************************************************************)
EXTENDS Clusters, TLAPS

-----------------------------------------------------------------------------
(* The invariant.                                                          *)

AuditRow == [action : Ops, user : Users, what : Names \cup Things,
             cluster : Ids \cup {None}]

\* Ids are never reused; the names of clusters differ; an audit row names a
\* cluster that is there, or none.
Tables ==
  /\ used \subseteq Ids /\ DOMAIN clusters \subseteq used
  /\ \A i \in DOMAIN clusters : clusters[i] \in Row
  /\ \A i, j \in DOMAIN clusters : clusters[i].name = clusters[j].name => i = j
  /\ audit \in Seq(AuditRow)
  /\ \A k \in DOMAIN audit : audit[k].cluster \in DOMAIN clusters \cup {None}
  /\ services \in [Sites -> SUBSET Thing] /\ up \subseteq Sites
  /\ faults \in 0..MaxFaults

\* A request in flight was permitted, and to create a topic also for the
\* cluster it has loaded; while it removes a cluster it knows its name.
Good(r) ==
  /\ RequestOK(r) /\ Permitted(r.ask)
  /\ r.ask.op = "createTopic" /\ r.at # "load" => MayCreateTopic(r.ask.user, r.row)
  /\ r.ask.op = "deleteCluster" /\ r.at = "save" /\ r.id \in DOMAIN clusters
       => clusters[r.id].name = r.row.name

InFlight == /\ DOMAIN req = Slots
            /\ \A w \in Slots : req[w] = Idle \/ Good(req[w])

IInv == Tables /\ InFlight

-----------------------------------------------------------------------------
(* Requests.                                                               *)

LEMMA RequestHas ==
  ASSUME NEW r, RequestOK(r)
  PROVE  /\ r \in Request /\ r.ask \in Ask /\ r.ask \in Requests
         /\ r.ask.op \in Ops /\ r.ask.user \in Users
         /\ r.ask.op = "createCluster" => r.ask.body \in New
         /\ r.ask.op \notin ClusterOps => r.ask.body \in Things
         /\ r.ask.op # "createCluster" => r.ask.cluster \in Ids
         /\ r.at # "load" /\ r.ask.op # "createCluster" => r.row \in Row
         /\ r.at \in {"save", "audit"} => r.row \in Row
<1>1. /\ r \in Request /\ r.ask \in Ask /\ r.ask \in Requests
      /\ r.ask.op \in Ops /\ r.ask.user \in Users
  BY DEF RequestOK, Request, Ask
<1>2. /\ r.ask.op = "createCluster" => r.ask.body \in New
      /\ r.ask.op \notin ClusterOps => r.ask.body \in Things
      /\ r.ask.op # "createCluster" => r.ask.cluster \in Ids
  BY <1>1, ClustersAssumption DEF ClusterOps
<1>3. /\ r.at # "load" /\ r.ask.op # "createCluster" => r.row \in Row
      /\ r.at \in {"save", "audit"} => r.row \in Row
  BY DEF RequestOK, Request
<1> QED BY <1>1, <1>2, <1>3

\* The requests of the other slots do not mind what happens to the tables.
LEMMA OneMoves ==
  ASSUME IInv, NEW w \in Slots, req' = [req EXCEPT ![w] = req'[w]],
         (req[w] = Idle \/ Good(req[w]))', used \subseteq used',
         \A i \in used \cap DOMAIN clusters' :
            i \in DOMAIN clusters /\ clusters'[i].name = clusters[i].name
  PROVE  InFlight'
<1>1. ASSUME NEW v \in Slots \ {w}, req[v] # Idle
      PROVE  Good(req[v])'
  <2>1. Good(req[v]) /\ req'[v] = req[v]
    BY <1>1 DEF IInv, InFlight
  <2>2. req[v].at # "load" /\ req[v].ask.op # "createCluster" => req[v].id \in used
    BY <2>1 DEF Good, RequestOK
  <2> QED BY <2>1, <2>2 DEF Good, RequestOK
<1> QED BY <1>1 DEF IInv, InFlight

-----------------------------------------------------------------------------
(* The invariant holds.                                                    *)

LEMMA Initial == Init => IInv
BY ClustersAssumption DEF Init, IInv, Tables, InFlight

LEMMA BeginStep ==
  ASSUME IInv, NEW w \in Slots, NEW ask \in Requests, Begin(w, ask)
  PROVE  IInv'
<1> DEFINE at == IF ask.op = "createCluster" THEN "call" ELSE "load"
           r == [at |-> at, ask |-> ask, id |-> None, row |-> None]
<1>1. ask \in Ask /\ ask.op \in Ops
  BY ClustersAssumption DEF Ask
<1>2. r \in Request /\ r.at = at /\ r.ask = ask /\ r.id = None /\ r.row = None
  BY <1>1 DEF Request
<1>3. req' = [req EXCEPT ![w] = r] /\ Permitted(ask)
      /\ UNCHANGED <<clusters, used, audit, services, up, faults>>
  BY DEF Begin
<1> HIDE DEF r
<1>4. req'[w] = r
  BY <1>3 DEF IInv, InFlight
<1>5. Good(req[w])'
  BY <1>1, <1>2, <1>3, <1>4, ClustersAssumption DEF Good, RequestOK, ClusterOps, Permitted
<1>6. InFlight'
  BY <1>3, <1>4, <1>5, OneMoves DEF IInv, Tables
<1> QED BY <1>3, <1>6 DEF IInv, Tables

\* A request that is answered leaves its slot.
LEMMA AnsweredOne ==
  ASSUME IInv, NEW w \in Slots, Answered(w), used \subseteq used',
         \A i \in used \cap DOMAIN clusters' :
            i \in DOMAIN clusters /\ clusters'[i].name = clusters[i].name
  PROVE  InFlight'
<1>1. req' = [req EXCEPT ![w] = Idle] /\ req'[w] = Idle
  BY DEF Answered, IInv, InFlight
<1> QED BY <1>1, OneMoves

LEMMA FaultsCount == ASSUME IInv, NEW f, Fault(f) PROVE faults' \in 0..MaxFaults
BY ClustersAssumption DEF Fault, IInv, Tables

LEMMA LoadStep ==
  ASSUME IInv, NEW w \in Slots, LoadCluster(w)
  PROVE  IInv'
<1> DEFINE i == req[w].ask.cluster
           at == IF Op(w) = "deleteCluster" THEN "save" ELSE "call"
<1>1. Good(req[w]) /\ req[w] # Idle /\ req[w].at = "load"
  BY DEF LoadCluster, At, IInv, InFlight
<1>2. /\ RequestOK(req[w]) /\ req[w] \in Request
      /\ Op(w) \in Ops /\ Op(w) # "createCluster"
  BY <1>1, RequestHas DEF Good, Op, RequestOK
<1>3. UNCHANGED <<clusters, used, audit, services, up>>
  BY DEF LoadCluster
<1>4. Tables'
  <2>1. faults' \in 0..MaxFaults
    BY FaultsCount DEF LoadCluster, IInv, Tables
  <2> QED BY <1>3, <2>1 DEF IInv, Tables
<1>5. CASE Answered(w)
  BY <1>3, <1>4, <1>5, AnsweredOne DEF IInv, Tables
<1>6. CASE /\ i \in DOMAIN clusters
           /\ Op(w) = "createTopic" => MayCreateTopic(req[w].ask.user, clusters[i])
           /\ req' = [req EXCEPT ![w] =
                [@ EXCEPT !.at = at, !.id = i, !.row = clusters[i]]]
  <2>1. i \in Ids /\ i \in used /\ clusters[i] \in Row
    BY <1>6 DEF IInv, Tables
  <2> DEFINE r == [req[w] EXCEPT !.at = at, !.id = i, !.row = clusters[i]]
  <2>2. /\ r \in Request /\ r.at = at /\ r.ask = req[w].ask
        /\ r.id = i /\ r.row = clusters[i]
    BY <1>2, <2>1 DEF Request
  <2>3. req' = [req EXCEPT ![w] = r] /\ req'[w] = r
    BY <1>6 DEF IInv, InFlight
  <2> HIDE DEF r
  <2>4. RequestOK(req[w])'
    BY <1>1, <1>2, <1>3, <2>1, <2>2, <2>3, ClustersAssumption
    DEF RequestOK, Op, ClusterOps
  <2>5. Good(req[w])'
    BY <1>1, <1>2, <1>3, <1>6, <2>1, <2>2, <2>3, <2>4 DEF Good, Op, Permitted
  <2> QED BY <1>3, <1>4, <2>3, <2>5, OneMoves DEF IInv
<1> QED BY <1>5, <1>6 DEF LoadCluster

-----------------------------------------------------------------------------
(* The managed services.                                                   *)

\* What an operation can do to a site: nothing, or add or remove the thing it
\* is about.
Adds == [createTopic |-> "topic", createACL |-> "acl", registerSchema |-> "schema",
         createConnector |-> "connector"]
Removes == [deleteTopic |-> "topic", deleteACL |-> "acl",
            deleteConnector |-> "connector"]

Outcomes(op, S, x) == {a.after : a \in Answers(op, S, x)}

LEMMA AnswersChange ==
  ASSUME NEW op \in Ops \ ClusterOps, NEW S \in SUBSET Thing, NEW x \in Things,
         NEW T \in Outcomes(op, S, x)
  PROVE  /\ T \in SUBSET Thing
         /\ \/ T = S
            \/ op \in DOMAIN Adds /\ T = S \cup {<<Adds[op], x>>}
            \/ op \in DOMAIN Removes /\ T = S \ {<<Removes[op], x>>}
<1>0. PICK a \in Answers(op, S, x) : T = a.after
  BY DEF Outcomes
<1>1. \/ a.after = S
      \/ op \in DOMAIN Adds /\ a.after = S \cup {<<Adds[op], x>>}
      \/ op \in DOMAIN Removes /\ a.after = S \ {<<Removes[op], x>>}
  <2>1. CASE op = "publishMessage"
    BY <2>1 DEF Answers, KafkaOps, KafkaAnswers
  <2>2. CASE op \in KafkaOps /\ op # "publishMessage"
    <3>1. a \in KafkaAnswers(op, S, x)
      BY <2>2 DEF Answers, KafkaOps
    <3>2. a.after \in {S, KafkaAfter(op, S, x)}
      BY <2>2, <3>1 DEF KafkaAnswers
    <3> QED BY <2>2, <3>2 DEF KafkaAfter, KafkaOps, Adds, Removes
  <2>3. CASE op = "registerSchema"
    BY <2>3 DEF Answers, KafkaOps, RegistryAnswers, Adds
  <2>4. CASE op \notin KafkaOps /\ op # "registerSchema"
    <3>1. op \in {"createConnector", "deleteConnector", "restartConnector"}
      BY <2>4 DEF Ops, Needs, KafkaOps, ClusterOps
    <3>2. a \in ConnectAnswers(op, S, x)
      BY <2>4 DEF Answers
    <3>3. CASE op = "createConnector"
      BY <3>2, <3>3 DEF ConnectAnswers, Adds
    <3>4. CASE op = "deleteConnector"
      BY <3>2, <3>4 DEF ConnectAnswers, Removes
    <3>5. CASE op = "restartConnector"
      BY <3>2, <3>5 DEF ConnectAnswers
    <3> QED BY <3>1, <3>3, <3>4, <3>5
  <2> QED BY <2>1, <2>2, <2>3, <2>4
<1>2. op \in DOMAIN Adds => <<Adds[op], x>> \in Thing
  BY DEF Adds, Thing
<1> QED BY <1>0, <1>1, <1>2

\* What a call does: nothing, or what one of its answers says.
LEMMA CallDoes ==
  ASSUME IInv, NEW w \in Slots, CallService(w)
  PROVE  /\ Good(req[w]) /\ req[w] # Idle /\ req[w].at = "call"
         /\ Op(w) \in Ops \ ClusterOps /\ req[w].ask.body \in Things
         /\ req[w].row.site \in Sites
         /\ \/ services' = services
            \/ \E T \in Outcomes(Op(w), services[req[w].row.site], req[w].ask.body) :
                 services' = [services EXCEPT ![req[w].row.site] = T]
<1>1. Good(req[w]) /\ req[w] # Idle /\ req[w].at = "call" /\ Op(w) \notin ClusterOps
  BY DEF CallService, At, IInv, InFlight
<1>2. RequestOK(req[w])
  BY <1>1 DEF Good
<1>3. Op(w) \in Ops /\ req[w].ask.body \in Things /\ req[w].row \in Row
  BY <1>1, <1>2, RequestHas DEF Op, ClusterOps
<1> QED BY <1>1, <1>3 DEF CallService, Row, Outcomes

LEMMA CallStep ==
  ASSUME IInv, NEW w \in Slots, CallService(w)
  PROVE  IInv'
<1>1. /\ UNCHANGED <<clusters, used, audit, up>>
      /\ Goes(w, "audit") \/ Answered(w)
  BY DEF CallService
<1>2. Tables'
  <2>1. faults' \in 0..MaxFaults
    BY FaultsCount DEF CallService, IInv, Tables
  <2>2. services' \in [Sites -> SUBSET Thing]
    <3> DEFINE site == req[w].row.site
    <3>1. CASE services' = services
      BY <3>1 DEF IInv, Tables
    <3>2. ASSUME NEW T \in Outcomes(Op(w), services[site], req[w].ask.body),
                 services' = [services EXCEPT ![site] = T]
          PROVE  services' \in [Sites -> SUBSET Thing]
      <4>1. services[site] \in SUBSET Thing
        BY CallDoes DEF IInv, Tables
      <4>2. T \in SUBSET Thing
        BY <3>2, <4>1, CallDoes, AnswersChange
      <4> QED BY <3>2, <4>2 DEF IInv, Tables
    <3> QED BY <3>1, <3>2, CallDoes
  <2> QED BY <1>1, <2>1, <2>2 DEF IInv, Tables
<1>3. CASE Answered(w)
  BY <1>1, <1>2, <1>3, AnsweredOne DEF IInv, Tables
<1>4. CASE Goes(w, "audit")
  <2> DEFINE r == [req[w] EXCEPT !.at = "audit"]
  <2>1. Good(req[w]) /\ RequestOK(req[w]) /\ req[w].at = "call"
        /\ Op(w) \in Ops \ ClusterOps
    BY CallDoes DEF Good
  <2>2. /\ r \in Request /\ r.at = "audit" /\ r.ask = req[w].ask
        /\ r.id = req[w].id /\ r.row = req[w].row
    BY <2>1 DEF RequestOK, Request
  <2>3. req' = [req EXCEPT ![w] = r] /\ req'[w] = r
    BY <1>4 DEF Goes, IInv, InFlight
  <2> HIDE DEF r
  <2>4. Good(req[w])'
    BY <1>1, <2>1, <2>2, <2>3
    DEF Good, RequestOK, Op, ClusterOps, Audited, Permitted
  <2> QED BY <1>1, <1>2, <2>3, <2>4, OneMoves DEF IInv
<1> QED BY <1>1, <1>3, <1>4

-----------------------------------------------------------------------------
(* Clusters and the audit log.                                             *)

LEMMA TestStep ==
  ASSUME IInv, NEW w \in Slots, TestConnection(w)
  PROVE  IInv'
<1> DEFINE new == req[w].ask.body
           site == IF Op(w) = "createCluster" THEN new.site ELSE req[w].row.site
           tested(st) == IF Op(w) = "createCluster"
                         THEN [name |-> new.name, env |-> new.env,
                               site |-> new.site, status |-> st]
                         ELSE [req[w].row EXCEPT !.status = st]
<1>1. /\ Good(req[w]) /\ RequestOK(req[w]) /\ req[w] # Idle /\ req[w].at = "call"
      /\ Op(w) \in {"createCluster", "testCluster"}
      /\ UNCHANGED <<clusters, used, audit, services, up>>
  BY DEF TestConnection, At, IInv, InFlight, Good
<1>2. PICK st \in Statuses :
        req' = [req EXCEPT ![w] = [@ EXCEPT !.at = "save", !.row = tested(st)]]
  BY DEF TestConnection, Statuses
<1>3. tested(st) \in Row
  <2>1. Op(w) = "createCluster" => new \in New
    BY <1>1, RequestHas DEF Op
  <2>2. Op(w) = "testCluster" => req[w].row \in Row
    BY <1>1, RequestHas DEF Op
  <2> QED BY <1>1, <2>1, <2>2 DEF Row, New
<1>4. Tables'
  <2>1. faults' \in 0..MaxFaults
    BY FaultsCount DEF TestConnection, IInv, Tables
  <2> QED BY <1>1, <2>1 DEF IInv, Tables
<1> DEFINE row == tested(st)
<1> HIDE DEF tested
<1> DEFINE r == [req[w] EXCEPT !.at = "save", !.row = row]
<1>5. /\ r \in Request /\ r.at = "save" /\ r.ask = req[w].ask
      /\ r.id = req[w].id /\ r.row = row
  BY <1>1, <1>3 DEF Request, RequestOK
<1>6. req' = [req EXCEPT ![w] = r] /\ req'[w] = r
  BY <1>2 DEF IInv, InFlight
<1> HIDE DEF r, row
<1>7. row # None
  BY <1>3, ClustersAssumption DEF row
<1>8. RequestOK(req[w])'
  BY <1>1, <1>5, <1>6, <1>7 DEF RequestOK, Op, ClusterOps
<1>9. Good(req[w])'
  BY <1>1, <1>5, <1>6, <1>8 DEF Good, Op, Permitted
<1>10. InFlight'
  BY <1>1, <1>6, <1>9, OneMoves DEF IInv
<1> QED BY <1>4, <1>10 DEF IInv

LEMMA SavingKnows ==
  ASSUME IInv, NEW w \in Slots, NEW op, Saving(w, op)
  PROVE  /\ Good(req[w]) /\ RequestOK(req[w]) /\ req[w] # Idle /\ req[w].at = "save"
         /\ Op(w) = op /\ req[w] \in Request /\ req[w].row \in Row
         /\ op # "createCluster" => req[w].id \in used
<1>1. Good(req[w]) /\ req[w] # Idle /\ req[w].at = "save" /\ Op(w) = op
  BY DEF Saving, At, IInv, InFlight
<1> QED BY <1>1, RequestHas DEF Good, RequestOK, Op

LEMMA InsertStep ==
  ASSUME IInv, NEW w \in Slots, InsertCluster(w)
  PROVE  IInv'
<1>1. /\ Good(req[w]) /\ RequestOK(req[w]) /\ req[w].at = "save" /\ req[w] # Idle
      /\ Op(w) = "createCluster" /\ req[w] \in Request /\ req[w].row \in Row
      /\ UNCHANGED <<audit, services, up>>
  BY SavingKnows DEF InsertCluster
<1>2. faults' \in 0..MaxFaults
  BY FaultsCount DEF InsertCluster, IInv, Tables
<1>3. CASE Answered(w) /\ UNCHANGED <<clusters, used>>
  <2>1. Tables'
    BY <1>1, <1>2, <1>3 DEF IInv, Tables
  <2> QED BY <1>3, <2>1, AnsweredOne DEF IInv, Tables
<1>4. ASSUME ~NameTaken(req[w].row.name), NEW i \in Ids \ used,
             used' = used \cup {i},
             clusters' = [j \in DOMAIN clusters \cup {i} |->
                            IF j = i THEN req[w].row ELSE clusters[j]],
             req' = [req EXCEPT ![w] = Inserted(@, i)]
      PROVE  IInv'
  <2> DEFINE r == [req[w] EXCEPT !.at = "audit", !.id = i]
  <2>1. /\ r \in Request /\ r.at = "audit" /\ r.ask = req[w].ask
        /\ r.id = i /\ r.row = req[w].row
    BY <1>1, <1>4 DEF Request
  <2>2. req' = [req EXCEPT ![w] = r] /\ req'[w] = r
    BY <1>4 DEF IInv, InFlight, Inserted
  <2> HIDE DEF r
  <2>3. RequestOK(req[w])'
    BY <1>1, <1>4, <2>1, <2>2 DEF RequestOK, Op, Audited, Ops, Needs
  <2>4. Good(req[w])'
    BY <1>1, <2>1, <2>2, <2>3 DEF Good, Op, Permitted
  <2>5. i \notin DOMAIN clusters
    BY <1>4 DEF IInv, Tables
  <2>6. Tables'
    BY <1>1, <1>2, <1>4, <2>5 DEF IInv, Tables, NameTaken
  <2>7. InFlight'
    BY <1>4, <2>2, <2>4, <2>5, OneMoves DEF IInv, Tables
  <2> QED BY <2>6, <2>7 DEF IInv
<1> QED BY <1>3, <1>4 DEF InsertCluster

\* A test changes no name.
LEMMA NamesStay ==
  ASSUME IInv, NEW w \in Slots, UpdateClusterStatus(w)
  PROVE  /\ DOMAIN clusters' = DOMAIN clusters
         /\ \A i \in DOMAIN clusters : /\ clusters'[i] \in Row
                                       /\ clusters'[i].name = clusters[i].name
<1>1. req[w].row \in Row
  BY SavingKnows DEF UpdateClusterStatus
<1>2. CASE UNCHANGED clusters
  BY <1>2 DEF IInv, Tables
<1>3. CASE clusters' = WithStatus(clusters, req[w].id, req[w].row.status)
  <2>1. \A i \in DOMAIN clusters : clusters[i] \in Row /\ req[w].row.status \in Statuses
    BY <1>1 DEF IInv, Tables, Row
  <2> QED BY <1>3, <2>1 DEF WithStatus, Row
<1> QED BY <1>2, <1>3 DEF UpdateClusterStatus

LEMMA StatusStep ==
  ASSUME IInv, NEW w \in Slots, UpdateClusterStatus(w)
  PROVE  IInv'
<1>1. Answered(w) /\ UNCHANGED <<used, audit, services, up>>
  BY DEF UpdateClusterStatus
<1>2. faults' \in 0..MaxFaults
  BY FaultsCount DEF UpdateClusterStatus, IInv, Tables
<1>3. Tables'
  BY <1>1, <1>2, NamesStay DEF IInv, Tables
<1> QED BY <1>1, <1>3, AnsweredOne, NamesStay DEF IInv

LEMMA DeleteStep ==
  ASSUME IInv, NEW w \in Slots, DeleteCluster(w)
  PROVE  IInv'
<1> DEFINE gone == req[w].id
<1>1. /\ Good(req[w]) /\ RequestOK(req[w]) /\ req[w].at = "save" /\ req[w] # Idle
      /\ Op(w) = "deleteCluster" /\ req[w] \in Request /\ gone \in used
      /\ UNCHANGED <<used, services, up>>
  BY SavingKnows DEF DeleteCluster
<1>2. faults' \in 0..MaxFaults
  BY FaultsCount DEF DeleteCluster, IInv, Tables
<1>3. CASE Answered(w) /\ UNCHANGED <<clusters, audit>>
  <2>1. Tables'
    BY <1>1, <1>2, <1>3 DEF IInv, Tables
  <2> QED BY <1>1, <1>3, <2>1, AnsweredOne DEF IInv, Tables
<1>4. CASE /\ clusters' = [j \in DOMAIN clusters \ {gone} |-> clusters[j]]
           /\ audit' = Detached(audit, gone) /\ Goes(w, "audit")
  <2>1. Tables'
    <3>1. audit \in Seq(AuditRow)
      BY DEF IInv, Tables
    <3>2. ASSUME NEW k \in DOMAIN audit
          PROVE  /\ audit'[k] \in AuditRow
                 /\ audit'[k].cluster \in DOMAIN clusters' \cup {None}
      <4>1. /\ audit[k] \in AuditRow
            /\ audit[k].cluster \in DOMAIN clusters \cup {None}
        BY <3>1, <3>2 DEF IInv, Tables
      <4>2. audit'[k] = IF audit[k].cluster = gone
                        THEN [audit[k] EXCEPT !.cluster = None] ELSE audit[k]
        BY <1>4, <3>2 DEF Detached
      <4> QED BY <1>4, <4>1, <4>2 DEF AuditRow
    <3>3. DOMAIN audit' = DOMAIN audit /\ audit' = [k \in DOMAIN audit |-> audit'[k]]
      BY <1>4 DEF Detached
    <3>4. audit' \in Seq(AuditRow)
      BY <3>1, <3>2, <3>3
    <3> QED BY <1>1, <1>2, <1>4, <3>2, <3>3, <3>4 DEF IInv, Tables
  <2> DEFINE r == [req[w] EXCEPT !.at = "audit"]
  <2>2. /\ r \in Request /\ r.at = "audit" /\ r.ask = req[w].ask
        /\ r.id = gone /\ r.row = req[w].row
    BY <1>1 DEF Request
  <2>3. req' = [req EXCEPT ![w] = r] /\ req'[w] = r
    BY <1>4 DEF IInv, InFlight, Goes
  <2> HIDE DEF r
  <2>4. RequestOK(req[w])'
    BY <1>1, <2>2, <2>3 DEF RequestOK, Op, Audited, Ops, Needs
  <2>5. Good(req[w])'
    BY <1>1, <2>2, <2>3, <2>4 DEF Good, Op, Permitted
  <2>6. InFlight'
    BY <1>1, <1>4, <2>3, <2>5, OneMoves DEF IInv
  <2> QED BY <2>1, <2>6 DEF IInv
<1> QED BY <1>3, <1>4 DEF DeleteCluster

\* What is owed is an entry.
LEMMA OwesEntries ==
  ASSUME IInv, NEW w \in Slots, At(w, "audit")
  PROVE  EntryOf(req[w]) \in Entry
<1>1. RequestOK(req[w]) /\ req[w].at = "audit"
  BY DEF At, IInv, InFlight, Good
<1>2. /\ req[w].ask.op \in Ops /\ req[w].ask.user \in Users /\ req[w].row \in Row
      /\ req[w].ask.op \notin ClusterOps => req[w].ask.body \in Things
  BY <1>1, RequestHas
<1> QED BY <1>2 DEF EntryOf, Entry, Row

LEMMA AuditStep ==
  ASSUME IInv, NEW w \in Slots, Audit(w)
  PROVE  IInv'
<1>1. Answered(w) /\ UNCHANGED <<clusters, used, services, up>>
  BY DEF Audit
<1>2. faults' \in 0..MaxFaults
  BY FaultsCount DEF Audit, IInv, Tables
<1>3. CASE UNCHANGED audit
  <2>1. Tables'
    BY <1>1, <1>2, <1>3 DEF IInv, Tables
  <2> QED BY <1>1, <2>1, AnsweredOne DEF IInv, Tables
<1>4. CASE audit' # audit
  <2> DEFINE e == EntryOf(req[w])
             row == [action |-> e.action, user |-> e.user, what |-> e.what,
                     cluster |-> req[w].id]
  <2>1. req[w].id \in DOMAIN clusters /\ audit' = Append(audit, row) /\ At(w, "audit")
    BY <1>4 DEF Audit
  <2>2. row \in AuditRow /\ row.cluster \in DOMAIN clusters
    BY <2>1, OwesEntries DEF Entry, AuditRow, IInv, Tables
  <2> HIDE DEF row
  <2>3. audit' \in Seq(AuditRow) /\ DOMAIN audit' = 1..Len(audit) + 1
        /\ audit'[Len(audit) + 1] = row
        /\ \A k \in 1..Len(audit) : audit'[k] = audit[k]
    BY <2>1, <2>2 DEF IInv, Tables
  <2>4. Tables'
    BY <1>1, <1>2, <2>2, <2>3 DEF IInv, Tables
  <2> QED BY <1>1, <2>4, AnsweredOne DEF IInv, Tables
<1> QED BY <1>3, <1>4

LEMMA Inductive == IInv /\ [Next]_vars => IInv'
<1> SUFFICES ASSUME IInv, [Next]_vars PROVE IInv'
  OBVIOUS
<1>1. ASSUME NEW w \in Slots, Step(w)
      PROVE  IInv'
  BY <1>1, LoadStep, CallStep, TestStep, InsertStep, StatusStep, DeleteStep, AuditStep
  DEF Step
<1>2. ASSUME NEW w \in Slots, NEW ask \in Requests, Begin(w, ask)
      PROVE  IInv'
  BY <1>2, BeginStep
<1>3. ASSUME NEW s \in Sites, SiteChanges(s)
      PROVE  IInv'
  BY <1>3 DEF SiteChanges, IInv, Tables, InFlight, Good, RequestOK
<1>4. CASE Restart
  <2>1. Tables'
    BY <1>4, FaultsCount DEF Restart, IInv, Tables
  <2>2. InFlight'
    BY <1>4 DEF Restart, InFlight
  <2> QED BY <2>1, <2>2 DEF IInv
<1>5. CASE UNCHANGED vars
  BY <1>5 DEF vars, IInv, Tables, InFlight, Good, RequestOK
<1> QED BY <1>1, <1>2, <1>3, <1>4, <1>5 DEF Next

LEMMA Invariant == Spec => []IInv
BY Initial, Inductive, PTL DEF Spec

\* Tables, audit rows, sites and every request at each of its steps keep their
\* types: a request that calls or saves always holds the row it loaded.
THEOREM TypeCorrect == Spec => []TypeOK
<1>1. IInv => TypeOK
  <2> SUFFICES ASSUME IInv PROVE TypeOK
    OBVIOUS
  <2>1. \A k \in DOMAIN audit :
          [action |-> audit[k].action, user |-> audit[k].user,
           what |-> audit[k].what] \in Entry
    <3>1. \A k \in DOMAIN audit : audit[k] \in AuditRow
      BY DEF IInv, Tables
    <3> QED BY <3>1 DEF AuditRow, Entry
  <2> QED BY <2>1 DEF IInv, Tables, InFlight, Good, TypeOK
<1> QED BY <1>1, Invariant, PTL

-----------------------------------------------------------------------------
(* Who may change what.                                                    *)

\* A step that changes a site is a call, made for a user who was granted what
\* the operation needs, and adds or removes the one thing it is about.
LEMMA SiteChange ==
  ASSUME IInv, [Next]_vars, services' # services
  PROVE  \E w \in Slots, x \in Things :
           /\ req[w] # Idle /\ req'[w] # req[w] /\ Op(w) \in Ops
           /\ Needs[Op(w)] \in Grants[req[w].ask.user]
           /\ Op(w) = "createTopic" => MayCreateTopic(req[w].ask.user, req[w].row)
           /\ \A s \in Sites :
                \/ services'[s] = services[s]
                \/ /\ Op(w) \in DOMAIN Adds
                   /\ services'[s] = services[s] \cup {<<Adds[Op(w)], x>>}
                \/ /\ Op(w) \in DOMAIN Removes
                   /\ services'[s] = services[s] \ {<<Removes[Op(w)], x>>}
<1>1. PICK w \in Slots : CallService(w)
  BY DEF Next, Step, vars, Begin, LoadCluster, TestConnection, InsertCluster,
         UpdateClusterStatus, DeleteCluster, Audit, SiteChanges, Restart
<1> DEFINE x == req[w].ask.body
           site == req[w].row.site
<1>2. /\ Good(req[w]) /\ req[w] # Idle /\ req[w].at = "call"
      /\ Op(w) \in Ops \ ClusterOps /\ x \in Things /\ site \in Sites
  BY <1>1, CallDoes
<1>3. req'[w] # req[w]
  <2>1. CASE Answered(w)
    BY <1>2, <2>1 DEF Answered, IInv, InFlight
  <2>2. CASE Goes(w, "audit")
    <3>1. req'[w].at = "audit"
      BY <1>2, <2>2 DEF Goes, IInv, InFlight, Good, RequestOK, Request
    <3> QED BY <1>2, <3>1
  <2> QED BY <1>1, <2>1, <2>2 DEF CallService
<1>4. PICK T \in Outcomes(Op(w), services[site], x) :
        services' = [services EXCEPT ![site] = T]
  BY <1>1, CallDoes
<1>5. services \in [Sites -> SUBSET Thing]
  BY DEF IInv, Tables
<1>6. \/ T = services[site]
      \/ Op(w) \in DOMAIN Adds /\ T = services[site] \cup {<<Adds[Op(w)], x>>}
      \/ Op(w) \in DOMAIN Removes /\ T = services[site] \ {<<Removes[Op(w)], x>>}
  <2>1. services[site] \in SUBSET Thing
    BY <1>2, <1>5
  <2> QED BY <1>2, <1>4, <2>1, AnswersChange
<1>7. \A s \in Sites : services'[s] = IF s = site THEN T ELSE services[s]
  BY <1>4, <1>5
<1> QED BY <1>2, <1>3, <1>6, <1>7 DEF Good, Permitted, Op

\* The registered clusters change only for users who may manage clusters.
LEMMA RegistryChange ==
  ASSUME IInv, [Next]_vars, DOMAIN clusters' # DOMAIN clusters
  PROVE  Doing("cluster.manage")
<1>1. PICK w \in Slots : InsertCluster(w) \/ DeleteCluster(w)
  <2>1. ASSUME NEW w \in Slots, UpdateClusterStatus(w)
        PROVE  DOMAIN clusters' = DOMAIN clusters
    BY <2>1, NamesStay
  <2> QED BY <2>1 DEF Next, Step, vars, Begin, LoadCluster, TestConnection,
                 CallService, Audit, SiteChanges, Restart
<1>2. /\ Good(req[w]) /\ req[w] # Idle /\ req[w].at = "save"
      /\ Op(w) \in {"createCluster", "deleteCluster"} /\ req[w] \in Request
  BY <1>1, SavingKnows DEF InsertCluster, DeleteCluster
<1>3. req'[w] # req[w]
  <2>1. CASE Answered(w)
    BY <1>2, <2>1 DEF Answered, IInv, InFlight
  <2>2. ASSUME NEW i, req' = [req EXCEPT ![w] = Inserted(@, i)]
        PROVE  req'[w] # req[w]
    <3>1. req'[w].at = "audit"
      BY <1>2, <2>2 DEF Inserted, IInv, InFlight, Request
    <3> QED BY <1>2, <3>1
  <2>3. CASE Goes(w, "audit")
    <3>1. req'[w].at = "audit"
      BY <1>2, <2>3 DEF Goes, IInv, InFlight, Request
    <3> QED BY <1>2, <3>1
  <2> QED BY <1>1, <2>1, <2>2, <2>3 DEF InsertCluster, DeleteCluster
<1>4. Needs[Op(w)] = "cluster.manage"
  BY <1>2 DEF Needs
<1> QED BY <1>2, <1>3, <1>4 DEF Good, Permitted, Op, Doing

\* Whatever requests, restarts and outages fall between the steps of a handler,
\* a site and the registered clusters change only for users granted that change.
THEOREM ChangesNeedGrants == Spec => ChangesPermitted
<1> DEFINE P ==
      /\ Gained("topic") =>
           /\ Doing("topic.create")
           /\ \E w \in Slots : /\ req[w] # Idle /\ req'[w] # req[w]
                               /\ MayCreateTopic(req[w].ask.user, req[w].row)
      /\ Lost("topic") => Doing("topic.delete")
      /\ Gained("acl") \/ Lost("acl") => Doing("acl.manage")
      /\ Gained("schema") => Doing("schema.write") /\ ~Lost("schema")
      /\ Gained("connector") \/ Lost("connector") => Doing("connect.manage")
      /\ DOMAIN clusters' # DOMAIN clusters => Doing("cluster.manage")
<1>1. IInv /\ [Next]_vars => P
  <2> SUFFICES ASSUME IInv, [Next]_vars PROVE P
    OBVIOUS
  <2>1. CASE services' = services
    BY <2>1, RegistryChange DEF Gained, Lost
  <2>2. CASE services' # services
    <3>1. PICK w \in Slots, x \in Things :
           /\ req[w] # Idle /\ req'[w] # req[w] /\ Op(w) \in Ops
           /\ Needs[Op(w)] \in Grants[req[w].ask.user]
           /\ Op(w) = "createTopic" => MayCreateTopic(req[w].ask.user, req[w].row)
           /\ \A s \in Sites :
                \/ services'[s] = services[s]
                \/ /\ Op(w) \in DOMAIN Adds
                   /\ services'[s] = services[s] \cup {<<Adds[Op(w)], x>>}
                \/ /\ Op(w) \in DOMAIN Removes
                   /\ services'[s] = services[s] \ {<<Removes[Op(w)], x>>}
      BY <2>2, SiteChange
    <3>2. ASSUME NEW kind, Gained(kind)
          PROVE  Op(w) \in DOMAIN Adds /\ Adds[Op(w)] = kind
      BY <3>1, <3>2 DEF Gained
    <3>3. ASSUME NEW kind, Lost(kind)
          PROVE  Op(w) \in DOMAIN Removes /\ Removes[Op(w)] = kind
      BY <3>1, <3>3 DEF Lost
    <3>4. Doing(Needs[Op(w)])
      BY <3>1 DEF Doing
    <3>5. Gained("topic") => Op(w) = "createTopic"
      BY <3>2 DEF Adds
    <3>6. Lost("topic") => Op(w) = "deleteTopic"
      BY <3>3 DEF Removes
    <3>7. /\ Gained("acl") => Op(w) = "createACL"
          /\ Lost("acl") => Op(w) = "deleteACL"
      BY <3>2, <3>3 DEF Adds, Removes
    <3>8. (Gained("schema") => Op(w) = "registerSchema") /\ ~Lost("schema")
      BY <3>2, <3>3 DEF Adds, Removes
    <3>9. /\ Gained("connector") => Op(w) = "createConnector"
          /\ Lost("connector") => Op(w) = "deleteConnector"
      BY <3>2, <3>3 DEF Adds, Removes
    <3>10. /\ Needs["createTopic"] = "topic.create"
           /\ Needs["deleteTopic"] = "topic.delete"
           /\ Needs["createACL"] = "acl.manage" /\ Needs["deleteACL"] = "acl.manage"
           /\ Needs["registerSchema"] = "schema.write"
           /\ Needs["createConnector"] = "connect.manage"
           /\ Needs["deleteConnector"] = "connect.manage"
      BY DEF Needs
    <3> QED BY <3>1, <3>4, <3>5, <3>6, <3>7, <3>8, <3>9, <3>10, RegistryChange
  <2> QED BY <2>1, <2>2
<1> HIDE DEF P
<1>2. Spec => [][P]_vars
  BY <1>1, Invariant, PTL DEF Spec
<1> QED BY <1>2 DEF ChangesPermitted, P

-----------------------------------------------------------------------------
(* The audit trail.                                                        *)

\* What a handler owes while and after it moves.
LEMMA OwedAfter ==
  ASSUME IInv, NEW w \in Slots, req' = [req EXCEPT ![w] = req'[w]]
  PROVE  /\ Owed' = [Owed EXCEPT ![w] = Owed'[w]]
         /\ Owed[w] = IF At(w, "audit") THEN EntryOf(req[w]) ELSE None
         /\ Owed'[w] = IF At(w, "audit")' THEN EntryOf(req'[w]) ELSE None
<1>1. ASSUME NEW v \in Slots \ {w}
      PROVE  Owed'[v] = Owed[v]
  <2>1. req'[v] = req[v]
    BY <1>1 DEF IInv, InFlight
  <2>2. (At(v, "audit"))' <=> At(v, "audit")
    BY <2>1 DEF At
  <2>3. EntryOf(req'[v]) = EntryOf(req[v])
    BY <2>1
  <2> QED BY <1>1, <2>2, <2>3 DEF Owed
<1>2. Owed' = [Owed EXCEPT ![w] = Owed'[w]]
  BY <1>1 DEF Owed
<1>3. /\ Owed[w] = IF At(w, "audit") THEN EntryOf(req[w]) ELSE None
      /\ Owed'[w] = IF At(w, "audit")' THEN EntryOf(req'[w]) ELSE None
  BY DEF Owed
<1> QED BY <1>2, <1>3

LEMMA TrailStays == audit' = audit => Trail' = Trail
BY DEF Trail

LEMMA RegisteredStays == clusters' = clusters => Registered' = Registered
BY DEF Registered

LEMMA NothingOwed == ASSUME IInv, NEW w \in Slots, Answered(w)
                     PROVE  ~At(w, "audit")' /\ req' = [req EXCEPT ![w] = req'[w]]
BY DEF Answered, At, IInv, InFlight

\* A handler that owed nothing and owes nothing.
LEMMA Quiet ==
  ASSUME IInv, NEW w \in Slots, req' = [req EXCEPT ![w] = req'[w]],
         ~At(w, "audit"), ~At(w, "audit")'
  PROVE  Owed' = Owed
<1>1. Owed'[w] = Owed[w]
  BY OwedAfter
<1> QED BY <1>1, OwedAfter DEF Owed

\* A handler that has done something and is about to write about it.
LEMMA Incurs ==
  ASSUME IInv, NEW w \in Slots, ~At(w, "audit"), Good(req[w]), req[w] \in Request,
         Op(w) \in Audited, Op(w) \in ClusterOps => req[w].row \in Row,
         NEW r, req' = [req EXCEPT ![w] = r],
         r.at = "audit", r.ask = req[w].ask, r.row = req[w].row
  PROVE  /\ Owed[w] = None /\ Owed'[w] = EntryOf(req[w]) /\ Owed'[w] \in Entry
         /\ Owed' = [Owed EXCEPT ![w] = Owed'[w]]
         /\ Owed'[w].action = Op(w)
         /\ Op(w) \in ClusterOps => Owed'[w].what = req[w].row.name
<1>1. req'[w] = r /\ r # Idle
  BY DEF IInv, InFlight, Idle
<1>2. At(w, "audit")'
  BY <1>1 DEF At
<1>3. EntryOf(r) = EntryOf(req[w])
  BY DEF EntryOf
<1>4. /\ req[w].ask.op \in Ops /\ req[w].ask.user \in Users
      /\ req[w].ask.op \notin ClusterOps => req[w].ask.body \in Things
  BY RequestHas DEF Good
<1>5. EntryOf(req[w]) \in Entry
  BY <1>4 DEF EntryOf, Entry, Row, Op
<1>6. /\ EntryOf(req[w]).action = Op(w)
      /\ Op(w) \in ClusterOps => EntryOf(req[w]).what = req[w].row.name
  BY DEF EntryOf, Op
<1> QED BY <1>1, <1>2, <1>3, <1>5, <1>6, OwedAfter

\* What a service answers is what the trail says of it.
LEMMA AnswersDone ==
  ASSUME NEW op \in Ops \ ClusterOps, NEW S, NEW x, NEW a \in Answers(op, S, x),
         NEW e, e.action = op, e.what = x
  PROVE  /\ ~a.ok => a.after = S
         /\ a.ok => AuditLog!Done(e, S, a.after) \/ (op \in AuditLog!Unread /\ a.after = S)
<1> USE DEF Answers, KafkaAnswers, KafkaAfter, RegistryAnswers, ConnectAnswers, KafkaOps,
            AuditLog!Done, AuditLog!Made, AuditLog!Unmade, AuditLog!Makes,
            AuditLog!Unmakes, AuditLog!Unread
<1>1. op \in {"createTopic", "deleteTopic", "publishMessage", "resetOffsets",
              "registerSchema", "createConnector", "deleteConnector",
              "restartConnector", "createACL", "deleteACL"}
  BY DEF Ops, ClusterOps, Needs
<1>2. CASE op \in {"createTopic", "createACL"}
  BY <1>2
<1>3. CASE op \in {"deleteTopic", "deleteACL"}
  BY <1>3
<1>4. CASE op \in {"publishMessage", "resetOffsets"}
  <2>1. AuditLog!Made(e) = {} /\ AuditLog!Unmade(e) = {}
    BY <1>4
  <2>2. a.after = S /\ (a.ok /\ op = "publishMessage" => <<"topic", x>> \in S)
    <3>1. CASE op = "publishMessage"
      <4>1. a = [after |-> S, ok |-> <<"topic", x>> \in S]
        BY <3>1
      <4> QED BY <4>1
    <3>2. CASE op = "resetOffsets"
      BY <3>2
    <3> QED BY <1>4, <3>1, <3>2
  <2> QED BY <1>4, <2>1, <2>2
<1>5. CASE op = "registerSchema"
  BY <1>5
<1>6. CASE op = "createConnector"
  BY <1>6
<1>7. CASE op = "deleteConnector"
  <2>1. AuditLog!Made(e) = {} /\ AuditLog!Unmade(e) = {<<"connector", x>>}
    BY <1>7
  <2>2. a.after = S \ {<<"connector", x>>} /\ a.ok = (<<"connector", x>> \in S)
    BY <1>7
  <2> QED BY <1>7, <2>1, <2>2
<1>8. CASE op = "restartConnector"
  <2>1. AuditLog!Made(e) = {} /\ AuditLog!Unmade(e) = {}
    BY <1>8
  <2>2. a.after = S /\ a.ok = (<<"connector", x>> \in S)
    BY <1>8
  <2> QED BY <1>8, <2>1, <2>2
<1> QED BY <1>1, <1>2, <1>3, <1>4, <1>5, <1>6, <1>7, <1>8

LEMMA TrailCall ==
  ASSUME IInv, NEW w \in Slots, CallService(w)
  PROVE  AuditLog!Change(w) \/ AuditLog!Unheard \/ UNCHANGED AuditLog!trailVars
<1> DEFINE site == req[w].row.site
           e == EntryOf(req[w])
<1>1. /\ Good(req[w]) /\ req[w].at = "call" /\ Op(w) \in Ops \ ClusterOps
      /\ ~At(w, "audit") /\ req[w] \in Request
      /\ UNCHANGED <<clusters, used, audit, up>>
      /\ site \in Sites /\ req[w].ask.body \in Things
  BY CallDoes DEF CallService, At, Good, RequestOK
<1>2. /\ e \in Entry /\ e.action = Op(w) /\ e.what = req[w].ask.body
      /\ services \in [Sites -> SUBSET Thing]
  BY <1>1, RequestHas DEF EntryOf, Entry, Op, Good, IInv, Tables
<1> HIDE DEF e
<1>3. ASSUME NEW a \in Answers(Op(w), services[site], req[w].ask.body),
             services' = [services EXCEPT ![site] = a.after]
      PROVE  /\ ~a.ok => services' = services
             /\ a.ok => \/ AuditLog!DoneAt(site, e)
                        \/ Op(w) \in AuditLog!Unread /\ services' = services
  <2>1. services'[site] = a.after
        /\ services' = [services EXCEPT ![site] = services'[site]]
    BY <1>1, <1>2, <1>3
  <2>2. a.after = services[site] => services' = services
    BY <1>1, <1>2, <1>3
  <2> QED BY <1>1, <1>2, <2>1, <2>2, AnswersDone DEF AuditLog!DoneAt
<1>4. CASE Answered(w)
  <2>1. \/ services' = services
        \/ \E a \in Answers(Op(w), services[site], req[w].ask.body) :
             services' = [services EXCEPT ![site] = a.after]
    BY DEF CallService
  <2>2. services' = services \/ AuditLog!DoneAt(site, e)
    BY <1>3, <2>1
  <2>3. Owed' = Owed /\ Trail' = Trail /\ Registered' = Registered
    BY <1>1, <1>4, NothingOwed, Quiet, TrailStays, RegisteredStays
  <2> QED BY <1>1, <1>2, <2>2, <2>3 DEF AuditLog!trailVars, AuditLog!Unheard
<1>5. CASE ~Answered(w)
  <2>0. /\ Goes(w, "audit")
        /\ \E a \in Answers(Op(w), services[site], req[w].ask.body) :
             a.ok /\ services' = [services EXCEPT ![site] = a.after]
    BY <1>5 DEF CallService
  <2> DEFINE r == [req[w] EXCEPT !.at = "audit"]
  <2>1. req' = [req EXCEPT ![w] = r]
    BY <2>0 DEF Goes
  <2>2. r.at = "audit" /\ r.ask = req[w].ask /\ r.row = req[w].row
    BY <1>1 DEF Request
  <2>3. Op(w) \in Audited /\ Op(w) \notin {"createCluster", "deleteCluster"}
    BY <1>1 DEF Audited, ClusterOps
  <2> HIDE DEF r
  <2>4. /\ Owed[w] = None /\ Owed'[w] = e /\ Owed'[w] \in Entry
        /\ Owed' = [Owed EXCEPT ![w] = Owed'[w]]
    BY <1>1, <2>1, <2>2, <2>3, Incurs DEF e
  <2>5. \/ AuditLog!DoneAt(site, e)
        \/ Op(w) \in AuditLog!Unread /\ services' = services
    BY <1>3, <2>0
  <2>6. Trail' = Trail /\ Registered' = Registered
    BY <1>1, TrailStays, RegisteredStays
  <2> QED BY <1>1, <1>2, <2>3, <2>4, <2>5, <2>6 DEF AuditLog!Change, AuditLog!Owes
<1> QED BY <1>4, <1>5

LEMMA TrailInsert ==
  ASSUME IInv, NEW w \in Slots, InsertCluster(w)
  PROVE  AuditLog!Register(w) \/ UNCHANGED AuditLog!trailVars
<1>1. /\ Good(req[w]) /\ req[w].at = "save" /\ Op(w) = "createCluster"
      /\ ~At(w, "audit") /\ req[w] \in Request /\ req[w].row \in Row
      /\ UNCHANGED <<audit, services, up>>
  BY SavingKnows DEF InsertCluster, At
<1>2. CASE Answered(w) /\ UNCHANGED clusters
  BY <1>1, <1>2, NothingOwed, Quiet, TrailStays, RegisteredStays DEF AuditLog!trailVars
<1>3. ASSUME ~NameTaken(req[w].row.name), NEW i \in Ids \ used,
             clusters' = [j \in DOMAIN clusters \cup {i} |->
                            IF j = i THEN req[w].row ELSE clusters[j]],
             req' = [req EXCEPT ![w] = Inserted(@, i)]
      PROVE  AuditLog!Register(w)
  <2> DEFINE r == [req[w] EXCEPT !.at = "audit", !.id = i]
  <2>1. req' = [req EXCEPT ![w] = r]
    BY <1>3 DEF Inserted
  <2>2. r.at = "audit" /\ r.ask = req[w].ask /\ r.row = req[w].row
    BY <1>1 DEF Request
  <2>3. Op(w) \in Audited
    BY <1>1 DEF Audited, Ops, Needs
  <2> HIDE DEF r
  <2>4. /\ Owed[w] = None /\ Owed'[w] \in Entry /\ Owed'[w].action = Op(w)
        /\ Owed' = [Owed EXCEPT ![w] = Owed'[w]]
        /\ Op(w) \in ClusterOps => Owed'[w].what = req[w].row.name
    BY <1>1, <2>1, <2>2, <2>3, Incurs
  <2>5. Owed'[w].what = req[w].row.name
    BY <1>1, <2>4 DEF ClusterOps
  <2>6. i \notin DOMAIN clusters
    BY <1>3 DEF IInv, Tables
  <2>7. /\ req[w].row.name \notin Registered
        /\ Registered' = Registered \cup {req[w].row.name}
    BY <1>3, <2>6 DEF Registered, NameTaken
  <2> QED BY <1>1, <2>4, <2>5, <2>7, TrailStays DEF AuditLog!Register, AuditLog!Owes
<1> QED BY <1>2, <1>3 DEF InsertCluster

LEMMA TrailDelete ==
  ASSUME IInv, NEW w \in Slots, DeleteCluster(w)
  PROVE  AuditLog!Remove(w) \/ UNCHANGED AuditLog!trailVars
<1> DEFINE gone == req[w].id
<1>1. /\ Good(req[w]) /\ req[w].at = "save" /\ Op(w) = "deleteCluster"
      /\ ~At(w, "audit") /\ req[w] \in Request /\ req[w].row \in Row
      /\ services' = services
  BY SavingKnows DEF DeleteCluster, At
<1>2. CASE Answered(w) /\ UNCHANGED <<clusters, audit>>
  BY <1>1, <1>2, NothingOwed, Quiet, TrailStays, RegisteredStays DEF AuditLog!trailVars
<1>3. CASE /\ clusters' = [j \in DOMAIN clusters \ {gone} |-> clusters[j]]
           /\ audit' = Detached(audit, gone) /\ Goes(w, "audit")
  <2> DEFINE r == [req[w] EXCEPT !.at = "audit"]
  <2>1. req' = [req EXCEPT ![w] = r]
    BY <1>3 DEF Goes
  <2>2. r.at = "audit" /\ r.ask = req[w].ask /\ r.row = req[w].row
    BY <1>1 DEF Request
  <2>3. Op(w) \in Audited
    BY <1>1 DEF Audited, Ops, Needs
  <2> HIDE DEF r
  <2>4. /\ Owed[w] = None /\ Owed'[w] \in Entry /\ Owed'[w].action = Op(w)
        /\ Owed' = [Owed EXCEPT ![w] = Owed'[w]]
        /\ Op(w) \in ClusterOps => Owed'[w].what = req[w].row.name
    BY <1>1, <2>1, <2>2, <2>3, Incurs
  <2>5. Owed'[w].what = req[w].row.name
    BY <1>1, <2>4 DEF ClusterOps
  <2>6. Trail' = Trail
    <3>1. DOMAIN audit' = DOMAIN audit
      BY <1>3 DEF Detached
    <3>2. \A k \in DOMAIN audit : audit[k] \in AuditRow
      BY DEF IInv, Tables
    <3>3. \A k \in DOMAIN audit :
            /\ audit'[k].action = audit[k].action /\ audit'[k].user = audit[k].user
            /\ audit'[k].what = audit[k].what
      BY <1>3, <3>2 DEF Detached, AuditRow
    <3> QED BY <3>1, <3>3 DEF Trail
  <2>7. Registered' \in {Registered, Registered \ {req[w].row.name}}
    <3>1. CASE gone \notin DOMAIN clusters
      BY <1>3, <3>1 DEF Registered
    <3>2. CASE gone \in DOMAIN clusters
      <4>1. clusters[gone].name = req[w].row.name
        BY <1>1, <3>2 DEF Good, Op
      <4>2. \A j \in DOMAIN clusters \ {gone} : clusters[j].name # clusters[gone].name
        BY <3>2 DEF IInv, Tables
      <4> QED BY <1>3, <3>2, <4>1, <4>2 DEF Registered
    <3> QED BY <3>1, <3>2
  <2> QED BY <1>1, <2>4, <2>5, <2>6, <2>7 DEF AuditLog!Remove, AuditLog!Owes
<1> QED BY <1>2, <1>3 DEF DeleteCluster

LEMMA TrailAudit ==
  ASSUME IInv, NEW w \in Slots, Audit(w)
  PROVE  AuditLog!Write(w) \/ AuditLog!Forget(w)
<1> DEFINE e == EntryOf(req[w])
<1>1. /\ At(w, "audit") /\ Answered(w) /\ UNCHANGED <<clusters, services>>
      /\ ~At(w, "audit")' /\ req' = [req EXCEPT ![w] = req'[w]]
  BY NothingOwed DEF Audit
<1>2. Owed[w] = e /\ Owed' = [Owed EXCEPT ![w] = None]
  BY <1>1, OwedAfter
<1>3. e \in Entry /\ e # None
  BY <1>1, OwesEntries, ClustersAssumption
<1>4. CASE UNCHANGED audit
  BY <1>1, <1>2, <1>3, <1>4, TrailStays, RegisteredStays DEF AuditLog!Forget
<1>5. CASE audit' # audit
  <2> DEFINE row == [action |-> e.action, user |-> e.user, what |-> e.what,
                     cluster |-> req[w].id]
  <2>1. audit' = Append(audit, row)
    BY <1>5 DEF Audit
  <2>2. row \in AuditRow
    BY <1>3, <1>5 DEF Audit, Entry, AuditRow, IInv, Tables
  <2>3. [action |-> row.action, user |-> row.user, what |-> row.what] = e
    BY <1>3 DEF Entry
  <2> HIDE DEF row
  <2>4. /\ audit \in Seq(AuditRow) /\ DOMAIN audit' = 1..Len(audit) + 1
        /\ audit'[Len(audit) + 1] = row
        /\ \A k \in 1..Len(audit) : audit'[k] = audit[k]
    BY <2>1, <2>2 DEF IInv, Tables
  <2>5. Trail \in Seq(Entry) /\ Len(Trail) = Len(audit)
    <3>1. \A k \in DOMAIN audit : audit[k] \in AuditRow
      BY <2>4
    <3>2. Trail \in [1..Len(audit) -> Entry] /\ Len(audit) \in Nat
      BY <2>4, <3>1 DEF Trail, AuditRow, Entry
    <3> QED BY <3>2
  <2>6. Trail' = Append(Trail, e)
    <3> DEFINE long == Append(Trail, e)
    <3>1. /\ DOMAIN long = 1..Len(audit) + 1 /\ long[Len(audit) + 1] = e
          /\ \A k \in 1..Len(audit) : long[k] = Trail[k]
          /\ long = [k \in DOMAIN long |-> long[k]]
      BY <1>3, <2>4, <2>5
    <3>2. \A k \in 1..Len(audit) : Trail'[k] = Trail[k]
      BY <2>4 DEF Trail
    <3>3. Trail'[Len(audit) + 1] = e
      BY <2>3, <2>4 DEF Trail
    <3>4. DOMAIN Trail' = 1..Len(audit) + 1 /\ Trail' = [k \in DOMAIN Trail' |-> Trail'[k]]
      BY <2>4 DEF Trail
    <3>5. Len(audit) \in Nat
      BY <2>4
    <3> HIDE DEF long, e
    <3>6. \A k \in 1..Len(audit) + 1 : Trail'[k] = long[k]
      BY <3>1, <3>2, <3>3, <3>5
    <3>7. Trail' = long
      BY <3>1, <3>4, <3>6
    <3> QED BY <3>7 DEF long
  <2> QED BY <1>1, <1>2, <1>3, <2>6, RegisteredStays DEF AuditLog!Write
<1> QED BY <1>4, <1>5

\* What one statement means to the trail.
LEMMA TrailStep ==
  ASSUME IInv, [Next]_vars
  PROVE  [AuditLog!Next]_(AuditLog!trailVars)
<1>1. ASSUME NEW w \in Slots, CallService(w)
      PROVE  [AuditLog!Next]_(AuditLog!trailVars)
  BY <1>1, TrailCall DEF AuditLog!Next
<1>2. ASSUME NEW w \in Slots, InsertCluster(w)
      PROVE  [AuditLog!Next]_(AuditLog!trailVars)
  BY <1>2, TrailInsert DEF AuditLog!Next
<1>3. ASSUME NEW w \in Slots, DeleteCluster(w)
      PROVE  [AuditLog!Next]_(AuditLog!trailVars)
  BY <1>3, TrailDelete DEF AuditLog!Next
<1>4. ASSUME NEW w \in Slots, Audit(w)
      PROVE  [AuditLog!Next]_(AuditLog!trailVars)
  BY <1>4, TrailAudit DEF AuditLog!Next
<1>5. ASSUME NEW w \in Slots, UpdateClusterStatus(w)
      PROVE  UNCHANGED AuditLog!trailVars
  <2>1. ~At(w, "audit") /\ Answered(w) /\ UNCHANGED <<audit, services>>
    BY <1>5 DEF UpdateClusterStatus, Saving, At
  <2>2. Registered' = Registered
    BY <1>5, NamesStay DEF Registered
  <2> QED BY <2>1, <2>2, NothingOwed, Quiet, TrailStays DEF AuditLog!trailVars
<1>6. ASSUME NEW w \in Slots, LoadCluster(w) \/ TestConnection(w)
      PROVE  UNCHANGED AuditLog!trailVars
  <2>1. /\ ~At(w, "audit") /\ UNCHANGED <<clusters, audit, services>>
        /\ req[w] # Idle
    BY <1>6 DEF LoadCluster, TestConnection, At
  <2>2. req[w] \in Request
    BY <2>1 DEF IInv, InFlight, Good, RequestOK
  <2>3. \/ Answered(w)
        \/ \E id, row, at : /\ at # "audit"
                            /\ req' = [req EXCEPT ![w] = [@ EXCEPT !.at = at, !.id = id,
                                                                  !.row = row]]
        \/ \E row : req' = [req EXCEPT ![w] = [@ EXCEPT !.at = "save", !.row = row]]
    <3>1. CASE LoadCluster(w)
      <4> DEFINE at == IF Op(w) = "deleteCluster" THEN "save" ELSE "call"
      <4>1. at # "audit"
        OBVIOUS
      <4> QED BY <3>1, <4>1 DEF LoadCluster
    <3>2. CASE TestConnection(w)
      BY <3>2 DEF TestConnection
    <3> QED BY <1>6, <3>1, <3>2
  <2>4. ~At(w, "audit")' /\ req' = [req EXCEPT ![w] = req'[w]]
    BY <2>2, <2>3, NothingOwed DEF At, IInv, InFlight, Request
  <2> QED BY <2>1, <2>4, Quiet, TrailStays, RegisteredStays DEF AuditLog!trailVars
<1>7. ASSUME NEW w \in Slots, NEW ask \in Requests, Begin(w, ask)
      PROVE  UNCHANGED AuditLog!trailVars
  <2>1. /\ ~At(w, "audit") /\ UNCHANGED <<clusters, audit, services>>
        /\ ~At(w, "audit")' /\ req' = [req EXCEPT ![w] = req'[w]]
    BY <1>7 DEF Begin, At, IInv, InFlight
  <2> QED BY <2>1, Quiet, TrailStays, RegisteredStays DEF AuditLog!trailVars
<1>8. ASSUME NEW s \in Sites, SiteChanges(s)
      PROVE  UNCHANGED AuditLog!trailVars
  BY <1>8, TrailStays, RegisteredStays DEF SiteChanges, AuditLog!trailVars, Owed, At
<1>9. CASE Restart
  <2>1. Owed' = [w \in Slots |-> None]
    BY <1>9 DEF Restart, Owed, At
  <2>2. Trail' = Trail /\ Registered' = Registered /\ services' = services
    BY <1>9, TrailStays, RegisteredStays DEF Restart
  <2> QED BY <2>1, <2>2 DEF AuditLog!Next, AuditLog!Crash
<1>10. CASE UNCHANGED vars
  BY <1>10, TrailStays, RegisteredStays DEF vars, AuditLog!trailVars, Owed, At
<1> QED BY <1>1, <1>2, <1>3, <1>4, <1>5, <1>6, <1>7, <1>8, <1>9, <1>10 DEF Next, Step

\* Clusters implements the audit trail, whatever statements, calls and answers
\* fail or are lost with a restart and however handlers overlap: entries are
\* about what the services did, or what Kafka refused inside its answer.
THEOREM Implements == Spec => ImplementsTrail
<1>1. Init => AuditLog!Init
  BY DEF Init, AuditLog!Init, Owed, Trail, At
<1>2. IInv /\ [Next]_vars => [AuditLog!Next]_(AuditLog!trailVars)
  BY TrailStep
<1> QED BY <1>1, <1>2, Invariant, PTL DEF Spec, ImplementsTrail, AuditLog!Spec
=============================================================================

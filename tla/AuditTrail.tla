----------------------------- MODULE AuditTrail -----------------------------
(***************************************************************************)
(* What the audit log promises, without requests and statements: an         *)
(* operator that did something owes one entry about it, and the entry says  *)
(* what it was; an entry is written once and only when it is owed.  Nothing *)
(* is registered, removed or changed without an entry owed, unless the      *)
(* answer to the call was lost.  An entry that is owed may be forgotten,    *)
(* and what Kafka refuses inside its answer is taken for done.              *)
(***************************************************************************)
EXTENDS Sequences

CONSTANTS None, Operators, Sites,
          Entries      \* [action, user, what]

VARIABLES
  registered,  \* names of the registered clusters
  services,    \* what every site holds: pairs of a kind and a name
  owed,        \* the entry an operator owes, or None
  trail        \* the entries written so far

trailVars == <<registered, services, owed, trail>>

Init == /\ owed = [o \in Operators |-> None]
        /\ trail = <<>>

\* Operator o has done something and owes an entry about it.
Owes(o) == /\ owed[o] = None /\ owed'[o] \in Entries
           /\ owed' = [owed EXCEPT ![o] = owed'[o]]
           /\ UNCHANGED trail

Register(o) ==
  /\ Owes(o) /\ owed'[o].action = "createCluster"
  /\ owed'[o].what \notin registered
  /\ registered' = registered \cup {owed'[o].what}
  /\ UNCHANGED services

\* Somebody else may have been faster.
Remove(o) ==
  /\ Owes(o) /\ owed'[o].action = "deleteCluster"
  /\ registered' \in {registered, registered \ {owed'[o].what}}
  /\ UNCHANGED services

\* What an action makes, and what it removes.
Makes == [createTopic |-> "topic", createACL |-> "acl",
          registerSchema |-> "schema", createConnector |-> "connector"]
Unmakes == [deleteTopic |-> "topic", deleteACL |-> "acl",
            deleteConnector |-> "connector"]
Made(e) == IF e.action \in DOMAIN Makes
           THEN {<<Makes[e.action], e.what>>} ELSE {}
Unmade(e) == IF e.action \in DOMAIN Unmakes
             THEN {<<Unmakes[e.action], e.what>>} ELSE {}

\* A site that held S did what e says, and holds T.
Done(e, S, T) ==
  /\ e.action = "createConnector" => <<"connector", e.what>> \notin S
  /\ e.action \in {"deleteConnector", "restartConnector"} =>
       <<"connector", e.what>> \in S
  /\ e.action = "publishMessage" => <<"topic", e.what>> \in S
  /\ T = (S \cup Made(e)) \ Unmade(e)
DoneAt(s, e) == /\ services' = [services EXCEPT ![s] = services'[s]]
                /\ Done(e, services[s], services'[s])

\* Kafka may refuse these in an answer that arrives without an error.
Unread == {"createTopic", "deleteTopic", "createACL", "deleteACL",
           "resetOffsets"}

\* Something in a managed cluster.
Change(o) ==
  /\ Owes(o) /\ owed'[o].action \notin {"createCluster", "deleteCluster"}
  /\ \/ \E s \in Sites : DoneAt(s, owed'[o])
     \/ owed'[o].action \in Unread /\ UNCHANGED services
  /\ UNCHANGED registered

\* It is done, and nobody learns of it.
Unheard ==
  /\ services' # services
  /\ \E s \in Sites, e \in Entries : DoneAt(s, e)
  /\ UNCHANGED <<registered, owed, trail>>

Write(o) ==
  /\ owed[o] # None
  /\ trail' = Append(trail, owed[o])
  /\ owed' = [owed EXCEPT ![o] = None]
  /\ UNCHANGED <<registered, services>>

\* The entry cannot be written, and nobody is told.
Forget(o) ==
  /\ owed[o] # None
  /\ owed' = [owed EXCEPT ![o] = None]
  /\ UNCHANGED <<registered, services, trail>>

Crash ==
  /\ owed' = [o \in Operators |-> None]
  /\ UNCHANGED <<registered, services, trail>>

Next == \/ \E o \in Operators : \/ Register(o) \/ Remove(o) \/ Change(o)
                                 \/ Write(o) \/ Forget(o)
        \/ Unheard \/ Crash

Spec == Init /\ [][Next]_trailVars
=============================================================================

------------------------------- MODULE Alerts -------------------------------
(***************************************************************************)
(* Alert rules and events: the background evaluator, evaluations on         *)
(* request, and the rule and event handlers, over the tables alert_rules    *)
(* and alert_events and the lag and partition counts Kafka reports.         *)
(*                                                                          *)
(* One action is one SQL statement or one read of the cluster, with the     *)
(* code up to the next one.  A resolved event plays no part in any later    *)
(* step, so the events are counted while they are ACTIVE, by rule and by    *)
(* what they are about.                                                     *)
(***************************************************************************)
EXTENDS Naturals, FiniteSets

CONSTANTS
  None, Gone,
  Clusters, RuleIds,
  Groups,      \* consumer groups, numbered in the order of their names
  Offline,     \* what an offline_partitions event is about
  Levels,      \* lags and numbers of offline partitions
  Covers,      \* pairs <<g, h>>: the pattern of g (SQL LIKE: its name and %)
               \* matches an event about h
  Bodies,      \* the rules clients create: [cluster, type, threshold, enabled]
  Ticker,      \* the background evaluator
  Requests,    \* evaluations on request that may run at once
  Faults,      \* subset of {"list", "lag", "check", "resolve", "insert",
               \* "restart"}
  MaxFaults,   \* bound on the faults of a behaviour
  Cap          \* ACTIVE events of one kind are counted up to here

VARIABLES
  clusters,    \* rows of clusters
  rules,       \* alert_rules; None before a rule is created, Gone after
  active,      \* number of ACTIVE events by rule (None once the rule is
               \* deleted) and by what they are about
  level,       \* by cluster: lag of every group (None: not listed), and number
               \* of offline partitions
  eval,        \* evaluations in progress
  faults

tables == <<clusters, rules, active>>
vars == <<clusters, rules, active, level, eval, faults>>

About == Groups \cup {Offline}
Evaluators == Requests \cup {Ticker}
Row == [cluster : Clusters, type : {"consumer_lag", "offline_partitions"},
        threshold : Levels, enabled : BOOLEAN]

ASSUME AlertsAssumption ==
  /\ Groups \subseteq Nat /\ Offline \notin Nat /\ Levels \subseteq Nat
  /\ 0 \in Levels
  /\ Covers \subseteq Groups \X Groups /\ \A g \in Groups : <<g, g>> \in Covers
  /\ Bodies \subseteq Row
  /\ None \notin Row /\ Gone \notin Row /\ None # Gone
  /\ None \notin RuleIds /\ None \notin Levels
  /\ Ticker \notin Requests /\ IsFiniteSet(Requests)
  /\ MaxFaults \in Nat /\ Cap \in Nat

Exists(r) == rules[r] \in Row
Up(n) == IF n < Cap THEN n + 1 ELSE n
Nothing == [a \in About |-> 0]
Empty == [x \in {} |-> None]
Idle == [at |-> "idle", todo |-> Empty, rule |-> None, row |-> None,
         seen |-> Empty]

Init == /\ clusters = Clusters
        /\ rules = [r \in RuleIds |-> None]
        /\ active = [r \in RuleIds \cup {None} |-> Nothing]
        /\ level = [c \in Clusters |-> [a \in About |-> 0]]
        /\ eval = [e \in Evaluators |-> Idle]
        /\ faults = 0

Fault(f) == f \in Faults /\ faults < MaxFaults /\ faults' = faults + 1

-----------------------------------------------------------------------------
(* The handlers.                                                           *)

\* createAlertRule, for a cluster that is there.
CreateRule(r, body) ==
  /\ rules[r] = None /\ body.cluster \in clusters
  /\ rules' = [rules EXCEPT ![r] = body]
  /\ UNCHANGED <<clusters, active, level, eval, faults>>

\* Slip: the events of a deleted rule keep its id.
DeleteRuleKeepingEvents(r) ==
  /\ Exists(r)
  /\ rules' = [rules EXCEPT ![r] = Gone]
  /\ UNCHANGED <<clusters, active, level, eval, faults>>

\* deleteAlertRule; ON DELETE SET NULL leaves its events without a rule.
DeleteRule(r) ==
  /\ Exists(r)
  /\ rules' = [rules EXCEPT ![r] = Gone]
  /\ active' = [active EXCEPT
       ![r] = Nothing,
       ![None] = [a \in About |-> IF @[a] + active[r][a] < Cap
                                  THEN @[a] + active[r][a] ELSE Cap]]
  /\ UNCHANGED <<clusters, level, eval, faults>>

\* resolveAlertEvent.
ResolveEvent(r, a) ==
  /\ active[r][a] > 0
  /\ active' = [active EXCEPT ![r][a] = @ - 1]
  /\ UNCHANGED <<clusters, rules, level, eval, faults>>

\* deleteCluster takes the rules and events of the cluster with it.  Events
\* whose rule is gone already go with their own cluster_id: some of them do.
DeleteCluster(c) ==
  /\ c \in clusters
  /\ clusters' = clusters \ {c}
  /\ rules' = [r \in RuleIds |->
                 IF Exists(r) /\ rules[r].cluster = c THEN Gone ELSE rules[r]]
  /\ \E left \in {active[None], Nothing} :
       active' = [r \in RuleIds \cup {None} |->
                    IF r = None THEN IF clusters' = {} THEN Nothing ELSE left
                    ELSE IF rules'[r] = Gone THEN Nothing ELSE active[r]]
  /\ UNCHANGED <<level, eval, faults>>

\* Consumers fall behind or catch up, groups come and go, partitions lose
\* their leader or get one.
LevelChanges(c, a, n) ==
  /\ level[c][a] # n
  /\ n = None => a # Offline
  /\ level' = [level EXCEPT ![c][a] = n]
  /\ UNCHANGED <<tables, eval, faults>>

-----------------------------------------------------------------------------
(* An evaluation.                                                          *)

\* Where it goes with the rules that are left, and after the current group.
WithRules(todo) ==
  IF DOMAIN todo = {} THEN Idle ELSE [Idle EXCEPT !.at = "rule", !.todo = todo]
Current(ev) == CHOOSE g \in DOMAIN ev.seen : \A h \in DOMAIN ev.seen :
                 g = Offline \/ g <= h
WithGroups(ev, seen) ==
  IF DOMAIN seen = {} THEN WithRules(ev.todo)
  ELSE [ev EXCEPT !.at = "group", !.seen = seen]

\* Slip: after the last group the evaluation looks for another one.
NextGroupAlways(ev) ==
  [ev EXCEPT !.at = "group",
             !.seen = [g \in DOMAIN @ \ {Current(ev)} |-> @[g]]]
NextGroup(ev) ==
  WithGroups(ev, [g \in DOMAIN ev.seen \ {Current(ev)} |-> ev.seen[g]])
Move(e, ev) == eval' = [eval EXCEPT ![e] = ev]

\* ListEnabledAlertRules; ListAlertRules of a cluster, where disabled rules are
\* passed over.
EnabledRules(cs) ==
  [r \in {q \in RuleIds : Exists(q) /\ rules[q].enabled
                          /\ rules[q].cluster \in cs} |-> rules[r]]

\* A tick, and a request for one cluster.
Begin(e) ==
  /\ eval[e] = Idle
  /\ IF e = Ticker THEN Move(e, WithRules(EnabledRules(Clusters)))
     ELSE \E c \in clusters : Move(e, WithRules(EnabledRules({c})))
  /\ UNCHANGED <<tables, level, faults>>

\* What the cluster answers for a rule.
Listed(row) ==
  IF row.type = "offline_partitions" THEN {Offline}
  ELSE {g \in Groups : level[row.cluster][g] # None}
Read(row) == [a \in Listed(row) |-> level[row.cluster][a]]

\* GetCluster, then ListConsumerGroups or GetHealth (an evaluation on request
\* reads the cluster once; the rules of a deleted cluster are gone, so nothing
\* it does for them later has an effect).  A failure passes the
\* rule over; when only the lags cannot be read, every group has lag 0.
Take(e) ==
  /\ eval[e].at = "rule"
  /\ \E r \in DOMAIN eval[e].todo :
       LET row == eval[e].todo[r]
           rest == [q \in DOMAIN eval[e].todo \ {r} |-> eval[e].todo[q]]
           took == [eval[e] EXCEPT !.todo = rest, !.rule = r, !.row = row]
       IN  \/ /\ row.cluster \in clusters
              /\ Move(e, WithGroups(took, Read(row)))
              /\ UNCHANGED faults
           \/ /\ row.cluster \notin clusters
              /\ Move(e, WithRules(rest))
              /\ UNCHANGED faults
           \/ /\ Fault("list")
              /\ Move(e, WithRules(rest))
           \/ /\ row.type = "consumer_lag" /\ Fault("lag")
              /\ Move(e, WithGroups(took, [g \in Listed(row) |-> 0]))
  /\ UNCHANGED <<tables, level>>

Judged(ev) == ev.seen[Current(ev)]

\* Slip: a lag equal to the threshold counts as above it.
BelowStrict(ev) == Judged(ev) < ev.row.threshold
Below(ev) == Judged(ev) <= ev.row.threshold

\* Slip: every event of the rule is resolved.
ResolveRecoveredAll(e) ==
  LET ev == eval[e] IN
  /\ ev.at = "group" /\ ev.row.type = "consumer_lag" /\ Below(ev)
  /\ active' = [active EXCEPT ![ev.rule] = Nothing]
  /\ UNCHANGED faults
  /\ Move(e, NextGroup(ev))
  /\ UNCHANGED <<clusters, rules, level>>

\* ResolveActiveAlertsByPrefix; its error is ignored.
ResolveRecovered(e) ==
  LET ev == eval[e] IN
  /\ ev.at = "group" /\ ev.row.type = "consumer_lag" /\ Below(ev)
  /\ \/ /\ active' = [active EXCEPT ![ev.rule] =
                        [a \in About |-> IF <<Current(ev), a>> \in Covers
                                         THEN 0 ELSE @[a]]]
        /\ UNCHANGED faults
     \/ Fault("resolve") /\ UNCHANGED active
  /\ Move(e, NextGroup(ev))
  /\ UNCHANGED <<clusters, rules, level>>

\* Slip: any active event of the rule counts.
HasActiveAny(ev) == \E h \in Groups : active[ev.rule][h] > 0
\* Slip: the events of deleted rules are looked at.
HasActiveDetached(ev) == active[None][Current(ev)] > 0
HasActive(ev) == \E h \in Groups : <<Current(ev), h>> \in Covers
                                   /\ active[ev.rule][h] > 0

\* HasActiveAlertEvent for a group above the threshold; an error counts as no.
\* Offline partitions are not checked for an earlier event.
Check(e) ==
  LET ev == eval[e] IN
  /\ ev.at = "group"
  /\ IF ev.row.type = "offline_partitions"
     THEN /\ Move(e, IF Below(ev) THEN NextGroup(ev) ELSE [ev EXCEPT !.at = "fire"])
          /\ UNCHANGED faults
     ELSE /\ ~Below(ev)
          /\ \/ /\ Move(e, IF HasActive(ev) THEN NextGroup(ev)
                                            ELSE [ev EXCEPT !.at = "fire"])
                /\ UNCHANGED faults
             \/ Fault("check") /\ Move(e, [ev EXCEPT !.at = "fire"])
  /\ UNCHANGED <<tables, level>>

\* InsertAlertEvent; it fails when the rule is gone (foreign key), and its
\* error is ignored.
Fire(e) ==
  LET ev == eval[e] IN
  /\ ev.at = "fire"
  /\ \/ /\ Exists(ev.rule)
        /\ active' = [active EXCEPT ![ev.rule][Current(ev)] = Up(@)]
        /\ UNCHANGED faults
     \/ ~Exists(ev.rule) /\ UNCHANGED <<active, faults>>
     \/ Fault("insert") /\ UNCHANGED active
  /\ Move(e, NextGroup(ev))
  /\ UNCHANGED <<clusters, rules, level>>

\* The process stops and starts again.
Restart ==
  /\ Fault("restart")
  /\ eval' = [e \in Evaluators |-> Idle]
  /\ UNCHANGED <<tables, level>>

-----------------------------------------------------------------------------

Step(e) == Take(e) \/ ResolveRecovered(e) \/ Check(e) \/ Fire(e)

Next == \/ \E r \in RuleIds : DeleteRule(r) \/ \E b \in Bodies : CreateRule(r, b)
        \/ \E r \in RuleIds \cup {None}, a \in About : ResolveEvent(r, a)
        \/ \E c \in Clusters : \/ DeleteCluster(c)
                               \/ \E a \in About, n \in Levels \cup {None} :
                                    LevelChanges(c, a, n)
        \/ \E e \in Evaluators : Begin(e) \/ Step(e)
        \/ Restart

Spec == Init /\ [][Next]_vars

\* The ticker keeps ticking, and an evaluation that runs goes on.
FairSpec == Spec /\ WF_vars(Begin(Ticker)) /\ \A e \in Evaluators : WF_vars(Step(e))

-----------------------------------------------------------------------------
(* Properties.                                                             *)

Todo == UNION {[S -> Row] : S \in SUBSET RuleIds}
Seen == UNION {[S -> Levels] : S \in SUBSET About}
EvalType == [at : {"idle", "rule", "group", "fire"}, todo : Todo,
             rule : RuleIds \cup {None}, row : Row \cup {None}, seen : Seen]
EvalOK(ev) ==
  /\ ev \in EvalType
  /\ ev.at \in {"group", "fire"} =>
       /\ ev.rule \in RuleIds /\ ev.row \in Row
       /\ DOMAIN ev.seen # {}
       /\ DOMAIN ev.seen \subseteq (IF ev.row.type = "consumer_lag" THEN Groups
                                                             ELSE {Offline})

TypeOK ==
  /\ clusters \subseteq Clusters
  /\ rules \in [RuleIds -> Row \cup {None, Gone}]
  /\ active \in [RuleIds \cup {None} -> [About -> 0..Cap]]
  /\ level \in [Clusters -> [About -> Levels \cup {None}]]
  /\ \A c \in Clusters : level[c][Offline] # None
  /\ DOMAIN eval = Evaluators /\ \A e \in Evaluators : EvalOK(eval[e])
  /\ faults \in 0..MaxFaults

\* Evaluations that overlap each look for an active event before they insert
\* one (evalConsumerLag): for one rule and one group there are never more
\* active events than evaluations that can overlap.
DuplicatesBounded ==
  \A r \in RuleIds, g \in Groups : active[r][g] <= Cardinality(Evaluators)

\* Events name a rule that is there, although rules are deleted while they are
\* being evaluated.
NoEventForMissingRule ==
  \A r \in RuleIds, a \in About : active[r][a] > 0 => Exists(r)

\* The pattern of a group may match events about others.  As long as it matches
\* only later ones (a name that begins another sorts before it), an evaluation
\* takes no event from a group it has judged already: what it resolves is about
\* the group it just read at or below the threshold, or about a later one, and if
\* that one is listed the evaluation still judges it, and raises it again.
JudgedGroupsKeepEvents ==
  [][\A e \in Evaluators : Step(e) =>
       \A r \in RuleIds, a \in About : active'[r][a] < active[r][a] =>
         /\ eval[e].rule = r
         /\ \/ a = Current(eval[e]) /\ eval[e].seen[a] <= eval[e].row.threshold
            \/ /\ a \in Groups /\ a > Current(eval[e])
               /\ a \in DOMAIN eval[e].seen
                    => /\ eval'[e].at = "group" /\ eval'[e].rule = r
                       /\ a \in DOMAIN eval'[e].seen]_vars

\* "Recent events shows WARNING entries if any consumer group max lag > 50":
\* while a group stays above the threshold of an enabled rule, an active event
\* that its pattern matches is there again and again, whatever is resolved by hand.
On(r) == Exists(r) /\ rules[r].enabled /\ rules[r].type = "consumer_lag"
         /\ rules[r].cluster \in clusters
Lag(r, g) == level[rules[r].cluster][g]
Raised(r, g) == \E h \in Groups : <<g, h>> \in Covers /\ active[r][h] > 0
LagRaises ==
  \A r \in RuleIds, g \in Groups :
    <>[](On(r) /\ Lag(r, g) # None /\ Lag(r, g) > rules[r].threshold)
      => []<>Raised(r, g)

\* While a group stays at or below the threshold its events end up resolved,
\* and evaluations that read an older lag do not bring them back for good.
RecoveryResolves ==
  \A r \in RuleIds, g \in Groups :
    <>[](On(r) /\ Lag(r, g) # None /\ Lag(r, g) <= rules[r].threshold)
      => <>[](active[r][g] = 0)
=============================================================================

--------------------------- MODULE Alerts_proofs ---------------------------
(***************************************************************************)
(* Theorems about Alerts, for any clusters, rules, groups, lags and any     *)
(* number of evaluations at once, with failures and restarts.               *)
(***************************************************************************)
EXTENDS Alerts, TLAPS, OrderTheorems

\* Rows are always there under the rule that is evaluated.
Working(ev) == ev.at \in {"group", "fire"}

-----------------------------------------------------------------------------
(* Where an evaluation goes keeps its type.                                *)

LEMMA EmptyOK == Empty \in Todo /\ Empty \in Seen /\ DOMAIN Empty = {}
<1>1. Empty \in [{} -> Row] /\ Empty \in [{} -> Levels] /\ DOMAIN Empty = {}
  BY DEF Empty
<1> QED BY <1>1 DEF Todo, Seen

LEMMA IdleOK == EvalOK(Idle) /\ Idle.at = "idle"
BY EmptyOK DEF EvalOK, EvalType, Idle

LEMMA TodoDomain ==
  ASSUME NEW todo \in Todo
  PROVE  /\ DOMAIN todo \subseteq RuleIds
         /\ \A r \in DOMAIN todo : todo[r] \in Row
         /\ \A S \in SUBSET DOMAIN todo : [r \in S |-> todo[r]] \in Todo
BY DEF Todo

LEMMA SeenDomain ==
  ASSUME NEW seen \in Seen
  PROVE  /\ DOMAIN seen \subseteq About
         /\ \A a \in DOMAIN seen : seen[a] \in Levels
         /\ \A S \in SUBSET DOMAIN seen : [a \in S |-> seen[a]] \in Seen
BY DEF Seen

LEMMA WithRulesOK ==
  ASSUME NEW todo \in Todo
  PROVE  EvalOK(WithRules(todo)) /\ WithRules(todo).at \in {"idle", "rule"}
<1>1. CASE DOMAIN todo = {}
  BY <1>1, IdleOK DEF WithRules
<1>2. CASE DOMAIN todo # {}
  <2>1. WithRules(todo) = [Idle EXCEPT !.at = "rule", !.todo = todo]
    BY <1>2 DEF WithRules
  <2> QED BY <2>1, EmptyOK DEF EvalOK, EvalType, Idle
<1> QED BY <1>1, <1>2

LEMMA WithGroupsOK ==
  ASSUME NEW ev \in EvalType, ev.rule \in RuleIds, ev.row \in Row,
         NEW seen \in Seen,
         DOMAIN seen \subseteq (IF ev.row.type = "consumer_lag" THEN Groups
                                                           ELSE {Offline})
  PROVE  EvalOK(WithGroups(ev, seen)) /\ WithGroups(ev, seen).at # "fire"
<1>1. CASE DOMAIN seen = {}
  BY <1>1, WithRulesOK DEF WithGroups, EvalType
<1>2. CASE DOMAIN seen # {}
  <2>1. WithGroups(ev, seen) = [ev EXCEPT !.at = "group", !.seen = seen]
    BY <1>2 DEF WithGroups
  <2>2. WithGroups(ev, seen) \in EvalType
    BY <2>1 DEF EvalType
  <2> QED BY <1>2, <2>1, <2>2 DEF EvalOK, EvalType
<1> QED BY <1>1, <1>2

LEMMA NextGroupOK ==
  ASSUME NEW ev, EvalOK(ev), Working(ev)
  PROVE  EvalOK(NextGroup(ev)) /\ NextGroup(ev).at # "fire"
<1> DEFINE left == DOMAIN ev.seen \ {Current(ev)}
           seen == [g \in left |-> ev.seen[g]]
<1>1. ev \in EvalType /\ ev.rule \in RuleIds /\ ev.row \in Row /\ ev.seen \in Seen
  BY DEF EvalOK, EvalType, Working
<1>2. seen \in Seen /\ DOMAIN seen = left
  BY <1>1, SeenDomain
<1>3. left \subseteq (IF ev.row.type = "consumer_lag" THEN Groups ELSE {Offline})
  BY DEF EvalOK, Working
<1> HIDE DEF left, seen
<1>4. EvalOK(WithGroups(ev, seen)) /\ WithGroups(ev, seen).at # "fire"
  BY <1>1, <1>2, <1>3, WithGroupsOK
<1> QED BY <1>4 DEF NextGroup, seen, left

LEMMA CurrentIn ==
  ASSUME NEW ev, EvalOK(ev), Working(ev)
  PROVE  Current(ev) \in DOMAIN ev.seen
<1> DEFINE D == DOMAIN ev.seen
<1>1. D # {} /\ D \subseteq (IF ev.row.type = "consumer_lag" THEN Groups
                                                        ELSE {Offline})
  BY DEF EvalOK, Working
<1>2. \E g \in D : \A h \in D : g = Offline \/ g <= h
  <2>1. CASE D \subseteq Groups
    <3>1. D \in SUBSET Nat
      BY <2>1, AlertsAssumption
    <3> HIDE DEF D
    <3> QED BY <1>1, <3>1, LeastOfNaturals
  <2>2. CASE D \subseteq {Offline}
    BY <1>1, <2>2
  <2> QED BY <1>1, <2>1, <2>2
<1> QED BY <1>2 DEF Current

-----------------------------------------------------------------------------
(* The type invariant.                                                     *)

LEMMA MoveOK ==
  ASSUME TypeOK, NEW e \in Evaluators, NEW ev, EvalOK(ev), Move(e, ev)
  PROVE  DOMAIN eval' = Evaluators /\ \A x \in Evaluators : EvalOK(eval'[x])
BY DEF TypeOK, Move

LEMMA FaultOK ==
  ASSUME TypeOK, NEW f, Fault(f) \/ UNCHANGED faults
  PROVE  faults' \in 0..MaxFaults
BY AlertsAssumption DEF TypeOK, Fault

LEMMA UpOK ==
  ASSUME NEW n \in 0..Cap
  PROVE  Up(n) \in 0..Cap /\ n <= Up(n) /\ Up(n) <= n + 1
BY AlertsAssumption DEF Up

LEMMA BeginOK ==
  ASSUME TypeOK, NEW e \in Evaluators, Begin(e)
  PROVE  /\ DOMAIN eval' = Evaluators /\ \A x \in Evaluators : EvalOK(eval'[x])
         /\ \E ev : Move(e, ev) /\ ev.at # "fire"
<1>1. ASSUME NEW cs PROVE EnabledRules(cs) \in Todo
  <2> DEFINE S == {q \in RuleIds : Exists(q) /\ rules[q].enabled
                                  /\ rules[q].cluster \in cs}
  <2>1. [r \in S |-> rules[r]] \in [S -> Row]
    BY DEF Exists
  <2>2. [r \in S |-> rules[r]] \in Todo
    BY <2>1 DEF Todo
  <2> QED BY <2>2 DEF EnabledRules
<1>2. PICK cs : Move(e, WithRules(EnabledRules(cs)))
  BY DEF Begin
<1>3. /\ EvalOK(WithRules(EnabledRules(cs)))
      /\ WithRules(EnabledRules(cs)).at \in {"idle", "rule"}
  BY <1>1, WithRulesOK
<1> QED BY <1>2, <1>3, MoveOK

LEMMA ReadOK ==
  ASSUME TypeOK, NEW row \in Row
  PROVE  /\ Read(row) \in Seen /\ DOMAIN Read(row) = Listed(row)
         /\ [g \in Listed(row) |-> 0] \in Seen
         /\ Listed(row) \subseteq (IF row.type = "consumer_lag" THEN Groups
                                                           ELSE {Offline})
<1>1. row.cluster \in Clusters /\ row.type \in {"consumer_lag", "offline_partitions"}
  BY DEF Row
<1>2. Listed(row) \subseteq (IF row.type = "consumer_lag" THEN Groups ELSE {Offline})
  BY <1>1 DEF Listed
<1>3. Listed(row) \in SUBSET About
  BY <1>2 DEF About
<1>4. \A a \in Listed(row) : level[row.cluster][a] \in Levels
  BY <1>1, <1>3 DEF TypeOK, Listed
<1>5. Read(row) \in [Listed(row) -> Levels]
  BY <1>4 DEF Read
<1>6. [g \in Listed(row) |-> 0] \in [Listed(row) -> Levels]
  BY AlertsAssumption
<1> QED BY <1>2, <1>3, <1>5, <1>6 DEF Seen

LEMMA TakeOK ==
  ASSUME TypeOK, NEW e \in Evaluators, Take(e)
  PROVE  /\ TypeOK'
         /\ \E ev : Move(e, ev) /\ ev.at # "fire"
<1>1. PICK r \in DOMAIN eval[e].todo :
        LET row == eval[e].todo[r]
            rest == [q \in DOMAIN eval[e].todo \ {r} |-> eval[e].todo[q]]
            took == [eval[e] EXCEPT !.todo = rest, !.rule = r, !.row = row]
        IN  /\ \/ Move(e, WithGroups(took, Read(row)))
               \/ Move(e, WithRules(rest))
               \/ /\ row.type = "consumer_lag"
                  /\ Move(e, WithGroups(took, [g \in Listed(row) |-> 0]))
            /\ UNCHANGED faults \/ Fault("list") \/ Fault("lag")
  BY DEF Take
<1> DEFINE row == eval[e].todo[r]
           rest == [q \in DOMAIN eval[e].todo \ {r} |-> eval[e].todo[q]]
           took == [eval[e] EXCEPT !.todo = rest, !.rule = r, !.row = row]
<1>2. eval[e] \in EvalType
  BY DEF TypeOK, EvalOK
<1>3. eval[e].todo \in Todo
  BY <1>2 DEF EvalType
<1>4. r \in RuleIds /\ row \in Row /\ rest \in Todo
  BY <1>1, <1>3, TodoDomain
<1> HIDE DEF row, rest
<1>5. took \in EvalType /\ took.rule = r /\ took.row = row
  BY <1>2, <1>4 DEF EvalType
<1> HIDE DEF took
<1>6. /\ EvalOK(WithGroups(took, Read(row)))
      /\ WithGroups(took, Read(row)).at # "fire"
  BY <1>4, <1>5, ReadOK, WithGroupsOK
<1> DEFINE zero == [g \in Listed(row) |-> 0]
<1>7. zero \in Seen /\ DOMAIN zero = Listed(row)
  BY <1>4, ReadOK
<1>8. EvalOK(WithGroups(took, zero)) /\ WithGroups(took, zero).at # "fire"
  BY <1>4, <1>5, <1>7, ReadOK, WithGroupsOK
<1>9. EvalOK(WithRules(rest)) /\ WithRules(rest).at # "fire"
  BY <1>4, WithRulesOK
<1>10. PICK ev : Move(e, ev) /\ EvalOK(ev) /\ ev.at # "fire"
  BY <1>1, <1>6, <1>8, <1>9 DEF row, rest, took
<1>11. DOMAIN eval' = Evaluators /\ \A x \in Evaluators : EvalOK(eval'[x])
  BY <1>10, MoveOK
<1>12. faults' \in 0..MaxFaults
  BY <1>1, FaultOK
<1>13. UNCHANGED <<tables, level>>
  BY DEF Take
<1> QED BY <1>10, <1>11, <1>12, <1>13 DEF TypeOK, tables

LEMMA FireOK == 
  ASSUME NEW ev, EvalOK(ev), Working(ev)
  PROVE  EvalOK([ev EXCEPT !.at = "fire"])
BY DEF EvalOK, EvalType, Working

LEMMA CheckOK ==
  ASSUME TypeOK, NEW e \in Evaluators, Check(e)
  PROVE  /\ TypeOK'
         /\ \/ Move(e, NextGroup(eval[e]))
            \/ Move(e, [eval[e] EXCEPT !.at = "fire"])
<1>1. EvalOK(eval[e]) /\ Working(eval[e])
  BY DEF TypeOK, Check, Working
<1>2. \/ Move(e, NextGroup(eval[e]))
      \/ Move(e, [eval[e] EXCEPT !.at = "fire"])
  BY DEF Check
<1>3. DOMAIN eval' = Evaluators /\ \A x \in Evaluators : EvalOK(eval'[x])
  BY <1>1, <1>2, MoveOK, NextGroupOK, FireOK
<1>4. faults' \in 0..MaxFaults
  BY FaultOK DEF Check
<1>5. UNCHANGED <<tables, level>>
  BY DEF Check
<1> QED BY <1>2, <1>3, <1>4, <1>5 DEF TypeOK, tables

LEMMA ResolveRecoveredOK ==
  ASSUME TypeOK, NEW e \in Evaluators, ResolveRecovered(e)
  PROVE  /\ TypeOK' /\ Move(e, NextGroup(eval[e]))
         /\ \A r \in RuleIds \cup {None}, a \in About :
              active'[r][a] = active[r][a] \/ active'[r][a] = 0
<1>1. EvalOK(eval[e]) /\ Working(eval[e]) /\ Move(e, NextGroup(eval[e]))
  BY DEF TypeOK, ResolveRecovered, Working
<1>2. DOMAIN eval' = Evaluators /\ \A x \in Evaluators : EvalOK(eval'[x])
  BY <1>1, MoveOK, NextGroupOK
<1>3. faults' \in 0..MaxFaults
  BY FaultOK DEF ResolveRecovered
<1>4. UNCHANGED <<clusters, rules, level>>
  BY DEF ResolveRecovered
<1>5. /\ active' \in [RuleIds \cup {None} -> [About -> 0..Cap]]
      /\ \A r \in RuleIds \cup {None}, a \in About :
           active'[r][a] = active[r][a] \/ active'[r][a] = 0
  <2>1. CASE UNCHANGED active
    BY <2>1 DEF TypeOK
  <2>2. CASE ~UNCHANGED active
    <3> DEFINE r0 == eval[e].rule
               f == [a \in About |-> IF <<Current(eval[e]), a>> \in Covers
                                     THEN 0 ELSE active[r0][a]]
    <3>1. active' = [active EXCEPT ![r0] = f]
      BY <2>2 DEF ResolveRecovered
    <3>2. r0 \in RuleIds
      BY <1>1 DEF EvalOK, Working
    <3>3. f \in [About -> 0..Cap]
      BY <3>2, AlertsAssumption DEF TypeOK
    <3>4. \A a \in About : f[a] = active[r0][a] \/ f[a] = 0
      OBVIOUS
    <3> HIDE DEF r0, f
    <3> QED BY <3>1, <3>2, <3>3, <3>4 DEF TypeOK
  <2> QED BY <2>1, <2>2
<1> QED BY <1>1, <1>2, <1>3, <1>4, <1>5 DEF TypeOK

LEMMA FireStepOK ==
  ASSUME TypeOK, NEW e \in Evaluators, Fire(e)
  PROVE  /\ TypeOK' /\ Move(e, NextGroup(eval[e])) /\ eval[e].at = "fire"
         /\ UNCHANGED rules
         /\ \/ UNCHANGED active
            \/ /\ Exists(eval[e].rule)
               /\ active' = [active EXCEPT
                               ![eval[e].rule][Current(eval[e])] = Up(@)]
<1>1. EvalOK(eval[e]) /\ Working(eval[e]) /\ Move(e, NextGroup(eval[e]))
  BY DEF TypeOK, Fire, Working
<1>2. DOMAIN eval' = Evaluators /\ \A x \in Evaluators : EvalOK(eval'[x])
  BY <1>1, MoveOK, NextGroupOK
<1>3. faults' \in 0..MaxFaults
  BY FaultOK DEF Fire
<1>4. UNCHANGED <<clusters, rules, level>>
  BY DEF Fire
<1>5. \/ UNCHANGED active
      \/ /\ Exists(eval[e].rule)
         /\ active' = [active EXCEPT ![eval[e].rule][Current(eval[e])] = Up(@)]
  BY DEF Fire
<1>6. active' \in [RuleIds \cup {None} -> [About -> 0..Cap]]
  <2>1. CASE UNCHANGED active
    BY <2>1 DEF TypeOK
  <2>2. CASE ~UNCHANGED active
    <3> DEFINE r0 == eval[e].rule
               a0 == Current(eval[e])
               f == [active[r0] EXCEPT ![a0] = Up(active[r0][a0])]
    <3>1. active' = [active EXCEPT ![r0] = f]
      BY <1>5, <2>2
    <3>2. r0 \in RuleIds
      BY <1>1 DEF EvalOK, Working
    <3>3. active[r0] \in [About -> 0..Cap]
      BY <3>2 DEF TypeOK
    <3>4. a0 \in About => Up(active[r0][a0]) \in 0..Cap
      BY <3>3, UpOK
    <3> HIDE DEF r0, a0
    <3>5. f \in [About -> 0..Cap]
      BY <3>3, <3>4
    <3> QED BY <3>1, <3>2, <3>5 DEF TypeOK
  <2> QED BY <2>1, <2>2
<1> QED BY <1>1, <1>2, <1>3, <1>4, <1>5, <1>6 DEF TypeOK, Fire

LEMMA InitType == Init => TypeOK
<1> SUFFICES ASSUME Init PROVE TypeOK
  OBVIOUS
<1>1. rules \in [RuleIds -> Row \cup {None, Gone}]
  BY DEF Init
<1>2. active \in [RuleIds \cup {None} -> [About -> 0..Cap]]
  BY AlertsAssumption DEF Init, Nothing
<1>3. /\ level \in [Clusters -> [About -> Levels \cup {None}]]
      /\ \A c \in Clusters : level[c][Offline] # None
  BY AlertsAssumption DEF Init, About
<1>4. DOMAIN eval = Evaluators /\ \A e \in Evaluators : EvalOK(eval[e])
  BY IdleOK DEF Init
<1> QED BY <1>1, <1>2, <1>3, <1>4, AlertsAssumption DEF Init, TypeOK

LEMMA DeleteRuleOK ==
  ASSUME TypeOK, NEW r \in RuleIds, DeleteRule(r)
  PROVE  /\ TypeOK'
         /\ \A q \in RuleIds, a \in About :
              active'[q][a] = (IF q = r THEN 0 ELSE active[q][a])
<1> DEFINE sum == [a \in About |->
                     IF active[None][a] + active[r][a] < Cap
                     THEN active[None][a] + active[r][a] ELSE Cap]
<1>1. active' = [active EXCEPT ![r] = Nothing, ![None] = sum]
  BY AlertsAssumption DEF DeleteRule
<1>2. sum \in [About -> 0..Cap]
  BY AlertsAssumption DEF TypeOK
<1>3. Nothing \in [About -> 0..Cap] /\ \A a \in About : Nothing[a] = 0
  BY AlertsAssumption DEF Nothing
<1>4. None \notin RuleIds
  BY AlertsAssumption
<1> HIDE DEF sum
<1>5. active' \in [RuleIds \cup {None} -> [About -> 0..Cap]]
  BY <1>1, <1>2, <1>3 DEF TypeOK
<1>6. \A q \in RuleIds, a \in About :
        active'[q][a] = (IF q = r THEN 0 ELSE active[q][a])
  BY <1>1, <1>3, <1>4 DEF TypeOK
<1>7. rules' \in [RuleIds -> Row \cup {None, Gone}]
  BY DEF TypeOK, DeleteRule
<1>8. UNCHANGED <<clusters, level, eval, faults>>
  BY DEF DeleteRule
<1> QED BY <1>5, <1>6, <1>7, <1>8 DEF TypeOK

LEMMA DeleteClusterOK ==
  ASSUME TypeOK, NEW c \in Clusters, DeleteCluster(c)
  PROVE  /\ TypeOK'
         /\ \A q \in RuleIds :
              /\ rules'[q] = Gone \/ rules'[q] = rules[q]
              /\ \A a \in About : active'[q][a] =
                   (IF rules'[q] = Gone THEN 0 ELSE active[q][a])
<1>1. PICK left \in {active[None], Nothing} :
        active' = [r \in RuleIds \cup {None} |->
                     IF r = None THEN IF clusters' = {} THEN Nothing ELSE left
                     ELSE IF rules'[r] = Gone THEN Nothing ELSE active[r]]
  BY DEF DeleteCluster
<1>2. Nothing \in [About -> 0..Cap] /\ \A a \in About : Nothing[a] = 0
  BY AlertsAssumption DEF Nothing
<1>3. left \in [About -> 0..Cap]
  BY <1>1, <1>2 DEF TypeOK
<1>4. \A r \in RuleIds : active[r] \in [About -> 0..Cap]
  BY DEF TypeOK
<1>5. active' \in [RuleIds \cup {None} -> [About -> 0..Cap]]
  BY <1>1, <1>2, <1>3, <1>4
<1>6. \A q \in RuleIds, a \in About : active'[q][a] =
         (IF rules'[q] = Gone THEN 0 ELSE active[q][a])
  BY <1>1, <1>2, AlertsAssumption
<1>7. /\ rules' \in [RuleIds -> Row \cup {None, Gone}]
      /\ \A q \in RuleIds : rules'[q] = Gone \/ rules'[q] = rules[q]
  BY DEF TypeOK, DeleteCluster
<1>8. clusters' \subseteq Clusters /\ UNCHANGED <<level, eval, faults>>
  BY DEF DeleteCluster, TypeOK
<1> QED BY <1>5, <1>6, <1>7, <1>8 DEF TypeOK

LEMMA ResolveEventOK ==
  ASSUME TypeOK, NEW r \in RuleIds \cup {None}, NEW a \in About,
         ResolveEvent(r, a)
  PROVE  /\ TypeOK'
         /\ \A q \in RuleIds \cup {None}, b \in About :
              active'[q][b] <= active[q][b]
<1>1. active[r][a] \in 0..Cap /\ active[r][a] > 0
  BY DEF TypeOK, ResolveEvent
<1>2. active[r][a] - 1 \in 0..Cap /\ active[r][a] - 1 <= active[r][a]
  BY <1>1, AlertsAssumption
<1>3. active' = [active EXCEPT ![r][a] = active[r][a] - 1]
  BY DEF ResolveEvent
<1>4. active' \in [RuleIds \cup {None} -> [About -> 0..Cap]]
  BY <1>2, <1>3 DEF TypeOK
<1>5. \A q \in RuleIds \cup {None}, b \in About : active[q][b] \in 0..Cap
  BY DEF TypeOK
<1>6. \A q \in RuleIds \cup {None}, b \in About :
        active'[q][b] = (IF q = r /\ b = a THEN active[r][a] - 1
                                            ELSE active[q][b])
  BY <1>3 DEF TypeOK
<1>7. \A q \in RuleIds \cup {None}, b \in About : active'[q][b] <= active[q][b]
  BY <1>2, <1>5, <1>6, AlertsAssumption
<1> QED BY <1>4, <1>7 DEF TypeOK, ResolveEvent

LEMMA OtherStepsOK ==
  ASSUME TypeOK,
         \/ \E r \in RuleIds, b \in Bodies : CreateRule(r, b)
         \/ \E c \in Clusters, a \in About, n \in Levels \cup {None} :
              LevelChanges(c, a, n)
         \/ \E e \in Evaluators : Begin(e)
         \/ Restart
         \/ UNCHANGED vars
  PROVE  TypeOK'
<1>1. CASE \E r \in RuleIds, b \in Bodies : CreateRule(r, b)
  BY <1>1, AlertsAssumption DEF TypeOK, CreateRule
<1>2. CASE \E c \in Clusters, a \in About, n \in Levels \cup {None} :
              LevelChanges(c, a, n)
  BY <1>2 DEF TypeOK, LevelChanges, tables
<1>3. CASE \E e \in Evaluators : Begin(e)
  <2>1. UNCHANGED <<tables, level, faults>>
    BY <1>3 DEF Begin
  <2> QED BY <1>3, <2>1, BeginOK DEF TypeOK, tables
<1>4. CASE Restart
  BY <1>4, IdleOK, FaultOK DEF TypeOK, Restart, tables
<1>5. CASE UNCHANGED vars
  BY <1>5 DEF TypeOK, vars
<1> QED BY <1>1, <1>2, <1>3, <1>4, <1>5

LEMMA TypeStep == TypeOK /\ [Next]_vars => TypeOK'
<1> SUFFICES ASSUME TypeOK, [Next]_vars PROVE TypeOK'
  OBVIOUS
<1>1. CASE \E r \in RuleIds : DeleteRule(r)
  BY <1>1, DeleteRuleOK
<1>2. CASE \E r \in RuleIds \cup {None}, a \in About : ResolveEvent(r, a)
  BY <1>2, ResolveEventOK
<1>3. CASE \E c \in Clusters : DeleteCluster(c)
  BY <1>3, DeleteClusterOK
<1>4. CASE \E e \in Evaluators : Step(e)
  BY <1>4, TakeOK, ResolveRecoveredOK, CheckOK, FireStepOK DEF Step
<1> QED BY <1>1, <1>2, <1>3, <1>4, OtherStepsOK DEF Next

\* Every state is well typed (Alerts).
THEOREM TypeCorrect == Spec => []TypeOK
BY InitType, TypeStep, PTL DEF Spec

-----------------------------------------------------------------------------
(* Events name rules that are there.                                       *)

LEMMA MissingRuleStep ==
  TypeOK /\ NoEventForMissingRule /\ [Next]_vars => NoEventForMissingRule'
<1> SUFFICES ASSUME TypeOK, NoEventForMissingRule, [Next]_vars,
                    NEW r \in RuleIds, NEW a \in About, active'[r][a] > 0
             PROVE  Exists(r)'
  BY DEF NoEventForMissingRule
<1>1. active[r][a] \in 0..Cap /\ (active[r][a] > 0 => Exists(r))
  BY DEF TypeOK, NoEventForMissingRule
<1>2. CASE \E q \in RuleIds, b \in Bodies : CreateRule(q, b)
  <2>1. PICK q \in RuleIds, b \in Bodies : CreateRule(q, b)
    BY <1>2
  <2>2. Exists(r) /\ r # q
    BY <1>1, <2>1, AlertsAssumption DEF CreateRule, Exists
  <2> QED BY <2>1, <2>2 DEF CreateRule, Exists, TypeOK
<1>3. CASE \E q \in RuleIds : DeleteRule(q)
  <2>1. PICK q \in RuleIds : DeleteRule(q)
    BY <1>3
  <2>2. q # r /\ active[r][a] > 0
    BY <2>1, DeleteRuleOK
  <2> QED BY <1>1, <2>1, <2>2 DEF DeleteRule, Exists, TypeOK
<1>4. CASE \E c \in Clusters : DeleteCluster(c)
  <2>1. rules'[r] = rules[r] /\ active[r][a] > 0
    BY <1>4, DeleteClusterOK
  <2> QED BY <1>1, <2>1 DEF Exists
<1>5. CASE \E q \in RuleIds \cup {None}, b \in About : ResolveEvent(q, b)
  <2>1. active'[r][a] <= active[r][a] /\ UNCHANGED rules
    BY <1>5, ResolveEventOK DEF ResolveEvent
  <2>2. active'[r][a] \in 0..Cap
    BY <1>5, ResolveEventOK DEF TypeOK
  <2> QED BY <1>1, <2>1, <2>2, AlertsAssumption DEF Exists
<1>6. CASE \E e \in Evaluators : Step(e)
  <2>1. PICK e \in Evaluators : Step(e)
    BY <1>6
  <2>2. CASE Take(e) \/ Check(e)
    BY <1>1, <2>2 DEF Take, Check, tables, Exists
  <2>3. CASE ResolveRecovered(e)
    BY <1>1, <2>3, ResolveRecoveredOK DEF ResolveRecovered, Exists
  <2>4. CASE Fire(e)
    <3>1. CASE UNCHANGED active
      BY <1>1, <2>4, <3>1, FireStepOK DEF Exists
    <3>2. CASE r = eval[e].rule /\ Exists(eval[e].rule)
      BY <2>4, <3>2, FireStepOK DEF Exists
    <3>3. CASE r # eval[e].rule
      BY <1>1, <2>4, <3>3, FireStepOK DEF Exists, TypeOK
    <3> QED BY <2>4, <3>1, <3>2, <3>3, FireStepOK
  <2> QED BY <2>1, <2>2, <2>3, <2>4 DEF Step
<1>7. CASE \/ \E c \in Clusters, b \in About, n \in Levels \cup {None} :
                 LevelChanges(c, b, n)
           \/ \E e \in Evaluators : Begin(e)
           \/ Restart \/ UNCHANGED vars
  <2>1. UNCHANGED <<rules, active>>
    BY <1>7 DEF LevelChanges, Begin, Restart, vars, tables
  <2> QED BY <1>1, <2>1 DEF Exists
<1> QED BY <1>2, <1>3, <1>4, <1>5, <1>6, <1>7 DEF Next

\* No ACTIVE event names a deleted rule, although rules are deleted between the
\* check and the insert of an evaluation (ON DELETE SET NULL, fire).
THEOREM EventsNameRules == Spec => []NoEventForMissingRule
<1>1. Init => NoEventForMissingRule
  BY DEF Init, NoEventForMissingRule, Nothing
<1> QED BY <1>1, InitType, TypeStep, MissingRuleStep, PTL DEF Spec

-----------------------------------------------------------------------------
(* Duplicates are bounded.  An evaluation that found no active event and    *)
(* has not inserted its own yet is pending; active and pending events       *)
(* together never outnumber the evaluations.                                *)

Pending(r, g) == {e \in Evaluators : /\ eval[e].at = "fire"
                                      /\ eval[e].rule = r
                                      /\ Current(eval[e]) = g}
Bounded == \A r \in RuleIds, g \in Groups :
             active[r][g] + Cardinality(Pending(r, g)) <= Cardinality(Evaluators)

LEMMA EvaluatorsFinite == IsFiniteSet(Evaluators) /\ Cardinality(Evaluators) \in Nat
BY AlertsAssumption, FS_AddElement, FS_CardinalityType DEF Evaluators

LEMMA PendingFinite ==
  ASSUME NEW r, NEW g
  PROVE  /\ IsFiniteSet(Pending(r, g)) /\ Cardinality(Pending(r, g)) \in Nat
         /\ Cardinality(Pending(r, g)) <= Cardinality(Evaluators)
BY EvaluatorsFinite, FS_Subset, FS_CardinalityType DEF Pending

\* The bound survives a step that adds neither an active nor a pending event.
LEMMA Shrinks ==
  ASSUME TypeOK, TypeOK', Bounded,
         \A r \in RuleIds, g \in Groups :
           /\ active'[r][g] <= active[r][g] \/ active'[r][g] = 0
           /\ Pending(r, g)' \subseteq Pending(r, g)
  PROVE  Bounded'
<1> SUFFICES ASSUME NEW r \in RuleIds, NEW g \in Groups
             PROVE  active'[r][g] + Cardinality(Pending(r, g)')
                      <= Cardinality(Evaluators)
  BY DEF Bounded, Evaluators
<1>1. active[r][g] \in Nat /\ active'[r][g] \in Nat
  BY AlertsAssumption DEF TypeOK, About
<1>2. /\ Cardinality(Pending(r, g)') <= Cardinality(Pending(r, g))
      /\ Cardinality(Pending(r, g)') \in Nat
  BY PendingFinite, FS_Subset, FS_CardinalityType
<1>3. active[r][g] + Cardinality(Pending(r, g)) <= Cardinality(Evaluators)
  BY DEF Bounded
<1> QED BY <1>1, <1>2, <1>3, PendingFinite, EvaluatorsFinite

LEMMA KeptNotAbove ==
  ASSUME TypeOK, UNCHANGED active
  PROVE  \A r \in RuleIds, g \in Groups : active'[r][g] <= active[r][g]
<1> SUFFICES ASSUME NEW r \in RuleIds, NEW g \in Groups
             PROVE  active'[r][g] <= active[r][g]
  OBVIOUS
<1>1. active[r][g] \in Nat
  BY AlertsAssumption DEF TypeOK, About
<1>2. active'[r][g] = active[r][g]
  OBVIOUS
<1> QED BY <1>1, <1>2

LEMMA MovePending ==
  ASSUME TypeOK, NEW e \in Evaluators, NEW ev, Move(e, ev), ev.at # "fire",
         NEW r, NEW g
  PROVE  Pending(r, g)' = Pending(r, g) \ {e}
BY DEF Move, Pending, TypeOK, Current

LEMMA BoundedStep ==
  ASSUME "check" \notin Faults
  PROVE  TypeOK /\ Bounded /\ [Next]_vars => Bounded'
<1> SUFFICES ASSUME TypeOK, Bounded, [Next]_vars PROVE Bounded'
  OBVIOUS
<1> USE TypeStep
<1>0. \A r \in RuleIds, g \in Groups : active[r][g] \in 0..Cap
  BY DEF TypeOK, About
<1>1. CASE /\ UNCHANGED eval
           /\ \A r \in RuleIds, g \in Groups :
                active'[r][g] <= active[r][g] \/ active'[r][g] = 0
  <2>1. \A r, g : Pending(r, g)' = Pending(r, g)
    BY <1>1 DEF Pending, Current
  <2> QED BY <1>1, <2>1, Shrinks
<1>2. CASE /\ \E e \in Evaluators : \E ev : Move(e, ev) /\ ev.at # "fire"
           /\ \A r \in RuleIds, g \in Groups :
                active'[r][g] = active[r][g] \/ active'[r][g] = 0
  <2>1. \A r, g : Pending(r, g)' \subseteq Pending(r, g)
    BY <1>2, MovePending
  <2>2. \A r \in RuleIds, g \in Groups :
          active'[r][g] <= active[r][g] \/ active'[r][g] = 0
    BY <1>0, <1>2, AlertsAssumption
  <2> QED BY <2>1, <2>2, Shrinks
<1>3. CASE \E e \in Evaluators : Check(e)
  <2>1. PICK e \in Evaluators : Check(e)
    BY <1>3
  <2>2. UNCHANGED active
    BY <2>1 DEF Check, tables
  <2>3. CASE Move(e, NextGroup(eval[e]))
    <3>1. NextGroup(eval[e]).at # "fire"
      BY <2>1, NextGroupOK DEF TypeOK, Check, Working
    <3> QED BY <1>2, <2>2, <2>3, <3>1
  <2>4. CASE ~Move(e, NextGroup(eval[e]))
    <3>1. /\ Move(e, [eval[e] EXCEPT !.at = "fire"])
          /\ eval[e].row.type = "offline_partitions" \/ ~HasActive(eval[e])
      BY <2>1, <2>4 DEF Check, Fault
    <3>2. /\ EvalOK(eval[e]) /\ eval[e] \in EvalType
          /\ Working(eval[e])
      BY <2>1 DEF TypeOK, EvalOK, Check, Working
    <3>3. eval' = [eval EXCEPT ![e] = [eval[e] EXCEPT !.at = "fire"]]
      BY <3>1 DEF Move
    <3>4. /\ eval'[e].rule = eval[e].rule
          /\ Current(eval'[e]) = Current(eval[e])
          /\ \A x \in Evaluators \ {e} : eval'[x] = eval[x]
      BY <3>2, <3>3 DEF Current, EvalType, TypeOK
    <3> SUFFICES ASSUME NEW r \in RuleIds, NEW g \in Groups
                 PROVE  active'[r][g] + Cardinality(Pending(r, g)')
                          <= Cardinality(Evaluators)
      BY DEF Bounded, Evaluators
    <3>5. active[r][g] \in Nat /\ active'[r][g] = active[r][g]
      BY <1>0, <2>2, AlertsAssumption
    <3>6. CASE eval[e].rule = r /\ Current(eval[e]) = g
      <4>1. eval[e].row.type = "consumer_lag"
        <5>1. Current(eval[e]) \in DOMAIN eval[e].seen
          BY <3>2, CurrentIn
        <5>2. g # Offline
          BY AlertsAssumption
        <5> QED BY <3>2, <3>6, <5>1, <5>2 DEF EvalOK, EvalType, Row, Working
      <4>2. active[r][g] = 0
        BY <3>1, <3>5, <3>6, <4>1, AlertsAssumption DEF HasActive
      <4>3. /\ Cardinality(Pending(r, g)') <= Cardinality(Evaluators)
            /\ Cardinality(Pending(r, g)') \in Nat
        <5>1. Pending(r, g)' \in SUBSET Evaluators
          BY DEF Pending, Evaluators
        <5> QED BY <5>1, EvaluatorsFinite, FS_Subset, FS_CardinalityType
      <4> QED BY <3>5, <4>2, <4>3, EvaluatorsFinite
    <3>7. CASE ~(eval[e].rule = r /\ Current(eval[e]) = g)
      <4>1. Pending(r, g)' = Pending(r, g)
        BY <2>1, <3>4, <3>7 DEF Pending, Check, Evaluators
      <4> QED BY <3>5, <4>1 DEF Bounded
    <3> QED BY <3>6, <3>7
  <2> QED BY <2>3, <2>4
<1>4. CASE \E e \in Evaluators : Fire(e)
  <2>1. PICK e \in Evaluators : Fire(e)
    BY <1>4
  <2>2. /\ Move(e, NextGroup(eval[e])) /\ eval[e].at = "fire"
        /\ EvalOK(eval[e]) /\ Working(eval[e])
    BY <2>1, FireStepOK DEF TypeOK, Working
  <2>3. NextGroup(eval[e]).at # "fire"
    BY <2>2, NextGroupOK
  <2>4. CASE UNCHANGED active
    BY <1>2, <2>2, <2>3, <2>4
  <2>5. CASE ~UNCHANGED active
    <3> DEFINE r0 == eval[e].rule
               g0 == Current(eval[e])
    <3>1. active' = [active EXCEPT ![r0][g0] = Up(active[r0][g0])]
      BY <2>1, <2>5, FireStepOK
    <3>2. e \in Pending(r0, g0)
      BY <2>2 DEF Pending
    <3> SUFFICES ASSUME NEW r \in RuleIds, NEW g \in Groups
                 PROVE  active'[r][g] + Cardinality(Pending(r, g)')
                          <= Cardinality(Evaluators)
      BY DEF Bounded, Evaluators
    <3>3. Pending(r, g)' = Pending(r, g) \ {e}
      BY <2>2, <2>3, MovePending
    <3>4. /\ Cardinality(Pending(r, g)') =
               IF e \in Pending(r, g) THEN Cardinality(Pending(r, g)) - 1
                                      ELSE Cardinality(Pending(r, g))
          /\ Cardinality(Pending(r, g)) \in Nat
      BY <3>3, PendingFinite, FS_RemoveElement
    <3>5. active[r][g] + Cardinality(Pending(r, g)) <= Cardinality(Evaluators)
      BY DEF Bounded
    <3>6. active[r][g] \in Nat /\ g \in About
      BY <1>0, AlertsAssumption DEF About
    <3>7. CASE r = r0 /\ g = g0
      <4>1. active'[r][g] = Up(active[r][g])
        BY <3>1, <3>6, <3>7 DEF TypeOK
      <4>2. active'[r][g] <= active[r][g] + 1 /\ active'[r][g] \in Nat
        BY <1>0, <4>1, UpOK, AlertsAssumption
      <4> QED BY <3>2, <3>4, <3>5, <3>6, <3>7, <4>2, EvaluatorsFinite
    <3>8. CASE ~(r = r0 /\ g = g0)
      <4>1. active'[r][g] = active[r][g]
        BY <3>1, <3>6, <3>8 DEF TypeOK
      <4> QED BY <3>4, <3>5, <3>6, <4>1, EvaluatorsFinite
    <3> QED BY <3>7, <3>8
  <2> QED BY <2>4, <2>5
<1>5. CASE \E e \in Evaluators : ResolveRecovered(e)
  <2>1. PICK e \in Evaluators : ResolveRecovered(e)
    BY <1>5
  <2>2. Move(e, NextGroup(eval[e])) /\ EvalOK(eval[e]) /\ Working(eval[e])
    BY <2>1, ResolveRecoveredOK DEF TypeOK, Working, ResolveRecovered
  <2>3. \A r \in RuleIds, g \in Groups :
          active'[r][g] = active[r][g] \/ active'[r][g] = 0
    BY <2>1, ResolveRecoveredOK DEF About
  <2> QED BY <1>2, <2>2, <2>3, NextGroupOK
<1>6. CASE \E e \in Evaluators : Take(e) \/ Begin(e)
  <2>1. PICK e \in Evaluators : Take(e) \/ Begin(e)
    BY <1>6
  <2>2. UNCHANGED active
    BY <2>1 DEF Take, Begin, tables
  <2>3. \E ev : Move(e, ev) /\ ev.at # "fire"
    BY <2>1, TakeOK, BeginOK
  <2> QED BY <1>2, <2>2, <2>3
<1>7. CASE Restart
  <2>1. UNCHANGED active
    BY <1>7 DEF Restart, tables
  <2>2. \A r, g : Pending(r, g)' = {}
    BY <1>7 DEF Restart, Pending, Idle
  <2>3. \A r \in RuleIds, g \in Groups : active'[r][g] <= active[r][g]
    BY <2>1, KeptNotAbove
  <2> QED BY <2>2, <2>3, Shrinks
<1>8. CASE \/ \E r \in RuleIds : DeleteRule(r)
           \/ \E c \in Clusters : DeleteCluster(c)
  <2>1. UNCHANGED eval
    BY <1>8 DEF DeleteRule, DeleteCluster
  <2>2. \A r \in RuleIds, g \in Groups :
          active'[r][g] = active[r][g] \/ active'[r][g] = 0
    BY <1>8, DeleteRuleOK, DeleteClusterOK DEF About
  <2>3. \A r \in RuleIds, g \in Groups :
          active'[r][g] <= active[r][g] \/ active'[r][g] = 0
    BY <1>0, <2>2, AlertsAssumption
  <2> QED BY <1>1, <2>1, <2>3
<1>9. CASE \E r \in RuleIds \cup {None}, a \in About : ResolveEvent(r, a)
  <2>1. UNCHANGED eval
    BY <1>9 DEF ResolveEvent
  <2>2. \A r \in RuleIds, g \in Groups : active'[r][g] <= active[r][g]
    BY <1>9, ResolveEventOK DEF About
  <2> QED BY <1>1, <2>1, <2>2
<1>10. CASE \/ \E r \in RuleIds, b \in Bodies : CreateRule(r, b)
            \/ \E c \in Clusters, a \in About, n \in Levels \cup {None} :
                 LevelChanges(c, a, n)
            \/ UNCHANGED vars
  <2>1. UNCHANGED <<active, eval>>
    BY <1>10 DEF CreateRule, LevelChanges, vars, tables
  <2>2. \A r \in RuleIds, g \in Groups : active'[r][g] <= active[r][g]
    BY <2>1, KeptNotAbove
  <2> QED BY <1>1, <2>1, <2>2
<1> QED
  BY <1>3, <1>4, <1>5, <1>6, <1>7, <1>8, <1>9, <1>10 DEF Next, Step

\* However many evaluations overlap, one rule and group never has more active
\* events than there are evaluations, as long as no look-up of active events
\* fails (evalConsumerLag fires when it does).
THEOREM NoMoreThanEvaluators ==
  ASSUME "check" \notin Faults
  PROVE  Spec => []DuplicatesBounded
<1>1. Init => Bounded
  <2> SUFFICES ASSUME Init, NEW r \in RuleIds, NEW g \in Groups
               PROVE  active[r][g] + Cardinality(Pending(r, g))
                        <= Cardinality(Evaluators)
    BY DEF Bounded
  <2>1. Pending(r, g) = {} /\ active[r][g] = 0
    BY DEF Init, Pending, Idle, Nothing, About
  <2> QED BY <2>1, FS_EmptySet, EvaluatorsFinite
<1>2. TypeOK /\ Bounded => DuplicatesBounded
  <2> SUFFICES ASSUME TypeOK, Bounded, NEW r \in RuleIds, NEW g \in Groups
               PROVE  active[r][g] <= Cardinality(Evaluators)
    BY DEF DuplicatesBounded
  <2>1. active[r][g] \in Nat
    BY AlertsAssumption DEF TypeOK, About
  <2> QED BY <2>1, PendingFinite, EvaluatorsFinite DEF Bounded
<1>3. TypeOK /\ Bounded /\ [Next]_vars => Bounded'
  BY BoundedStep
<1> QED BY <1>1, <1>2, <1>3, InitType, TypeStep, PTL DEF Spec

-----------------------------------------------------------------------------
(* What an evaluation resolves.                                            *)

\* When patterns match only later groups, an evaluation takes no event from a group
\* it has judged: it resolves those of the group it read as recovered, and of later
\* ones, which it still judges if they are listed (ResolveActiveAlertsByPrefix).
THEOREM JudgedGroupsKept ==
  ASSUME \A g, h \in Groups : <<g, h>> \in Covers => g <= h
  PROVE  Spec => JudgedGroupsKeepEvents
<1> DEFINE Allowed(e, r, a) ==
      /\ eval[e].rule = r
      /\ \/ a = Current(eval[e]) /\ eval[e].seen[a] <= eval[e].row.threshold
         \/ /\ a \in Groups /\ a > Current(eval[e])
            /\ a \in DOMAIN eval[e].seen
                 => /\ eval'[e].at = "group" /\ eval'[e].rule = r
                    /\ a \in DOMAIN eval'[e].seen
<1> HIDE DEF Allowed
<1>1. ASSUME TypeOK, NEW e \in Evaluators, Step(e),
             NEW r \in RuleIds, NEW a \in About, active'[r][a] < active[r][a]
      PROVE  Allowed(e, r, a)
  <2>1. active[r][a] \in 0..Cap /\ active'[r][a] # active[r][a]
    BY <1>1, AlertsAssumption DEF TypeOK
  <2>2. ~Take(e) /\ ~Check(e)
    BY <2>1 DEF Take, Check, tables
  <2>3. ~Fire(e)
    <3>1. SUFFICES ASSUME Fire(e) PROVE FALSE
      OBVIOUS
    <3>2. /\ active' = [active EXCEPT ![eval[e].rule][Current(eval[e])] = Up(@)]
      BY <1>1, <2>1, <3>1, FireStepOK
    <3>3. active'[r][a] = active[r][a] \/ active'[r][a] = Up(active[r][a])
      BY <3>2 DEF TypeOK
    <3> QED BY <1>1, <2>1, <3>3, UpOK, AlertsAssumption DEF Up
  <2>4. ResolveRecovered(e)
    BY <1>1, <2>2, <2>3 DEF Step
  <2>5. EvalOK(eval[e]) /\ Working(eval[e]) /\ Below(eval[e])
    <3>1. /\ eval[e].at = "group" /\ Below(eval[e])
      BY <2>4 DEF ResolveRecovered
    <3> QED BY <1>1, <3>1 DEF TypeOK, Working
  <2>6. Current(eval[e]) \in DOMAIN eval[e].seen
    BY <2>5, CurrentIn
  <2>7. active' = [active EXCEPT ![eval[e].rule] =
                    [b \in About |-> IF <<Current(eval[e]), b>> \in Covers
                                     THEN 0 ELSE active[eval[e].rule][b]]]
    BY <2>1, <2>4 DEF ResolveRecovered
  <2>8. eval[e].rule = r
    BY <2>1, <2>7 DEF TypeOK
  <2>9. <<Current(eval[e]), a>> \in Covers
    BY <2>1, <2>7, <2>8 DEF TypeOK
  <2> DEFINE ev == eval[e]
             cur == Current(ev)
             left == [g \in DOMAIN ev.seen \ {cur} |-> ev.seen[g]]
  <2>10. cur \in Groups /\ a \in Groups /\ cur <= a
    BY <2>9, AlertsAssumption
  <2>11. CASE a = cur
    <3>1. ev.seen[a] <= ev.row.threshold
      BY <2>5, <2>11 DEF Below, Judged
    <3> QED BY <2>8, <2>11, <3>1 DEF Allowed
  <2>12. CASE a # cur
    <3>1. a > cur
      <4> HIDE DEF cur
      <4>1. cur \in Nat /\ a \in Nat
        BY <2>10, AlertsAssumption
      <4> QED BY <2>10, <2>12, <4>1
    <3>2. ASSUME a \in DOMAIN ev.seen
          PROVE  /\ eval'[e].at = "group" /\ eval'[e].rule = r
                 /\ a \in DOMAIN eval'[e].seen
      <4>1. DOMAIN left = DOMAIN ev.seen \ {cur} /\ a \in DOMAIN left
        BY <2>12, <3>2
      <4>2. NextGroup(ev) = WithGroups(ev, left)
        BY DEF NextGroup
      <4> HIDE DEF left, cur
      <4>3. NextGroup(ev) = [ev EXCEPT !.at = "group", !.seen = left]
        BY <4>1, <4>2 DEF WithGroups
      <4>4. eval'[e] = NextGroup(ev)
        BY <1>1, <2>4 DEF ResolveRecovered, Move, TypeOK
      <4>5. ev \in EvalType
        BY <2>5 DEF EvalOK
      <4>6. /\ eval'[e].at = "group" /\ eval'[e].rule = ev.rule
            /\ eval'[e].seen = left
        BY <4>3, <4>4, <4>5 DEF EvalType
      <4> QED BY <2>8, <4>1, <4>6
    <3> QED BY <2>8, <2>10, <3>1, <3>2 DEF Allowed
  <2> QED BY <2>11, <2>12
<1>2. TypeOK /\ [Next]_vars =>
        [\A e \in Evaluators : Step(e) =>
           \A r \in RuleIds, a \in About : active'[r][a] < active[r][a] =>
             /\ eval[e].rule = r
             /\ \/ a = Current(eval[e]) /\ eval[e].seen[a] <= eval[e].row.threshold
                \/ /\ a \in Groups /\ a > Current(eval[e])
                   /\ a \in DOMAIN eval[e].seen
                        => /\ eval'[e].at = "group" /\ eval'[e].rule = r
                           /\ a \in DOMAIN eval'[e].seen]_vars
  BY <1>1 DEF Allowed
<1> QED BY <1>2, InitType, TypeStep, PTL DEF Spec, JudgedGroupsKeepEvents
=============================================================================

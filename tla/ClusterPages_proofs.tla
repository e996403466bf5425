------------------------- MODULE ClusterPages_proofs -------------------------
(***************************************************************************)
(* Theorems about ClusterPages, for any clusters, any user and any bounds:  *)
(* the types, the selected cluster and the activity history.                *)
(***************************************************************************)
EXTENDS ClusterPages, OrderTheorems

-----------------------------------------------------------------------------
(* The activity history.                                                   *)

Point == [of : Clusters, age : Nat]

Gap(k) == k * MIN_INTERVAL

\* The points of h lie an interval apart and within the window.
Apart(p, q, k) == q.age + Gap(k) <= p.age /\ p.age <= q.age + WINDOW
Spaced(h) == \A i, j \in DOMAIN h : i < j => Apart(h[i], h[j], j - i)

\* A history of cluster c.
HistoryOK(h, c) ==
  /\ h \in Seq(Point) /\ Spaced(h) /\ Len(h) <= MAX_POINTS
  /\ \A i \in DOMAIN h : h[i].of = c

LEMMA Bounds ==
  /\ MAX_POINTS \in Nat \ {0} /\ WINDOW \in Nat \ {0} /\ MIN_INTERVAL \in Nat \ {0}
  /\ Clusters \subseteq Nat /\ None \notin Clusters
BY PagesAssumption

LEMMA Gaps ==
  ASSUME NEW k \in Nat
  PROVE  Gap(k) \in Nat /\ Gap(0) = 0 /\ Gap(k + 1) = Gap(k) + MIN_INTERVAL
BY Bounds DEF Gap

\* The points young enough are the last ones.
LEMMA RecentAreLast ==
  ASSUME NEW h \in Seq(Point), Spaced(h)
  PROVE  \E lo \in 1..Len(h) + 1 : {i \in DOMAIN h : Recent(h[i])} = lo..Len(h)
<1> DEFINE at == {i \in DOMAIN h : Recent(h[i])}
           n == Len(h)
<1>1. n \in Nat /\ DOMAIN h = 1..n
  OBVIOUS
<1>2. ASSUME NEW i \in at, NEW j \in 1..n, i < j PROVE j \in at
  <2>1. h[i] \in Point /\ h[j] \in Point /\ i \in 1..n /\ j - i \in Nat
    BY <1>1, <1>2
  <2>2. h[j].age + Gap(j - i) <= h[i].age
    BY <1>1, <1>2, <2>1 DEF Spaced, Apart
  <2>3. Gap(j - i) \in Nat
    BY <2>1, Gaps
  <2>4. h[j].age <= h[i].age /\ h[i].age \in Nat /\ h[j].age \in Nat
    BY <2>1, <2>2, <2>3 DEF Point
  <2> QED BY <1>1, <1>2, <2>4, Bounds DEF Recent
<1>3. CASE at = {}
  <2>1. at = n + 1..n
    BY <1>1, <1>3
  <2> QED BY <1>1, <2>1
<1>4. CASE at # {}
  <2>1. PICK lo \in at : \A k \in at : lo <= k
    <3>1. at \in SUBSET Nat
      BY <1>1
    <3> HIDE DEF at
    <3> QED BY <1>4, <3>1, LeastOfNaturals
  <2>2. \A k \in lo..n : k \in at
    BY <1>1, <1>2, <2>1
  <2>3. at = lo..n
    BY <1>1, <2>1, <2>2
  <2> QED BY <1>1, <2>1, <2>3
<1> QED BY <1>3, <1>4

\* What Latest keeps of a history that may be too long.
LEMMA LatestOK ==
  ASSUME NEW h \in Seq(Point), NEW c, Spaced(h), \A i \in DOMAIN h : h[i].of = c
  PROVE  HistoryOK(Latest(h), c)
<1> DEFINE n == Len(h)
<1>1. n \in Nat /\ DOMAIN h = 1..n
  OBVIOUS
<1>2. CASE n <= MAX_POINTS
  BY <1>2 DEF Latest, HistoryOK
<1>3. CASE n > MAX_POINTS
  <2> DEFINE d == n - MAX_POINTS
             l == [k \in 1..MAX_POINTS |-> h[d + k]]
  <2>1. d \in Nat /\ \A k \in 1..MAX_POINTS : d + k \in 1..n
    BY <1>1, <1>3, Bounds
  <2>2. Latest(h) = l
    <3>1. Latest(h) = SubSeq(h, d + 1, n)
      BY <1>1, <1>3, Bounds DEF Latest
    <3>2. SubSeq(h, d + 1, n) = [k \in 1..n - (d + 1) + 1 |-> h[d + 1 + k - 1]]
      BY <1>1, <2>1
    <3>3. n - (d + 1) + 1 = MAX_POINTS /\ \A k \in 1..MAX_POINTS : d + 1 + k - 1 = d + k
      BY <1>1, <2>1, Bounds
    <3> QED BY <3>1, <3>2, <3>3
  <2>3. l \in Seq(Point) /\ Len(l) = MAX_POINTS /\ DOMAIN l = 1..MAX_POINTS
    BY <1>1, <2>1, Bounds
  <2>4. Spaced(l)
    <3> SUFFICES ASSUME NEW i \in 1..MAX_POINTS, NEW j \in 1..MAX_POINTS, i < j
                 PROVE  Apart(l[i], l[j], j - i)
      BY <2>3 DEF Spaced
    <3>1. d + i \in DOMAIN h /\ d + j \in DOMAIN h /\ d + i < d + j
      BY <1>1, <2>1, Bounds
    <3>2. (d + j) - (d + i) = j - i
      BY <2>1, Bounds
    <3>3. l[i] = h[d + i] /\ l[j] = h[d + j]
      OBVIOUS
    <3> HIDE DEF d, l
    <3> QED BY <3>1, <3>2, <3>3 DEF Spaced
  <2>5. \A k \in DOMAIN l : l[k].of = c
    BY <1>1, <2>1, <2>3
  <2> HIDE DEF l
  <2> QED BY <2>2, <2>3, <2>4, <2>5, Bounds DEF HistoryOK
<1> QED BY <1>1, <1>2, <1>3, Bounds

\* A render keeps the history a history of its cluster.
LEMMA RecordedOK ==
  ASSUME NEW c \in Clusters, NEW h, HistoryOK(h, c)
  PROVE  HistoryOK(Recorded(h, c), c)
<1>0. PICK n \in Nat : n = Len(h)
  BY DEF HistoryOK
<1> DEFINE at == {i \in DOMAIN h : Recent(h[i])}
           t == Taken(h, at)
           new == [of |-> c, age |-> 0]
           g == Append(t, new)
<1>1. /\ h \in Seq(Point) /\ Spaced(h) /\ n \in Nat /\ DOMAIN h = 1..n
      /\ \A i \in 1..n : h[i] \in Point /\ h[i].of = c /\ h[i].age \in Nat
  <2>1. h \in Seq(Point) /\ Spaced(h) /\ DOMAIN h = 1..n
    BY <1>0 DEF HistoryOK
  <2>2. \A p \in Point : p.age \in Nat
    BY DEF Point
  <2>3. \A i \in 1..n : h[i] \in Point /\ h[i].of = c
    BY <2>1 DEF HistoryOK
  <2> QED BY <2>1, <2>2, <2>3
<1>2. CASE h # <<>> /\ h[n].age < MIN_INTERVAL
  BY <1>0, <1>2 DEF Recorded
<1>3. CASE ~(h # <<>> /\ h[n].age < MIN_INTERVAL)
  <2>1. PICK lo \in 1..n + 1 : at = lo..n
    BY <1>0, <1>1, RecentAreLast
  <2>2. \A a \in lo..n : h[a].age <= WINDOW
    BY <2>1 DEF Recent
  <2> HIDE DEF at
  <2>3. t \in Seq(Point) /\ Len(t) = n + 1 - lo /\ \A k \in DOMAIN t : t[k] = h[lo + k - 1]
    BY <1>0, <1>1, <2>1, TakenTail
  <2>4. PICK m \in Nat : m = n + 1 - lo
    BY <1>1
  <2>5. new \in Point /\ new.age = 0 /\ new.of = c
    BY DEF Point
  <2> HIDE DEF t, new
  <2>6. /\ g \in Seq(Point) /\ Len(g) = m + 1 /\ DOMAIN g = 1..m + 1
        /\ g[m + 1] = new /\ \A k \in 1..m : g[k] = h[lo + k - 1]
    BY <2>3, <2>4, <2>5
  <2> HIDE DEF g
  <2>7. \A k \in 1..m : lo + k - 1 \in 1..n /\ lo + k - 1 \in lo..n
    BY <1>1, <2>4
  <2>8. \A k \in 1..m + 1 : g[k].of = c
    <3> SUFFICES ASSUME NEW k \in 1..m + 1 PROVE g[k].of = c
      OBVIOUS
    <3>1. k = m + 1 \/ k \in 1..m
      BY <2>4
    <3> QED BY <1>1, <2>5, <2>6, <2>7, <3>1
  <2>9. ASSUME NEW i \in 1..m, NEW j \in 1..m, i < j
        PROVE  Apart(g[i], g[j], j - i)
    <3>1. PICK a \in 1..n : a = lo + i - 1
      BY <2>7
    <3>2. PICK b \in 1..n : b = lo + j - 1
      BY <2>7
    <3>3. a < b /\ b - a = j - i
      BY <2>9, <3>1, <3>2
    <3>4. g[i] = h[a] /\ g[j] = h[b]
      BY <2>6, <3>1, <3>2
    <3>5. Apart(h[a], h[b], b - a)
      BY <1>1, <3>3 DEF Spaced
    <3> QED BY <3>3, <3>4, <3>5
  <2>10. ASSUME NEW i \in 1..m
         PROVE  Apart(g[i], new, m + 1 - i)
    <3>1. PICK a \in 1..n : a = lo + i - 1 /\ a \in lo..n
      BY <2>7
    <3>2. PICK k \in Nat : k = n - a
      BY <1>1
    <3>3. m + 1 - i = k + 1
      BY <1>1, <2>4, <3>1, <3>2
    <3>4. g[i] = h[a] /\ h[a].age \in Nat /\ h[a].age <= WINDOW
      BY <1>1, <2>2, <2>6, <3>1
    <3>5. n \in 1..n /\ h[n].age \in Nat /\ h # <<>>
      BY <1>1, <3>1
    <3>6. h[n].age >= MIN_INTERVAL
      BY <1>3, <3>5, Bounds
    <3>7. Gap(k) \in Nat /\ Gap(0) = 0 /\ Gap(k + 1) = Gap(k) + MIN_INTERVAL
      BY Gaps
    <3>8. h[a].age >= Gap(k + 1)
      <4>1. CASE k = 0
        <5>1. a = n
          BY <1>1, <3>2, <4>1
        <5> QED BY <3>6, <3>7, <4>1, <5>1, Bounds
      <4>2. CASE k # 0
        <5>1. a < n
          BY <1>1, <3>2, <4>2
        <5>2. h[n].age + Gap(k) <= h[a].age
          BY <1>1, <3>2, <3>5, <5>1 DEF Spaced, Apart
        <5> QED BY <3>4, <3>5, <3>6, <3>7, <5>2, Bounds
      <4> QED BY <4>1, <4>2
    <3> QED BY <2>5, <3>3, <3>4, <3>7, <3>8, Bounds DEF Apart
  <2>11. Spaced(g)
    <3> SUFFICES ASSUME NEW i \in 1..m + 1, NEW j \in 1..m + 1, i < j
                 PROVE  Apart(g[i], g[j], j - i)
      BY <2>6 DEF Spaced
    <3>1. i \in 1..m /\ (j \in 1..m \/ j = m + 1)
      BY <2>4
    <3>2. CASE j \in 1..m
      BY <2>9, <3>1, <3>2
    <3>3. CASE j = m + 1
      BY <2>6, <2>10, <3>1, <3>3
    <3> QED BY <3>1, <3>2, <3>3
  <2>12. Recorded(h, c) = Latest(g)
    BY <1>0, <1>3 DEF Recorded, g, t, at, new
  <2> QED BY <2>6, <2>8, <2>11, <2>12, LatestOK
<1> QED BY <1>2, <1>3

LEMMA NoHistory == ASSUME NEW c PROVE HistoryOK(<<>>, c)
BY Bounds DEF HistoryOK, Spaced

-----------------------------------------------------------------------------
(* The inductive invariant.                                                *)

Dialog == [kind : Dialogs, target : Clusters \cup {None}, result : BOOLEAN]

ListsOK ==
  /\ known \subseteq Clusters /\ unused \subseteq Clusters
  /\ list # None => list \subseteq Clusters
  /\ listFetch \notin {None, Asked} => listFetch \subseteq Clusters
  /\ selected \in Clusters \cup {None}

ScreenOK ==
  /\ page \in AllPages /\ dialog \in Dialog
  /\ pending \subseteq Requests /\ auto \in {"off", "on", "stuck"}

HistoryHere ==
  /\ history # <<>> => page = "dashboard" /\ Current # None
  /\ HistoryOK(history, Current)

IInv == ListsOK /\ ScreenOK /\ HistoryHere

LEMMA CurrentType ==
  ASSUME ListsOK PROVE Current \in Clusters \cup {None}
BY DEF ListsOK, Current, CurrentOf, Listed

\* A step that leaves the clusters, the selection and the page alone.
LEMMA DialogStep ==
  ASSUME IInv, UNCHANGED <<known, unused, list, selected, page, history>>,
         listFetch' \in {listFetch, Asked},
         dialog' \in Dialog, pending' \subseteq Requests,
         auto' \in {"off", "on", "stuck"}
  PROVE  IInv'
<1>1. ListsOK' /\ ScreenOK'
  BY DEF IInv, ListsOK, ScreenOK
<1>2. Current' = Current
  BY DEF Current, CurrentOf
<1>3. HistoryHere'
  BY <1>2 DEF IInv, HistoryHere, HistoryOK, Spaced
<1> QED BY <1>1, <1>3 DEF IInv

LEMMA SendStep ==
  ASSUME IInv, NEW op \in Ops, NEW c \in Clusters \cup {None}, Send(op, c)
  PROVE  IInv'
<1>1. Sent(op, c) \in Requests
  BY DEF Sent, Requests
<1> QED BY <1>1, DialogStep DEF Send, IInv, ScreenOK, server, clusterList

LEMMA OpenStep ==
  ASSUME IInv, NEW kind \in Dialogs, NEW c \in Clusters \cup {None}, Open(kind, c)
  PROVE  IInv'
<1>1. [kind |-> kind, target |-> c, result |-> FALSE] \in Dialog
  BY DEF Dialog
<1> QED BY <1>1, DialogStep DEF Open, IInv, ScreenOK, server, clusterList

\* A change of page or cluster keeps the screen in order.
LEMMA TurnStep ==
  ASSUME IInv, ListsOK', NEW d \in Dialog, NEW p \in AllPages, page' = p,
         NEW c, c = Current', Turn(d, p, c)
  PROVE  IInv'
<1>1. c \in Clusters \cup {None}
  BY DEF ListsOK, Current, CurrentOf, Listed
<1>2. dialog' \in Dialog
  <2>1. Closed \in Dialog
    BY DEF Closed, Dialog, Dialogs
  <2> QED BY <2>1 DEF Turn
<1>3. pending' \subseteq Requests
  <2>1. \A m \in Requests : [m EXCEPT !.here = @ /\ m.op \in LayoutRequests] \in Requests
    BY DEF Requests
  <2>2. pending \subseteq Requests
    BY DEF IInv, ScreenOK
  <2>3. CASE pending' = pending
    BY <2>2, <2>3
  <2>4. CASE pending' = {[m EXCEPT !.here = @ /\ m.op \in LayoutRequests] : m \in pending}
    BY <2>1, <2>2, <2>4
  <2> QED BY <2>3, <2>4 DEF Turn
<1>4. auto' \in {"off", "on", "stuck"}
  BY DEF Turn, LiveAlerts, Interval, IInv, ScreenOK
<1>5. history' = Activity(p, c)
  BY DEF Turn
<1>6. /\ history' # <<>> => p = "dashboard" /\ c # None
      /\ HistoryOK(history', c)
  <2>1. CASE p # "dashboard" \/ c = None
    BY <1>5, <2>1, NoHistory DEF Activity
  <2>2. CASE p = "dashboard" /\ c # None /\ p = page /\ c = Current
    BY <1>5, <2>2 DEF Activity, IInv, HistoryHere
  <2>3. CASE p = "dashboard" /\ c # None /\ ~(p = page /\ c = Current)
    <3>1. history' = Recorded(<<>>, c)
      BY <1>5, <2>3 DEF Activity
    <3> QED BY <1>1, <2>3, <3>1, NoHistory, RecordedOK
  <2> QED BY <2>1, <2>2, <2>3
<1>7. HistoryHere'
  BY <1>6 DEF HistoryHere, HistoryOK, Spaced
<1> QED BY <1>2, <1>3, <1>4, <1>7 DEF IInv, ScreenOK

\* The first cluster of a list is on the list.
LEMMA FirstIsListed ==
  ASSUME NEW l \in SUBSET Clusters, l # {}
  PROVE  First(l) \in l /\ \A d \in l : First(l) <= d
<1>1. l \subseteq Nat
  BY PagesAssumption
<1>2. \E c \in l : \A d \in l : c <= d
  BY <1>1, LeastOfNaturals
<1> QED BY <1>2 DEF First

LEMMA PagesStep ==
  ASSUME IInv, Pages
  PROVE  IInv'
<1>0. /\ Current \in Clusters \cup {None} /\ None \in Clusters \cup {None}
      /\ dialog.target \in Clusters \cup {None} /\ Closed \in Dialog
      /\ \A c \in Listed(list) : c \in Clusters \cup {None}
  BY CurrentType DEF IInv, ListsOK, ScreenOK, Listed, Dialog, Dialogs, Closed
<1> DEFINE Kind == {"view", "broad", "deleteTopic", "deleteConnector", "deleteACL",
                    "deleteCluster", "addCluster", "createTopic", "produceMessage"}
           Op == Ops \ {"timer"}
<1>1. \A kind \in Kind, c \in Clusters \cup {None} : Open(kind, c) => IInv'
  BY OpenStep DEF Dialogs, LayoutDialogs
<1>2. \A op \in Op, c \in Clusters \cup {None} : Send(op, c) => IInv'
  BY SendStep
<1>3. \A op \in Op : op \in Ops
  OBVIOUS
<1>4. CASE DashboardContent
  <2>1. /\ ListsOK' /\ ScreenOK' /\ Current' = Current
        /\ page' = "dashboard" /\ Current # None /\ history' = Recorded(history, Current)
    BY <1>4 DEF DashboardContent, IInv, ListsOK, ScreenOK, Current, CurrentOf,
                server, clusterList
  <2>2. HistoryOK(history', Current)
    BY <1>0, <2>1, RecordedOK DEF IInv, HistoryHere
  <2>3. HistoryHere'
    BY <2>1, <2>2 DEF HistoryHere, HistoryOK, Spaced
  <2> QED BY <2>1, <2>3 DEF IInv
<1>5. CASE TopicsContent
  BY <1>0, <1>1, <1>2, <1>5 DEF TopicsContent, topicActions, ConfirmDelete, Ops, LayoutRequests
<1>6. CASE ConnectContent
  BY <1>0, <1>1, <1>2, <1>6
     DEF ConnectContent, connectorActions, View, ConfirmDelete, Ops, LayoutRequests
<1>7. CASE ACLsContent
  <2>1. CASE aclActions \/ ConfirmDelete("deleteACL", "deleteACL")
    BY <1>0, <1>1, <1>2, <2>1 DEF aclActions, View, ConfirmDelete, Ops, LayoutRequests
  <2>2. CASE submitCreate
    <3>1. CASE Open("broad", None) \/ Send("createACL", Current)
      BY <1>0, <1>1, <1>2, <3>1 DEF Ops, LayoutRequests
    <3>2. CASE /\ pending' = pending \cup {Sent("createACL", Current)}
               /\ dialog' = Closed
               /\ UNCHANGED <<server, clusterList, selected, page, auto, history>>
      <4>1. Sent("createACL", Current) \in Requests
        BY <1>0 DEF Sent, Requests, Ops
      <4> QED BY <1>0, <3>2, <4>1, DialogStep DEF IInv, ScreenOK, server, clusterList
    <3> QED BY <2>2, <3>1, <3>2 DEF submitCreate
  <2> QED BY <1>7, <2>1, <2>2 DEF ACLsContent
<1>8. CASE SchemasContent \/ ConsumersContent \/ BrokersContent \/ AuditPage
  BY <1>0, <1>1, <1>2, <1>8 DEF SchemasContent, register, ConsumersContent, BrokersContent,
                          AuditPage, View, Ops, LayoutRequests
<1>9. CASE AlertsContent
  <2>1. CASE setLive
    BY <2>1, DialogStep DEF setLive, Interval, IInv, ScreenOK, server, clusterList
  <2>2. CASE ~setLive
    BY <1>0, <1>2, <1>9, <2>2 DEF AlertsContent, AutoEvaluate, Ops, LayoutRequests
  <2> QED BY <2>1, <2>2
<1>10. CASE ClustersPage
  BY <1>0, <1>1, <1>2, <1>10
     DEF ClustersPage, clusterActions, ClusterDetail, Ops, LayoutRequests
<1> QED BY <1>4, <1>5, <1>6, <1>7, <1>8, <1>9, <1>10, Pages DEF Pages

LEMMA LayoutStep ==
  ASSUME IInv, Layout
  PROVE  IInv'
<1>0. /\ Current \in Clusters \cup {None} /\ dialog \in Dialog /\ page \in AllPages
      /\ Closed \in Dialog
  BY CurrentType DEF IInv, ScreenOK, Dialog, Dialogs, Closed
<1>1. ASSUME NEW p \in AllPages, Visit(p) PROVE IInv'
  <2>1. ListsOK' /\ Current' = Current
    BY <1>1 DEF Visit, IInv, ListsOK, Current, CurrentOf, server, clusterList
  <2> QED BY <1>0, <1>1, <2>1, TurnStep DEF Visit
<1>2. ASSUME NEW p \in AllPages, NEW c \in Clusters, navigateToResult(c, p) PROVE IInv'
  <2>1. ListsOK' /\ Current' = CurrentOf(list, c)
    BY <1>2 DEF navigateToResult, Picked, IInv, ListsOK, Current, CurrentOf, Listed,
                server, clusterList
  <2> QED BY <1>0, <1>2, <2>1, TurnStep DEF navigateToResult
<1>3. ASSUME NEW c \in Clusters \cup {None}, setClusterId(c) PROVE IInv'
  <2>1. ListsOK' /\ Current' = CurrentOf(list, c)
    BY <1>3 DEF setClusterId, Picked, IInv, ListsOK, Current, CurrentOf, Listed,
                server, clusterList
  <2> QED BY <1>0, <1>3, <2>1, TurnStep DEF setClusterId
<1>4. CASE CommandPalette
  BY <1>4, OpenStep DEF CommandPalette, Dialogs, LayoutDialogs
<1>5. CASE CreateTopicDialog \/ ProduceMessageDialog
  BY <1>0, <1>5, SendStep DEF CreateTopicDialog, ProduceMessageDialog, Ops, LayoutRequests
<1>6. CASE ClusterEmptyState \/ AddClusterDialog
  BY <1>6, OpenStep, SendStep
     DEF ClusterEmptyState, AddClusterDialog, AddClusterForm, Dialogs, LayoutDialogs,
         Ops, LayoutRequests
<1>7. CASE CloseDialog
  BY <1>0, <1>7, DialogStep DEF CloseDialog, IInv, ScreenOK, server, clusterList
<1> QED BY <1>1, <1>2, <1>3, <1>4, <1>5, <1>6, <1>7 DEF Layout

LEMMA AnswersStep ==
  ASSUME IInv, NEW m \in pending, Answered(m) \/ Failed(m)
  PROVE  IInv'
<1>1. /\ dialog \in Dialog /\ Closed \in Dialog /\ [dialog EXCEPT !.result = TRUE] \in Dialog
      /\ pending \subseteq Requests /\ Sent("timer", None) \in Requests
  BY DEF IInv, ScreenOK, Dialog, Dialogs, Closed, Sent, Requests, Ops, LayoutRequests
<1>2. /\ UNCHANGED <<known, unused, list, selected, page, history, auto>>
      /\ listFetch' \in {listFetch, Asked}
  BY DEF Answered, Failed, InvalidateList, server, clusterList
<1>3. dialog' \in {dialog, Closed, [dialog EXCEPT !.result = TRUE]}
  <2>1. CASE Answered(m)
    <3>1. CASE m.op = "createTopic"
      BY <2>1, <3>1 DEF Answered
    <3>2. CASE m.op # "createTopic"
      BY <2>1, <3>2 DEF Answered
    <3> QED BY <3>1, <3>2
  <2>2. CASE Failed(m)
    BY <2>2 DEF Failed
  <2> QED BY <2>1, <2>2
<1>4. pending' \subseteq Requests
  BY <1>1 DEF Answered, Failed
<1>5. auto' \in {"off", "on", "stuck"}
  BY <1>2 DEF IInv, ScreenOK
<1>6. dialog' \in Dialog
  BY <1>1, <1>3
<1> QED BY <1>2, <1>4, <1>5, <1>6, DialogStep

LEMMA ListStep ==
  ASSUME IInv, \/ Refetch \/ ServeList \/ ListArrives \/ ListFails
               \/ \E c \in Clusters : Removed(c) \/ Added(c)
  PROVE  IInv'
<1>1. CASE Refetch
  BY <1>1, DialogStep DEF Refetch, IInv, ScreenOK, server
<1>2. ASSUME UNCHANGED <<list, selected, page, dialog, pending, auto, history>>, ListsOK'
      PROVE  IInv'
  <2>1. ScreenOK' /\ Current' = Current
    BY <1>2 DEF IInv, ScreenOK, Current, CurrentOf
  <2>2. HistoryHere'
    BY <1>2, <2>1 DEF IInv, HistoryHere, HistoryOK, Spaced
  <2> QED BY <1>2, <2>1, <2>2 DEF IInv
<1>3. CASE ServeList
  BY <1>2, <1>3 DEF ServeList, IInv, ListsOK, server
<1>4. ASSUME NEW c \in Clusters, Removed(c) \/ Added(c) PROVE IInv'
  BY <1>2, <1>4 DEF Removed, Added, IInv, ListsOK, clusterList
<1>5. CASE ListFails
  <2>1. ListsOK' /\ ScreenOK' /\ Current' = Current
    BY <1>5 DEF ListFails, IInv, ListsOK, ScreenOK, Current, CurrentOf, Listed, server
  <2>2. HistoryHere'
    BY <1>5, <2>1 DEF ListFails, IInv, HistoryHere, HistoryOK, Spaced
  <2> QED BY <2>1, <2>2 DEF IInv
<1>6. CASE ListArrives
  <2>1. listFetch \subseteq Clusters /\ list' = listFetch /\ listFetch' = None
    BY <1>6 DEF ListArrives, IInv, ListsOK
  <2>2. Synced(listFetch, selected) \in Clusters \cup {None}
    BY <2>1, FirstIsListed DEF Synced, Listed, IInv, ListsOK
  <2>3. selected' \in Clusters \cup {None}
    BY <1>6, <2>2 DEF ListArrives, IInv, ListsOK
  <2>4. ListsOK'
    BY <1>6, <2>1, <2>3 DEF ListArrives, IInv, ListsOK, server
  <2>5. page' = page /\ Turn(dialog, page, Current')
    BY <1>6 DEF ListArrives, Current
  <2>6. dialog \in Dialog /\ page \in AllPages
    BY DEF IInv, ScreenOK
  <2> QED BY <2>4, <2>5, <2>6, TurnStep
<1> QED BY <1>1, <1>3, <1>4, <1>5, <1>6

LEMMA TickStep ==
  ASSUME IInv, Tick
  PROVE  IInv'
<1>1. ListsOK' /\ ScreenOK' /\ Current' = Current /\ page' = page
  BY DEF Tick, IInv, ListsOK, ScreenOK, Current, CurrentOf, server, clusterList
<1>2. PICK n \in Nat : n = Len(history)
  BY DEF IInv, HistoryHere, HistoryOK
<1>3. /\ history \in Seq(Point) /\ DOMAIN history = 1..n /\ n <= MAX_POINTS
      /\ \A i \in 1..n : history[i] \in Point /\ history[i].of = Current
  BY <1>2 DEF IInv, HistoryHere, HistoryOK
<1>4. history' = [i \in 1..n |-> [history[i] EXCEPT !.age = @ + 1]]
  BY <1>3 DEF Tick
<1>5. \A p \in Point : /\ [p EXCEPT !.age = @ + 1] \in Point
                        /\ [p EXCEPT !.age = @ + 1].of = p.of
                        /\ [p EXCEPT !.age = @ + 1].age = p.age + 1 /\ p.age \in Nat
  BY DEF Point
<1>6. history' \in Seq(Point) /\ Len(history') = n /\ DOMAIN history' = 1..n
  BY <1>3, <1>4, <1>5
<1>7. \A i \in 1..n : history'[i].of = Current /\ history'[i].age = history[i].age + 1
  BY <1>3, <1>4, <1>5
<1>8. ASSUME NEW i \in 1..n, NEW j \in 1..n, i < j
      PROVE  Apart(history'[i], history'[j], j - i)
  <2>1. Apart(history[i], history[j], j - i)
    BY <1>3, <1>8 DEF IInv, HistoryHere, HistoryOK, Spaced
  <2>2. Gap(j - i) \in Nat
    BY <1>8, Gaps
  <2>3. history[i].age \in Nat /\ history[j].age \in Nat
    BY <1>3, <1>5
  <2> QED BY <1>7, <2>1, <2>2, <2>3, Bounds DEF Apart
<1>9. HistoryOK(history', Current)
  BY <1>3, <1>6, <1>7, <1>8 DEF HistoryOK, Spaced
<1>10. HistoryHere'
  BY <1>1, <1>9 DEF HistoryHere, HistoryOK, Spaced, Tick, IInv
<1> QED BY <1>1, <1>10 DEF IInv

LEMMA Initial == Init => IInv
<1> SUFFICES ASSUME Init PROVE IInv
  OBVIOUS
<1>1. ListsOK
  BY PagesAssumption DEF Init, ListsOK
<1>2. ScreenOK
  BY DEF Init, ScreenOK, AllPages, PerCluster, Closed, Dialog, Dialogs
<1>3. HistoryHere
  BY NoHistory DEF Init, HistoryHere
<1> QED BY <1>1, <1>2, <1>3 DEF IInv

LEMMA Inductive == IInv /\ [Next]_vars => IInv'
<1> SUFFICES ASSUME IInv, [Next]_vars PROVE IInv'
  OBVIOUS
<1>1. CASE UNCHANGED vars
  BY <1>1, DialogStep DEF vars, IInv, ScreenOK
<1> QED BY <1>1, PagesStep, LayoutStep, ListStep, AnswersStep, TickStep DEF Next

LEMMA Invariant == Spec => []IInv
BY Initial, Inductive, PTL DEF Spec

-----------------------------------------------------------------------------
(* Who changes the selection.                                              *)

\* Actions of a page change no cluster, list or selection.
LEMMA PagesKeep ==
  ASSUME Pages \/ Tick
  PROVE  UNCHANGED <<server, clusterList, selected>>
<1>1. ASSUME NEW op, NEW c, Send(op, c)
      PROVE  UNCHANGED <<server, clusterList, selected>>
  BY <1>1 DEF Send
<1>2. ASSUME NEW kind, NEW target, Open(kind, target)
      PROVE  UNCHANGED <<server, clusterList, selected>>
  BY <1>2 DEF Open
<1>3. CASE DashboardContent \/ Tick
  BY <1>3 DEF DashboardContent, Tick
<1>4. CASE TopicsContent
  BY <1>1, <1>2, <1>4 DEF TopicsContent, topicActions, ConfirmDelete
<1>5. CASE ConnectContent
  BY <1>1, <1>2, <1>5 DEF ConnectContent, connectorActions, View, ConfirmDelete
<1>6. CASE ACLsContent
  BY <1>1, <1>2, <1>6 DEF ACLsContent, aclActions, submitCreate, View, ConfirmDelete
<1>7. CASE SchemasContent \/ ConsumersContent \/ BrokersContent \/ AuditPage
  BY <1>1, <1>2, <1>7 DEF SchemasContent, register, ConsumersContent, BrokersContent,
                          AuditPage, View
<1>8. CASE AlertsContent
  BY <1>1, <1>8 DEF AlertsContent, setLive, AutoEvaluate
<1>9. CASE ClustersPage
  BY <1>1, <1>2, <1>9 DEF ClustersPage, clusterActions, ClusterDetail
<1> QED BY <1>3, <1>4, <1>5, <1>6, <1>7, <1>8, <1>9 DEF Pages

\* In the layout only the user's choices change the selection.
LEMMA LayoutKeeps ==
  ASSUME Layout
  PROVE  UNCHANGED <<server, clusterList>> /\ (selected' = selected \/ UserPicks)
<1>1. ASSUME NEW op, NEW c, Send(op, c)
      PROVE  UNCHANGED <<server, clusterList, selected>>
  BY <1>1 DEF Send
<1>2. ASSUME NEW kind, NEW target, Open(kind, target)
      PROVE  UNCHANGED <<server, clusterList, selected>>
  BY <1>2 DEF Open
<1>3. ASSUME NEW p \in AllPages, Visit(p)
      PROVE  UNCHANGED <<server, clusterList, selected>>
  BY <1>3 DEF Visit
<1>4. ASSUME NEW p \in AllPages, NEW c \in Clusters, navigateToResult(c, p)
      PROVE  UNCHANGED <<server, clusterList>> /\ UserPicks
  BY <1>4 DEF navigateToResult, UserPicks
<1>5. ASSUME NEW c \in Clusters \cup {None}, setClusterId(c)
      PROVE  UNCHANGED <<server, clusterList>> /\ UserPicks
  BY <1>5 DEF setClusterId, UserPicks
<1>6. CASE CommandPalette
  BY <1>2, <1>6 DEF CommandPalette
<1>7. CASE CreateTopicDialog \/ ProduceMessageDialog
  BY <1>1, <1>7 DEF CreateTopicDialog, ProduceMessageDialog
<1>8. CASE ClusterEmptyState \/ AddClusterDialog \/ CloseDialog
  BY <1>1, <1>2, <1>8 DEF ClusterEmptyState, AddClusterDialog, AddClusterForm, CloseDialog
<1> QED BY <1>3, <1>4, <1>5, <1>6, <1>7, <1>8 DEF Layout

\* Answers to requests may ask for a new list.
LEMMA AnswersKeep ==
  ASSUME NEW m \in pending, Answered(m) \/ Failed(m)
  PROVE  /\ UNCHANGED <<server, list, selected>>
         /\ listFetch' \in {listFetch, Asked}
BY DEF Answered, Failed, InvalidateList, server, clusterList

-----------------------------------------------------------------------------
(* Theorems.                                                               *)

\* Clusters, lists, requests, dialogs and the history keep their types.
THEOREM TypeCorrect == Spec => []TypeOK
<1>1. IInv => TypeOK
  BY DEF IInv, ListsOK, ScreenOK, HistoryHere, HistoryOK, Point, Dialog, TypeOK
<1> QED BY <1>1, Invariant, PTL

\* However clusters are switched, removed, added and listed again, the history
\* of the dashboard has points of the selected cluster alone, an interval
\* apart, within the window and no more than allowed.
THEOREM HistoryStays == Spec => []HistoryOfSelected
<1>1. ASSUME IInv PROVE HistoryOfSelected
  <2>1. PICK n \in Nat : n = Len(history)
    BY <1>1 DEF IInv, HistoryHere, HistoryOK
  <2>2. /\ DOMAIN history = 1..n
        /\ \A i \in 1..n : history[i] \in Point
    BY <1>1, <2>1 DEF IInv, HistoryHere, HistoryOK
  <2>3. ASSUME NEW i \in 1..n, NEW j \in 1..n, i < j
        PROVE  history[i].age - history[j].age \in (j - i) * MIN_INTERVAL .. WINDOW
    <3>1. history[i].age \in Nat /\ history[j].age \in Nat
      BY <2>2 DEF Point
    <3>2. Apart(history[i], history[j], j - i)
      BY <1>1, <2>2, <2>3 DEF IInv, HistoryHere, HistoryOK, Spaced
    <3>3. Gap(j - i) \in Nat
      BY <2>3, Gaps
    <3>4. history[i].age - history[j].age \in Gap(j - i) .. WINDOW
      BY <3>1, <3>2, <3>3, Bounds DEF Apart
    <3> QED BY <3>4 DEF Gap
  <2> QED BY <1>1, <2>2, <2>3 DEF IInv, HistoryHere, HistoryOK, HistoryOfSelected
<1> QED BY <1>1, Invariant, PTL

\* Whatever pages, requests, refetches and changes of other clusters there are,
\* the program, where the user picks nothing, replaces the selected cluster only
\* when a list has come that lacks it, by one of that list if it has any, or when
\* the load has failed and there is no list, and then by none.
THEOREM SelectionStays == Spec => SelectionKept
<1> DEFINE P == selected' # selected /\ ~UserPicks
                  => \/ /\ list' # None /\ selected \notin list'
                        /\ selected' \in (IF list' = {} THEN {None} ELSE list')
                     \/ /\ listFetch # None /\ listFetch' = None /\ list' = None
                        /\ selected' = None
<1>1. IInv /\ [Next]_vars => [P]_vars
  <2> SUFFICES ASSUME IInv, Next, selected' # selected, ~UserPicks
               PROVE  \/ /\ list' # None /\ selected \notin list'
                         /\ selected' \in (IF list' = {} THEN {None} ELSE list')
                      \/ /\ listFetch # None /\ listFetch' = None /\ list' = None
                         /\ selected' = None
    OBVIOUS
  <2>1. ListArrives \/ ListFails
    <3>1. ASSUME Pages \/ Tick PROVE FALSE
      BY <3>1, PagesKeep
    <3>2. ASSUME Layout PROVE FALSE
      BY <3>2, LayoutKeeps
    <3>3. ASSUME NEW m \in pending, Answered(m) \/ Failed(m) PROVE FALSE
      BY <3>3, AnswersKeep
    <3> QED BY <3>1, <3>2, <3>3 DEF Next, Refetch, ServeList, Removed, Added
  <2>2. CASE ListArrives
    <3>1. /\ list' = listFetch /\ listFetch # None /\ listFetch \in SUBSET Clusters
          /\ selected' = Synced(listFetch, selected)
      BY <2>2 DEF ListArrives, IInv, ListsOK
    <3>2. Listed(listFetch) = listFetch
      BY <3>1 DEF Listed
    <3>3. CASE listFetch = {}
      BY <3>1, <3>2, <3>3 DEF Synced
    <3>4. CASE listFetch # {}
      <4>1. First(listFetch) \in listFetch
        BY <3>1, <3>4, FirstIsListed
      <4> QED BY <3>1, <3>2, <3>4, <4>1 DEF Synced
    <3> QED BY <3>3, <3>4
  <2>3. CASE ListFails
    BY <2>3 DEF ListFails
  <2> QED BY <2>1, <2>2, <2>3
<1> HIDE DEF P
<1>2. Spec => [][P]_vars
  BY <1>1, Invariant, PTL DEF Spec
<1> QED BY <1>2 DEF SelectionKept, P
=============================================================================

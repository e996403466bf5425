----------------------------- MODULE ClusterPages -----------------------------
(***************************************************************************)
(* The pages of one cluster in one browser tab: the list of clusters and    *)
(* the selected one, kept in local storage, the page on the screen with its *)
(* dialogs and drawers, the requests in flight, live alerts and the         *)
(* activity history of the dashboard.                                       *)
(*                                                                          *)
(* Clusters are numbered in the order of their names, the order of the      *)
(* list; a number is never used again.  What a page lists is left to the    *)
(* query cache, which keys it by cluster; what the server does with a       *)
(* request is in Clusters and Alerts.                                       *)
(***************************************************************************)
EXTENDS Permissions, Ordering

CONSTANTS
  Clusters, None, Asked,
  KnownAtStart,
  Me,                                \* the signed-in user: [id, role, perms]
  MAX_POINTS, WINDOW, MIN_INTERVAL,  \* of the activity history
  MaxIdle,                           \* bound on the age of its last point
  MaxPending                         \* bound on the requests in flight

VARIABLES
  known, unused,  \* clusters the server knows; numbers still to be given
  list,           \* the answer of ["clusters"] on the screen, or None
  listFetch,      \* None, Asked, or the answer on its way
  selected,       \* clusterId, in the state as in local storage (sf_cluster)
  page,
  dialog,         \* the dialog or drawer on the screen
  pending,        \* requests and timers in flight
  auto,           \* live alerts: "off", "on" or "stuck"
  history         \* points of the activity history: cluster and age

vars == <<known, unused, list, listFetch, selected, page, dialog, pending,
          auto, history>>
server == <<known, unused>>
clusterList == <<list, listFetch>>

ASSUME PagesAssumption ==
  /\ Clusters \subseteq Nat /\ None \notin Clusters
  /\ KnownAtStart \subseteq Clusters
  /\ {MAX_POINTS, WINDOW, MIN_INTERVAL} \subseteq Nat \ {0}
  /\ MaxIdle \in Nat /\ MaxPending \in Nat \ {0}

\* The messages page has a module of its own, MessageBrowser; every other page
\* without a cluster is like the audit log here.
PerCluster == {"dashboard", "brokers", "topics", "messages", "consumers",
               "connect", "schemas", "acls", "alerts"}
AllPages == PerCluster \cup {"clusters", "audit"}

\* Dialogs of the layout survive a change of page, and so do their requests.
LayoutDialogs == {"addCluster", "createTopic", "produceMessage", "palette"}
LayoutRequests == {"save", "probe", "createTopic", "timer", "publish"}

\* Dialogs and drawers; what lies under one is left out.
Dialogs == LayoutDialogs \cup
           {"none", "view", "broad", "deleteTopic", "deleteConnector", "deleteACL",
            "deleteCluster"}
Closed == [kind |-> "none", target |-> None, result |-> FALSE]

Ops == LayoutRequests \cup
       {"deleteTopic", "restart", "deleteConnector", "seedDemo", "createACL",
        "deleteACL", "register", "createRule", "removeRule", "resolve",
        "evaluate", "test", "remove"}
Requests == [op : Ops, cluster : Clusters \cup {None}, here : BOOLEAN]

-----------------------------------------------------------------------------
(* The selected cluster.                                                   *)

Listed(l) == IF l = None THEN {} ELSE l
First(l) == CHOOSE c \in l : \A d \in l : c <= d

\* clusterId of the context: nothing that the list does not show.
CurrentOf(l, c) == IF c \in Listed(l) THEN c ELSE None
Current == CurrentOf(list, selected)

\* Slip: the first cluster is selected whenever a list comes.
SyncedFirst(l, c) == IF Listed(l) = {} THEN None ELSE First(l)

\* The effect on the list: an id it lacks is replaced, by the first cluster or
\* by nothing.
Synced(l, c) ==
  IF Listed(l) = {} THEN None ELSE IF c \in l THEN c ELSE First(l)

\* Without a list and without a fetch that may bring one the effect runs at
\* every render: what is picked then is dropped at once.
Picked(c) == IF list = None /\ listFetch = None THEN None ELSE c

\* RequireCluster: without a cluster the page is not there.
Mounted(p, c) == p \notin PerCluster \/ c # None

-----------------------------------------------------------------------------
(* Dashboard: the activity history.                                        *)

Last == history[Len(history)]
Recent(p) == p.age <= WINDOW
Latest(s) == IF Len(s) <= MAX_POINTS THEN s
             ELSE SubSeq(s, Len(s) - MAX_POINTS + 1, Len(s))

\* A render adds a point unless the last one is too young.
Recorded(h, c) ==
  IF h # <<>> /\ h[Len(h)].age < MIN_INTERVAL THEN h
  ELSE Latest(Append(Taken(h, {i \in DOMAIN h : Recent(h[i])}),
                     [of |-> c, age |-> 0]))

\* Slip: the history goes on when another cluster is selected.
ActivityKept(p, c) ==
  IF p # "dashboard" \/ c = None THEN <<>> ELSE Recorded(history, c)

\* Slip: a point is recorded without a cluster.
ActivityUnguarded(p, c) ==
  IF p # "dashboard" THEN <<>>
  ELSE IF p = page /\ c = Current THEN history
  ELSE Recorded(<<>>, c)

\* A change of cluster starts it anew; leaving the page loses it.
Activity(p, c) ==
  IF p # "dashboard" \/ c = None THEN <<>>
  ELSE IF p = page /\ c = Current THEN history
  ELSE Recorded(<<>>, c)

DashboardContent ==
  /\ page = "dashboard" /\ Current # None
  /\ history' = Recorded(history, Current)
  /\ UNCHANGED <<server, clusterList, selected, page, dialog, pending, auto>>

Tick ==
  /\ history # <<>> /\ Last.age < MaxIdle
  /\ history' = [i \in DOMAIN history |->
                   [history[i] EXCEPT !.age = @ + 1]]
  /\ UNCHANGED <<server, clusterList, selected, page, dialog, pending, auto>>

-----------------------------------------------------------------------------
(* What a change of page or cluster does to the screen.                    *)

Evaluating == \E m \in pending : m.op = "evaluate" /\ m.here

\* The interval of live alerts looks at the mutation as it was when the effect
\* ran: set up during an evaluation, it never starts one.
Interval(evaluating) == IF evaluating THEN "stuck" ELSE "on"

LiveAlerts(p, c) ==
  IF p # "alerts" \/ c = None THEN "off"
  ELSE IF p # page \/ Current = None THEN "on"
  ELSE IF auto = "off" \/ c = Current THEN auto
  ELSE Interval(Evaluating)

\* A page that stays on the screen keeps its dialogs, whatever cluster their
\* target was picked in; a page that goes takes them along, not its requests.
\* d: the dialog, open or just closed.
Turn(d, p, c) ==
  LET stays == p = page /\ (Mounted(p, Current) <=> Mounted(p, c))
  IN  /\ dialog' = IF stays \/ d.kind \in LayoutDialogs THEN d ELSE Closed
      /\ pending' = IF stays THEN pending
                    ELSE {[m EXCEPT !.here = @ /\ m.op \in LayoutRequests]
                            : m \in pending}
      /\ auto' = LiveAlerts(p, c)
      /\ history' = Activity(p, c)

Init == /\ known = KnownAtStart
        /\ unused = Clusters \ KnownAtStart
        /\ list = None /\ listFetch = Asked
        /\ selected \in Clusters \cup {None}
        /\ page = "dashboard"
        /\ dialog = Closed /\ pending = {}
        /\ auto = "off" /\ history = <<>>

\* A link of the sidebar, the bell or the browser's history.
Visit(p) ==
  /\ p # page
  /\ page' = p
  /\ Turn(dialog, p, Current)
  /\ UNCHANGED <<server, clusterList, selected>>

\* The selector of the layout, or the buttons of ClusterEmptyState.
setClusterId(c) ==
  /\ c \in Listed(list) \cup {None}
  /\ selected' = Picked(c)
  /\ Turn(dialog, page, CurrentOf(list, c))
  /\ UNCHANGED <<server, clusterList, page>>

-----------------------------------------------------------------------------
(* The list of clusters.                                                   *)

InvalidateList == listFetch' = Asked /\ UNCHANGED list

\* The window gets the focus.
Refetch ==
  /\ listFetch = None /\ listFetch' = Asked
  /\ UNCHANGED <<server, list, selected, page, dialog, pending, auto, history>>

ServeList ==
  /\ listFetch = Asked /\ listFetch' = known
  /\ UNCHANGED <<server, list, selected, page, dialog, pending, auto, history>>

\* An answer equal to the last one, statuses and all, does not run the effect.
ListArrives ==
  /\ listFetch \notin {None, Asked}
  /\ list' = listFetch /\ listFetch' = None
  /\ \/ selected' = Synced(listFetch, selected)
     \/ list = listFetch /\ selected' = selected
  /\ Turn(dialog, page, CurrentOf(list', selected'))
  /\ UNCHANGED <<server, page>>

\* The first load fails: the selection is cleared, and Picked keeps it so.
ListFails ==
  /\ listFetch # None
  /\ listFetch' = None
  /\ selected' = IF list = None THEN None ELSE selected
  /\ UNCHANGED <<server, list, page, dialog, pending, auto, history>>

-----------------------------------------------------------------------------
(* Dialogs and requests.                                                   *)

Shows(p) == page = p /\ Mounted(p, Current)
Free == dialog = Closed
AtRow == dialog.kind \in {"none", "view"}

Open(kind, target) ==
  /\ dialog' = [kind |-> kind, target |-> target, result |-> FALSE]
  /\ UNCHANGED <<server, clusterList, selected, page, pending, auto, history>>

Busy(op) == \E m \in pending : m.op = op /\ m.here
Sent(op, c) == [op |-> op, cluster |-> c, here |-> TRUE]

\* A request always names the cluster on the screen when it is sent.
Send(op, c) ==
  /\ Cardinality(pending) < MaxPending
  /\ pending' = pending \cup {Sent(op, c)}
  /\ UNCHANGED <<server, clusterList, selected, page, dialog, auto, history>>

View == Free /\ Open("view", None)

\* ConfirmDialog: closes by hand even while its request is in flight.
ConfirmDelete(kind, op) ==
  /\ dialog.kind = kind /\ ~Busy(op)
  /\ Send(op, Current)

-----------------------------------------------------------------------------
(* Topics.                                                                 *)

\* The menu of a row offers everything to everyone; deleting spares the topics
\* that are internal.
topicActions ==
  Free /\ \E k \in {"view", "deleteTopic", "produceMessage"} : Open(k, None)

TopicsContent ==
  /\ Shows("topics")
  /\ \/ topicActions
     \/ ConfirmDelete("deleteTopic", "deleteTopic")
     \/ Free /\ can(Me, <<"topic", "create">>) /\ Open("createTopic", None)
     \/ AtRow /\ can(Me, <<"message", "publish">>) /\ Open("produceMessage", None)

CreateTopicDialog ==
  /\ dialog.kind = "createTopic" /\ ~dialog.result
  /\ Current # None /\ ~Busy("createTopic")
  /\ Send("createTopic", Current)

\* The topic was chosen in some cluster; the button stays after a result.
ProduceMessageDialog ==
  /\ dialog.kind = "produceMessage"
  /\ Current # None /\ ~Busy("publish")
  /\ Send("publish", Current)

-----------------------------------------------------------------------------
(* Kafka Connect and ACLs.                                                 *)

connectorActions ==
  /\ can(Me, <<"connect", "manage">>)
  /\ \/ AtRow /\ (Free \/ ~Busy("restart")) /\ Send("restart", Current)
     \/ AtRow /\ Open("deleteConnector", None)

ConnectContent ==
  /\ Shows("connect")
  /\ \/ View
     \/ connectorActions
     \/ ConfirmDelete("deleteConnector", "deleteConnector")
     \/ /\ Free /\ can(Me, <<"connect", "manage">>) /\ ~Busy("seedDemo")
        /\ Send("seedDemo", Current)

aclActions ==
  \/ View
  \/ AtRow /\ can(Me, <<"acl", "manage">>) /\ Open("deleteACL", None)

\* submitCreate: a broad permission is confirmed first, and the warning closes
\* as its request leaves.
submitCreate ==
  /\ can(Me, <<"acl", "manage">>) /\ ~Busy("createACL")
  /\ \/ Free /\ Open("broad", None)
     \/ Free /\ Send("createACL", Current)
     \/ /\ dialog.kind = "broad"
        /\ Cardinality(pending) < MaxPending
        /\ pending' = pending \cup {Sent("createACL", Current)}
        /\ dialog' = Closed
        /\ UNCHANGED <<server, clusterList, selected, page, auto, history>>

ACLsContent ==
  /\ Shows("acls")
  /\ aclActions \/ submitCreate \/ ConfirmDelete("deleteACL", "deleteACL")

-----------------------------------------------------------------------------
(* Schemas, consumer groups, brokers, audit log.                           *)

\* The button does not wait for the request before.
register ==
  /\ Free /\ can(Me, <<"schema", "write">>) /\ Send("register", Current)

SchemasContent == Shows("schemas") /\ (View \/ register)
ConsumersContent == Shows("consumers") /\ View
BrokersContent == Shows("brokers") /\ View
AuditPage == Shows("audit") /\ View

-----------------------------------------------------------------------------
(* Alerts.                                                                 *)

setLive ==
  /\ auto' = IF auto = "off" THEN Interval(Evaluating) ELSE "off"
  /\ UNCHANGED <<server, clusterList, selected, page, dialog, pending, history>>

\* Every 15 seconds; one in flight does not hold the next back.
AutoEvaluate == auto = "on" /\ Send("evaluate", Current)

AlertsContent ==
  /\ Shows("alerts")
  /\ \/ setLive
     \/ AutoEvaluate
     \/ Send("resolve", Current)
     \/ can(Me, <<"alert", "manage">>) /\
        \/ ~Busy("evaluate") /\ Send("evaluate", Current)
        \/ ~Busy("createRule") /\ Send("createRule", Current)
        \/ Send("removeRule", Current)

-----------------------------------------------------------------------------
(* Clusters.                                                               *)

\* The menu of a row asks for cluster.read, even for deleting; the server asks
\* for more.
clusterActions(c) ==
  /\ Free
  /\ \/ Open("view", c)
     \/ can(Me, <<"cluster", "read">>) /\ (Open("deleteCluster", c) \/ Send("test", c))

\* The drawer of a cluster.
ClusterDetail ==
  /\ dialog.kind = "view"
  /\ \/ can(Me, <<"cluster", "read">>) /\ ~Busy("test") /\ Send("test", dialog.target)
     \/ can(Me, <<"cluster", "manage">>) /\ Open("deleteCluster", dialog.target)

ClustersPage ==
  /\ Shows("clusters")
  /\ \/ \E c \in Listed(list) : clusterActions(c)
     \/ ClusterDetail
     \/ /\ dialog.kind = "deleteCluster" /\ ~Busy("remove")
        /\ Send("remove", dialog.target)
     \/ Free /\ can(Me, <<"cluster", "manage">>) /\ Open("addCluster", None)

\* A page of a cluster offers to add one while there is none.
ClusterEmptyState ==
  /\ ~Mounted(page, Current) /\ Free
  /\ Listed(list) = {} /\ (list # None \/ listFetch = None)
  /\ Open("addCluster", None)

\* Any edit of the form clears the result of the last test.
AddClusterForm ==
  /\ dialog.result /\ Open("addCluster", None)

AddClusterDialog ==
  /\ dialog.kind = "addCluster"
  /\ \/ AddClusterForm
     \/ ~Busy("probe") /\ Send("probe", None)
     \/ ~Busy("save") /\ Send("save", None)

-----------------------------------------------------------------------------
(* Command palette.                                                        *)

\* A search finds what the server knew when it was asked, in the list on the
\* screen or not.
navigateToResult(c, p) ==
  /\ dialog.kind = "palette"
  /\ p \in {"clusters", "messages", "consumers", "brokers"} /\ c \notin unused
  /\ selected' = Picked(c) /\ page' = p
  /\ Turn(Closed, p, CurrentOf(list, c))
  /\ UNCHANGED <<server, clusterList>>

\* The actions are offered to everyone.
CommandPalette ==
  \/ Free /\ Open("palette", None)
  \/ dialog.kind = "palette" /\ \E k \in LayoutDialogs \ {"palette"} : Open(k, None)

-----------------------------------------------------------------------------
(* Answers.                                                                *)

\* handleClose of the dialogs with a form waits for their requests.
CloseDialog ==
  /\ dialog # Closed
  /\ dialog.kind = "addCluster" => ~Busy("save") /\ ~Busy("probe")
  /\ dialog.kind = "createTopic" => ~Busy("createTopic")
  /\ dialog.kind = "produceMessage" => ~Busy("publish")
  /\ dialog' = Closed
  /\ UNCHANGED <<server, clusterList, selected, page, pending, auto, history>>

\* The server removes and adds clusters when the request reaches it, which is
\* some time before its answer.
Removed(c) ==
  /\ c \in known /\ known' = known \ {c} /\ UNCHANGED unused
  /\ UNCHANGED <<clusterList, selected, page, dialog, pending, auto, history>>

Added(c) ==
  /\ c \in unused /\ unused' = unused \ {c} /\ known' = known \cup {c}
  /\ UNCHANGED <<clusterList, selected, page, dialog, pending, auto, history>>

RefreshesList(op) == op \in {"remove", "test", "save"}

Closes(op) ==
  CASE op = "remove" -> "deleteCluster"
    [] op = "createACL" -> "broad"
    [] op = "timer" -> "createTopic"
    [] OTHER -> op

\* onSuccess.  A created topic is shown for a moment before a timer closes the
\* dialog.  A saved cluster leaves its dialog open: the handleClose it calls
\* still sees the request in flight.
Answered(m) ==
  /\ m \in pending
  /\ m.op = "remove" => m.cluster \notin known
  /\ IF RefreshesList(m.op) THEN InvalidateList ELSE UNCHANGED clusterList
  /\ IF m.op = "createTopic"
     THEN /\ pending' = (pending \ {m}) \cup {Sent("timer", None)}
          /\ dialog' = IF dialog.kind = "createTopic"
                       THEN [dialog EXCEPT !.result = TRUE] ELSE dialog
     ELSE /\ pending' = pending \ {m}
          /\ dialog' = CASE m.op = "probe" /\ dialog.kind = "addCluster"
                              -> [dialog EXCEPT !.result = TRUE]
                         [] m.op = "publish" /\ dialog.kind = "produceMessage"
                              -> [dialog EXCEPT !.result = TRUE]
                         [] m.op # "save" /\ m.here
                              /\ dialog.kind = Closes(m.op) -> Closed
                         [] OTHER -> dialog
  /\ UNCHANGED <<server, selected, page, auto, history>>

\* onError: a message; a failed test is a result as well.
Failed(m) ==
  /\ m \in pending /\ m.op # "timer"
  /\ pending' = pending \ {m}
  /\ dialog' = IF m.op = "probe" /\ dialog.kind = "addCluster"
               THEN [dialog EXCEPT !.result = TRUE] ELSE dialog
  /\ UNCHANGED <<server, clusterList, selected, page, auto, history>>

Pages ==
  \/ DashboardContent \/ TopicsContent \/ ConnectContent \/ ACLsContent
  \/ SchemasContent \/ ConsumersContent \/ BrokersContent \/ AuditPage
  \/ AlertsContent \/ ClustersPage

Layout ==
  \/ \E p \in AllPages : Visit(p) \/ \E c \in Clusters : navigateToResult(c, p)
  \/ \E c \in Clusters \cup {None} : setClusterId(c)
  \/ CommandPalette \/ CreateTopicDialog \/ ProduceMessageDialog
  \/ ClusterEmptyState \/ AddClusterDialog \/ CloseDialog

Next ==
  \/ Pages \/ Layout
  \/ Refetch \/ ServeList \/ ListArrives \/ ListFails
  \/ \E m \in pending : Answered(m) \/ Failed(m)
  \/ \E c \in Clusters : Removed(c) \/ Added(c)
  \/ Tick

Spec == Init /\ [][Next]_vars

-----------------------------------------------------------------------------
(* Properties.                                                             *)

TypeOK ==
  /\ known \subseteq Clusters /\ unused \subseteq Clusters
  /\ list # None => list \subseteq Clusters
  /\ listFetch \notin {None, Asked} => listFetch \subseteq Clusters
  /\ selected \in Clusters \cup {None}
  /\ page \in AllPages
  /\ dialog \in [kind : Dialogs, target : Clusters \cup {None}, result : BOOLEAN]
  /\ pending \subseteq Requests /\ auto \in {"off", "on", "stuck"}
  /\ history \in Seq([of : Clusters, age : Nat])

\* Where the user does not pick another cluster, in the selector or in the
\* palette, the selection stays through every refetch, failure of a refetch,
\* change of page and change of the other clusters.  The program changes it in
\* two cases only: a list has come that lacks it, and then a cluster of that
\* list is selected if it has any; or the load has failed and there is no list
\* at all, and then nothing is.
UserPicks == \/ \E c \in Clusters \cup {None} : setClusterId(c)
             \/ \E c \in Clusters, p \in AllPages : navigateToResult(c, p)
SelectionKept ==
  [][selected' # selected /\ ~UserPicks
       => \/ /\ list' # None /\ selected \notin list'
             /\ selected' \in (IF list' = {} THEN {None} ELSE list')
          \/ /\ listFetch # None /\ listFetch' = None /\ list' = None
             /\ selected' = None]_vars

\* The dashboard's history is of the selected cluster alone, its points an
\* interval apart and never more or older than they may be, however the cluster
\* is switched, removed and selected again.
HistoryOfSelected ==
  /\ history # <<>> => page = "dashboard" /\ Current # None
  /\ \A i \in DOMAIN history : history[i].of = Current
  /\ \A i, j \in DOMAIN history :
       i < j => history[i].age - history[j].age
                  \in (j - i) * MIN_INTERVAL .. WINDOW
  /\ Len(history) <= MAX_POINTS
=============================================================================

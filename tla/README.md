# Kafkaesque in TLA+

Kafkaesque is a web console for Apache Kafka: a Go backend (`src/backend`) in
front of PostgreSQL and the managed clusters, and a React frontend
(`src/frontend`).  This directory holds TLA+ models of the parts whose
correctness depends on the order of events, the TLC runs that check them and
the TLAPS proofs about them.

## 1. Inventory

| component | state | operations | interacts with | what is hard |
|---|---|---|---|---|
| Accounts, roles, sessions (`auth`, `handlers_users`, `handlers_roles`, `handlers_oidc`, `store`, `store_rbac`) | tables `users`, `roles`, `role_permissions`; the JWTs in clients' hands; per request, copies of rows | login, SSO callback, change/reset password, create/update/delete/enable/disable user, revoke sessions, create/update/delete role | every other handler through `auth.Middleware` and `requirePerm`; `audit_logs` through a foreign key | handlers are chains of single-statement reads and writes without a transaction: interleavings, stale copies, a statement that fails half-way, a restart |
| Startup and migrations (`main.go`, `store.go`, `migrations/`) | schema, seeded roles and grants, bootstrap administrator | run migrations, EnsureAdmin | accounts | every migration runs at every start |
| Clusters, topics, publish, offsets (`handlers.go`) | tables `clusters`, `audit_logs`; the Kafka clusters | CRUD on clusters, topics, offsets, publish | Kafka through `kafkaclient`, audit | audit rows that refer to a deleted cluster, ignored audit errors, the production guard |
| Message browsing (`kafkaclient/service.go`) | an opaque cursor, one offset per partition, held by the client | FetchMessages, TailMessages | broker offsets, Messages page | windows, page cut and next cursor; compaction holes, retention moving the log start |
| Alerts (`alerts/evaluator.go`, `store_alerts.go`) | alert rules and events | rule CRUD, evaluate now, 15 s ticker, resolve | lag and partitions from `kafkaclient` | two evaluations at once, a failed read, resolve racing an evaluation |
| Live tail (`handlers_live.go`) | one poll loop and one reader goroutine per socket | upgrade, poll, push, close | broker, Messages page | closing, errors, a life longer than the session |
| Schema, connector and ACL proxies (`handlers_enterprise.go`) | none | pass-through calls | registry, Connect, broker | audit only |
| Permission matching (`authorization/rbac.go`, `auth/permissions.ts`) | none | MatchPermission and its frontend twin | all handlers, all pages | two implementations of one rule |
| Browser session (`stores/auth.tsx`, `api/client.ts`, `App.tsx`, `LoginPage.tsx`, `ProfilePage.tsx`) | token in local storage, shared by the tabs; per tab the token, the user, `me()` requests in flight, the route | load, SSO return, login, `me()`, logout, change password | all pages | answers that arrive after the state they were asked for is gone; tabs that write the same key |
| Messages page (`MessagesPage.tsx`) | merged list of messages, cursor, filters, socket | reset, load older, refresh, live message | TailMessages, live tail | late answers after a change of topic, merging two sources |
| Admin pages (`UsersPage.tsx`, `RolesPage.tsx`, `components/dialogs`) | two lists in the query cache, a dialog with a copy of a row, mutations in flight | open, edit, submit, refetch, invalidate | the user and role handlers | late answers, a fetch that read the table before a change, rows other administrators change |
| Cluster selection and pages of a cluster (`ClusterContext.tsx`, `AppLayout.tsx`, the pages and dialogs) | selected cluster in state and local storage, list of clusters, open dialog, requests in flight, live alerts | select, visit, open, send, synchronise with the list | handlers of clusters and alerts | requests answered after the page, the dialog or the cluster they were sent from is gone |
| Activity history (`useMetricHistory.ts`) | bounded points in the memory of the dashboard | record, start anew | dashboard | bound, change of cluster |
| UI kit, deployment | rendering, packaging | - | - | nothing with a protocol of its own |

What makes each component correct, and the hazard behind it, is in the
`hazards` list of `PROJECT.json`, one entry per place in the code.

## 2. Plan

Order of work; all of it is done.

1. `SessionRegistry`, `Accounts`, `MCAccounts`, `Accounts_proofs`: accounts,
   roles and sessions with concurrent requests, implementing an abstract
   registry of revocable sessions (section 3).
2. `TailPager`, `MessageBrowser`, `MCMessageBrowser`: TailMessages and
   FetchMessages as operators over the records of the broker, composed with the
   Messages page, its query cache and its live view, and with producers,
   retention and compaction (section 4).
3. `Alerts`, `MCAlerts`, `Alerts_proofs`: ticker, evaluations on request,
   handlers (section 5).
4. `Ordering`, `OrderTheorems`, `MessageBrowser_proofs`: sorting and filtering by
   rank; the cursor arithmetic for every log, and the page that shows the pages.
5. `AuditTrail`, `Clusters`, `MCClusters`, `Clusters_proofs`: clusters, the
   changes made in what they manage, and the audit log (section 6).
6. `Permissions`: the matcher of the backend and the one of the frontend.
7. `BrowserSession`, `MCBrowserSession`, `BrowserSession_proofs`: the session in
   the tabs of one browser (section 7).
8. `AdminPages`, `MCAdminPages`, `AdminPages_proofs`: lists and dialogs of users
   and roles over a query cache (section 8).
9. `ClusterPages`, `MCClusterPages`, `ClusterPages_proofs`: the selected cluster,
   the pages of a cluster, the activity history (section 9).

Modules extend each other only where they share definitions: `MessageBrowser`
extends `TailPager`; it and `ClusterPages` extend `Ordering`; `BrowserSession`, `AdminPages` and `ClusterPages` extend
`Permissions`.  `Accounts` instantiates `SessionRegistry` and `Clusters`
instantiates `AuditTrail`, as the specifications they implement.  An operator
whose comment starts with "Slip" is a wrong version of the one after it: no
specification uses it, and with it in the place of the right one a run must
fail, which is how each property is known to depend on the code.

## 3. Accounts

### State and actions

| TLA+ | code |
|---|---|
| `users` (function from ids to rows, its domain is the set of rows) | table `users`: email, password hash, role, is_active, token_version |
| `used` | UUIDs given out so far |
| `audited` | `audit_logs.user_id`, which blocks deleting a user |
| `roles`, `perms` | tables `roles`, `role_permissions` |
| `issued` | JWTs signed (claims: user id, token version) |
| `req[w]` | one HTTP request in flight: the next statement (`pc`), the decoded body (`ask`), the row the middleware read (`me`), the row `loadUser` read (`snap`) |

One action is one SQL statement or one transaction, together with the Go code
up to the next statement.  The path of a handler is visible in `AfterLoad`,
`AfterEmail`, `AfterChecks` and `AfterRole`: for `updateUser` it is `Begin`
(middleware) - `Authorize` (requirePerm) - `LoadUser` - `CheckEmail` -
`CheckRole` - `CheckAssign` - `GuardLastAdmin` - `UpdateUser` - `Audit`, where
the checks of omitted fields are skipped.  `updateUser` writes email, role and
active flag from its copy, so a stale copy overwrites a newer row, as in the
code.  `Reread` is the second read of `Login`.  Its error is dropped
(`auth.go:58`), so when it fails (`RereadFails`) or finds no user the handler goes
on with an empty one: `SignForNobody` signs a token of no user at version 0
(`NobodysToken`), writes no audit row that the foreign key would take, and answers
with the token.  The middleware accepts it for nothing, since it finds no user.

`StatementFails` lets any statement fail, with the outcome the handler gives
it: most answer an error; a failed look-up by e-mail counts as "free", failed
permissions count as none, a failed `RevokeUserSessions` while disabling is
ignored.  `Restart` drops the requests, runs the migrations again (which puts
the seeded grants back) and `EnsureAdmin`.

Passwords and hashes are one value (bcrypt is external); `None` as a password
is the random one of an SSO account.  Tokens do not expire in the model: expiry
only makes fewer requests start.  A body that misses a required field is
answered before any statement and is not a request of the model (`Complete`).

### The abstract specification

`SessionRegistry` knows accounts, versions and tokens, and no requests: open an
account at version 1, sign a token at the current version or one for nobody, move
to the next version, close for good.  `Accounts` implements it with token_version as the
version and the deleted ids as the closed accounts (`ImplementsRegistry`).
This is what makes sessions revocable at all: no path through the handlers
writes an old version back.

## 4. Messages

### State and actions

`TailPager` has no state.  `Pool` is what `TailMessages` reads: from every
partition that has something below its cursor a window of
`max(2 * Limit, MinWindow)` offsets, of which `Forward` keeps the records that
exist.  A fetch that fails or times out after some records answers with those it
has (`service.go:417`): `stop` is the offset each partition's fetch comes to, `Read`
the records below it; a fetch that breaks off before its first record fails the
request (`SomeRead`).  `Page` merges them newest first (`Newer` is `sortMessagesNewestFirst`)
and cuts to `Limit`; `NextCursor` goes on below what the page shows of a
partition, or below the whole window of a partition the page shows nothing of.
`Lookup` is `FetchMessages`.  A cursor is a function from partitions to
offsets; its base64 text is left out.

| `MessageBrowser` | code |
|---|---|
| `log`, `begin`, `end` | the broker: records, log start and log end offsets |
| `topic`, `filter` | selection of `MessagesPage`; `Latest` is tail mode |
| `cache`, `fetching` | React Query results by query key, queries in flight |
| `paging` | `olderMessages`, `tailCursor`, `hasMore` |
| `asked` | the request of `loadOlder` in flight (the button is disabled meanwhile) |
| `live`, `wsNext` | `liveTail`, `liveMessages`; the offset the server's loop reads next |
| `unread` | no code: the messages of a tail that fetches broke off before, so that the properties can tell them from those the paging loses |

`Select`, `Refresh`, `Refetch`, `LoadOlder`, `OlderArrives`, `ToggleLive` and
`Answer` are the event handlers of the page with the effects they trigger: the
reset effect on topic and filter, and the effect that derives the paging state
whenever the query data changes identity.  An answer that equals the cached one
keeps its identity (structural sharing), so that effect does not run.
Rows are a set with an order until `InOrder` (module `Ordering`) lists them: the
element at position k is the one with k - 1 others before it.  `Sorted` lists a
page newest first and `ByOffset` a forward read, and `Taken` filters a sequence
by positions, which is what `mergeMessages` does to the rows it appends.
`LivePoll` is one round of the server's loop.  `Errors` are what one request may
meet and still answer 200: fetches that break off, and partitions whose offsets
cannot be listed and so count as empty (`Listed`, `service.go:343`).  `Produce`,
`Retain` and `Compact` stand for the broker; a producer sets any of the `Stamps`, so
time stamps need not follow the offsets.

### Bounds

Topic "a" has one partition and two messages, topic "b" two partitions with
one each; a page shows one message and reads windows of two offsets, and offsets
go up to `MaxOffset` = 3.  That is
enough for the page cut to fall inside a window, for a window to be shorter than
the log, for pages of one partition to follow each other, and for a window
without records (after a compaction).  `MaxChanges` = 1 message is appended or
deleted, at any moment, with a time stamp (`Stamps` = {0, 2}) before or after those
that are there.  One request meets at most `MaxErrors` = 1 error, and broken-off
fetches leave out at most `MaxUnread` = 1 message, the one that can fall between two
rows of such a log.
The
proofs (section 12) have none of these bounds.  `LiveBatch` and `LiveMax` are 1 (20 and 100 in the
code), so the live view overflows at once.  `NoOverlap` = TRUE assumes that the
user does nothing else on the page while an older page is on its way;
`older_page_after_switch` shows what happens otherwise.  No fairness is assumed:
the properties are safety properties.

## 5. Alerts

### State and actions

| TLA+ | code |
|---|---|
| `clusters`, `rules` | tables `clusters` and `alert_rules`; ids are not used again (`Gone`) |
| `active[r][a]` | rows of `alert_events` with status ACTIVE, of rule `r` about group `a` (or about offline partitions); `active[None]` are those whose rule was deleted |
| `level[c][a]` | what the cluster reports: the largest lag of a group, `None` when it is not listed; the number of offline partitions |
| `eval[e]` | an evaluation in progress: the rules it has yet to do, and of the current rule the copy of the row and the lags it read |

One action is one SQL statement or one read of the cluster.  An evaluation is
`Begin` (a tick or a request; the list of enabled rules), then for every rule
`Take` (the cluster row and the lags), then for every group, in the order of
names, `ResolveRecovered`, or `Check` and `Fire`.  Evaluations share nothing but
the tables, so any number of them overlap: the ticker and `Requests`.

Events are found by `message LIKE 'Consumer group <name>%'`.  `Covers` says
which pattern matches events about which group.  In the run the name of one group
begins that of the other (`Prefixed`), so an evaluation that finds the first
recovered resolves events of both.  `Faults` are the statements that may fail: `list` (the
cluster cannot be read; the rule is passed over), `lag` (the groups are listed
but not their lags: all count as 0), `resolve` and `insert` (ignored), `check`
(counts as "no active event"), and a `restart`.

### Bounds and fairness

One cluster, one rule id, two groups, lags 0 or 1 around the threshold 0, the
ticker and one evaluation on request, `MaxFaults` = 1 fault.  Two evaluations
are what it takes to interleave a check and an insert, two groups what it takes
to resolve or count the wrong one, by accident or by the pattern.  `Cap` = 3 is where the count of active
events saturates; it is above the bound of `DuplicatesBounded` (2), so a third
duplicate would be seen.

`FairSpec`: the ticker starts an evaluation again and again (`time.Ticker` in a
goroutine of its own, for the life of the process), and an evaluation that runs
goes on (no statement waits for another evaluation).  Requests, handlers,
faults, and the levels are not fair.

## 6. Clusters

### State and actions

| TLA+ | code |
|---|---|
| `clusters`, `audit` | tables `clusters` and `audit_logs`; ids are not used again (`used`) |
| `services[s]`, `up` | the topics, ACLs, schemas and connectors of a Kafka installation with its registry and Connect, and whether it answers; several clusters may point to one (external) |
| `req[w]` | a request in flight: what was asked, the cluster row the handler has loaded, the statement it is at |

`Begin` is `requirePerm`; a request that is refused does nothing and is not a
step.  Then `LoadCluster` with the production guard of createTopic, the call
(`CallService`; `TestConnection` for createCluster and testCluster), the
statement on `clusters` if there is one, and `Audit`.  What a call may come back
with is in the `...Answers` operators: Kafka refuses single topics, ACLs and
offsets inside a response the client code does not look at, so a refusal and
success look alike; Connect and the registry answer with an error.

`Faults`: a statement fails (`statement`; also when the client has gone and the
context is cancelled), a call does not get through (`call`), it gets through and
its reply is lost (`reply`), or the process restarts.  `Audit` writes no row,
and nobody hears of it, when the statement fails or the cluster is gone by then
(the foreign key of `audit_logs`).

### The abstract audit trail

`AuditTrail` knows no requests: an operator that did something owes one entry,
which is written once or forgotten; clusters come and go only in steps that owe
an entry with their name, and a name is registered once.  It sees the sites
(`services`): a step that incurs an entry about a topic, ACL, schema or connector
has made or removed just that (`Done`), a step that changes a site without one is
a change the entry would describe whose answer was lost (`Unheard`), and only for
the actions Kafka can refuse unheard (`Unread`) may an entry be owed for nothing
(section 11).  `Clusters` implements
it with `Owed` (what a request at `Audit` is about to write) and `Trail` (the
table without the ids of clusters, which a deletion sets to NULL).  It has
`Forget` because the code has it; `removal_unaudited` shows the case that needs
no fault.

### Bounds and fairness

One site, registered as production, one name, two ids, one topic, connector and
schema, two requests in flight, at most `MaxAudit` = 2 audited requests (tests
of connections are not bounded), one fault.  Two audited requests are what it
takes to register a cluster again, to change a topic of a cluster that is being
deleted, and to write entries in another order than the changes were made.  The
ACL operations, resetOffsets and deletion and restart of connectors go through the same
actions; only the instance of `removal_unaudited` sends them.

`FairSpec` has weak fairness on `Step(w)`, as for accounts.  `StatusSettles`
assumes that the site stays up or down and that tests of the cluster keep
coming, and concludes that the stored status is right from some point on.

## 7. Browser session

### State and actions

`Permissions` has no state: `MatchPermission` is `authorization/rbac.go`,
`matchPermission`, `can`, `canAny`, `canAll` and the copies of the grants are
`auth/permissions.ts` and `usePermissions.ts`.  An id is the sequence of its
segments.

| `BrowserSession` | code |
|---|---|
| `stored`, `writer` | `sf_token` in local storage, which `authHeaders` reads at each request; the tab that wrote it last |
| `tab[t]` | one tab: `token`, `user` and `loading` of `AuthProvider`; whether its effect on the token is still to run (`due`); the `me()` requests in flight (`asking`, each with the token it carries and its answer once the server has served it); the login form and the password form with theirs (`signing`, `changing`); the route |
| `account`, `signed`, `valid` | what the server knows: role and grants of the users, tokens signed, tokens it accepts |
| `regrants`, `read`, `overtaken`, `crossed` | no code, history: how often a user's role or grants changed, and how often they had when the server read what a tab shows (`None` if it could not read all); an answer of `me()` came before an older one; the last `me()` carried another token than the tab's |

A step is an event with the redirects it causes: `Landed` applies
`ProtectedRoute`, `AdminRoute` and the login page's own redirect to the new
state.  `login` sets token and user and makes the effect on the token due again;
the effect runs in a step of its own (`AskMe`) and reads local storage once more
(`authHeaders`, `client.ts:156`), where another tab may have put its token since.
A request is sent, served and answered in three steps, so its answer may be old
when it arrives.  `MeAnswered` writes the user of the token that was sent into
whatever session the tab has by then; `MeFailed` ends that session, since the code
treats every error alike.  `Answer` is what the two handlers say of a user: they
drop the error of reading the grants (`handlers.go:38`, `54`) and answer with those
read so far, none at worst.
`SignOut` tells the server nothing.  `Regrant` and `Revoke` are other
administrators and the end of a token's life.  There is no handling of a 401
elsewhere: other requests show their error and leave the session alone.

### Bounds and fairness

Two tabs, two users with one token each, one with a role that loses or regains
its grants once (`MaxRegrants` = 1), at most `MaxAsking` = 2 requests in flight in
both tabs together, a network that may lose any answer, a server that may fail to
read grants.  The tabs are interchangeable, so one has the login form and the
administration, the other the password form, and both single sign-on.
Two tabs are what it takes to write local storage behind a tab's back, two users
to mistake one for the other, two requests for one to overtake the other.
`Spec` has weak fairness on `Answers(t)`: React runs the effect, and the browser
serves and answers or fails every `me()`.  Users, other administrators and tokens
are not fair; a user who reloads a page before its effect has run, again and again,
keeps it loading, which `LoadingEnds` excepts.

## 8. Admin pages

### State and actions

| `AdminPages` | code |
|---|---|
| `cache`, `fetching`, `stale` | React Query's results of `["users"]` and `["roles"]`, the fetch in flight (asked, or the answer on its way with the rows it read), and the lists marked by `invalidateQueries` |
| `dialog` | the open dialog, the row it is about, and the copy its form edits |
| `pending` | mutations in flight: sent, or done by the server and not yet answered; `here` says that the component that sent it is still on the screen |
| `users`, `roles`, `clock` | the tables, and how many changes they have seen |
| `dialog.sent` | no code, history: the very request the open form has sent last |
| `wrote` | no code, history: the last change whose answer reached a page with rows of the list on it, until rows arrive that were read after it |

`useRoles` is used by the Users page too, for its forms (`Active`).  A fetch reads
its table in one step (the server needs one statement for users and several for
roles) at any moment between its request and its answer.  `Invalidated` starts a
fetch over, as `invalidateQueries` does for a list on the screen, but leaves the
first fetch of a list, before any rows, as it is.  A form is a
copy made when its dialog opens, and sends every field.  `Serve` applies a
request as the handlers of `Accounts` would; the administrators and users of
`OtherUserWrite` and `OtherRoleWrite` write the same rows.

### Bounds

The administrator and one more user, a system role and one made here, one grant,
two changes of the tables, two mutations in flight, a users' fetch that can fail.
Two changes are what it takes for a fetch to read between them, two requests for
one answer to meet the dialog of another.  A failing fetch of the roles is left
out because the page then hides the rows it has, which the model does not
distinguish.  No fairness: the properties are safety properties.

## 9. Pages of a cluster

### State and actions

| `ClusterPages` | code |
|---|---|
| `selected` | `clusterId` of `ClusterContext`, in its state as in local storage (`sf_cluster`) |
| `list`, `listFetch` | the list of clusters on the screen, the fetch in flight |
| `page`, `dialog` | the page, and the dialog or drawer over it with its target |
| `pending` | requests and timers in flight, with the cluster each was sent to |
| `auto` | live alerts: off, on, or stuck (the interval was set up during an evaluation and starts none) |
| `history` | the points of `useActivityHistory`, each with its cluster and age |
| `known`, `unused` | the clusters the server knows, and those still to be added |

There is one action per page (`TopicsContent`, `ConnectContent`, ...) and per
dialog, whose disjuncts are what its buttons do; `Layout` is the sidebar, the
selector, the palette and the dialogs that survive a change of page.  `Turn` is
what a change of page or cluster does to all of them: which dialogs and requests
belong to a component that goes, and what starts anew.  `Synced` is the effect of
`ClusterContext` on the list; it does not run when the answer equals the last
one.  Without any list its dependency is a new array at every render, so once the
first load has failed (`ListFails`) the effect drops whatever the selector or the
palette picks (`Picked`), until a fetch is on its way again.  `Removed` and `Added` are the server's side of a request, or another
administrator's.  `Recorded` is the second effect of `useActivityHistory`: it
filters the points by age (`Taken` of `Ordering`), appends one and keeps the last
`MAX_POINTS`.

### Bounds

Two clusters, of which one may be added and the other removed, so that the list
is empty, lacks the selected one, or gets a second one before the first; one
request in flight; a history of at most `MAX_POINTS` = 3 points, `WINDOW` = 3
intervals, whose last point is at most `MaxIdle` = 2 intervals old when the next one is taken.  In the code
30 points at 15 seconds are 7.5 minutes, so the window of 30 minutes only bites
after a pause; 2 * `MaxIdle` > `WINDOW` brings that about here.  Two
requests in flight, and three clusters, were run by hand: they add states
(5 and 3 million) and show nothing else.  No fairness.

## 10. Runs

The MC modules give the constants.  `MCAccounts`: four ids, four addresses, two passwords, the
system roles ADMIN and VIEWER, one custom role SUPPORT that may edit users but
not assign roles, and the nine permissions the modelled handlers ask for.
Every bound is a constant: `Slots` (requests in flight), `Requests` (what
clients send), `MaxVersion` (requests that bump a token_version start only
below it), the free ids (`RoomForNew`).

| run | instance | shows |
|---|---|---|
| `accounts_one_at_a_time` | one request in flight, 18 kinds of request, errors and restarts; three users | types; an active ADMIN remains; every role in use exists; role changes need roles.assign; updateUser changes only what the body names; every request is answered |
| `accounts_two_at_a_time` | two requests in flight, 8 kinds, errors and restarts; two users and two free ids | no token ahead of its user; unique addresses; system roles stay; revoked stays revoked; a password change revokes; a login proves the password the user has when the token is signed, unless sessions were revoked between its two reads (section 11); implements `SessionRegistry` |
| `last_admin_race` | two administrators, each demotes the other | `AdminRemains` fails (section 11) |
| `messages_page` | section 4, one filter, refresh, refetch, live tail, failing requests, fetches that break off, partitions that are not listed | types and the bound of the live view; only rows of the selection are on the screen; in a topic with one partition older pages leave nothing out but what a fetch left unread or a producer stamped out of order, and keep the order; an older page never repeats a row |
| `tail_skips_messages` | topic "b", an idle and a busy partition, nothing changes | `NothingSkipped` fails (section 11) |
| `older_page_after_switch` | another topic selected while an older page is on its way | `ShowsSelected` fails (section 11) |
| `alerts` | section 5 | types; at most one active event per overlapping evaluation; events name rules that are there; an evaluation takes no event from a group it has judged already, though a pattern matches events of longer names; a lasting lag is raised; a lasting recovery ends up resolved |
| `clusters` | section 6 | types and the foreign key of the audit rows; changes are made only for users who were granted them, new topics in production only by the roles named there; implements `AuditTrail`, so entries are about what was done at the sites; the stored status settles |
| `removal_unaudited` | one cluster, no faults | `RemovalAudited` fails (section 11) |
| `session` | section 7 | types; a tab that has a session and is done loading knows its user; at rest that user is the token's owner, unless answers of `me()` overtook each other or the last one was asked with another tab's token; the last writer of local storage sends its own token; as long as role and grants are as the server read them, and it could read them, a tab judges the pages as the server does, roles without grants excepted; loading ends |
| `admin` | section 8 | types; once this administrator's change was answered, no list that has rows on the screen settles on rows read before it; a form is closed by its user or by the answer to the very request it sent |
| `pages` | section 9 | types; apart from the user's picks the selection moves only when a list has come that lacks the cluster, and then to one of the list if it has any, or to none when the load failed and there is no list; the history on the dashboard is of the selected cluster, its points an interval apart, within the window and the number allowed |

Why the bounds of the account runs: the properties of the second run relate one account's row to
its tokens and to one competing account, and the races are between two
requests; a third request adds no kind of conflict because every statement
touches one row or one role.  The proofs (section 12) remove the bound for the
properties of that run, and the bounds on everything but the number of slots for
the safety properties of the first.  Slots are interchangeable and so are the two free ids,
hence the symmetry of the second run, which checks no liveness.

Fairness of accounts: `FairSpec` has weak fairness on `Step(w)` only: a handler that has
started goes on, since Go schedules every goroutine and no handler waits for
another one.  Clients, failures and restarts are not fair.

Deadlock is checked in every run but `removal_unaudited`, each system always having a
next step; in that one the instance has no faults and a bounded number of requests,
and stops when they are used up.

## 11. Disagreements with the documentation

Shown by a run:

- `last_admin_race`: `guardLastAdmin` (`handlers_users.go:340`) counts, and a
  later statement writes.  Two administrators demoting, disabling or deleting
  each other at the same time both see two, and none is left, against
  `handlers_users.go:350` ("cannot remove or disable the last active
  administrator").  With one request at a time `AdminRemains` holds
  (`AdministratorRemains`, section 12).
- `tail_skips_messages`: a partition the page shows nothing of is moved below
  its whole window (`service.go:536`), so with a busy and an idle partition the
  messages of the idle one are never shown, against "Repeat until the button
  disappears (all available messages loaded)" (README:486).
- `older_page_after_switch`: `loadOlder` (`MessagesPage.tsx:118`) appends its
  answer to whatever the page shows when it arrives: rows of the old topic under
  the new one, against README:412.
- `removal_unaudited`: `deleteCluster` audits after the row is gone, with its id
  (`handlers.go:236`); the foreign key refuses the entry and the error is
  dropped, against README:744 ("admin actions audit-logged").

The sources quoted by the findings are in `PROJECT.json`.

Seen in the model, without a run of their own.  Accounts:

- `Login` (`auth.go:58`) signs the token with a second read of the user.  A
  password reset between the password check and that read leaves the old
  password's owner with a session at the new version, against
  `UsersPage.tsx:202` ("Active sessions will be invalidated").  This is the only
  way: `LoginProvesPassword` is about every login whose user is at the version of
  the first read when the token is signed, and holds for any number of requests.
- The error of that read is dropped: when it fails, or the user is deleted in
  between, the login answers 200 with a token for nobody, which every further
  request refuses, and its audit entry is lost.
- A role can be deleted while a createUser or updateUser that has already
  looked it up is on its way: the user keeps a role without a row.
- updateUser writes the role and the active flag of its copy: an edit of the
  display name that overlaps a demotion or a disable undoes it, and its actor
  needs no roles.assign for that.  The edit dialog sends every field each time.
- Disabling through `updateUser` (isActive false) never revokes; enabling again
  revives the old sessions.  The same happens when the second statement of
  `setUserActive` fails.
- Grants removed from a system role come back at the next start
  (`003_rbac.sql:71`).
- A user with any audited action cannot be deleted (`001_init.sql:46`), though
  README:562 lists deletion.

Messages:

- Refresh clears the paging state (`MessagesPage.tsx:94`), and an answer equal to
  the last one does not restore it: the button for older messages is gone.
- The live tail starts at offset 0 of partition 0 and starts over each time it
  is switched on, so on a long topic it shows old messages for a long time, and
  those of other partitions never.
- A page is cut by time stamp and its cursor goes by offset.  Where a producer's
  time stamps run backwards a message with an early stamp and a high offset is cut
  off and never served: the properties about one partition except it.
- A fetch that fails or times out in the middle of a window is answered as if the
  window ended there (`service.go:417`).  The next page goes on below the rows that
  came, so the upper part is never served; the properties except it (`unread`).
- A partition whose offsets cannot be listed drops out of the page, and the answer
  does not say so (`service.go:343`); from a first page its cursor starts at 0, and no
  older page brings it back.
- After a compaction a window can hold no record: the cursor stays where it is,
  `has_more` stays true, and loading older messages gets no further.
- A refresh or a refetch that overlaps `loadOlder` leaves a gap between the new
  first page and the older rows.

Alerts:

- An alert rule resolves events, and is kept quiet by events, of every group
  whose name its own group's name begins (`store_alerts.go:99`, `109`).  An
  evaluation judges groups in the order of their names, so one whose event was
  resolved by a shorter name is judged after that and raised again
  (`JudgedGroupsKeepEvents`): its event is replaced at every pass.  The other
  way round, a lagging group gets no event of its own while one of a longer
  name is active; `LagRaises` counts an event its pattern matches.
- In such a pattern `_` and `%` of a name are wildcards: with them it can match
  groups that were judged before, which the theorem's hypothesis excludes.
- A failed look-up of active events fires again (`evaluator.go:116`): with the
  fault `check` the number of duplicates has no bound but `Cap`.
- A cluster whose lags cannot be read reports lag 0 (`acl.go:333`), which
  resolves alerts that are still true until the next good pass.
- A rule on offline partitions fires at every pass and is never resolved by one.
- Events of a deleted rule, of a disabled one, or about a group that no longer
  exists stay active until someone resolves them by hand.

Clusters:

- What a broker refuses for one topic, ACL or offset is in a response that
  `CreateTopic`, `DeleteTopic`, `ResetOffsets`, `CreateACL` and `DeleteACL`
  discard (`service.go:311`): the client reads success and the audit log says
  SUCCESS.
- Only createTopic asks `CanModifyProduction`; deleteTopic and resetOffsets do
  not (`handlers.go:342`, `469`).
- A change whose reply is lost, and one whose cluster is deleted meanwhile,
  leaves no audit entry.

Browser session and permissions:

- An answer of `me()` for an old token arrives in a new session: it shows the old
  user there, or, when it fails, signs the new session out (`auth.tsx:20`).
- With two tabs, a login in the second one changes the token the first one
  sends; the first goes on showing its own user.
- The token of a page is read at render, and again by the effect that asks `me()`
  (`auth.tsx:17`, `25`, `client.ts:156`).  A login in another tab between the two
  makes the page show the other user with its own token, for good.
- The login and `me()` handlers drop the error of reading the grants
  (`handlers.go:38`, `54`): the page then judges by the frontend's copy for the role,
  or by a part of the grants.
- Logout does not tell the server; the token is good until it expires.
- The answer of a password change signs out whichever session the tab has by
  then.
- A role without any grant falls back to the frontend's copy of the grants
  (`usePermissions.ts`), so its pages offer what the server refuses.
- The two matchers differ on ids of one segment and of three; all ids of the
  program have two, for which they agree (`MatchersAgree`).
- The copy in `permissions.ts` lacks `roles.create`, `roles.update` and
  `roles.delete` of ADMIN, which `003_rbac.sql` grants; it describes VIEWER as
  having audit logs (`permissions.ts:144`), which it has not.
- `refreshUser` is called nowhere: new grants reach a page at the next load.

Admin pages:

- The edit dialog sends every field of a copy: an edit made before another
  administrator's change undoes it.
- It lets an administrator disable the own account, against
  `UsersPage.tsx:133` ("Cannot disable yourself"), as the menu of the row does not.
- A confirmation closes while its request is in flight, and the answer then
  closes the confirmation that is open by that time, of another row.
- The mark of a list off the screen is cleared by a fetch that was in flight when
  it was set: until the next fetch the page shows the rows from before.
- So does the first load of a list: a user created before it has arrived
  (`UsersPage.tsx:65`) is missing from its rows and the mark is cleared, because
  React Query starts a fetch over only when the query has data.

Pages of a cluster:

- The name to delete, view or publish to stays in its dialog while the cluster
  changes, by the user or by the list: the request goes to the same name in the
  new cluster (`TopicsPage.tsx:290`), and its success refreshes the list of the
  cluster selected by then.
- The dialog that adds a cluster stays open after a save: the `handleClose` it
  calls still sees the request in flight.
- The timer that closes the dialog of a new topic closes one opened meanwhile.
- The interval of live alerts tests `evaluate.isPending` as it was when the
  effect ran: set up during an evaluation it never starts one, against the
  comment at `AlertsPage.tsx:84` ("triggers evaluate every 15s"), and set up
  otherwise it does not wait for the evaluation before.
- A first load of the list that fails clears the stored selection, where the
  comment at `ClusterContext.tsx:38` speaks of stale ids, and from then on drops at
  once what the palette picks (`ClusterContext.tsx:27`, `57`).
- The palette can select a cluster the list does not have yet.
- Deleting a topic and publishing to it are offered to everyone in the menu of a
  row; the server refuses.  The button to publish stays usable after a result.
- The dashboard records a point of zeros before any data are there.

## 12. Proofs

`Accounts_proofs` proves, for all sets of ids, addresses, roles, requests and
slots, with any faults, from `ConstantsAssumption` (constants are of their
kind, `None` is none of them, ADMIN is a system role, seeds are in the
catalogue) and `StartAssumption` (the database at the start is well-formed:
unique addresses, tokens not ahead of their users):

| theorem | statement |
|---|---|
| `TypeCorrect` | `Spec => []TypeOK` |
| `SystemRolesAlways` | `Spec => []SystemRolesStay` |
| `TokensNeverAhead` | `Spec => []NoTokenFromFuture`, tokens for nobody included |
| `EmailsUnique` | `Spec => []UniqueEmails` |
| `RevokedForever` | `Spec => RevokedStaysRevoked` |
| `PasswordChangeEndsSessions` | `Spec => PasswordChangeRevokes` |
| `Implements` | `Spec => ImplementsRegistry` |
| `LoginsProvePasswords` | `Spec => LoginProvesPassword` |
| `AdministratorRemains` | `Spec => []AdminRemains`, if `Slots = {s}` and an ADMIN is active at the start |
| `RolesInUseExist` | `Spec => []NoDanglingRole`, if `Slots = {s}`, `DefaultRole` is a system role and the roles in use at the start exist |
| `RolesChangedByAssigners` | `Spec => RoleChangeNeedsAssign`, if `Slots = {s}` |
| `OnlyNamedFieldsChange` | `Spec => UpdateChangesOnlyNamedFields`, if `Slots = {s}` |

Argument.  `IInv` is `TypeOK`, `SlotsOK`, `SystemRolesStay` and
`NoTokenFromFuture`.  `SlotsOK` says what a request holds at each statement:
`TypeOK` alone is not inductive because `updateUser` writes fields of its copy
(which must be a row by then), and `SystemRolesStay` is not because a
`deleteRole` on its way to the write must hold a role that `CheckMembers` found
not to be a system role.  The lemmas are grouped as: how a slot moves on
(`AnswerSlots` to `FaultSlots`), what each statement does to the tables
(`RowStatementsTables` to `RestartTables`), and the step simulation
(`RegistryStep`), from which `VersionsGrow` and `NextTokens` follow: the token
theorems are consequences of the refinement.  `UsersStep` classifies what a
step does to the rows of `users` for `EmailsUnique` and
`PasswordChangeEndsSessions`.  `LoginsVerified` is what `LoginsProvePasswords`
needs: between its two reads a login holds a row with the password it was given, and
as long as the user is at the version of that row the password has not changed.  It
is kept because a statement that changes a password moves the version and no other
statement moves it back, whatever requests run beside.

The last four theorems are about one request at a time, with failing statements
and restarts; in general they are false (section 11: `last_admin_race` and the
list after it).  They share the invariant `Held`: what the request in flight has
read is still so.  The copy it will write still is the row, the count of
administrators its guard saw still exceeds one, the role it looked up is still
there, the role it is about to delete has no member, its actor still holds
`roles.assign`.  `Held` is kept
because only the request's own statements change the tables and a statement that
establishes a part of it changes none; a restart drops the request.

`Alerts_proofs` proves, for all sets of clusters, rules, groups and
evaluations (finitely many at once), from `AlertsAssumption` (constants are of
their kind, the pattern of a group matches its own events):

| theorem | statement |
|---|---|
| `TypeCorrect` | `Spec => []TypeOK` |
| `EventsNameRules` | `Spec => []NoEventForMissingRule` |
| `NoMoreThanEvaluators` | `Spec => []DuplicatesBounded`, if look-ups do not fail (`"check" \notin Faults`) |
| `JudgedGroupsKept` | `Spec => JudgedGroupsKeepEvents`, if a pattern matches events of later names only, as prefixes do |

Argument.  `DuplicatesBounded` alone is not inductive: an evaluation that has
looked and not yet inserted (`Pending`) is about to add an event.  `Bounded`
says that the active events of a rule and group and its pending evaluations
together are at most the evaluations.  It is kept because an evaluation becomes
pending only when there is no active event (then at most the pending ones
remain to count), an insert turns a pending evaluation into an event, and every
other step adds neither.  `NoEventForMissingRule` is inductive by itself given
the types: the foreign key makes the insert of a stale copy fail.
`JudgedGroupsKept` needs the types only, and that an evaluation takes its groups in
the order of their names: what is later and listed is still in its hands after the
statement that resolves.

`OrderTheorems` has what several of the proofs need of orders, for every finite
set and every strict total order on it: every nonempty set of naturals has a
least one (`LeastOfNaturals`, used for the order of groups and of clusters);
ranks are a bijection to 0..n-1 (`RankBijective`, a counting argument); so
`InOrder` lists every element once and in order (`InOrderOK`), and `Taken` keeps
the chosen elements and their order (`TakenOK`), a tail without moving them
against each other (`TakenTail`).  `SortSeq`, `SetToSortSeq` and `SelectSeq` of
the library say the same by recursion, which the provers cannot unfold; this is
why the models sort and filter by rank.

`MessageBrowser_proofs` proves first about the operators of `TailPager`, for every log,
`Limit` and `MinWindow`:

| theorem | statement |
|---|---|
| `PagesDisjoint` | a page and the one after it share no row, and the second only has lower offsets, whatever happened to the log in between |
| `NoGapWherePageShows` | in a partition it shows something of, what a page leaves out down to its cursor is a message a fetch broke off before, or one stamped earlier than a row of the page with a lower offset |
| `PagingGetsFurther` | while the fetches deliver a record, the cursor falls somewhere and rises nowhere |

They hold wherever the fetches end (`stop`) and rest on `WindowRead` (the bound on
their number cuts no record off: a window has at most as many records as
offsets), `PageUpward` (what is newer
than a message on the page is on the page) and `NextCursorOK`.  `tail_skips_messages`
shows that the restriction to partitions on the page is needed.

Then about the page, for all topics, partitions, filters, bounds, users and
broker events, from `PagerAssumption`, `BrowserAssumption` and `StartAssumption`
(the log starts without gaps):

| theorem | statement |
|---|---|
| `TypeCorrect` | `Spec => []TypeOK`, whatever overlaps on the page |
| `RowsOfSelection` | `Spec => []ShowsSelected`, if `NoOverlap` |
| `NothingSkippedInOne` | `Spec => []OnePartitionNothingSkipped`, if `NoOverlap` |
| `RowsNewestFirst` | `Spec => []NewestFirst`, if `NoOverlap` |
| `OlderRowsNew` | `Spec => OlderPagesNew`, if `NoOverlap`, any number of partitions |

Argument.  None of the properties is inductive: they speak of the rows on the
screen, and the next rows come from a cursor, from a cached answer that may be
older than the log, or from a request on its way.  The invariant has two parts.
`Base` holds whatever overlaps.  `BrokerOK` relates the log to its start and end
offsets and `Written` to its size.  `KnownOK` says that a message is the same
wherever it is held (log, cached answers, older rows), also after the log has lost
it.  `CacheOK` describes every cached answer: its rows lie at or
above its cursor, its cursor at or below the log end, and with one partition every
message of the log between the two is there or excused (`InOrExcused`: a fetch broke
off before it, or it is stamped earlier than a row with a lower offset).  It stays true while the log
changes, because producers append above the cursor and deletions only remove.
`ScreenOK` and `LiveOK` are the selection, the cursors and the live view.
`Paged` needs `NoOverlap`.  `PagingOK` says of the older rows what `CacheOK` says
of an answer: they lie between the cursor of the page and the one of the tail
above them, and with one partition they are in order and complete in the same sense.
In order means newer or of a higher offset (`Above`), which is what two pages that
follow each other by offset can promise whatever the time stamps.  `AskedOK`
says that the request on its way was made for the topic and the cursor the page
still has.  `TailServes` is the one lemma about an answer to any cursor; with
`PageShows` it rests on the theorems of the table before.  Each action has its
lemma (`ProduceStep` to `LivePollStep`); `Answer` and `OlderArrives` have one for
each part.

`NoOverlap` is a hypothesis and not a fact about the page: without it
`older_page_after_switch` violates `ShowsSelected`, since the page takes an older
page that was asked for another topic.  The theorems say that in the model
nothing but such an overlap breaks the four properties.

`Clusters_proofs` proves, for all sets of clusters, sites, users, grants and
slots, from `ClustersAssumption`:

| theorem | statement |
|---|---|
| `TypeCorrect` | `Spec => []TypeOK`, with unique names and the foreign key of `audit_logs` |
| `ChangesNeedGrants` | `Spec => ChangesPermitted` |
| `Implements` | `Spec => ImplementsTrail` |

Argument.  `IInv` is `Tables` and `InFlight`.  `Tables` adds to the types that ids
are never used again and names differ.  `InFlight` says what a request holds:
its user was granted it (the handler asked when it began and the model's grants
do not change), a `createTopic` past the load is allowed for the row it has
loaded, and a `deleteCluster` knows the name of the cluster it is about to
delete, which is what its audit entry will say.  The refinement has one lemma per
kind of statement (`TrailCall` to `TrailAudit`): a call or statement that changes
something incurs an entry, `Audit` writes or forgets it, and everything else
leaves `Owed`, `Trail`, the sites and the names alone.  `AnswersDone` compares what a
service may answer with the trail's own account of it: an error changed nothing, and
a success did what the entry says, unless it is one Kafka can give for a refusal.

`BrowserSession_proofs` proves, for all sets of tabs, users, tokens, profiles and
pages, from `SessionAssumption`:

| theorem | statement |
|---|---|
| `MatchersAgree` | both matchers give the same answer for every id of two segments, whatever the granted list (also ids of other lengths in it) |
| `TypeCorrect` | `Spec => []TypeOK` |
| `SessionsHaveUsers` | `Spec => []SessionHasUser` |
| `RestingUserIsOwner` | `Spec => []AtRestUserIsOwner` |
| `LastWriterSendsItsToken` | `Spec => []StorageFollows` |
| `PagesMirrorServer` | `Spec => []UiMirrorsServer` |

Argument.  `AtRestUserIsOwner` is not inductive: it says nothing of a tab that
waits.  `AsksLast` adds that, unless the effect is due, an answer overtook another
or the last `me()` was sent with another tab's token, the last `me()` in flight
carries the tab's token; so the answer that leaves none in flight is about it
(`AnswersOK`: an answer is about the owner of the token that was sent).  `TabOK`
joins this with the types of one tab, one lemma per event shows that the event keeps
it (`LoadedOK` to `MeFailedOK`), and `TabSteps` lifts it to all tabs.  For
`PagesMirrorServer` the invariant says of every user a tab shows or is about to
hear of (`UsersIn`) that, if its role and grants have not changed since it was read,
its grants are the server's (`Current`); `MatchersAgree` does the rest.

`AdminPages_proofs` proves, for all sets of users, roles and grants and all
bounds, from `AdminAssumption`:

| theorem | statement |
|---|---|
| `TypeCorrect` | `Spec => []TypeOK` |
| `SettlesOnNewRows` | `Spec => []OwnWritesShown` |
| `FormsAwaitTheirAnswer` | `Spec => FormsCloseByOwnAnswer` |

Argument.  `Budget` (changes made and requests sent together stay within
`MaxWrites`) makes the bound on `clock` inductive.  `Marked` says of a list whose
change was answered that it is marked and that an answer on its way read the
table no earlier: such a list has rows, so `Invalidated` starts its fetch over, and
an answer clears the mark only together with `wrote`.  `Attended` says that while the
request of a form is in flight that form is open and remembers this very request
(`sent`), so there is no other: forms do not close while busy, and a change of page
takes `here` away from its requests.

`ClusterPages_proofs` proves, for all sets of clusters, users and bounds, from
`PagesAssumption`:

| theorem | statement |
|---|---|
| `TypeCorrect` | `Spec => []TypeOK` |
| `HistoryStays` | `Spec => []HistoryOfSelected` |
| `SelectionStays` | `Spec => SelectionKept` |

Argument.  `IInv` is the types of the lists and of the screen (`ListsOK`,
`ScreenOK`) and `HistoryHere`, the history of the cluster on the screen.
`HistoryOK` states the distance of every two points, at least their number of
intervals and at most the window, and not only of neighbours: this is what a
dropped prefix keeps.  `RecentAreLast` shows that the points a filter by age keeps
are the last ones, because ages fall; with `TakenTail` the filter is then a tail
of the history, and `RecordedOK` adds the new point.  `TurnStep` covers every
change of page or cluster, where the history starts anew or goes.  For
`SelectionStays`, `FirstIsListed` (from `OrderTheorems`) says that the first
cluster of a list that is not empty is on it, and `PagesKeep` to `AnswersKeep`
that no page, dialog or answer touches the selection but the selector and the palette
(`UserPicks`).

Every safety property of a passing run is stated by a theorem.  Only
model-checked is liveness, which is beyond the provers: `RequestsFinish`,
`LagRaises`, `RecoveryResolves`, `StatusSettles` and `LoadingEnds`.

## 13. Not modelled

- Presentation, packaging, configuration parsing, the cipher for stored secrets
  (no state beyond one call), the broker, registry and Connect services
  themselves; text of messages, validation of formats, display names, sorting,
  search and paging of tables, time stamps, toasts, theme and other preferences.
- What the pages of a cluster list (React Query keys it by cluster, so an answer
  cannot land in another one), their filters and forms.
- Two dialogs at once: the palette opened over a dialog, and what lies under a
  dialog; rows a page hides after a failed fetch; the read mark of the bell.
- The HTTP server's time limits and shutdown, two replicas that start at once,
  a poll loop that outlives its socket, TLS and SASL.
- Tokens signed for nobody in `BrowserSession`: they are in `Accounts`, and a tab that
  gets one is refused at its first `me()`, like one whose token was revoked at once.
- The composition of the frontend's modules with those of the backend: each
  frontend module has the part of the server it talks to as a few variables of its own
  (`account` and `valid`, the tables of `AdminPages`, `known`), which its
  answers are taken from.

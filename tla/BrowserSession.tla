---------------------------- MODULE BrowserSession ----------------------------
(***************************************************************************)
(* The session of the frontend in the tabs of one browser: the token in     *)
(* local storage, which every tab reads at each request, and per tab the    *)
(* token and user of AuthProvider, its effect on the token, the me()        *)
(* requests in flight, the login form, the password form and the page the   *)
(* router shows.  Redirects are part of the step that causes them.          *)
(*                                                                          *)
(* A request is sent, served and answered in three steps.  The server's     *)
(* side of accounts and tokens is module Accounts; here a handler is one    *)
(* step, which may fail to read the grants of the role.                     *)
(***************************************************************************)
EXTENDS Permissions, FiniteSets, SequencesExt

CONSTANTS
  Tabs,
  Users,
  Tokens,      \* every token the server will sign
  Owner,       \* the user a token is signed for
  Profiles,    \* the roles and grants each user can have, [role, perms]
  StartAccount, \* role and grants of every user at the start
  None,
  Pages,       \* the pages visited in each tab
  Ways,        \* the ways of signing in used in each tab, "local" and "oidc"
  MaxAsking,   \* bound on the requests in flight, of all tabs
  MaxRegrants, \* bound on the changes of a user's role or its grants
  Faults       \* subset of {"network", "grants"}: requests that fail on their
               \* way; reads of a role's grants that break off

VARIABLES
  account,   \* role and grants of every user, in the server
  regrants,  \* how often that of each user has changed
  signed,    \* tokens signed so far
  valid,     \* tokens the server accepts
  stored,    \* local storage: sf_token
  writer,    \* the tab that wrote sf_token last
  tab        \* the state of each tab

vars == <<account, regrants, signed, valid, stored, writer, tab>>
server == <<account, regrants, signed, valid>>

\* A user as a tab knows it.  The field "read" is history: how many changes of
\* the user's role and grants there had been when the server read this, None if
\* it could not read all of it.
NoUser == [id |-> None, role |-> None, perms |-> {}, read |-> None]
Account(u) ==
  [id |-> u, role |-> account[u].role, perms |-> account[u].perms,
   read |-> regrants[u]]

\* What a handler answers about user u: it drops the error of reading the grants
\* and answers with those it had by then.
Answer(u) ==
  {Account(u)}
  \cup IF "grants" \in Faults
       THEN {[id |-> u, role |-> account[u].role, perms |-> ps, read |-> None]
               : ps \in SUBSET account[u].perms \ {account[u].perms}}
       ELSE {}

\* Routes.  The navigation hides some pages, of which the router guards only
\* those of the administration.
mainNav ==
  {"dashboard", "clusters", "brokers", "topics", "consumers", "messages"}
mainNavPermission ==
  [schemas |-> <<"schema", "read">>, connect |-> <<"connect", "read">>,
   acls |-> <<"acl", "read">>, alerts |-> <<"alert", "manage">>,
   audit |-> <<"audit", "read">>]
adminNav == [users |-> <<"users", "read">>, roles |-> <<"roles", "read">>]
AllPages == mainNav \cup DOMAIN mainNavPermission \cup DOMAIN adminNav
            \cup {"profile"}

ASSUME SessionAssumption ==
  /\ None \notin Tokens \cup Users \cup Tabs
  /\ Owner \in [Tokens -> Users]
  /\ Pages \in [Tabs -> SUBSET AllPages]
  /\ Ways \in [Tabs -> SUBSET {"local", "oidc"}]
  /\ DOMAIN StartAccount = Users
  /\ \A u \in Users : StartAccount[u] \in Profiles[u]
  /\ \A u \in Users : \A p \in Profiles[u] :
       DOMAIN p = {"role", "perms"} /\ p.role # None /\ p.perms \subseteq Seq(STRING)
  /\ None \notin 0..MaxRegrants
  /\ MaxAsking \in Nat \ {0} /\ MaxRegrants \in Nat

\* The links of the sidebar.
visibleMainNav(user) ==
  mainNav \cup {p \in DOMAIN mainNavPermission : can(user, mainNavPermission[p])}
visibleAdminNav(user) == {p \in DOMAIN adminNav : can(user, adminNav[p])}

\* The links of the menu under the user's name.
UserMenu(user) ==
  IF user = NoUser THEN {}
  ELSE {"profile"} \cup IF canAccessAdministration(user) THEN DOMAIN adminNav
                                                         ELSE {}

-----------------------------------------------------------------------------
(* Where the router ends up.                                               *)

AdminRoute(user, page) == page \in DOMAIN adminNav => can(user, adminNav[page])

Protected(s) ==
  IF s.loading THEN s.route
  ELSE IF s.token = None THEN "login"
  ELSE IF AdminRoute(s.user, s.route) THEN s.route ELSE "dashboard"

\* Slip: back to where the user came from, which a first visit has not.
RoutedBack(s) ==
  IF s.route = "login"
  THEN IF ~s.loading /\ s.token # None THEN None ELSE "login"
  ELSE Protected(s)

\* The login page sends a user who has a session on to the dashboard.
Routed(s) ==
  IF s.route = "login"
  THEN IF ~s.loading /\ s.token # None THEN "dashboard" ELSE "login"
  ELSE Protected(s)

Landed(s) == [s EXCEPT !.route = Routed(s)]

\* The page itself is on the screen.
Shows(t, page) == tab[t].route = page /\ ~tab[t].loading

-----------------------------------------------------------------------------
(* A page load: the provider starts from local storage; with a token, its   *)
(* effect is due.  Requests of the page before are lost.                    *)

Fresh(page, k) ==
  [route |-> page, token |-> k, user |-> NoUser, loading |-> k # None,
   due |-> k # None, asking |-> <<>>, signing |-> None, changing |-> None,
   overtaken |-> FALSE, crossed |-> FALSE]

\* Slip: nothing is loading at first.
LoadedAtOnce(page, k) == [Fresh(page, k) EXCEPT !.loading = FALSE]

\* Slip: without a token the loading does not end.
LoadedWaiting(page, k) == [Fresh(page, k) EXCEPT !.loading = TRUE]

Loaded(page, k) == Landed(Fresh(page, k))

Init == /\ account = StartAccount
        /\ regrants = [u \in Users |-> 0]
        /\ signed = {} /\ valid = {}
        /\ stored = None /\ writer = None
        /\ tab = [t \in Tabs |-> Loaded("dashboard", None)]

\* What every request of every tab carries.
authHeaders == stored

\* The user opens or reloads a page.
Load(t, page) ==
  /\ tab' = [tab EXCEPT ![t] = Loaded(page, stored)]
  /\ UNCHANGED <<server, stored, writer>>

\* The single sign-on callback comes back to /login?token=...: the login page
\* stores the token and loads the start page.
OidcReturn(t, k) ==
  /\ tab[t].route = "login" /\ "oidc" \in Ways[t]
  /\ k \in Tokens \ signed
  /\ signed' = signed \cup {k} /\ valid' = valid \cup {k}
  /\ stored' = k /\ writer' = t
  /\ tab' = [tab EXCEPT ![t] = Loaded("dashboard", k)]
  /\ UNCHANGED <<account, regrants>>

\* A link of the sidebar or of the user's menu.
Visit(t, page) ==
  /\ tab[t].route # "login" /\ ~tab[t].loading
  /\ page # tab[t].route
  /\ page \in visibleMainNav(tab[t].user) \cup visibleAdminNav(tab[t].user)
              \cup UserMenu(tab[t].user)
  /\ tab' = [tab EXCEPT ![t] = Landed([@ EXCEPT !.route = page])]
  /\ UNCHANGED <<server, stored, writer>>

\* The me() requests and the forms in flight.
Asked == UNION {{t} \X DOMAIN tab[t].asking : t \in Tabs}
Sent == {t \in Tabs : tab[t].signing # None} \X {"login"}
        \cup {t \in Tabs : tab[t].changing # None} \X {"password"}

-----------------------------------------------------------------------------
(* Login form.                                                             *)

\* (Tokens bounds the logins; one form at a time is enough.)
SubmitLogin(t, u) ==
  /\ tab[t].route = "login" /\ "local" \in Ways[t] /\ tab[t].signing = None
  /\ Sent = {} /\ Cardinality(Asked) < MaxAsking
  /\ \E k \in Tokens \ signed : Owner[k] = u
  /\ tab' = [tab EXCEPT ![t].signing = u]
  /\ UNCHANGED <<server, stored, writer>>

\* The server signs a token and reads the grants.
LoginServed(t, k) ==
  /\ k \in Tokens \ signed /\ Owner[k] = tab[t].signing
  /\ signed' = signed \cup {k} /\ valid' = valid \cup {k}
  /\ \E u \in Answer(Owner[k]) :
       tab' = [tab EXCEPT ![t].signing = [token |-> k, user |-> u]]
  /\ UNCHANGED <<account, regrants, stored, writer>>

\* login sets token and user, and with the token the effect is due again.
login(t, k) == stored' = k /\ writer' = t

\* Slip: the effect runs at the first render only.
LoggedInOnce(s, k, u) == [s EXCEPT !.token = k, !.user = u, !.signing = None]

LoggedIn(s, k, u) ==
  [s EXCEPT !.token = k, !.user = u, !.signing = None, !.due = TRUE]

\* (The effect of the page load has run by then.)
LoginAnswered(t) ==
  /\ tab[t].signing \notin Users \cup {None} /\ ~tab[t].due
  /\ LET answer == tab[t].signing
     IN  /\ login(t, answer.token)
         /\ tab' = [tab EXCEPT ![t] = Landed(LoggedIn(@, answer.token, answer.user))]
  /\ UNCHANGED server

\* Refused, or lost on the way back.
LoginRefused(t) ==
  /\ tab[t].signing # None
  /\ tab[t].signing \in Users \/ "network" \in Faults
  /\ tab' = [tab EXCEPT ![t].signing = None]
  /\ UNCHANGED <<server, stored, writer>>

-----------------------------------------------------------------------------
(* me(): the effect reads local storage again, where another tab may have   *)
(* put its own token, and the answer goes to whatever session the tab has   *)
(* by then.  A request keeps its answer while that is on the way: None when *)
(* the server has not served it yet, NoUser when it refused.                *)

me(s) ==
  [s EXCEPT !.asking = Append(@, [token |-> authHeaders, answer |-> None]),
            !.due = FALSE,
            !.crossed = authHeaders # s.token]

AskMe(t) ==
  /\ tab[t].due /\ Cardinality(Asked) < MaxAsking
  /\ tab' = [tab EXCEPT ![t] = me(@)]
  /\ UNCHANGED <<server, stored, writer>>

MeServed(t, i) ==
  /\ i \in DOMAIN tab[t].asking /\ tab[t].asking[i].answer = None
  /\ LET k == tab[t].asking[i].token
     IN  \E u \in IF k \in valid THEN Answer(Owner[k]) ELSE {NoUser} :
           tab' = [tab EXCEPT ![t].asking[i].answer = u]
  /\ UNCHANGED <<server, stored, writer>>

Finally(s) == [s EXCEPT !.loading = FALSE]

Heard(s, i) == [s EXCEPT !.asking = RemoveAt(@, i),
                         !.overtaken = @ \/ i > 1]

setUser(s, u) == [s EXCEPT !.user = u]

MeAnswered(t, i) ==
  /\ i \in DOMAIN tab[t].asking
  /\ LET u == tab[t].asking[i].answer
     IN  /\ u \notin {None, NoUser}
         /\ tab' = [tab EXCEPT ![t] = Landed(Finally(setUser(Heard(@, i), u)))]
  /\ UNCHANGED <<server, stored, writer>>

\* Refused, or lost: any error ends the session, whichever it is by then.
MeFailed(t, i) ==
  /\ i \in DOMAIN tab[t].asking
  /\ tab[t].asking[i].answer = NoUser \/ "network" \in Faults
  /\ stored' = None /\ writer' = t
  /\ tab' = [tab EXCEPT ![t] =
       Landed(Finally([Heard(@, i) EXCEPT !.token = None]))]
  /\ UNCHANGED server

-----------------------------------------------------------------------------
(* Signing out; changing the password.                                     *)

\* Slip: the token stays in local storage.
forgetInTab(t) == UNCHANGED <<stored, writer>>

forget(t) == stored' = None /\ writer' = t

\* logout asks nothing of the server: the token stays valid there.
logout(s) == Landed([s EXCEPT !.token = None, !.user = NoUser, !.loading = FALSE])

SignOut(t) ==
  /\ tab[t].route # "login" /\ ~tab[t].loading
  /\ tab[t].user # NoUser
  /\ forget(t)
  /\ tab' = [tab EXCEPT ![t] = logout(@)]
  /\ UNCHANGED server

\* One change at a time; the request carries the stored token.
ChangePassword(t) ==
  /\ Shows(t, "profile") /\ tab[t].user # NoUser
  /\ tab[t].changing = None /\ authHeaders # None
  /\ Sent = {} /\ Cardinality(Asked) < MaxAsking
  /\ tab' = [tab EXCEPT ![t].changing = authHeaders]
  /\ UNCHANGED <<server, stored, writer>>

\* The server ends all sessions of the user...
PasswordServed(t) ==
  /\ tab[t].changing \in valid
  /\ valid' = {k \in valid : Owner[k] # Owner[tab[t].changing]}
  /\ tab' = [tab EXCEPT ![t].changing = "changed"]
  /\ UNCHANGED <<account, regrants, signed, stored, writer>>

\* ... and the form signs out the session the tab has by then.
PasswordChanged(t) ==
  /\ tab[t].changing = "changed"
  /\ forget(t)
  /\ tab' = [tab EXCEPT ![t] = [logout(@) EXCEPT !.changing = None]]
  /\ UNCHANGED server

\* Refused, or lost on the way back.
PasswordRefused(t) ==
  /\ tab[t].changing # None
  /\ tab[t].changing # "changed" \/ "network" \in Faults
  /\ tab' = [tab EXCEPT ![t].changing = None]
  /\ UNCHANGED <<server, stored, writer>>

-----------------------------------------------------------------------------
(* Other administrators and time.                                          *)

Revoke(k) ==
  /\ k \in valid
  /\ valid' = valid \ {k}
  /\ UNCHANGED <<account, regrants, signed, stored, writer, tab>>

Regrant(u, p) ==
  /\ regrants[u] < MaxRegrants /\ p # account[u]
  /\ account' = [account EXCEPT ![u] = p]
  /\ regrants' = [regrants EXCEPT ![u] = @ + 1]
  /\ UNCHANGED <<signed, valid, stored, writer, tab>>

Answers(t) ==
  \/ AskMe(t)
  \/ \E i \in DOMAIN tab[t].asking :
       MeServed(t, i) \/ MeAnswered(t, i) \/ MeFailed(t, i)

Next ==
  \/ \E t \in Tabs :
       \/ \E page \in Pages[t] \cup {"login"} : Load(t, page) \/ Visit(t, page)
       \/ \E k \in Tokens : OidcReturn(t, k) \/ LoginServed(t, k)
       \/ \E u \in Users : SubmitLogin(t, u)
       \/ LoginAnswered(t) \/ LoginRefused(t) \/ Answers(t) \/ SignOut(t)
       \/ ChangePassword(t) \/ PasswordServed(t) \/ PasswordChanged(t)
       \/ PasswordRefused(t)
  \/ \E k \in Tokens : Revoke(k)
  \/ \E u \in Users : \E p \in Profiles[u] : Regrant(u, p)

\* The effect runs, and a request is served and answered or fails, sooner or
\* later.
Spec == Init /\ [][Next]_vars /\ \A t \in Tabs : WF_vars(Answers(t))

-----------------------------------------------------------------------------
(* Properties.                                                             *)

Known == {NoUser} \cup
         [id : Users, role : UNION {{p.role : p \in Profiles[u]} : u \in Users},
          perms : SUBSET Seq(STRING), read : (0..MaxRegrants) \cup {None}]
Asking == [token : Tokens \cup {None}, answer : Known \cup {None}]
TabState == [route : AllPages \cup {"login"}, token : Tokens \cup {None},
             user : Known, loading : BOOLEAN, due : BOOLEAN, asking : Seq(Asking),
             signing : Users \cup {None} \cup [token : Tokens, user : Known],
             changing : Tokens \cup {None, "changed"},
             overtaken : BOOLEAN, crossed : BOOLEAN]

TypeOK ==
  /\ DOMAIN account = Users /\ \A u \in Users : account[u] \in Profiles[u]
  /\ regrants \in [Users -> 0..MaxRegrants]
  /\ valid \subseteq signed /\ signed \subseteq Tokens
  /\ stored \in Tokens \cup {None} /\ writer \in Tabs \cup {None}
  /\ tab \in [Tabs -> TabState]

\* A tab that has a session and is done loading knows its user: no page is
\* judged by the permissions of nobody, whatever order answers, logins and
\* reloads come in.
SessionHasUser ==
  \A t \in Tabs : tab[t].token # None /\ ~tab[t].loading => tab[t].user # NoUser

\* Once nothing is due or in flight, a tab shows the user its token belongs to,
\* unless one answer of me() overtook another since the page was loaded, or the
\* last me() went out with a token that another tab had stored meanwhile.
AtRestUserIsOwner ==
  \A t \in Tabs :
    ~tab[t].due /\ tab[t].asking = <<>> /\ tab[t].token # None
      => \/ tab[t].user.id = Owner[tab[t].token]
         \/ tab[t].overtaken \/ tab[t].crossed

\* The tab that wrote local storage last sends the token it works with.
StorageFollows == \A t \in Tabs : writer = t => stored = tab[t].token

\* A tab judges the pages as the server does now, as long as the user's role and
\* grants have not changed since the server read what the tab shows and the server
\* could read it all, except that a role without any grant falls back to the copy
\* in the frontend.
Guards == {mainNavPermission[p] : p \in DOMAIN mainNavPermission}
          \cup {adminNav[p] : p \in DOMAIN adminNav}
UiMirrorsServer ==
  \A t \in Tabs :
    LET u == tab[t].user
    IN  u # NoUser /\ u.read = regrants[u.id] /\ account[u.id].perms # {}
          => \A p \in Guards : can(u, p) <=> MatchPermission(account[u.id].perms, p)

\* A page that waits to know its user goes on, to the user or to the login, unless
\* it is loaded anew forever, which makes its effect due again each time.
LoadingEnds ==
  \A t \in Tabs : []<>(~tab[t].loading \/ tab[t].due)
=============================================================================

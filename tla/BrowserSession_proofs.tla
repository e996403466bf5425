------------------------ MODULE BrowserSession_proofs ------------------------
(***************************************************************************)
(* Theorems about BrowserSession and the matchers of Permissions, for any   *)
(* tabs, users, tokens, roles and pages.                                    *)
(***************************************************************************)
EXTENDS BrowserSession, SequenceTheorems, TLAPS

-----------------------------------------------------------------------------
(* The two matchers.                                                       *)

\* The matcher of the frontend and the one of the backend agree on every id of
\* two segments, which all ids of the program are, whatever grants there are.
THEOREM MatchersAgree ==
  ASSUME NEW Segments, NEW granted \in SUBSET Seq(Segments), NEW ns, NEW act
  PROVE  matchPermission(granted, <<ns, act>>) <=> MatchPermission(granted, <<ns, act>>)
<1> DEFINE id == <<ns, act>>
           star == <<ns, "*">>
<1>1. ASSUME star \in granted
      PROVE  MatchPermission(granted, id)
  <2>1. /\ Len(star) > 1 /\ star[Len(star)] = "*" /\ Len(id) >= Len(star)
        /\ \A i \in 1..Len(star) - 1 : id[i] = star[i]
    OBVIOUS
  <2> HIDE DEF star, id
  <2> QED BY <1>1, <2>1 DEF MatchPermission
<1>2. ASSUME NEW g \in granted, Len(g) > 1, g[Len(g)] = "*", Len(id) >= Len(g),
             \A i \in 1..Len(g) - 1 : id[i] = g[i]
      PROVE  star \in granted
  <2>1. g \in Seq(Segments) /\ Len(g) = 2 /\ g[2] = "*" /\ g[1] = ns
    BY <1>2
  <2>2. g = star
    BY <2>1
  <2> QED BY <2>2
<1>3. matchPermission(granted, id) <=> id \in granted \/ star \in granted
  BY DEF matchPermission
<1> HIDE DEF star, id
<1>4. matchPermission(granted, id) <=> MatchPermission(granted, id)
  BY <1>1, <1>2, <1>3 DEF MatchPermission
<1> QED BY <1>4 DEF id

-----------------------------------------------------------------------------
(* The invariant: what a tab knows.                                        *)

AccountOK ==
  /\ DOMAIN account = Users /\ \A u \in Users : account[u] \in Profiles[u]
  /\ regrants \in [Users -> 0..MaxRegrants]

HasUser(s) == s.token # None /\ ~s.loading => s.user # NoUser

\* As long as no answer overtook another and the last me() carried the tab's
\* token, the last me() in flight is about that token, and without one due or in
\* flight the user is the token's owner.
AsksLast(s) ==
  s.token # None /\ ~s.due /\ ~s.overtaken /\ ~s.crossed =>
    IF s.asking = <<>> THEN s.user.id = Owner[s.token]
                       ELSE s.asking[Len(s.asking)].token = s.token

\* An answer is about the owner of the token the request carried.
AnswersOK(s) ==
  \A i \in DOMAIN s.asking :
    s.asking[i].answer \notin {None, NoUser}
      => /\ s.asking[i].token \in Tokens
         /\ s.asking[i].answer.id = Owner[s.asking[i].token]

SigningOK(s) == s.signing \notin Users \cup {None} => s.signing.user # NoUser

TabOK(s) ==
  s \in TabState /\ HasUser(s) /\ AsksLast(s) /\ AnswersOK(s) /\ SigningOK(s)

\* The users a tab has heard of or is about to.
UsersIn(s) ==
  {s.user} \cup {s.asking[i].answer : i \in {j \in DOMAIN s.asking :
                                              s.asking[j].answer # None}}
  \cup IF s.signing \in Users \cup {None} THEN {} ELSE {s.signing.user}

\* They are as the server knew them, and up to date unless something changed since
\* or could not be read.
Current(u) ==
  u = NoUser \/
    /\ u.id \in Users
    /\ u.read = None \/ u.read \in 0..regrants[u.id]
    /\ u.read = regrants[u.id] => u.perms = account[u.id].perms

IInv ==
  /\ AccountOK
  /\ valid \subseteq signed /\ signed \subseteq Tokens
  /\ stored \in Tokens \cup {None} /\ writer \in Tabs \cup {None}
  /\ DOMAIN tab = Tabs /\ tab = [t \in Tabs |-> tab[t]]
  /\ \A t \in Tabs : TabOK(tab[t])
  /\ \A t \in Tabs : \A u \in UsersIn(tab[t]) : Current(u)
  /\ StorageFollows

LEMMA KnownUser ==
  ASSUME NEW v \in Users, NEW p \in Profiles[v], NEW ps \in SUBSET p.perms,
         NEW n \in (0..MaxRegrants) \cup {None}
  PROVE  [id |-> v, role |-> p.role, perms |-> ps, read |-> n] \in Known
<1>1. p.role \in UNION {{q.role : q \in Profiles[u]} : u \in Users}
  OBVIOUS
<1>2. ps \in SUBSET Seq(STRING)
  BY SessionAssumption
<1> QED BY <1>1, <1>2 DEF Known

LEMMA NobodyKnown == NoUser \in Known
BY DEF Known

LEMMA AnswerKnown ==
  ASSUME AccountOK, NEW v \in Users, NEW u \in Answer(v)
  PROVE  u \in Known /\ u # NoUser /\ u.id = v /\ Current(u)
<1>1. /\ account[v] \in Profiles[v] /\ v # None
      /\ regrants[v] \in 0..MaxRegrants /\ None \notin 0..MaxRegrants
      /\ MaxRegrants \in Nat
  BY SessionAssumption DEF AccountOK
<1>2. PICK ps \in SUBSET account[v].perms, n \in {regrants[v], None} :
        /\ u = [id |-> v, role |-> account[v].role, perms |-> ps, read |-> n]
        /\ n # None => ps = account[v].perms
  BY <1>1 DEF Answer, Account
<1>3. u.id = v /\ u.perms = ps /\ u.read = n
  BY <1>2
<1>4. u \in Known
  BY <1>1, <1>2, KnownUser
<1>5. u # NoUser
  BY <1>1, <1>3 DEF NoUser
<1>6. Current(u)
  BY <1>1, <1>2, <1>3 DEF Current
<1> QED BY <1>3, <1>4, <1>5, <1>6

-----------------------------------------------------------------------------
(* The steps of a tab.                                                     *)

LEMMA RoutedOK ==
  ASSUME NEW s \in TabState
  PROVE  Routed(s) \in AllPages \cup {"login"}
<1>1. "dashboard" \in AllPages
  BY DEF AllPages, mainNav
<1> QED BY <1>1 DEF Routed, Protected, TabState

\* A tab of which only the page, the form of the password or the marks differ.
Alike(r, s) ==
  /\ r.token = s.token /\ r.loading = s.loading /\ r.user = s.user
  /\ r.due = s.due /\ r.asking = s.asking /\ r.signing = s.signing
  /\ r.overtaken = s.overtaken /\ r.crossed = s.crossed

LEMMA AlikeOK ==
  ASSUME NEW s, TabOK(s), NEW r \in TabState, Alike(r, s)
  PROVE  TabOK(r) /\ UsersIn(r) = UsersIn(s)
BY DEF TabOK, HasUser, AsksLast, AnswersOK, SigningOK, UsersIn, Alike

\* The router changes the page and nothing else.
LEMMA LandedOK ==
  ASSUME NEW s, TabOK(s)
  PROVE  /\ TabOK(Landed(s)) /\ UsersIn(Landed(s)) = UsersIn(s)
         /\ Landed(s).token = s.token
<1>1. Routed(s) \in AllPages \cup {"login"}
  BY RoutedOK DEF TabOK
<1>2. Landed(s) = [s EXCEPT !.route = Routed(s)] /\ s \in TabState
  BY DEF Landed, TabOK
<1>3. Landed(s) \in TabState
  BY <1>1, <1>2 DEF TabState
<1>4. Alike(Landed(s), s)
  BY <1>2 DEF TabState, Alike
<1> QED BY <1>3, <1>4, AlikeOK DEF Alike

LEMMA LoadedOK ==
  ASSUME NEW page \in AllPages \cup {"login"}, NEW k \in Tokens \cup {None}
  PROVE  /\ TabOK(Loaded(page, k)) /\ Loaded(page, k).token = k
         /\ UsersIn(Loaded(page, k)) \subseteq {NoUser}
<1> DEFINE s == Fresh(page, k)
<1>1. <<>> \in Seq(Asking) /\ DOMAIN <<>> = {}
  OBVIOUS
<1>2. NoUser \in Known
  BY DEF Known
<1>3. s \in TabState
  BY <1>1, <1>2 DEF TabState, Fresh
<1>4. /\ s.token = k /\ s.user = NoUser /\ s.loading = (k # None)
      /\ s.due = (k # None) /\ s.asking = <<>> /\ s.signing = None
  BY DEF Fresh
<1>5. HasUser(s) /\ AsksLast(s) /\ AnswersOK(s) /\ SigningOK(s)
  BY <1>1, <1>4 DEF HasUser, AsksLast, AnswersOK, SigningOK
<1>6. UsersIn(s) \subseteq {NoUser}
  BY <1>1, <1>4 DEF UsersIn
<1>7. Loaded(page, k) = Landed(s)
  BY DEF Loaded
<1> HIDE DEF s
<1>8. TabOK(s)
  BY <1>3, <1>5 DEF TabOK
<1> QED BY <1>4, <1>6, <1>7, <1>8, LandedOK

\* Fields the properties do not look at.
LEMMA FieldsOK ==
  ASSUME NEW s, TabOK(s)
  PROVE  /\ \A k \in Tokens \cup {None, "changed"} :
              /\ TabOK([s EXCEPT !.changing = k])
              /\ UsersIn([s EXCEPT !.changing = k]) = UsersIn(s)
              /\ [s EXCEPT !.changing = k].token = s.token
         /\ \A page \in AllPages \cup {"login"} :
              /\ TabOK([s EXCEPT !.route = page])
              /\ UsersIn([s EXCEPT !.route = page]) = UsersIn(s)
              /\ [s EXCEPT !.route = page].token = s.token
<1>1. s \in TabState
  BY DEF TabOK
<1>2. ASSUME NEW k \in Tokens \cup {None, "changed"}
      PROVE  /\ [s EXCEPT !.changing = k] \in TabState
             /\ Alike([s EXCEPT !.changing = k], s)
  BY <1>1 DEF TabState, Alike
<1>3. ASSUME NEW page \in AllPages \cup {"login"}
      PROVE  /\ [s EXCEPT !.route = page] \in TabState
             /\ Alike([s EXCEPT !.route = page], s)
  BY <1>1 DEF TabState, Alike
<1> QED BY <1>2, <1>3, AlikeOK DEF Alike

LEMMA LogoutOK ==
  ASSUME NEW s, TabOK(s)
  PROVE  /\ TabOK(logout(s)) /\ logout(s).token = None
         /\ UsersIn(logout(s)) \subseteq UsersIn(s) \cup {NoUser}
<1> DEFINE r == [s EXCEPT !.token = None, !.user = NoUser, !.loading = FALSE]
<1>1. /\ r \in TabState /\ r.token = None /\ r.user = NoUser
      /\ r.asking = s.asking /\ r.signing = s.signing
  BY NobodyKnown DEF TabOK, TabState
<1>2. logout(s) = Landed(r)
  BY DEF logout
<1> HIDE DEF r
<1>3. TabOK(r) /\ UsersIn(r) \subseteq UsersIn(s) \cup {NoUser}
  BY <1>1 DEF TabOK, HasUser, AsksLast, AnswersOK, SigningOK, UsersIn
<1> QED BY <1>1, <1>2, <1>3, LandedOK

\* The login form: submitted or given up, served, answered.
LEMMA SigningSet ==
  ASSUME NEW s, TabOK(s), NEW u \in Users \cup {None}
  PROVE  LET r == [s EXCEPT !.signing = u]
         IN  TabOK(r) /\ r.token = s.token /\ UsersIn(r) \subseteq UsersIn(s)
<1> DEFINE r == [s EXCEPT !.signing = u]
<1>1. /\ r \in TabState /\ r.token = s.token /\ r.loading = s.loading
      /\ r.user = s.user /\ r.due = s.due /\ r.asking = s.asking /\ r.signing = u
      /\ r.overtaken = s.overtaken /\ r.crossed = s.crossed
  BY DEF TabOK, TabState
<1> HIDE DEF r
<1>2. TabOK(r) /\ UsersIn(r) \subseteq UsersIn(s)
  BY <1>1 DEF TabOK, HasUser, AsksLast, AnswersOK, SigningOK, UsersIn
<1> QED BY <1>1, <1>2 DEF r

LEMMA ServedOK ==
  ASSUME NEW s, TabOK(s), AccountOK, NEW k \in Tokens, NEW u \in Answer(Owner[k])
  PROVE  LET r == [s EXCEPT !.signing = [token |-> k, user |-> u]]
         IN  /\ TabOK(r) /\ r.token = s.token
             /\ UsersIn(r) \subseteq UsersIn(s) \cup {u}
<1> DEFINE l == [token |-> k, user |-> u]
           r == [s EXCEPT !.signing = l]
<1>1. u \in Known /\ u # NoUser
  BY AnswerKnown, SessionAssumption
<1>2. l \in [token : Tokens, user : Known] /\ l.user = u
  BY <1>1
<1> HIDE DEF l
<1>3. /\ r \in TabState /\ r.token = s.token /\ r.loading = s.loading
      /\ r.user = s.user /\ r.due = s.due /\ r.asking = s.asking /\ r.signing = l
      /\ r.overtaken = s.overtaken /\ r.crossed = s.crossed
  BY <1>2 DEF TabOK, TabState
<1> HIDE DEF r
<1>4. TabOK(r) /\ UsersIn(r) \subseteq UsersIn(s) \cup {u}
  BY <1>1, <1>2, <1>3 DEF TabOK, HasUser, AsksLast, AnswersOK, SigningOK, UsersIn
<1> QED BY <1>3, <1>4 DEF r, l

LEMMA LoggedInOK ==
  ASSUME NEW s, TabOK(s), s.signing \notin Users \cup {None}
  PROVE  LET r == Landed(LoggedIn(s, s.signing.token, s.signing.user))
         IN  /\ TabOK(r) /\ r.token = s.signing.token /\ r.token \in Tokens
             /\ UsersIn(r) \subseteq UsersIn(s)
<1> DEFINE k == s.signing.token
           u == s.signing.user
           q == LoggedIn(s, k, u)
<1>1. s \in TabState /\ k \in Tokens /\ u \in Known /\ u # NoUser
  BY DEF TabOK, TabState, SigningOK
<1>2. u \in UsersIn(s)
  BY DEF UsersIn
<1> HIDE DEF k, u
<1>3. /\ q \in TabState /\ q.token = k /\ q.user = u /\ q.due = TRUE
      /\ q.asking = s.asking /\ q.signing = None
  BY <1>1 DEF LoggedIn, TabState
<1> HIDE DEF q
<1>4. TabOK(q) /\ UsersIn(q) \subseteq UsersIn(s)
  BY <1>1, <1>2, <1>3 DEF TabOK, HasUser, AsksLast, AnswersOK, SigningOK, UsersIn
<1>5. TabOK(Landed(q)) /\ Landed(q).token = k /\ UsersIn(Landed(q)) \subseteq UsersIn(s)
  BY <1>3, <1>4, LandedOK
<1> QED BY <1>1, <1>5 DEF q, k, u

\* The effect: the request carries what local storage holds by now.
LEMMA AskedOK ==
  ASSUME NEW s, TabOK(s), stored \in Tokens \cup {None}
  PROVE  /\ TabOK(me(s)) /\ me(s).token = s.token
         /\ UsersIn(me(s)) \subseteq UsersIn(s)
<1> DEFINE k == stored
           m == [token |-> k, answer |-> None]
           a == Append(s.asking, m)
           r == [s EXCEPT !.asking = a, !.due = FALSE, !.crossed = k # s.token]
<1>1. s \in TabState /\ s.asking \in Seq(Asking)
  BY DEF TabOK, TabState
<1>2. m \in Asking /\ m.token = k /\ m.answer = None
  BY DEF Asking
<1> HIDE DEF m
<1>3. /\ a \in Seq(Asking) /\ a # <<>> /\ a[Len(a)] = m
      /\ \A i \in DOMAIN a :
           (i \in DOMAIN s.asking /\ a[i] = s.asking[i]) \/ a[i] = m
  BY <1>1, <1>2
<1> HIDE DEF a
<1>4. /\ r \in TabState /\ r.token = s.token /\ r.loading = s.loading
      /\ r.user = s.user /\ r.due = FALSE /\ r.asking = a /\ r.signing = s.signing
      /\ r.crossed = (k # s.token)
  BY <1>1, <1>3 DEF TabState
<1>9. me(s) = r
  BY DEF me, authHeaders, a, m
<1> HIDE DEF r
<1>5. HasUser(r) /\ SigningOK(r)
  BY <1>4 DEF TabOK, HasUser, SigningOK
<1>6. AsksLast(r)
  BY <1>2, <1>3, <1>4 DEF AsksLast
<1>7. AnswersOK(r)
  BY <1>2, <1>3, <1>4 DEF TabOK, AnswersOK
<1>8. UsersIn(r) \subseteq UsersIn(s)
  BY <1>2, <1>3, <1>4 DEF UsersIn
<1> QED BY <1>4, <1>5, <1>6, <1>7, <1>8, <1>9 DEF TabOK

\* The server answers a request.
LEMMA MeServedOK ==
  ASSUME NEW s, TabOK(s), AccountOK, NEW i \in DOMAIN s.asking,
         NEW u \in IF s.asking[i].token \in valid THEN Answer(Owner[s.asking[i].token])
                                                  ELSE {NoUser},
         valid \subseteq Tokens
  PROVE  LET r == [s EXCEPT !.asking[i].answer = u]
         IN  TabOK(r) /\ r.token = s.token /\ UsersIn(r) \subseteq UsersIn(s) \cup {u}
<1> DEFINE m == [s.asking[i] EXCEPT !.answer = u]
           a == [s.asking EXCEPT ![i] = m]
           r == [s EXCEPT !.asking = a]
<1>1. s \in TabState /\ s.asking \in Seq(Asking) /\ s.asking[i] \in Asking
  BY DEF TabOK, TabState
<1>2. u \in Known
  BY AnswerKnown, NobodyKnown, SessionAssumption
<1>3. /\ u # NoUser => /\ s.asking[i].token \in Tokens
                       /\ u.id = Owner[s.asking[i].token]
  BY AnswerKnown, SessionAssumption
<1>4. m \in Asking /\ m.token = s.asking[i].token /\ m.answer = u
  BY <1>1, <1>2 DEF Asking
<1> HIDE DEF m
<1>5. /\ a \in Seq(Asking) /\ Len(a) = Len(s.asking) /\ DOMAIN a = DOMAIN s.asking
      /\ a[i] = m /\ \A j \in DOMAIN a : j # i => a[j] = s.asking[j]
  BY <1>1, <1>4
<1> HIDE DEF a
<1>6. /\ r \in TabState /\ r.token = s.token /\ r.loading = s.loading
      /\ r.user = s.user /\ r.due = s.due /\ r.asking = a /\ r.signing = s.signing
      /\ r.overtaken = s.overtaken /\ r.crossed = s.crossed
  BY <1>1, <1>5 DEF TabState
<1> HIDE DEF r
<1>7. HasUser(r) /\ SigningOK(r)
  BY <1>6 DEF TabOK, HasUser, SigningOK
<1>8. \A j \in DOMAIN a : a[j].token = s.asking[j].token
  BY <1>4, <1>5
<1>9. (a = <<>> <=> s.asking = <<>>) /\ (a # <<>> => Len(a) \in DOMAIN a)
  BY <1>1, <1>5
<1>10. AsksLast(r)
  BY <1>5, <1>6, <1>8, <1>9 DEF TabOK, AsksLast
<1>11. AnswersOK(r)
  BY <1>3, <1>4, <1>5, <1>6 DEF TabOK, AnswersOK
<1>12. UsersIn(r) \subseteq UsersIn(s) \cup {u}
  BY <1>4, <1>5, <1>6 DEF UsersIn
<1> QED BY <1>6, <1>7, <1>10, <1>11, <1>12 DEF TabOK, r, a, m

LEMMA RemoveOK ==
  ASSUME NEW S, NEW s \in Seq(S), NEW i \in 1..Len(s)
  PROVE  /\ RemoveAt(s, i) \in Seq(S) /\ Len(RemoveAt(s, i)) = Len(s) - 1
         /\ i = 1 => \A j \in 1..Len(s) - 1 : RemoveAt(s, i)[j] = s[j + 1]
         /\ \A j \in DOMAIN RemoveAt(s, i) : \E l \in DOMAIN s : RemoveAt(s, i)[j] = s[l]
<1> DEFINE a == SubSeq(s, 1, i - 1)
           b == SubSeq(s, i + 1, Len(s))
<1>1. /\ a \in Seq(S) /\ Len(a) = i - 1
      /\ \A j \in 1..i - 1 : a[j] = s[j]
  BY SubSeqProperties
<1>2. /\ b \in Seq(S) /\ Len(b) = Len(s) - i
      /\ \A j \in 1..Len(s) - i : b[j] = s[i + j]
  BY SubSeqProperties
<1> HIDE DEF a, b
<1> DEFINE c == a \o b
<1>3. /\ c \in Seq(S) /\ Len(c) = Len(a) + Len(b)
      /\ \A j \in 1..Len(a) + Len(b) :
           c[j] = IF j <= Len(a) THEN a[j] ELSE b[j - Len(a)]
  BY <1>1, <1>2, ConcatProperties
<1>4. RemoveAt(s, i) = c
  BY DEF RemoveAt, a, b
<1> HIDE DEF c
<1>5. Len(s) \in Nat /\ Len(c) = Len(s) - 1
  BY <1>1, <1>2, <1>3
<1>6. ASSUME i = 1, NEW j \in 1..Len(s) - 1
      PROVE  c[j] = s[j + 1]
  <2>1. Len(a) = 0 /\ Len(b) = Len(s) - 1
    BY <1>1, <1>2, <1>6
  <2>2. c[j] = b[j]
    BY <1>3, <1>5, <2>1
  <2> QED BY <1>2, <1>5, <1>6, <2>2
<1>7. ASSUME NEW j \in DOMAIN c
      PROVE  \E l \in DOMAIN s : c[j] = s[l]
  <2>1. j \in 1..Len(a) + Len(b) /\ DOMAIN s = 1..Len(s)
    BY <1>3, <1>7
  <2>2. CASE j <= Len(a)
    <3>1. j \in 1..i - 1 /\ i \in 1..Len(s) /\ Len(s) \in Nat
      BY <1>1, <1>2, <1>5, <2>1, <2>2
    <3>2. c[j] = a[j] /\ a[j] = s[j]
      BY <1>1, <1>3, <2>1, <2>2, <3>1
    <3> QED BY <2>1, <3>1, <3>2
  <2>3. CASE ~(j <= Len(a))
    <3> DEFINE l == j - Len(a)
    <3>1. l \in 1..Len(s) - i /\ i + l \in 1..Len(s)
      BY <1>1, <1>2, <1>5, <2>1, <2>3
    <3>2. c[j] = b[l] /\ b[l] = s[i + l]
      BY <1>2, <1>3, <2>1, <2>3, <3>1
    <3> QED BY <2>1, <3>1, <3>2
  <2> QED BY <2>2, <2>3
<1> QED BY <1>3, <1>4, <1>5, <1>6, <1>7

LEMMA HeardOK ==
  ASSUME NEW s, TabOK(s), NEW i \in DOMAIN s.asking
  PROVE  LET h == Heard(s, i)
         IN  /\ h \in TabState /\ h.token = s.token /\ h.user = s.user
             /\ AnswersOK(h) /\ SigningOK(h) /\ UsersIn(h) \subseteq UsersIn(s)
             /\ ~h.overtaken /\ ~h.crossed /\ ~h.due /\ s.token # None
                  => IF h.asking = <<>> THEN s.asking[i].token = s.token
                                        ELSE h.asking[Len(h.asking)].token = s.token
<1> DEFINE h == Heard(s, i)
           r == RemoveAt(s.asking, i)
<1>1. /\ s \in TabState /\ s.asking \in Seq(Asking)
      /\ i \in 1..Len(s.asking) /\ AsksLast(s)
  BY DEF TabOK, TabState
<1>2. /\ r \in Seq(Asking) /\ Len(r) = Len(s.asking) - 1
      /\ i = 1 => \A j \in 1..Len(s.asking) - 1 : r[j] = s.asking[j + 1]
      /\ \A j \in DOMAIN r : \E l \in DOMAIN s.asking : r[j] = s.asking[l]
  BY <1>1, RemoveOK
<1>3. h = [s EXCEPT !.asking = r, !.overtaken = @ \/ i > 1]
  BY DEF Heard
<1> HIDE DEF h, r
<1>4. /\ h \in TabState /\ h.token = s.token /\ h.user = s.user
      /\ h.due = s.due /\ h.crossed = s.crossed /\ h.signing = s.signing
      /\ h.asking = r /\ (~h.overtaken => ~s.overtaken /\ ~(i > 1))
  BY <1>1, <1>2, <1>3 DEF TabState
<1>5. ASSUME ~h.overtaken, ~h.crossed, ~h.due, s.token # None
      PROVE  IF r = <<>> THEN s.asking[i].token = s.token
                         ELSE r[Len(r)].token = s.token
  <2>1. i = 1 /\ s.asking # <<>> /\ s.asking[Len(s.asking)].token = s.token
    BY <1>1, <1>4, <1>5 DEF AsksLast
  <2>2. CASE r = <<>>
    BY <1>1, <1>2, <2>1, <2>2
  <2>3. CASE r # <<>>
    <3>1. Len(r) \in 1..Len(s.asking) - 1 /\ Len(r) + 1 = Len(s.asking)
      BY <1>1, <1>2, <2>3
    <3> QED BY <1>2, <2>1, <2>3, <3>1
  <2> QED BY <2>2, <2>3
<1>6. AnswersOK(h) /\ SigningOK(h)
  BY <1>2, <1>4 DEF TabOK, AnswersOK, SigningOK
<1>7. UsersIn(h) \subseteq UsersIn(s)
  BY <1>2, <1>4 DEF UsersIn
<1> QED BY <1>4, <1>5, <1>6, <1>7 DEF h

LEMMA MeAnsweredOK ==
  ASSUME NEW s, TabOK(s), NEW i \in DOMAIN s.asking,
         s.asking[i].answer \notin {None, NoUser}
  PROVE  LET r == Landed(Finally(setUser(Heard(s, i), s.asking[i].answer)))
         IN  TabOK(r) /\ r.token = s.token /\ UsersIn(r) \subseteq UsersIn(s)
<1> DEFINE u == s.asking[i].answer
           h == Heard(s, i)
           q == Finally(setUser(h, u))
<1>1. /\ u \in Known /\ u # NoUser /\ u.id = Owner[s.asking[i].token]
      /\ u \in UsersIn(s)
  <2>1. s \in TabState /\ s.asking \in Seq(Asking) /\ AnswersOK(s)
    BY DEF TabOK, TabState
  <2>2. s.asking[i] \in Asking
    BY <2>1
  <2>3. u \in Known \cup {None} /\ u \notin {None, NoUser}
    BY <2>2 DEF Asking
  <2>4. u.id = Owner[s.asking[i].token]
    BY <2>1, <2>3 DEF AnswersOK
  <2>5. u \in UsersIn(s)
    BY DEF UsersIn
  <2> QED BY <2>3, <2>4, <2>5
<1>2. /\ h \in TabState /\ h.token = s.token
      /\ AnswersOK(h) /\ SigningOK(h) /\ UsersIn(h) \subseteq UsersIn(s)
      /\ ~h.overtaken /\ ~h.crossed /\ ~h.due /\ s.token # None
           => IF h.asking = <<>> THEN s.asking[i].token = s.token
                                 ELSE h.asking[Len(h.asking)].token = s.token
  BY HeardOK
<1> HIDE DEF u, h
<1>3. /\ q \in TabState /\ q.token = s.token /\ q.user = u /\ q.due = h.due
      /\ q.asking = h.asking /\ q.overtaken = h.overtaken
      /\ q.crossed = h.crossed /\ q.signing = h.signing
  BY <1>1, <1>2 DEF Finally, setUser, TabState
<1> HIDE DEF q
<1>4. HasUser(q) /\ AsksLast(q)
  BY <1>1, <1>2, <1>3 DEF HasUser, AsksLast
<1>5. TabOK(q)
  BY <1>2, <1>3, <1>4 DEF TabOK, AnswersOK, SigningOK
<1>6. UsersIn(q) \subseteq UsersIn(s)
  BY <1>1, <1>2, <1>3 DEF UsersIn
<1>7. TabOK(Landed(q)) /\ Landed(q).token = s.token /\ UsersIn(Landed(q)) \subseteq UsersIn(s)
  BY <1>3, <1>5, <1>6, LandedOK
<1> QED BY <1>7 DEF q, u, h

LEMMA MeFailedOK ==
  ASSUME NEW s, TabOK(s), NEW i \in DOMAIN s.asking
  PROVE  LET r == Landed(Finally([Heard(s, i) EXCEPT !.token = None]))
         IN  TabOK(r) /\ r.token = None /\ UsersIn(r) \subseteq UsersIn(s)
<1> DEFINE h == Heard(s, i)
           q == Finally([h EXCEPT !.token = None])
<1>1. /\ h \in TabState /\ AnswersOK(h) /\ SigningOK(h)
      /\ UsersIn(h) \subseteq UsersIn(s)
  BY HeardOK
<1> HIDE DEF h
<1>2. /\ q \in TabState /\ q.token = None /\ q.user = h.user
      /\ q.asking = h.asking /\ q.signing = h.signing
  BY <1>1 DEF Finally, TabState
<1> HIDE DEF q
<1>3. TabOK(q) /\ UsersIn(q) \subseteq UsersIn(s)
  <2>1. HasUser(q) /\ AsksLast(q)
    BY <1>2 DEF HasUser, AsksLast
  <2>2. AnswersOK(q) /\ SigningOK(q)
    BY <1>1, <1>2 DEF AnswersOK, SigningOK
  <2>3. UsersIn(q) = UsersIn(h)
    BY <1>2 DEF UsersIn
  <2> QED BY <1>1, <1>2, <2>1, <2>2, <2>3 DEF TabOK
<1>4. TabOK(Landed(q)) /\ Landed(q).token = None /\ UsersIn(Landed(q)) \subseteq UsersIn(s)
  BY <1>2, <1>3, LandedOK
<1> QED BY <1>4 DEF q, h

-----------------------------------------------------------------------------
(* The invariant is inductive.                                             *)

\* What a step of one tab leaves to show.
LEMMA TabSteps ==
  ASSUME IInv, UNCHANGED <<account, regrants>>,
         valid' \subseteq signed', signed' \subseteq Tokens,
         NEW t \in Tabs, NEW s, TabOK(s), tab' = [tab EXCEPT ![t] = s],
         \A u \in UsersIn(s) : u \in UsersIn(tab[t]) \/ Current(u),
         \/ UNCHANGED <<stored, writer>> /\ (s.token = tab[t].token \/ s.token = stored)
         \/ writer' = t /\ stored' = s.token /\ s.token \in Tokens \cup {None}
  PROVE  IInv'
<1>1. AccountOK' /\ \A u : Current(u)' <=> Current(u)
  BY DEF IInv, AccountOK, Current
<1>2. \A v \in Tabs : \A u \in UsersIn(tab'[v]) : Current(u)
  BY DEF IInv
<1>3. /\ stored' \in Tokens \cup {None} /\ writer' \in Tabs \cup {None}
      /\ DOMAIN tab' = Tabs /\ tab' = [u \in Tabs |-> tab'[u]]
      /\ \A u \in Tabs : TabOK(tab'[u])
      /\ StorageFollows'
  BY SessionAssumption DEF IInv, StorageFollows
<1> QED BY <1>1, <1>2, <1>3 DEF IInv

LEMMA NobodyCurrent == Current(NoUser)
BY DEF Current

LEMMA Initial == Init => IInv
<1> SUFFICES ASSUME Init PROVE IInv
  OBVIOUS
<1>1. /\ TabOK(Loaded("dashboard", None)) /\ Loaded("dashboard", None).token = None
      /\ UsersIn(Loaded("dashboard", None)) \subseteq {NoUser}
  BY LoadedOK, SessionAssumption DEF AllPages, mainNav
<1>2. AccountOK
  BY SessionAssumption DEF Init, AccountOK
<1> QED BY <1>1, <1>2, NobodyCurrent, SessionAssumption DEF Init, IInv, StorageFollows

LEMMA Inductive == IInv /\ [Next]_vars => IInv'
<1> SUFFICES ASSUME IInv, [Next]_vars PROVE IInv'
  OBVIOUS
<1> USE NobodyCurrent
<1>1. ASSUME NEW t \in Tabs, NEW page \in Pages[t] \cup {"login"}, Load(t, page)
      PROVE  IInv'
  <2>1. /\ TabOK(Loaded(page, stored)) /\ Loaded(page, stored).token = stored
        /\ UsersIn(Loaded(page, stored)) \subseteq {NoUser}
    BY LoadedOK, SessionAssumption DEF IInv
  <2>2. tab' = [tab EXCEPT ![t] = Loaded(page, stored)]
    BY <1>1 DEF Load
  <2>3. /\ UNCHANGED <<account, regrants>> /\ valid' \subseteq signed' /\ signed' \subseteq Tokens
        /\ UNCHANGED <<stored, writer>>
    BY <1>1 DEF IInv, Load, server
  <2>4. \A w \in UsersIn(Loaded(page, stored)) : w \in UsersIn(tab[t]) \/ Current(w)
    BY <2>1, NobodyCurrent
  <2> QED BY <2>1, <2>2, <2>3, <2>4, TabSteps
<1>2. ASSUME NEW t \in Tabs, NEW page \in Pages[t] \cup {"login"}, Visit(t, page)
      PROVE  IInv'
  <2> DEFINE s == [tab[t] EXCEPT !.route = page]
  <2>1. TabOK(s) /\ s.token = tab[t].token /\ UsersIn(s) = UsersIn(tab[t])
    BY FieldsOK, SessionAssumption DEF IInv
  <2>2. tab' = [tab EXCEPT ![t] = Landed(s)]
    BY <1>2 DEF Visit, IInv
  <2> HIDE DEF s
  <2>3. /\ TabOK(Landed(s)) /\ Landed(s).token = tab[t].token
        /\ UsersIn(Landed(s)) = UsersIn(tab[t])
    BY <2>1, LandedOK
  <2>4. /\ UNCHANGED <<account, regrants>> /\ valid' \subseteq signed' /\ signed' \subseteq Tokens
        /\ UNCHANGED <<stored, writer>>
    BY <1>2 DEF IInv, Visit, server
  <2>5. \A w \in UsersIn(Landed(s)) : w \in UsersIn(tab[t]) \/ Current(w)
    BY <2>3, NobodyCurrent
  <2> QED BY <2>2, <2>3, <2>4, <2>5, TabSteps
<1>3. ASSUME NEW t \in Tabs, NEW k \in Tokens, OidcReturn(t, k)
      PROVE  IInv'
  <2>1. /\ TabOK(Loaded("dashboard", k)) /\ Loaded("dashboard", k).token = k
        /\ UsersIn(Loaded("dashboard", k)) \subseteq {NoUser}
    BY LoadedOK DEF AllPages, mainNav
  <2>2. tab' = [tab EXCEPT ![t] = Loaded("dashboard", k)]
    BY <1>3 DEF OidcReturn
  <2>3. /\ UNCHANGED <<account, regrants>> /\ valid' \subseteq signed' /\ signed' \subseteq Tokens
        /\ writer' = t /\ stored' = k
    BY <1>3 DEF IInv, OidcReturn
  <2>4. \A w \in UsersIn(Loaded("dashboard", k)) : w \in UsersIn(tab[t]) \/ Current(w)
    BY <2>1, NobodyCurrent
  <2> QED BY <2>1, <2>2, <2>3, <2>4, TabSteps
<1>4. ASSUME NEW t \in Tabs, NEW k \in Tokens, LoginServed(t, k)
      PROVE  IInv'
  <2>1. PICK u \in Answer(Owner[k]) :
          tab' = [tab EXCEPT ![t].signing = [token |-> k, user |-> u]]
    BY <1>4 DEF LoginServed
  <2> DEFINE s == [tab[t] EXCEPT !.signing = [token |-> k, user |-> u]]
  <2>2. TabOK(s) /\ s.token = tab[t].token /\ UsersIn(s) \subseteq UsersIn(tab[t]) \cup {u}
    BY ServedOK DEF IInv
  <2>3. tab' = [tab EXCEPT ![t] = s]
    BY <2>1 DEF IInv
  <2>4. Current(u)
    BY AnswerKnown, SessionAssumption DEF IInv
  <2> HIDE DEF s
  <2>5. /\ UNCHANGED <<account, regrants>> /\ valid' \subseteq signed' /\ signed' \subseteq Tokens
        /\ UNCHANGED <<stored, writer>>
    BY <1>4 DEF IInv, LoginServed
  <2>6. \A w \in UsersIn(s) : w \in UsersIn(tab[t]) \/ Current(w)
    BY <2>2, <2>4, NobodyCurrent
  <2> QED BY <2>2, <2>3, <2>5, <2>6, TabSteps
<1>5. ASSUME NEW t \in Tabs, NEW u \in Users, SubmitLogin(t, u)
      PROVE  IInv'
  <2> DEFINE s == [tab[t] EXCEPT !.signing = u]
  <2>1. TabOK(s) /\ s.token = tab[t].token /\ UsersIn(s) \subseteq UsersIn(tab[t])
    BY SigningSet DEF IInv
  <2>2. tab' = [tab EXCEPT ![t] = s]
    BY <1>5 DEF SubmitLogin, IInv
  <2> HIDE DEF s
  <2>3. /\ UNCHANGED <<account, regrants>> /\ valid' \subseteq signed' /\ signed' \subseteq Tokens
        /\ UNCHANGED <<stored, writer>>
    BY <1>5 DEF IInv, SubmitLogin, server
  <2>4. \A w \in UsersIn(s) : w \in UsersIn(tab[t]) \/ Current(w)
    BY <2>1, NobodyCurrent
  <2> QED BY <2>1, <2>2, <2>3, <2>4, TabSteps
<1>6. ASSUME NEW t \in Tabs, LoginRefused(t)
      PROVE  IInv'
  <2> DEFINE s == [tab[t] EXCEPT !.signing = None]
  <2>1. TabOK(s) /\ s.token = tab[t].token /\ UsersIn(s) \subseteq UsersIn(tab[t])
    BY SigningSet DEF IInv
  <2>2. tab' = [tab EXCEPT ![t] = s]
    BY <1>6 DEF LoginRefused, IInv
  <2> HIDE DEF s
  <2>3. /\ UNCHANGED <<account, regrants>> /\ valid' \subseteq signed' /\ signed' \subseteq Tokens
        /\ UNCHANGED <<stored, writer>>
    BY <1>6 DEF IInv, LoginRefused, server
  <2>4. \A w \in UsersIn(s) : w \in UsersIn(tab[t]) \/ Current(w)
    BY <2>1, NobodyCurrent
  <2> QED BY <2>1, <2>2, <2>3, <2>4, TabSteps
<1>7. ASSUME NEW t \in Tabs, LoginAnswered(t)
      PROVE  IInv'
  <2> DEFINE s == Landed(LoggedIn(tab[t], tab[t].signing.token, tab[t].signing.user))
  <2>1. /\ TabOK(s) /\ s.token = tab[t].signing.token /\ s.token \in Tokens
        /\ UsersIn(s) \subseteq UsersIn(tab[t])
    BY <1>7, LoggedInOK DEF IInv, LoginAnswered
  <2>2. tab' = [tab EXCEPT ![t] = s]
    BY <1>7 DEF LoginAnswered, IInv
  <2>3. stored' = s.token /\ writer' = t
    BY <1>7, <2>1 DEF LoginAnswered, login
  <2> HIDE DEF s
  <2>4. UNCHANGED <<account, regrants>> /\ valid' \subseteq signed' /\ signed' \subseteq Tokens
    BY <1>7 DEF IInv, LoginAnswered, server
  <2>5. \A w \in UsersIn(s) : w \in UsersIn(tab[t]) \/ Current(w)
    BY <2>1
  <2> QED BY <2>1, <2>2, <2>3, <2>4, <2>5, TabSteps
<1>8. ASSUME NEW t \in Tabs, AskMe(t)
      PROVE  IInv'
  <2> DEFINE s == me(tab[t])
  <2>1. TabOK(s) /\ s.token = tab[t].token /\ UsersIn(s) \subseteq UsersIn(tab[t])
    BY AskedOK DEF IInv
  <2>2. tab' = [tab EXCEPT ![t] = s]
    BY <1>8 DEF AskMe, IInv
  <2> HIDE DEF s
  <2>3. /\ UNCHANGED <<account, regrants>> /\ valid' \subseteq signed' /\ signed' \subseteq Tokens
        /\ UNCHANGED <<stored, writer>>
    BY <1>8 DEF IInv, AskMe, server
  <2>4. \A w \in UsersIn(s) : w \in UsersIn(tab[t]) \/ Current(w)
    BY <2>1, NobodyCurrent
  <2> QED BY <2>1, <2>2, <2>3, <2>4, TabSteps
<1>9. ASSUME NEW t \in Tabs, NEW i \in DOMAIN tab[t].asking, MeServed(t, i)
      PROVE  IInv'
  <2>1. PICK u \in IF tab[t].asking[i].token \in valid
                   THEN Answer(Owner[tab[t].asking[i].token]) ELSE {NoUser} :
          tab' = [tab EXCEPT ![t].asking[i].answer = u]
    BY <1>9 DEF MeServed
  <2> DEFINE s == [tab[t] EXCEPT !.asking[i].answer = u]
  <2>2. TabOK(s) /\ s.token = tab[t].token /\ UsersIn(s) \subseteq UsersIn(tab[t]) \cup {u}
    BY MeServedOK DEF IInv
  <2>3. tab' = [tab EXCEPT ![t] = s]
    BY <2>1 DEF IInv
  <2>4. Current(u)
    BY AnswerKnown, SessionAssumption DEF IInv
  <2> HIDE DEF s
  <2>5. /\ UNCHANGED <<account, regrants>> /\ valid' \subseteq signed' /\ signed' \subseteq Tokens
        /\ UNCHANGED <<stored, writer>>
    BY <1>9 DEF IInv, MeServed, server
  <2>6. \A w \in UsersIn(s) : w \in UsersIn(tab[t]) \/ Current(w)
    BY <2>2, <2>4
  <2> QED BY <2>2, <2>3, <2>5, <2>6, TabSteps
<1>10. ASSUME NEW t \in Tabs, NEW i \in DOMAIN tab[t].asking, MeAnswered(t, i)
       PROVE  IInv'
  <2> DEFINE s == Landed(Finally(setUser(Heard(tab[t], i), tab[t].asking[i].answer)))
  <2>1. TabOK(s) /\ s.token = tab[t].token /\ UsersIn(s) \subseteq UsersIn(tab[t])
    BY <1>10, MeAnsweredOK DEF IInv, MeAnswered
  <2>2. tab' = [tab EXCEPT ![t] = s]
    BY <1>10 DEF MeAnswered, IInv
  <2> HIDE DEF s
  <2>3. /\ UNCHANGED <<account, regrants>> /\ valid' \subseteq signed' /\ signed' \subseteq Tokens
        /\ UNCHANGED <<stored, writer>>
    BY <1>10 DEF IInv, MeAnswered, server
  <2>4. \A w \in UsersIn(s) : w \in UsersIn(tab[t]) \/ Current(w)
    BY <2>1, NobodyCurrent
  <2> QED BY <2>1, <2>2, <2>3, <2>4, TabSteps
<1>11. ASSUME NEW t \in Tabs, NEW i \in DOMAIN tab[t].asking, MeFailed(t, i)
       PROVE  IInv'
  <2> DEFINE s == Landed(Finally([Heard(tab[t], i) EXCEPT !.token = None]))
  <2>1. TabOK(s) /\ s.token = None /\ UsersIn(s) \subseteq UsersIn(tab[t])
    BY MeFailedOK DEF IInv
  <2>2. tab' = [tab EXCEPT ![t] = s]
    BY <1>11 DEF MeFailed, IInv
  <2> HIDE DEF s
  <2>3. /\ UNCHANGED <<account, regrants>> /\ valid' \subseteq signed' /\ signed' \subseteq Tokens
        /\ writer' = t /\ stored' = None
    BY <1>11 DEF IInv, MeFailed, server
  <2>4. \A w \in UsersIn(s) : w \in UsersIn(tab[t]) \/ Current(w)
    BY <2>1, NobodyCurrent
  <2> QED BY <2>1, <2>2, <2>3, <2>4, TabSteps
<1>12. ASSUME NEW t \in Tabs, SignOut(t)
       PROVE  IInv'
  <2>1. /\ TabOK(logout(tab[t])) /\ logout(tab[t]).token = None
        /\ UsersIn(logout(tab[t])) \subseteq UsersIn(tab[t]) \cup {NoUser}
    BY LogoutOK DEF IInv
  <2>2. tab' = [tab EXCEPT ![t] = logout(tab[t])]
    BY <1>12 DEF SignOut, IInv
  <2>3. /\ UNCHANGED <<account, regrants>> /\ valid' \subseteq signed' /\ signed' \subseteq Tokens
        /\ writer' = t /\ stored' = None
    BY <1>12 DEF IInv, SignOut, forget, server
  <2>4. \A w \in UsersIn(logout(tab[t])) : w \in UsersIn(tab[t]) \/ Current(w)
    BY <2>1, NobodyCurrent
  <2> QED BY <2>1, <2>2, <2>3, <2>4, TabSteps
<1>13. ASSUME NEW t \in Tabs, NEW k \in Tokens \cup {None, "changed"},
              tab' = [tab EXCEPT ![t].changing = k],
              UNCHANGED <<account, regrants, signed, stored, writer>>, valid' \subseteq valid
       PROVE  IInv'
  <2> DEFINE s == [tab[t] EXCEPT !.changing = k]
  <2>1. TabOK(s) /\ s.token = tab[t].token /\ UsersIn(s) = UsersIn(tab[t])
    BY FieldsOK DEF IInv
  <2>2. tab' = [tab EXCEPT ![t] = s]
    BY <1>13 DEF IInv
  <2> HIDE DEF s
  <2>3. /\ UNCHANGED <<account, regrants>> /\ valid' \subseteq signed' /\ signed' \subseteq Tokens
        /\ UNCHANGED <<stored, writer>>
    BY <1>13 DEF IInv
  <2>4. \A w \in UsersIn(s) : w \in UsersIn(tab[t]) \/ Current(w)
    BY <2>1
  <2> QED BY <2>1, <2>2, <2>3, <2>4, TabSteps
<1>14. ASSUME NEW t \in Tabs, ChangePassword(t) \/ PasswordServed(t) \/ PasswordRefused(t)
       PROVE  IInv'
  BY <1>13, <1>14 DEF ChangePassword, PasswordServed, PasswordRefused, authHeaders,
                      server, IInv
<1>15. ASSUME NEW t \in Tabs, PasswordChanged(t)
       PROVE  IInv'
  <2> DEFINE r == logout(tab[t])
             s == [r EXCEPT !.changing = None]
  <2>1. TabOK(r) /\ r.token = None /\ UsersIn(r) \subseteq UsersIn(tab[t]) \cup {NoUser}
    BY LogoutOK DEF IInv
  <2>2. tab' = [tab EXCEPT ![t] = s]
    BY <1>15 DEF PasswordChanged, IInv
  <2> HIDE DEF r
  <2>3. TabOK(s) /\ s.token = None /\ UsersIn(s) = UsersIn(r)
    BY <2>1, FieldsOK
  <2> HIDE DEF s
  <2>4. /\ UNCHANGED <<account, regrants>> /\ valid' \subseteq signed' /\ signed' \subseteq Tokens
        /\ writer' = t /\ stored' = None
    BY <1>15 DEF IInv, PasswordChanged, forget, server
  <2>5. \A w \in UsersIn(s) : w \in UsersIn(tab[t]) \/ Current(w)
    BY <2>1, <2>3, NobodyCurrent
  <2> QED BY <2>2, <2>3, <2>4, <2>5, TabSteps
<1>16. ASSUME NEW k \in Tokens, Revoke(k)
       PROVE  IInv'
  <2>1. AccountOK' /\ \A u : Current(u)' <=> Current(u)
    BY <1>16 DEF IInv, Revoke, AccountOK, Current
  <2> QED BY <1>16, <2>1 DEF IInv, Revoke, StorageFollows
<1>17. ASSUME NEW v \in Users, NEW p \in Profiles[v], Regrant(v, p)
       PROVE  IInv'
  <2>1. /\ regrants[v] \in 0..MaxRegrants /\ regrants[v] + 1 \in 0..MaxRegrants
        /\ MaxRegrants \in Nat /\ None \notin 0..MaxRegrants
    BY <1>17, SessionAssumption DEF IInv, AccountOK, Regrant
  <2>2. AccountOK'
    BY <1>17, <2>1 DEF IInv, Regrant, AccountOK
  <2>3. ASSUME NEW u, Current(u)
        PROVE  Current(u)'
    <3>1. CASE u = NoUser
      BY <3>1 DEF Current
    <3>2. CASE u # NoUser /\ u.id # v
      BY <1>17, <2>3, <3>2 DEF Current, Regrant, IInv, AccountOK
    <3>3. CASE u # NoUser /\ u.id = v
      <4>1. u.read = None \/ u.read \in 0..regrants[v]
        BY <2>3, <3>3 DEF Current
      <4>2. regrants'[v] = regrants[v] + 1
        BY <1>17 DEF Regrant, IInv, AccountOK
      <4>3. u.read # regrants'[v] /\ (u.read = None \/ u.read \in 0..regrants'[v])
        BY <2>1, <4>1, <4>2
      <4> QED BY <3>3, <4>3 DEF Current
    <3> QED BY <3>1, <3>2, <3>3
  <2> QED BY <1>17, <2>2, <2>3 DEF IInv, Regrant, StorageFollows
<1>18. CASE UNCHANGED vars
  <2>1. AccountOK' /\ \A u : Current(u)' <=> Current(u)
    BY <1>18 DEF IInv, vars, AccountOK, Current
  <2> QED BY <1>18, <2>1 DEF IInv, vars, StorageFollows
<1> QED BY <1>1, <1>2, <1>3, <1>4, <1>5, <1>6, <1>7, <1>8, <1>9, <1>10, <1>11,
           <1>12, <1>14, <1>15, <1>16, <1>17, <1>18 DEF Next, Answers

LEMMA Invariant == Spec => []IInv
BY Initial, Inductive, PTL DEF Spec

\* The server's tables, local storage and every tab keep their types, however
\* logins, loads, answers and refusals are ordered.
THEOREM TypeCorrect == Spec => []TypeOK
<1>1. IInv => TypeOK
  BY DEF IInv, TypeOK, AccountOK, TabOK
<1> QED BY <1>1, Invariant, PTL

\* A tab with a session that is done loading knows its user.
THEOREM SessionsHaveUsers == Spec => []SessionHasUser
<1>1. IInv => SessionHasUser
  BY DEF IInv, SessionHasUser, TabOK, HasUser
<1> QED BY <1>1, Invariant, PTL

\* A tab at rest shows the owner of its token, unless an answer of me() overtook
\* another since the page was loaded or the last me() carried the token of another
\* tab.
THEOREM RestingUserIsOwner == Spec => []AtRestUserIsOwner
<1>1. IInv => AtRestUserIsOwner
  BY DEF IInv, AtRestUserIsOwner, TabOK, AsksLast
<1> QED BY <1>1, Invariant, PTL

\* The tab that wrote local storage last sends the token it works with.
THEOREM LastWriterSendsItsToken == Spec => []StorageFollows
<1>1. IInv => StorageFollows
  BY DEF IInv
<1> QED BY <1>1, Invariant, PTL

-----------------------------------------------------------------------------
(* Permissions on the pages.                                               *)

LEMMA GuardIds == \A p \in Guards : \E ns, act : p = <<ns, act>>
<1>1. \A p \in Guards :
        p \in {<<"schema", "read">>, <<"connect", "read">>, <<"acl", "read">>,
              <<"alert", "manage">>, <<"audit", "read">>, <<"users", "read">>,
              <<"roles", "read">>}
  BY DEF Guards, mainNavPermission, adminNav
<1> QED BY <1>1

\* A tab judges the pages as the server does now, as long as nothing changed since
\* the server read what the tab shows and the server could read all of it.
THEOREM PagesMirrorServer == Spec => []UiMirrorsServer
<1>1. ASSUME IInv, NEW t \in Tabs, NEW u, u = tab[t].user, u # NoUser,
             u.read = regrants[u.id], account[u.id].perms # {}, NEW p \in Guards
      PROVE  can(u, p) <=> MatchPermission(account[u.id].perms, p)
  <2>1. u \in UsersIn(tab[t]) /\ u \in Known
    BY <1>1 DEF UsersIn, IInv, TabOK, TabState
  <2>2. Current(u)
    BY <1>1, <2>1 DEF IInv
  <2>4. u.id \in Users /\ u.perms = account[u.id].perms
    BY <1>1, <2>2 DEF Current
  <2>5. account[u.id].perms \subseteq Seq(STRING)
    BY <1>1, <2>4, SessionAssumption DEF IInv, AccountOK
  <2>6. can(u, p) <=> matchPermission(account[u.id].perms, p)
    BY <1>1, <2>4 DEF can, Effective
  <2> QED BY <2>5, <2>6, GuardIds, MatchersAgree
<1>2. IInv => UiMirrorsServer
  BY <1>1 DEF UiMirrorsServer
<1> QED BY <1>2, Invariant, PTL
=============================================================================

-------------------------- MODULE AdminPages_proofs --------------------------
(***************************************************************************)
(* Theorems about AdminPages, for any users, roles and grants, any writes   *)
(* of other administrators and any bounds.                                  *)
(***************************************************************************)
EXTENDS AdminPages, FiniteSetTheorems, TLAPS

-----------------------------------------------------------------------------
(* The invariant.                                                          *)

\* What a list request is answered.
UserRow == Row \cup {None}
RoleRowOrNone == RoleRow \cup {None}
ListedRole == [grants : SUBSET Grants, free : BOOLEAN] \cup {None}
AnswerOf(q) ==
  [at : Nat, rows : IF q = "users" THEN [Ids -> UserRow] ELSE [Roles -> ListedRole]]
Holding(q) == AnswerOf(q) \cup {None, Asked}

Tables ==
  /\ users \in [Ids -> UserRow] /\ roles \in [Roles -> RoleRowOrNone]
  /\ clock \in Nat /\ page \in Lists /\ stale \subseteq Lists

Caches ==
  /\ cache \in [Lists -> UNION {Holding(q) : q \in Lists}]
  /\ fetching \in [Lists -> UNION {Holding(q) : q \in Lists}]
  /\ \A q \in Lists : cache[q] \in Holding(q) /\ fetching[q] \in Holding(q)
  /\ \A q \in Lists : cache[q] # None => cache[q] \in AnswerOf(q)

UserOps == {"create", "update", "disable", "enable", "remove", "reset", "revoke"}
RoleOps == {"createRole", "updateRole", "removeRole"}
FormOps == {"create", "update", "reset", "createRole", "updateRole"}

Forms == Row \cup RoleRow \cup {None}
Request == [op : UserOps \cup RoleOps, id : Ids \cup Roles, form : Forms,
            phase : {"sent", "done"}, at : Nat, here : BOOLEAN]

RequestOK(m) ==
  /\ m \in Request
  /\ m.op \in UserOps => m.id \in Ids
  /\ m.op \in RoleOps => m.id \in Roles
  /\ m.op \in {"create", "update"} => m.form \in Row
  /\ m.op \in {"createRole", "updateRole"} => m.form \in RoleRow

Requests == \A m \in pending : RequestOK(m) /\ m.at <= clock

DialogOK(d) ==
  /\ d \in [kind : {"none", "view", "edit", "add", "reset", "delete", "newRole",
                    "editRole", "deleteRole"},
            id : Ids \cup Roles \cup {None}, form : Forms,
            sent : Request \cup {None}]
  /\ d.kind \in {"edit", "reset", "delete"} => d.id \in Ids
  /\ d.kind \in {"newRole", "editRole", "deleteRole"} => d.id \in Roles
  /\ d.kind \in {"edit", "add"} => d.form \in Row
  /\ d.kind \in {"newRole", "editRole"} => d.form \in RoleRow

\* Every change still to be made has its room under the bound.
Sent == {m \in pending : m.phase = "sent"}
Budget == /\ IsFiniteSet(pending)
          /\ clock + Cardinality(Sent) <= MaxWrites

\* While the request a form sent is in flight, that form is open; so there is
\* one such request at most.
Tends(m, d) == m.here /\ m.op \in FormOps => d.kind = KindOf(m.op) /\ d.sent = m
Attended == \A m \in pending : Tends(m, dialog)

\* A list whose change was answered is marked, and no answer on its way to it
\* is from before the change.
Marked ==
  \A q \in Lists :
    /\ wrote[q] \in 0..clock
    /\ wrote[q] # 0 => q \in stale
    /\ fetching[q] \notin {None, Asked} => wrote[q] <= fetching[q].at

IInv == /\ Tables /\ Caches /\ Requests /\ DialogOK(dialog) /\ Budget /\ Attended
        /\ wrote \in [Lists -> Nat] /\ Marked

-----------------------------------------------------------------------------
(* Steps of one kind.                                                      *)

\* A step that only opens, closes or edits a dialog.
LEMMA DialogStep ==
  ASSUME IInv, UNCHANGED <<server, page, lists, pending>>, DialogOK(dialog'),
         \A m \in pending : Tends(m, dialog')
  PROVE  IInv'
<1> USE DEF IInv, server, lists
<1>1. Tables' /\ Caches' /\ wrote' \in [Lists -> Nat] /\ Marked'
  BY DEF Tables, Caches, Marked
<1>2. Requests'
  BY DEF Requests
<1>3. Budget'
  BY DEF Budget, Sent
<1>4. Attended'
  BY DEF Attended
<1> QED BY <1>1, <1>2, <1>3, <1>4

\* A step that sends a request.
LEMMA SendStep ==
  ASSUME IInv, NEW m, Send(m), RequestOK(m), m.phase = "sent", m.at = 0,
         DialogOK(dialog'), \A n \in pending \cup {m} : Tends(n, dialog'),
         UNCHANGED <<server, page, lists>>
  PROVE  IInv'
<1> USE DEF IInv, server, lists
<1>1. Tables' /\ Caches' /\ wrote' \in [Lists -> Nat] /\ Marked'
  BY DEF Tables, Caches, Marked
<1>2. Requests'
  BY DEF Requests, Send, Tables
<1>3. Budget'
  <2>1. Sent' \subseteq Sent \cup {m} /\ IsFiniteSet(Sent) /\ clock \in Nat
    BY FS_Subset DEF Sent, Send, Budget, Tables
  <2>2. IsFiniteSet(pending') /\ IsFiniteSet(Sent \cup {m})
    BY <2>1, FS_AddElement DEF Send, Budget
  <2>3. Cardinality(Sent') <= Cardinality(Sent \cup {m})
    BY <2>1, <2>2, FS_Subset
  <2>4. Cardinality(Sent \cup {m}) <= Cardinality(Sent) + 1 /\ Cardinality(Sent) \in Nat
    <3>1. Cardinality(Sent) \in Nat
      BY <2>1, FS_CardinalityType
    <3>2. Cardinality(Sent \cup {m}) =
            IF m \in Sent THEN Cardinality(Sent) ELSE Cardinality(Sent) + 1
      BY <2>1, FS_AddElement
    <3> QED BY <3>1, <3>2
  <2>5. clock + Cardinality(Sent) < MaxWrites
    BY DEF Send, Room, Sent
  <2>6. Cardinality(Sent') \in Nat /\ Cardinality(Sent \cup {m}) \in Nat
    BY <2>1, <2>2, FS_Subset, FS_CardinalityType
  <2> QED BY <2>1, <2>2, <2>3, <2>4, <2>5, <2>6, AdminAssumption DEF Budget
<1>4. Attended'
  BY DEF Attended, Send
<1> QED BY <1>1, <1>2, <1>3, <1>4

\* A step of the query cache.
LEMMA CacheStep ==
  ASSUME IInv, UNCHANGED <<server, page, dialog, pending>>, stale' \subseteq Lists,
         Caches', wrote' \in [Lists -> Nat], Marked'
  PROVE  IInv'
<1> USE DEF IInv, server
<1>1. Tables'
  BY DEF Tables
<1>2. Requests'
  BY DEF Requests
<1>3. Budget'
  BY DEF Budget, Sent
<1>4. Attended'
  BY DEF Attended
<1> QED BY <1>1, <1>2, <1>3, <1>4

-----------------------------------------------------------------------------
(* The invariant holds.                                                    *)

LEMMA Initial == Init => IInv
<1> SUFFICES ASSUME Init PROVE IInv
  OBVIOUS
<1> USE AdminAssumption DEF Init
<1>1. Tables
  BY DEF Tables, Lists, UserRow, RoleRowOrNone
<1>2. Caches
  BY DEF Caches, Holding
<1>3. Requests /\ Attended
  BY DEF Requests, Attended
<1>4. DialogOK(dialog)
  BY DEF DialogOK, Closed, Forms
<1>5. Budget
  <2>1. Sent = {}
    BY DEF Sent
  <2> QED BY <2>1, FS_EmptySet DEF Budget
<1>6. wrote \in [Lists -> Nat] /\ Marked
  BY DEF Marked
<1> QED BY <1>1, <1>2, <1>3, <1>4, <1>5, <1>6 DEF IInv

\* The rows on the screen are rows a server sent.
LEMMA RowsAreRows ==
  ASSUME IInv
  PROVE  /\ \A i \in Rows("users") : i \in Ids /\ RowOf("users", i) \in Row
         /\ \A r \in Rows("roles") :
              r \in Roles /\ RowOf("roles", r).grants \in SUBSET Grants
  BY DEF IInv, Caches, AnswerOf, Rows, RowOf, Lists, UserRow, ListedRole

\* While no dialog is open, no form waits for an answer.
LEMMA NoneWaits ==
  ASSUME IInv, Idle, NEW m \in pending, NEW d
  PROVE  Tends(m, d)
  BY DEF IInv, Attended, Tends, Idle, Closed, KindOf, FormOps

LEMMA ListsAnswer ==
  ASSUME IInv, NEW q \in Lists
  PROVE  Listing(q) \in AnswerOf(q) /\ Listing(q).at = clock
<1>1. Listing("users") \in AnswerOf("users")
  BY DEF Listing, AnswerOf, IInv, Tables
<1>2. Listing("roles") \in AnswerOf("roles")
  BY DEF Listing, AnswerOf, IInv, Tables, RoleRowOrNone, RoleRow, ListedRole
<1> QED BY <1>1, <1>2 DEF Lists, Listing

LEMMA FetchSteps ==
  ASSUME IInv, NEW q \in Lists, Refetch(q) \/ Answers(q)
  PROVE  IInv'
<1> USE DEF server
<1>0. /\ None \in UNION {Holding(l) : l \in Lists}
      /\ Asked \in UNION {Holding(l) : l \in Lists}
      /\ AnswerOf(q) \subseteq UNION {Holding(l) : l \in Lists}
  BY DEF Holding, Lists
<1>1. CASE Refetch(q)
  <2>1. Caches' /\ wrote' \in [Lists -> Nat] /\ Marked'
    BY <1>0, <1>1 DEF IInv, Refetch, Caches, Holding, Marked
  <2> QED BY <1>1, <2>1, CacheStep DEF IInv, Tables, Refetch
<1>2. CASE ServeFetch(q)
  <2>1. Caches'
    BY <1>0, <1>2, ListsAnswer DEF IInv, ServeFetch, Caches, Holding
  <2>2. \A l \in Lists : /\ wrote'[l] = wrote[l] /\ wrote'[l] \in 0..clock'
                         /\ wrote'[l] # 0 => l \in stale'
    BY <1>2 DEF IInv, Marked, ServeFetch
  <2>3. \A l \in Lists : fetching'[l] = IF l = q THEN Listing(q) ELSE fetching[l]
    BY <1>2 DEF IInv, Caches, ServeFetch
  <2>4. clock \in Nat
    BY DEF IInv, Tables
  <2>5. \A l \in Lists : fetching'[l] \notin {None, Asked} =>
                            wrote'[l] <= fetching'[l].at
    BY <2>2, <2>3, <2>4, ListsAnswer DEF IInv, Marked
  <2>6. wrote' \in [Lists -> Nat]
    BY <1>2 DEF IInv, ServeFetch
  <2>7. Marked'
    BY <2>2, <2>5 DEF Marked
  <2> QED BY <1>2, <2>1, <2>6, <2>7, CacheStep DEF IInv, Tables, ServeFetch
<1>3. CASE FetchArrives(q)
  <2>0. fetching[q] \in AnswerOf(q) /\ fetching[q].at \in Nat
    BY <1>3 DEF FetchArrives, IInv, Caches, Holding, AnswerOf
  <2>1. Caches'
    BY <1>0, <1>3, <2>0 DEF IInv, FetchArrives, Caches, Holding
  <2>2. wrote[q] <= fetching[q].at
    BY <1>3 DEF IInv, Marked, FetchArrives
  <2>3. wrote' = [wrote EXCEPT ![q] = 0]
    BY <1>3, <2>2 DEF FetchArrives
  <2>4. \A l \in Lists : fetching'[l] = IF l = q THEN None ELSE fetching[l]
    BY <1>3 DEF IInv, Caches, FetchArrives
  <2>5. wrote' \in [Lists -> Nat]
    BY <2>3 DEF IInv
  <2>6. clock' = clock /\ clock \in Nat /\ stale' = stale \ {q}
    BY <1>3 DEF FetchArrives, IInv, Tables
  <2>7. Marked'
    BY <2>3, <2>4, <2>6 DEF IInv, Marked
  <2> QED BY <1>3, <2>1, <2>5, <2>7, CacheStep DEF IInv, Tables, FetchArrives
<1>4. CASE FetchFails(q)
  <2>1. Caches' /\ wrote' \in [Lists -> Nat] /\ Marked'
    BY <1>0, <1>4 DEF IInv, FetchFails, Caches, Holding, Marked
  <2> QED BY <1>4, <2>1, CacheStep DEF IInv, Tables, FetchFails
<1> QED BY <1>1, <1>2, <1>3, <1>4 DEF Answers

LEMMA VisitStep ==
  ASSUME IInv, NEW p \in Lists, Visit(p)
  PROVE  IInv'
<1> USE DEF IInv
<1> DEFINE Left(m) == [m EXCEPT !.here = FALSE]
           away == [m \in pending |-> Left(m)]
<1>1. Tables'
  BY DEF Visit, Tables, server
<1>2. \A l \in Lists : fetching'[l] \in {fetching[l], Asked} /\ cache'[l] = cache[l]
  BY DEF Visit
<1>3. Caches'
  <2>1. fetching' \in [Lists -> UNION {Holding(q) : q \in Lists}]
    <3>1. PICK old \in SUBSET Active(p) :
            fetching' = [q \in Lists |-> IF q \in old /\ fetching[q] = None
                                        THEN Asked ELSE fetching[q]]
      BY DEF Visit
    <3>2. \A q \in Lists : Asked \in Holding(q) /\ fetching[q] \in Holding(q)
      BY DEF Holding, Caches
    <3> QED BY <3>1, <3>2
  <2> QED BY <1>2, <2>1 DEF Caches, Holding, Visit
<1>4. wrote' \in [Lists -> Nat] /\ Marked'
  BY <1>2 DEF Marked, Visit, server
<1>5. ASSUME NEW m \in pending
      PROVE  /\ RequestOK(Left(m)) /\ Left(m).at <= clock /\ ~Left(m).here
             /\ Left(m).phase = m.phase
  BY DEF Requests, RequestOK, Request
<1>6. pending' = {Left(m) : m \in pending} /\ clock' = clock /\ dialog' = Closed
  BY DEF Visit, server
<1> HIDE DEF Left
<1>7. Requests'
  BY <1>5, <1>6 DEF Requests
<1>8. DialogOK(dialog')
  BY <1>6 DEF DialogOK, Closed, Forms
<1>9. Attended'
  BY <1>5, <1>6 DEF Attended, Tends
<1>10. Budget'
  <2>1. away \in Surjection(pending, pending')
    BY <1>6 DEF Surjection
  <2>2. IsFiniteSet(pending')
    BY <2>1, FS_Surjection DEF Budget
  <2> DEFINE awaySent == [m \in Sent |-> Left(m)]
  <2>3. awaySent \in Surjection(Sent, Sent')
    BY <1>5, <1>6 DEF Surjection, Sent
  <2>4. IsFiniteSet(Sent) /\ IsFiniteSet(Sent')
    BY <2>2, FS_Subset DEF Budget, Sent
  <2>5. Cardinality(Sent') <= Cardinality(Sent)
    BY <2>3, <2>4, FS_Surjection
  <2>6. Cardinality(Sent) \in Nat /\ Cardinality(Sent') \in Nat /\ clock \in Nat
    BY <2>4, FS_CardinalityType DEF Tables
  <2> QED BY <1>6, <2>2, <2>5, <2>6, AdminAssumption DEF Budget
<1> QED BY <1>1, <1>3, <1>4, <1>7, <1>8, <1>9, <1>10

\* A step of the server on a table, with its room under the bound.
LEMMA OtherSteps ==
  ASSUME IInv,
         \/ \E i \in Ids, row \in Row \cup {None} : OtherUserWrite(i, row)
         \/ \E r \in Roles, row \in RoleRow \cup {None} : OtherRoleWrite(r, row)
  PROVE  IInv'
<1> USE DEF IInv, lists
<1>1. /\ Room /\ clock' = clock + 1 /\ clock \in Nat
      /\ UNCHANGED <<page, lists, dialog, pending>>
  BY DEF OtherUserWrite, OtherRoleWrite, Tables
<1>2. users' \in [Ids -> UserRow] /\ roles' \in [Roles -> RoleRowOrNone]
  BY DEF OtherUserWrite, OtherRoleWrite, Tables, UserRow, RoleRowOrNone
<1>3. Tables' /\ Caches'
  BY <1>1, <1>2 DEF Tables, Caches
<1>4. Requests'
  BY <1>1 DEF Requests, RequestOK, Request
<1>5. wrote' \in [Lists -> Nat] /\ Marked'
  BY <1>1 DEF Marked
<1>6. Budget'
  <2>1. IsFiniteSet(Sent) /\ Sent' = Sent
    BY <1>1, FS_Subset DEF Sent, Budget
  <2>2. Cardinality(Sent) \in Nat
    BY <2>1, FS_CardinalityType
  <2>3. clock + Cardinality(Sent) < MaxWrites
    BY <1>1 DEF Room, Sent
  <2> QED BY <1>1, <2>1, <2>2, <2>3, AdminAssumption DEF Budget
<1>7. DialogOK(dialog') /\ Attended'
  BY <1>1 DEF Attended
<1> QED BY <1>3, <1>4, <1>5, <1>6, <1>7

\* The form whose request it is hears of it; no other is touched.
LEMMA BecomesStep ==
  ASSUME IInv, NEW m \in pending, NEW n, n \in Request \/ n = None, Becomes(m, n)
  PROVE  /\ DialogOK(dialog') /\ \A l \in pending \ {m} : Tends(l, dialog')
         /\ n \in Request /\ n.here = m.here /\ n.op = m.op => Tends(n, dialog')
<1>1. DialogOK(dialog)
  BY DEF IInv
<1>2. CASE dialog.sent = m
  <2>1. /\ dialog' = [dialog EXCEPT !.sent = n] /\ dialog'.sent = n
        /\ dialog'.kind = dialog.kind /\ dialog'.id = dialog.id
        /\ dialog'.form = dialog.form
    BY <1>1, <1>2 DEF Becomes, DialogOK
  <2>2. DialogOK(dialog')
    BY <1>1, <2>1 DEF DialogOK
  <2>3. \A l \in pending \ {m} : ~(l.here /\ l.op \in FormOps)
    BY <1>2 DEF IInv, Attended, Tends
  <2> QED BY <2>1, <2>2, <2>3 DEF IInv, Attended, Tends
<1>3. CASE dialog.sent # m
  <2>1. dialog' = dialog
    BY <1>3 DEF Becomes
  <2>2. ~(m.here /\ m.op \in FormOps)
    BY <1>3 DEF IInv, Attended, Tends
  <2> QED BY <1>1, <2>1, <2>2 DEF IInv, Attended, Tends
<1> QED BY <1>2, <1>3

LEMMA ServeStep ==
  ASSUME IInv, NEW m \in pending, Serve(m)
  PROVE  IInv'
<1> USE DEF IInv, lists
<1> DEFINE done == [m EXCEPT !.phase = "done", !.at = clock + 1]
<1>1. /\ clock' = clock + 1 /\ clock \in Nat /\ m \in Request /\ RequestOK(m)
      /\ pending' = (pending \ {m}) \cup {done} /\ m.phase = "sent"
      /\ Becomes(m, done) /\ UNCHANGED <<page, lists>>
  BY DEF Serve, Tables, Requests, RequestOK
<1>2. /\ RequestOK(done) /\ done.at = clock + 1 /\ done.phase = "done"
      /\ done.here = m.here /\ done.op = m.op /\ done.id = m.id
  <2> DEFINE half == [m EXCEPT !.phase = "done"]
  <2>1. /\ half \in Request /\ half.phase = "done" /\ half.here = m.here
        /\ half.op = m.op /\ half.id = m.id /\ half.form = m.form
    BY <1>1 DEF Request
  <2>2. done = [half EXCEPT !.at = clock + 1]
    BY <1>1 DEF Request
  <2> HIDE DEF done, half
  <2>3. /\ done \in Request /\ done.at = clock + 1 /\ done.phase = half.phase
        /\ done.here = half.here /\ done.op = half.op /\ done.id = half.id
        /\ done.form = half.form
    BY <1>1, <2>1, <2>2 DEF Request
  <2> QED BY <1>1, <2>1, <2>3 DEF RequestOK
<1> HIDE DEF done
<1>3. users' \in [Ids -> UserRow] /\ roles' \in [Roles -> RoleRowOrNone]
  <2>1. CASE ListOf(m.op) = "users"
    <3>1. m.op \in UserOps /\ m.id \in Ids
      BY <1>1, <2>1 DEF ListOf, RequestOK, Request, UserOps, RoleOps
    <3>2. users[m.id] \in UserRow
      BY <3>1 DEF Tables
    <3>3. m.op \in {"disable", "enable"} => users[m.id] \in Row
      BY <3>2 DEF Serve, Accepts, UserRow
    <3>4. m.op \in {"create", "update"} => m.form \in Row
      BY <1>1 DEF RequestOK
    <3> DEFINE now == CASE m.op \in {"create", "update"} -> m.form
                        [] m.op = "remove" -> None
                        [] m.op = "disable" -> [users[m.id] EXCEPT !.active = FALSE]
                        [] m.op = "enable" -> [users[m.id] EXCEPT !.active = TRUE]
                        [] OTHER -> users[m.id]
    <3>5. now \in UserRow
      BY <3>1, <3>2, <3>3, <3>4 DEF UserOps, UserRow, Row
    <3>6. UsersAfter(m) = [users EXCEPT ![m.id] = now]
      BY <3>1 DEF UsersAfter, Tables
    <3> HIDE DEF now
    <3> QED BY <2>1, <3>5, <3>6 DEF Serve, Tables
  <2>2. CASE ListOf(m.op) # "users"
    <3>1. m.op \in RoleOps /\ m.id \in Roles
      BY <1>1, <2>2 DEF ListOf, RequestOK, Request, UserOps, RoleOps
    <3>2. m.op # "removeRole" => m.form \in RoleRow
      BY <1>1, <3>1 DEF RequestOK, RoleOps
    <3> QED BY <2>2, <3>1, <3>2 DEF Serve, Tables, RoleRowOrNone
  <2> QED BY <2>1, <2>2
<1>4. Tables' /\ Caches'
  BY <1>1, <1>3 DEF Tables, Caches
<1>5. Requests'
  <2>1. \A n \in pending : n.at \in Nat /\ RequestOK(n) /\ n.at <= clock
    BY DEF Requests, RequestOK, Request
  <2> QED BY <1>1, <1>2, <2>1 DEF Requests
<1>6. wrote' \in [Lists -> Nat] /\ Marked'
  BY <1>1 DEF Marked
<1>7. /\ DialogOK(dialog') /\ \A n \in pending \ {m} : Tends(n, dialog')
      /\ Tends(done, dialog')
  BY <1>1, <1>2, BecomesStep DEF RequestOK
<1>8. Attended'
  BY <1>1, <1>7 DEF Attended
<1>9. Budget'
  <2>1. Sent' = Sent \ {m} /\ m \in Sent /\ IsFiniteSet(Sent)
    BY <1>1, <1>2, FS_Subset DEF Sent, Budget
  <2>2. IsFiniteSet(pending')
    BY <1>1, FS_AddElement, FS_RemoveElement DEF Budget
  <2>3. Cardinality(Sent) \in Nat /\ Cardinality(Sent') = Cardinality(Sent) - 1
    BY <2>1, FS_CardinalityType, FS_RemoveElement
  <2> QED BY <1>1, <2>2, <2>3, AdminAssumption DEF Budget
<1> QED BY <1>1, <1>4, <1>5, <1>6, <1>7, <1>8, <1>9

\* An answer leaves one request less.
LEMMA FewerRequests ==
  ASSUME IInv, NEW m \in pending, pending' = pending \ {m}, UNCHANGED server
  PROVE  Requests' /\ Budget'
<1> USE DEF IInv, server
<1>1. Requests'
  BY DEF Requests
<1>2. IsFiniteSet(pending') /\ IsFiniteSet(Sent) /\ Sent' \subseteq Sent
  BY FS_Subset, FS_RemoveElement DEF Budget, Sent
<1>3. IsFiniteSet(Sent') /\ Cardinality(Sent') <= Cardinality(Sent)
  BY <1>2, FS_Subset
<1>4. Cardinality(Sent) \in Nat /\ Cardinality(Sent') \in Nat /\ clock \in Nat
  BY <1>2, <1>3, FS_CardinalityType DEF Tables
<1>5. Budget'
  BY <1>2, <1>3, <1>4, AdminAssumption DEF Budget
<1> QED BY <1>1, <1>5

LEMMA FailedStep ==
  ASSUME IInv, NEW m \in pending, Failed(m)
  PROVE  IInv'
<1> USE DEF IInv
<1>1. pending' = pending \ {m} /\ UNCHANGED <<server, page, lists>>
  BY DEF Failed
<1>2. Tables' /\ Caches' /\ wrote' \in [Lists -> Nat] /\ Marked'
  BY <1>1 DEF Tables, Caches, Marked, server, lists
<1>3. DialogOK(dialog') /\ Attended'
  BY <1>1, BecomesStep DEF Failed, Attended
<1> QED BY <1>1, <1>2, <1>3, FewerRequests

LEMMA KindsDiffer ==
  ASSUME NEW a \in FormOps, NEW b \in UserOps \cup RoleOps, KindOf(a) = KindOf(b)
  PROVE  a = b
<1>1. /\ KindOf("create") = "add" /\ KindOf("update") = "edit"
      /\ KindOf("reset") = "reset" /\ KindOf("createRole") = "newRole"
      /\ KindOf("updateRole") = "editRole" /\ KindOf("remove") = "delete"
      /\ KindOf("removeRole") = "deleteRole" /\ KindOf("enable") = "no dialog"
      /\ KindOf("disable") = "no dialog" /\ KindOf("revoke") = "no dialog"
  BY DEF KindOf
<1> QED BY <1>1 DEF FormOps, UserOps, RoleOps

LEMMA AnsweredStep ==
  ASSUME IInv, NEW m \in pending, Answered(m)
  PROVE  IInv'
<1> USE DEF IInv
<1> DEFINE q == ListOf(m.op)
<1>1. /\ pending' = pending \ {m} /\ UNCHANGED <<server, page, cache>> /\ q \in Lists
      /\ m.at \in 0..clock /\ clock \in Nat /\ m.op \in UserOps \cup RoleOps
  BY DEF Answered, Requests, RequestOK, Request, Tables, ListOf, Lists
<1>2. /\ stale \subseteq stale' /\ stale' \subseteq Lists
      /\ fetching' \in [Lists -> UNION {Holding(l) : l \in Lists}]
      /\ \A l \in Lists : fetching'[l] \in {fetching[l], Asked}
      /\ m.op # "revoke" => q \in stale'
      /\ m.op # "revoke" /\ q \in Active(page) /\ cache[q] # None =>
           fetching'[q] = Asked
  <2>1. Asked \in UNION {Holding(l) : l \in Lists}
    BY DEF Holding, Lists
  <2> QED BY <1>1, <2>1 DEF Answered, Notifies, Invalidated, Caches, Tables
<1>3. /\ \A l \in Lists : \/ wrote'[l] = wrote[l]
                          \/ /\ l = q /\ m.op # "revoke" /\ q \in Active(page)
                             /\ cache[q] # None /\ wrote'[l] = m.at
      /\ wrote' \in [Lists -> Nat]
  BY <1>1 DEF Answered
<1> HIDE DEF q
<1>4. Tables' /\ Caches'
  BY <1>1, <1>2 DEF Tables, Caches, Holding, server
<1>5. Marked'
  BY <1>1, <1>2, <1>3 DEF Marked, server
<1>6. DialogOK(dialog')
  BY DEF Answered, DialogOK, Closed, Forms
<1>7. Attended'
  <2>1. CASE dialog' = dialog
    BY <1>1, <2>1 DEF Attended
  <2>2. CASE m.here /\ dialog.kind = KindOf(m.op)
    <3>1. \A n \in pending' : ~(n.here /\ n.op \in FormOps)
      <4> SUFFICES ASSUME NEW n \in pending, n # m, n.here, n.op \in FormOps
                   PROVE  FALSE
        BY <1>1
      <4>1. KindOf(n.op) = KindOf(m.op)
        BY <2>2 DEF Attended, Tends
      <4>2. n.op = m.op
        BY <1>1, <4>1, KindsDiffer
      <4> QED BY <2>2, <4>2 DEF Attended, Tends
    <3> QED BY <1>1, <3>1 DEF Attended, Tends
  <2> QED BY <2>1, <2>2 DEF Answered
<1> QED BY <1>1, <1>3, <1>4, <1>5, <1>6, <1>7, FewerRequests

\* What a dialog is opened with.
LEMMA OpenStep ==
  ASSUME IInv, NEW kind, NEW id, NEW form, Open(kind, id, form), Idle,
         UNCHANGED <<server, page, lists, pending>>,
         DialogOK([kind |-> kind, id |-> id, form |-> form, sent |-> None])
  PROVE  IInv'
<1>1. DialogOK(dialog')
  BY DEF Open
<1>2. \A m \in pending : Tends(m, dialog')
  BY NoneWaits
<1> QED BY <1>1, <1>2, DialogStep

\* A form is filled in, also while its request is in flight.
LEMMA FillStep ==
  ASSUME IInv, NEW form \in Forms, Fill(form),
         UNCHANGED <<server, page, lists, pending>>,
         dialog.kind \in {"edit", "add"} => form \in Row,
         dialog.kind \in {"newRole", "editRole"} => form \in RoleRow
  PROVE  IInv'
<1>1. /\ dialog'.kind = dialog.kind /\ dialog'.id = dialog.id
      /\ dialog'.sent = dialog.sent /\ dialog'.form = form
      /\ dialog' = [dialog EXCEPT !.form = form]
  BY DEF Fill, IInv, DialogOK
<1>2. DialogOK(dialog')
  BY <1>1 DEF IInv, DialogOK
<1>3. \A m \in pending : Tends(m, dialog')
  BY <1>1 DEF IInv, Attended, Tends
<1> QED BY <1>2, <1>3, DialogStep

\* A form that is not busy sends its request.
LEMMA SendFormStep ==
  ASSUME IInv, NEW m, SendForm(m), RequestOK(m), m.phase = "sent", m.at = 0,
         m.op \in FormOps, ~Busy(m.op), dialog.kind = KindOf(m.op),
         UNCHANGED <<server, page, lists>>
  PROVE  IInv'
<1>1. /\ dialog'.kind = dialog.kind /\ dialog'.id = dialog.id
      /\ dialog'.sent = m /\ dialog'.form = dialog.form
      /\ dialog' = [dialog EXCEPT !.sent = m]
  BY DEF SendForm, IInv, DialogOK
<1>2. DialogOK(dialog')
  BY <1>1 DEF IInv, DialogOK, RequestOK
<1>3. ASSUME NEW n \in pending, n.here, n.op \in FormOps
      PROVE  FALSE
  <2>1. KindOf(n.op) = KindOf(m.op) /\ m.op \in UserOps \cup RoleOps
    BY <1>3 DEF IInv, Attended, Tends, FormOps, UserOps, RoleOps
  <2> QED BY <1>3, <2>1, KindsDiffer DEF Busy
<1>4. \A n \in pending \cup {m} : Tends(n, dialog')
  BY <1>1, <1>3 DEF Tends
<1> QED BY <1>2, <1>4, SendStep DEF SendForm

LEMMA UsersPageSteps ==
  ASSUME IInv, UsersPage
  PROVE  IInv'
<1> USE DEF IInv
<1>1. CASE OpenAdd
  <2> DEFINE form == [role |-> "DEVELOPER", active |-> TRUE]
  <2>1. DialogOK([kind |-> "add", id |-> None, form |-> form, sent |-> None])
    BY AdminAssumption DEF DialogOK, Forms, Row
  <2> QED BY <1>1, <2>1, OpenStep DEF OpenAdd
<1>2. ASSUME NEW i \in Ids, NEW k \in {"view", "edit", "reset", "delete"},
             RowAction(i, k)
      PROVE  IInv'
  <2> DEFINE form == IF k = "edit" THEN RowOf("users", i) ELSE None
  <2>1. DialogOK([kind |-> k, id |-> i, form |-> form, sent |-> None])
    BY <1>2, RowsAreRows DEF DialogOK, Forms, RowAction, OnRow
  <2> QED BY <1>2, <2>1, OpenStep DEF RowAction, OnRow
<1>3. ASSUME NEW r \in Roles, NEW a \in BOOLEAN, EditForm(r, a)
      PROVE  IInv'
  <2>1. [role |-> r, active |-> a] \in Row
    BY DEF Row
  <2> QED BY <1>3, <2>1, FillStep DEF EditForm, Forms
<1>4. ASSUME NEW r \in Roles, AddForm(r)
      PROVE  IInv'
  <2> DEFINE form == [dialog.form EXCEPT !.role = r]
  <2>1. form \in Row
    BY <1>4 DEF DialogOK, Row, AddForm
  <2> QED BY <1>4, <2>1, FillStep DEF AddForm, Forms
<1>5. ASSUME NEW op \in UserOps, NEW id \in Ids, NEW form \in Forms,
             UNCHANGED <<server, page, lists>>,
             op \in {"create", "update"} => form \in Row,
             \/ /\ Send(Ask(op, id, form)) /\ dialog' = dialog /\ op \notin FormOps
             \/ /\ SendForm(Ask(op, id, form)) /\ op \in FormOps
                /\ ~Busy(op) /\ dialog.kind = KindOf(op)
      PROVE  IInv'
  <2> DEFINE m == Ask(op, id, form)
  <2>1. /\ m \in Request /\ m.op = op /\ m.id = id /\ m.form = form
        /\ m.phase = "sent" /\ m.at = 0 /\ m.here
    BY DEF Ask, Request
  <2> HIDE DEF m
  <2>2. RequestOK(m)
    BY <1>5, <2>1 DEF RequestOK, UserOps, RoleOps
  <2>3. CASE Send(m) /\ dialog' = dialog /\ op \notin FormOps
    <3>1. \A n \in pending \cup {m} : Tends(n, dialog')
      BY <2>1, <2>3 DEF Attended, Tends
    <3> QED BY <1>5, <2>1, <2>2, <2>3, <3>1, SendStep
  <2>4. CASE SendForm(m) /\ op \in FormOps /\ ~Busy(op) /\ dialog.kind = KindOf(op)
    BY <1>5, <2>1, <2>2, <2>4, SendFormStep
  <2> QED BY <1>5, <2>3, <2>4 DEF m
<1>6. CASE SubmitEdit
  BY <1>5, <1>6 DEF SubmitEdit, DialogOK, KindOf, UserOps, FormOps, Forms
<1>7. CASE SubmitReset
  BY <1>5, <1>7 DEF SubmitReset, DialogOK, KindOf, UserOps, FormOps, Forms
<1>8. CASE ConfirmDelete
  BY <1>5, <1>8 DEF ConfirmDelete, DialogOK, UserOps, FormOps, Forms
<1>9. ASSUME NEW i \in Ids, Toggle(i) \/ RevokeSessions(i) \/ SubmitAdd(i)
      PROVE  IInv'
  <2>1. CASE Toggle(i)
    BY <1>5, <2>1 DEF Toggle, UserOps, FormOps, Forms
  <2>2. CASE RevokeSessions(i)
    BY <1>5, <2>2 DEF RevokeSessions, UserOps, FormOps, Forms
  <2>3. CASE SubmitAdd(i)
    BY <1>5, <2>3 DEF SubmitAdd, DialogOK, KindOf, UserOps, FormOps, Forms
  <2> QED BY <1>9, <2>1, <2>2, <2>3
<1> QED BY <1>1, <1>2, <1>3, <1>4, <1>6, <1>7, <1>8, <1>9 DEF UsersPage

LEMMA RolesPageSteps ==
  ASSUME IInv, RolesPage
  PROVE  IInv'
<1> USE DEF IInv
<1>1. ASSUME NEW r \in Roles, OpenCreateRole(r)
      PROVE  IInv'
  <2>1. DialogOK([kind |-> "newRole", id |-> r, form |-> [grants |-> {}],
                 sent |-> None])
    BY DEF DialogOK, Forms, RoleRow
  <2> QED BY <1>1, <2>1, OpenStep DEF OpenCreateRole
<1>2. ASSUME NEW r \in Roles, OpenEditRole(r)
      PROVE  IInv'
  <2> DEFINE form == [grants |-> RowOf("roles", r).grants]
  <2>1. form \in RoleRow
    BY <1>2, RowsAreRows DEF OpenEditRole, OnRow, RoleRow
  <2> HIDE DEF form
  <2>2. DialogOK([kind |-> "editRole", id |-> r, form |-> form, sent |-> None])
    BY <2>1 DEF DialogOK, Forms
  <2> QED BY <1>2, <2>2, OpenStep DEF OpenEditRole, OnRow, form
<1>3. ASSUME NEW r \in Roles, OpenDeleteRole(r)
      PROVE  IInv'
  <2>1. DialogOK([kind |-> "deleteRole", id |-> r, form |-> None, sent |-> None])
    BY DEF DialogOK, Forms
  <2> QED BY <1>3, <2>1, OpenStep DEF OpenDeleteRole, OnRow
<1>4. ASSUME NEW row \in RoleRow, EditGrants(row)
      PROVE  IInv'
  BY <1>4, FillStep DEF EditGrants, Forms
<1>5. ASSUME NEW op \in RoleOps, NEW id \in Roles, NEW form \in Forms,
             UNCHANGED <<server, page, lists>>,
             op \in {"createRole", "updateRole"} => form \in RoleRow,
             \/ /\ Send(Ask(op, id, form)) /\ dialog' = dialog /\ op \notin FormOps
             \/ /\ SendForm(Ask(op, id, form)) /\ op \in FormOps
                /\ ~Busy(op) /\ dialog.kind = KindOf(op)
      PROVE  IInv'
  <2> DEFINE m == Ask(op, id, form)
  <2>1. /\ m \in Request /\ m.op = op /\ m.id = id /\ m.form = form
        /\ m.phase = "sent" /\ m.at = 0 /\ m.here
    BY DEF Ask, Request
  <2> HIDE DEF m
  <2>2. RequestOK(m)
    BY <1>5, <2>1 DEF RequestOK, UserOps, RoleOps
  <2>3. CASE Send(m) /\ dialog' = dialog /\ op \notin FormOps
    <3>1. \A n \in pending \cup {m} : Tends(n, dialog')
      BY <2>1, <2>3 DEF Attended, Tends
    <3> QED BY <1>5, <2>1, <2>2, <2>3, <3>1, SendStep
  <2>4. CASE SendForm(m) /\ op \in FormOps /\ ~Busy(op) /\ dialog.kind = KindOf(op)
    BY <1>5, <2>1, <2>2, <2>4, SendFormStep
  <2> QED BY <1>5, <2>3, <2>4 DEF m
<1>6. CASE SaveRole
  BY <1>5, <1>6 DEF SaveRole, DialogOK, KindOf, RoleOps, FormOps, Forms
<1>7. CASE ConfirmDeleteRole
  BY <1>5, <1>7 DEF ConfirmDeleteRole, DialogOK, RoleOps, FormOps, Forms
<1> QED BY <1>1, <1>2, <1>3, <1>4, <1>6, <1>7 DEF RolesPage

LEMMA CloseStep ==
  ASSUME IInv, CloseDialog
  PROVE  IInv'
<1> USE DEF IInv
<1>1. DialogOK(dialog')
  BY DEF CloseDialog, DialogOK, Closed, Forms
<1>2. ASSUME NEW m \in pending, m.here, m.op \in FormOps
      PROVE  FALSE
  <2>1. dialog.kind = KindOf(m.op) /\ Busy(m.op)
    BY <1>2 DEF Attended, Tends, Busy
  <2>2. \A op \in FormOps : MayClose(KindOf(op)) => ~Busy(op)
    BY DEF FormOps, KindOf, MayClose
  <2> QED BY <1>2, <2>1, <2>2 DEF CloseDialog
<1> QED BY <1>1, <1>2, DialogStep DEF CloseDialog, Tends

LEMMA Stutter == IInv /\ UNCHANGED vars => IInv'
<1> SUFFICES ASSUME IInv, UNCHANGED vars PROVE IInv'
  OBVIOUS
<1>1. UNCHANGED <<server, page, lists, pending>> /\ dialog' = dialog
  BY DEF vars, server, lists
<1> QED BY <1>1, DialogStep DEF IInv, Attended

LEMMA Inductive == IInv /\ [Next]_vars => IInv'
<1> SUFFICES ASSUME IInv, Next PROVE IInv'
  BY Stutter
<1>1. CASE \E q \in Lists : Refetch(q) \/ Answers(q)
  BY <1>1, FetchSteps
<1>2. CASE \E p \in Lists : Visit(p)
  BY <1>2, VisitStep
<1>3. CASE \E m \in pending : Serve(m) \/ Answered(m) \/ Failed(m)
  BY <1>3, ServeStep, AnsweredStep, FailedStep
<1>4. CASE \/ \E i \in Ids, row \in Row \cup {None} : OtherUserWrite(i, row)
           \/ \E r \in Roles, row \in RoleRow \cup {None} : OtherRoleWrite(r, row)
  BY <1>4, OtherSteps
<1>5. CASE UsersPage
  BY <1>5, UsersPageSteps
<1>6. CASE RolesPage
  BY <1>6, RolesPageSteps
<1>7. CASE CloseDialog
  BY <1>7, CloseStep
<1> QED BY <1>1, <1>2, <1>3, <1>4, <1>5, <1>6, <1>7 DEF Next

LEMMA Invariant == Spec => []IInv
BY Initial, Inductive, PTL DEF Spec

-----------------------------------------------------------------------------
(* The theorems.                                                           *)

\* The tables, the lists and the requests in flight keep their types, and the
\* changes stay within the bound.
THEOREM TypeCorrect == Spec => []TypeOK
<1>1. IInv => TypeOK
  <2> SUFFICES ASSUME IInv PROVE TypeOK
    OBVIOUS
  <2>1. IsFiniteSet(Sent)
    BY FS_Subset DEF IInv, Budget, Sent
  <2>2. Cardinality(Sent) \in Nat
    BY <2>1, FS_CardinalityType
  <2>3. clock \in 0..MaxWrites
    BY <2>2, AdminAssumption DEF IInv, Budget, Tables
  <2>4. \A m \in pending : m.phase \in {"sent", "done"} /\ m.at <= clock
    BY DEF IInv, Requests, RequestOK, Request
  <2> QED BY <2>3, <2>4 DEF IInv, Tables, TypeOK, UserRow, RoleRowOrNone
<1> QED BY <1>1, Invariant, PTL

\* Whatever fetches, visits, failures and writes of others fall between, a list
\* that had rows on the screen never settles on rows from before a change whose
\* answer reached it.
THEOREM SettlesOnNewRows == Spec => []OwnWritesShown
<1>1. IInv => OwnWritesShown
  BY DEF IInv, Marked, OwnWritesShown
<1> QED BY <1>1, Invariant, PTL

\* For any number of requests in flight, only the answer to the very request it
\* has sent closes a form while its page stays.
THEOREM FormsAwaitTheirAnswer == Spec => FormsCloseByOwnAnswer
<1> DEFINE P == dialog.kind \in FormKinds /\ dialog' = Closed /\ page' = page
                  => \/ CloseDialog
                     \/ dialog.sent \in pending /\ Answered(dialog.sent)
<1>1. ASSUME IInv, Next PROVE P
  <2> SUFFICES ASSUME dialog.kind \in FormKinds, dialog' = Closed, page' = page
               PROVE  \/ CloseDialog
                      \/ dialog.sent \in pending /\ Answered(dialog.sent)
    OBVIOUS
  <2>1. dialog # Closed /\ dialog'.kind = "none" /\ dialog.kind # "none"
    BY DEF FormKinds, Closed
  <2>2. ASSUME NEW m \in pending, Answered(m)
        PROVE  dialog.sent = m
    <3>1. m.here /\ dialog.kind = KindOf(m.op)
      BY <2>1, <2>2 DEF Answered
    <3>2. m.op \in FormOps
      BY <1>1, <3>1 DEF IInv, Requests, RequestOK, Request, UserOps, RoleOps, FormKinds,
                        KindOf, FormOps
    <3> QED BY <1>1, <3>1, <3>2 DEF IInv, Attended, Tends
  <2>3. ~\E m \in pending : Serve(m) \/ Failed(m)
    <3> SUFFICES ASSUME NEW m \in pending, NEW n, Becomes(m, n) PROVE FALSE
      BY DEF Serve, Failed
    <3>1. dialog'.kind = dialog.kind
      BY <1>1 DEF Becomes, IInv, DialogOK
    <3> QED BY <2>1, <3>1
  <2>4. ~\E form : Fill(form)
    <3>1. ASSUME NEW form, Fill(form) PROVE dialog'.kind = dialog.kind
      BY <1>1, <3>1 DEF Fill, IInv, DialogOK
    <3> QED BY <2>1, <3>1
  <2>5. ~\E m : SendForm(m)
    <3>1. ASSUME NEW m, SendForm(m) PROVE dialog'.kind = dialog.kind
      BY <1>1, <3>1 DEF SendForm, IInv, DialogOK
    <3> QED BY <2>1, <3>1
  <2>6. ~Idle
    BY <2>1 DEF Idle
  <2>7. ~UsersPage /\ ~RolesPage
    BY <2>1, <2>4, <2>5, <2>6
       DEF UsersPage, RolesPage, OpenAdd, SubmitEdit, SubmitReset, ConfirmDelete,
           RowAction, OnRow, Toggle, RevokeSessions, SubmitAdd, AddForm, EditForm,
           SaveRole, ConfirmDeleteRole, OpenCreateRole, OpenEditRole, OpenDeleteRole,
           EditGrants
  <2>8. ~\E q \in Lists : Refetch(q) \/ Answers(q)
    BY <2>1 DEF Answers, Refetch, ServeFetch, FetchArrives, FetchFails
  <2>9. ~\E p \in Lists : Visit(p)
    BY DEF Visit
  <2>10. /\ ~\E i \in Ids, row \in Row \cup {None} : OtherUserWrite(i, row)
         /\ ~\E r \in Roles, row \in RoleRow \cup {None} : OtherRoleWrite(r, row)
    BY <2>1 DEF OtherUserWrite, OtherRoleWrite
  <2> QED BY <1>1, <2>2, <2>3, <2>7, <2>8, <2>9, <2>10 DEF Next
<1> HIDE DEF P
<1>2. IInv /\ [Next]_vars => [P]_vars
  BY <1>1
<1>3. Spec => [][P]_vars
  BY <1>2, Invariant, PTL DEF Spec
<1> QED BY <1>3 DEF FormsCloseByOwnAnswer, P
=============================================================================

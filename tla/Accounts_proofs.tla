-------------------------- MODULE Accounts_proofs --------------------------
(***************************************************************************)
(* Theorems about Accounts, for any sets of users, roles, requests and      *)
(* slots, with statement failures and restarts.  The inductive invariant    *)
(* adds to the type invariant what a handler in flight holds at each of its *)
(* statements (SlotsOK).  The last part is about one request at a time,     *)
(* where what the request has read is still so (Held).                      *)
(***************************************************************************)
EXTENDS Accounts, FiniteSetTheorems, TLAPS

UserOps == {"updateUser", "deleteUser", "disableUser", "enableUser",
            "resetPassword", "revokeSessions"}
RoleOps == {"createUser", "createRole", "updateRole", "deleteRole"}
CopyOps == {"updateUser", "deleteUser", "disableUser", "enableUser"}

\* What a slot holds at each statement.
SlotOK(r) ==
  r.pc # "idle" =>
    /\ r.ask \in Request /\ Complete(r.ask)
    /\ r.pc = "perm" => r.ask.op \in UserOps \cup RoleOps
    /\ r.ask.op \in UserOps \cup RoleOps => r.me \in Row
    /\ r.ask.op = "changePassword" => r.ask.id \in Ids
    /\ r.pc = "load" => r.ask.op \in UserOps
    /\ r.pc = "role" => r.ask.op \in RoleOps \cup {"updateUser"}
                        /\ r.ask.role # None
    /\ r.pc = "email" => r.ask.op \in {"createUser", "updateUser"}
                         /\ r.ask.email # None
    /\ r.pc = "assign" => r.ask.op = "updateUser" /\ r.ask.role # None
    /\ r.pc = "members" => r.ask.op = "deleteRole"
    /\ r.pc = "guard" => r.ask.op \in CopyOps
    /\ r.pc = "revoke" => r.ask.op = "disableUser"
    /\ r.pc = "reread" => r.ask.op = "login" /\ r.ask.id \in Ids
    /\ r.ask.op \in CopyOps /\ r.pc \notin {"perm", "load"} => r.snap \in Row
    /\ r.ask.op = "deleteRole" /\ r.pc = "write" =>
         r.ask.role \notin SystemRoles

SlotsOK == req \in [Slots -> Slot] /\ \A w \in Slots : SlotOK(req[w])

-----------------------------------------------------------------------------
(* A request moves on, ends, or starts: what a slot must satisfy then.     *)

LEMMA AnswerSlots ==
  ASSUME SlotsOK, NEW w \in Slots, Answer(w)
  PROVE  SlotsOK'
BY DEF SlotsOK, Answer, SlotOK, Idle, Slot, PC

LEMMA GotoSlots ==
  ASSUME SlotsOK, NEW w \in Slots, NEW pc \in PC, Goto(w, pc),
         SlotOK([req[w] EXCEPT !.pc = pc])
  PROVE  SlotsOK'
<1>1. req' = [req EXCEPT ![w] = [req[w] EXCEPT !.pc = pc]]
  BY DEF Goto
<1>2. [req[w] EXCEPT !.pc = pc] \in Slot
  BY DEF SlotsOK, Slot
<1> QED BY <1>1, <1>2 DEF SlotsOK

LEMMA ContinueSlots ==
  ASSUME SlotsOK, NEW w \in Slots, NEW pc \in PC, NEW ok, Continue(w, ok, pc),
         ok => SlotOK([req[w] EXCEPT !.pc = pc])
  PROVE  SlotsOK'
BY AnswerSlots, GotoSlots DEF Continue

LEMMA ServeSlots ==
  ASSUME SlotsOK, NEW w \in Slots, NEW pc \in PC, NEW a \in Request,
         NEW i \in Ids \cup {None}, NEW row \in Row \cup {None},
         Serve(w, a, i, row, pc),
         SlotOK([pc |-> pc, ask |-> a, actor |-> i, me |-> row, snap |-> None])
  PROVE  SlotsOK'
BY DEF SlotsOK, Serve, Slot

LEMMA BeginSlots ==
  ASSUME TypeOK, SlotsOK, NEW w \in Slots,
         Begin(w) \/ BeginChangePassword(w) \/ Login(w) \/ OidcKnown(w)
           \/ OidcNew(w)
  PROVE  SlotsOK'
<1>1. \A a \in Requests : a \in Request /\ Complete(a)
  BY ConstantsAssumption
<1>2. \A i \in Live : i \in Ids /\ users[i] \in Row
  BY DEF TypeOK
<1>3. CASE Begin(w)
  <2>1. PICK t \in issued, a \in Requests :
          /\ a.op \notin {"login", "oidc", "changePassword"}
          /\ Accepted(t)
          /\ Serve(w, a, t.user, users[t.user], "perm")
    BY <1>3 DEF Begin
  <2>2. a \in Request /\ Complete(a) /\ a.op \in UserOps \cup RoleOps
    BY <1>1, <2>1 DEF Request, Op, UserOps, RoleOps
  <2>3. t.user \in Ids /\ users[t.user] \in Row
    BY <1>2, <2>1 DEF Accepted
  <2> QED
    BY <2>1, <2>2, <2>3, ServeSlots DEF SlotOK, PC, UserOps, RoleOps, CopyOps
<1>4. CASE BeginChangePassword(w)
  <2>1. PICK t \in issued, a \in Requests :
          /\ a.op = "changePassword"
          /\ Accepted(t)
          /\ Serve(w, [a EXCEPT !.id = t.user], t.user, users[t.user], "write")
    BY <1>4 DEF BeginChangePassword
  <2>2. t.user \in Ids /\ users[t.user] \in Row
    BY <1>2, <2>1 DEF Accepted
  <2>3. DEFINE b == [a EXCEPT !.id = t.user]
  <2>4. b \in Request /\ Complete(b) /\ b.op = "changePassword" /\ b.id \in Ids
    BY <1>1, <2>1, <2>2 DEF Request, Op, Complete
  <2> QED
    BY <2>1, <2>2, <2>4, ServeSlots DEF SlotOK, PC, UserOps, RoleOps, CopyOps
<1>5. CASE Login(w)
  <2>1. PICK a \in Requests, i \in Live :
          /\ a.op = "login"
          /\ LET ok == users[i].active /\ users[i].pw = a.pw
             IN  Serve(w, [a EXCEPT !.id = i], i, users[i],
                       IF ok THEN "reread" ELSE "audit")
    BY <1>5 DEF Login
  <2>2. DEFINE b == [a EXCEPT !.id = i]
  <2>3. b \in Request /\ Complete(b) /\ b.op = "login" /\ b.id \in Ids
    BY <1>1, <1>2, <2>1 DEF Request, Op, Complete
  <2> QED
    BY <1>2, <2>1, <2>3, ServeSlots DEF SlotOK, PC, UserOps, RoleOps, CopyOps
<1>6. CASE OidcKnown(w)
  BY <1>6 DEF OidcKnown, SlotsOK
<1>7. CASE OidcNew(w)
  BY <1>1, <1>7, ServeSlots
  DEF OidcNew, SlotOK, PC, UserOps, RoleOps, CopyOps
<1> QED BY <1>3, <1>4, <1>5, <1>6, <1>7


LEMMA AuthorizeSlots ==
  ASSUME TypeOK, SlotsOK, NEW w \in Slots, Authorize(w)
  PROVE  SlotsOK'
<1> DEFINE first == IF req[w].ask.op \in {"createUser", "createRole",
                                          "updateRole", "deleteRole"}
                    THEN "role" ELSE "load"
<1>1. Continue(w, PermOf[req[w].ask.op] \in perms[req[w].me.role], first)
      /\ req[w].pc = "perm"
  BY DEF Authorize
<1>2. first \in PC
  BY DEF PC
<1>3. SlotOK(req[w]) /\ req[w] \in Slot
  BY DEF SlotsOK
<1>4. SlotOK([req[w] EXCEPT !.pc = first])
  BY <1>1, <1>3
  DEF SlotOK, Slot, UserOps, RoleOps, CopyOps, Complete
<1> HIDE DEF first
<1> QED BY <1>1, <1>2, <1>4, ContinueSlots

LEMMA LoadUserSlots ==
  ASSUME TypeOK, SlotsOK, NEW w \in Slots, LoadUser(w)
  PROVE  SlotsOK'
<1> DEFINE a == req[w].ask
           r == [req[w] EXCEPT !.snap = users[a.id]]
<1>1. SlotOK(req[w]) /\ req[w] \in Slot /\ req[w].pc = "load"
  BY DEF SlotsOK, LoadUser
<1>2. CASE Answer(w)
  BY <1>2, AnswerSlots
<1>3. CASE /\ a.id \in Live
           /\ req' = [req EXCEPT ![w] = [r EXCEPT !.pc = AfterLoad(r)]]
  <2>1. users[a.id] \in Row
    BY <1>3 DEF TypeOK
  <2>2. AfterLoad(r) \in {"write", "email", "role", "guard"}
    BY DEF AfterLoad, AfterEmail, AfterChecks
  <2>3. /\ AfterLoad(r) = "email" => a.op = "updateUser" /\ a.email # None
        /\ AfterLoad(r) = "role" => a.op = "updateUser" /\ a.role # None
        /\ AfterLoad(r) = "guard" => a.op \in CopyOps
    BY <1>1 DEF AfterLoad, AfterEmail, AfterChecks, Slot, SlotOK, UserOps,
                CopyOps
  <2>4. [r EXCEPT !.pc = AfterLoad(r)] \in Slot
    BY <1>1, <2>1, <2>2 DEF Slot, PC
  <2>5. SlotOK([r EXCEPT !.pc = AfterLoad(r)])
    BY <1>1, <2>1, <2>2, <2>3
    DEF SlotOK, Slot, UserOps, RoleOps, CopyOps
  <2> QED BY <1>3, <2>4, <2>5 DEF SlotsOK
<1> QED BY <1>2, <1>3 DEF LoadUser

LEMMA CheckEmailSlots ==
  ASSUME TypeOK, SlotsOK, NEW w \in Slots, req[w].pc = "email"
  PROVE  /\ AfterEmail(req[w]) \in PC
         /\ SlotOK([req[w] EXCEPT !.pc = AfterEmail(req[w])])
<1>1. SlotOK(req[w]) /\ req[w] \in Slot
  BY DEF SlotsOK
<1>2. AfterEmail(req[w]) \in {"write", "role", "guard"}
  BY DEF AfterEmail, AfterChecks
<1>3. /\ AfterEmail(req[w]) = "role" => req[w].ask.op = "updateUser"
                                        /\ req[w].ask.role # None
      /\ AfterEmail(req[w]) = "guard" => req[w].ask.op = "updateUser"
  BY <1>1 DEF AfterEmail, AfterChecks, SlotOK, Slot, UserOps, CopyOps
<1>4. SlotOK([req[w] EXCEPT !.pc = AfterEmail(req[w])])
  BY <1>1, <1>2, <1>3 DEF SlotOK, Slot, UserOps, RoleOps, CopyOps
<1> QED BY <1>2, <1>4 DEF PC

LEMMA CheckAssignSlots ==
  ASSUME TypeOK, SlotsOK, NEW w \in Slots, req[w].pc = "assign"
  PROVE  /\ AfterChecks(req[w]) \in PC
         /\ SlotOK([req[w] EXCEPT !.pc = AfterChecks(req[w])])
<1>1. SlotOK(req[w]) /\ req[w] \in Slot
  BY DEF SlotsOK
<1>2. AfterChecks(req[w]) \in {"write", "guard"}
  BY DEF AfterChecks
<1>3. SlotOK([req[w] EXCEPT !.pc = AfterChecks(req[w])])
  BY <1>1, <1>2 DEF SlotOK, Slot, UserOps, RoleOps, CopyOps
<1> QED BY <1>2, <1>3 DEF PC

LEMMA CheckRoleSlots ==
  ASSUME TypeOK, SlotsOK, NEW w \in Slots, CheckRole(w)
  PROVE  SlotsOK'
<1> DEFINE a == req[w].ask
           next == AfterRole[a.op]
<1>1. SlotOK(req[w]) /\ req[w] \in Slot /\ req[w].pc = "role"
      /\ Continue(w, (a.role \in roles) # (a.op = "createRole"), next)
  BY DEF SlotsOK, CheckRole
<1>2. /\ a.op \in {"createUser", "updateUser", "createRole", "updateRole",
                   "deleteRole"}
      /\ next = CASE a.op = "createUser" -> "email"
                  [] a.op = "updateUser" -> "assign"
                  [] a.op = "deleteRole" -> "members"
                  [] OTHER -> "write"
  BY <1>1 DEF AfterRole, SlotOK, RoleOps
<1>3. SlotOK([req[w] EXCEPT !.pc = next])
  BY <1>1, <1>2 DEF SlotOK, Slot, UserOps, RoleOps, CopyOps, Complete
<1>4. next \in PC
  BY <1>2 DEF PC
<1> HIDE DEF next
<1> QED BY <1>1, <1>3, <1>4, ContinueSlots

\* After its last write a request is recorded, or answered with an error.
LEMMA EndSlots ==
  ASSUME SlotsOK, NEW w \in Slots,
         req[w].pc \notin {"idle", "perm", "load"},
         Goto(w, "audit") \/ Answer(w) \/ SignForNobody(w)
  PROVE  SlotsOK'
<1>1. SlotOK(req[w]) /\ req[w] \in Slot
  BY DEF SlotsOK
<1>2. SlotOK([req[w] EXCEPT !.pc = "audit"])
  BY <1>1 DEF SlotOK, Slot
<1>3. CASE SignForNobody(w)
  <2> DEFINE r == [req[w] EXCEPT !.pc = "audit", !.actor = None]
  <2>1. req' = [req EXCEPT ![w] = r]
    BY <1>3 DEF SignForNobody
  <2>2. r \in Slot /\ SlotOK(r)
    BY <1>1 DEF SlotOK, Slot, PC
  <2> HIDE DEF r
  <2> QED BY <2>1, <2>2 DEF SlotsOK
<1> QED BY <1>2, <1>3, AnswerSlots, GotoSlots DEF PC

LEMMA SetUserActiveSlots ==
  ASSUME SlotsOK, NEW w \in Slots, SetUserActive(w)
  PROVE  SlotsOK'
<1>1. SlotOK(req[w]) /\ req[w] \in Slot /\ req[w].pc = "write"
  BY DEF SlotsOK, SetUserActive, At
<1>2. CASE Goto(w, "audit")
  BY <1>1, <1>2, EndSlots
<1>3. CASE req[w].ask.op = "disableUser" /\ Goto(w, "revoke")
  <2>1. SlotOK([req[w] EXCEPT !.pc = "revoke"])
    BY <1>1, <1>3 DEF SlotOK, Slot, UserOps, RoleOps, CopyOps
  <2> QED BY <1>3, <2>1, GotoSlots DEF PC
<1> QED BY <1>2, <1>3 DEF SetUserActive, At

LEMMA GuardSlots ==
  ASSUME SlotsOK, NEW w \in Slots, GuardLastAdmin(w) \/ CheckMembers(w)
  PROVE  SlotsOK'
<1>1. SlotOK(req[w]) /\ req[w] \in Slot
  BY DEF SlotsOK
<1>2. CASE GuardLastAdmin(w)
  <2>1. SlotOK([req[w] EXCEPT !.pc = "write"])
    BY <1>1, <1>2 DEF GuardLastAdmin, SlotOK, Slot, UserOps, RoleOps, CopyOps
  <2> QED BY <1>2, <2>1, ContinueSlots DEF GuardLastAdmin, PC
<1>3. CASE CheckMembers(w)
  <2> DEFINE ok == /\ req[w].ask.role \in roles \ SystemRoles
                   /\ \A i \in Live : users[i].role # req[w].ask.role
  <2>1. ok => SlotOK([req[w] EXCEPT !.pc = "write"])
    BY <1>1, <1>3 DEF CheckMembers, SlotOK, Slot, UserOps, RoleOps, CopyOps
  <2>2. Continue(w, ok, "write")
    BY <1>3 DEF CheckMembers
  <2> HIDE DEF ok
  <2> QED BY <2>1, <2>2, ContinueSlots DEF PC
<1> QED BY <1>2, <1>3

\* Every step of a request in flight.
LEMMA StepSlots ==
  ASSUME TypeOK, SlotsOK, NEW w \in Slots, Step(w)
  PROVE  SlotsOK'
<1>1. CASE Authorize(w)
  BY <1>1, AuthorizeSlots
<1>2. CASE LoadUser(w)
  BY <1>2, LoadUserSlots
<1>3. CASE CheckEmail(w)
  BY <1>3, CheckEmailSlots, ContinueSlots DEF CheckEmail
<1>4. CASE CheckRole(w)
  BY <1>4, CheckRoleSlots
<1>5. CASE CheckAssign(w)
  BY <1>5, CheckAssignSlots, ContinueSlots DEF CheckAssign
<1>6. CASE GuardLastAdmin(w) \/ CheckMembers(w)
  BY <1>6, GuardSlots
<1>7. CASE SetUserActive(w)
  BY <1>7, SetUserActiveSlots
<1>8. CASE \/ InsertUser(w) \/ InsertOidcUser(w) \/ UpdateUser(w)
           \/ DeleteUser(w) \/ ResetPassword(w) \/ RevokeUserSessions(w)
           \/ WriteRole(w) \/ DeleteRole(w) \/ Reread(w) \/ Audit(w)
  <2>1. req[w].pc \notin {"idle", "perm", "load"}
    BY <1>8 DEF At, InsertUser, InsertOidcUser, UpdateUser, DeleteUser,
       ResetPassword, RevokeUserSessions, WriteRole, DeleteRole, Reread, Audit
  <2>2. Goto(w, "audit") \/ Answer(w) \/ SignForNobody(w)
    BY <1>8 DEF InsertUser, InsertOidcUser, UpdateUser, DeleteUser,
       ResetPassword, RevokeUserSessions, WriteRole, DeleteRole, Reread, Audit
  <2> QED BY <2>1, <2>2, EndSlots
<1> QED
  BY <1>1, <1>2, <1>3, <1>4, <1>5, <1>6, <1>7, <1>8 DEF Step

LEMMA FaultSlots ==
  ASSUME TypeOK, SlotsOK, NEW w \in Slots, StatementFails(w)
  PROVE  SlotsOK'
<1>1. CASE req[w].pc = "email"
  BY <1>1, CheckEmailSlots, GotoSlots DEF StatementFails
<1>2. CASE req[w].pc = "assign"
  BY <1>2, CheckAssignSlots, ContinueSlots DEF StatementFails
<1>3. CASE req[w].pc = "revoke"
  BY <1>3, EndSlots DEF StatementFails
<1>4. CASE req[w].pc \notin {"email", "assign", "revoke"}
  BY <1>4, AnswerSlots DEF StatementFails
<1> QED BY <1>1, <1>2, <1>3, <1>4

-----------------------------------------------------------------------------
(* The tables keep their types.                                            *)

LEMMA SetRowType ==
  ASSUME TypeOK, NEW i, NEW row, SetRow(i, row), i \in Live => row \in Row
  PROVE  Live' = Live /\ users' \in [Live -> Row]
BY DEF TypeOK, SetRow, Live

LEMMA AddRowType ==
  ASSUME TypeOK, NEW i \in Ids, NEW row \in Row, AddRow(i, row)
  PROVE  Live' = Live \cup {i} /\ users' \in [Live \cup {i} -> Row]
BY DEF TypeOK, AddRow, Live

\* Tables other than users, and the frame of a statement on users alone.
Tables == <<users, used, audited, roles, perms, issued>>

TablesOK == /\ Live \subseteq used /\ used \subseteq Ids
            /\ users \in [Live -> Row]
            /\ audited \subseteq Ids
            /\ roles \subseteq Roles
            /\ perms \in [Roles -> SUBSET Catalogue]
            /\ issued \subseteq Token

LEMMA UnchangedTables ==
  ASSUME TypeOK, UNCHANGED Tables
  PROVE  TablesOK'
BY DEF TypeOK, Tables, TablesOK, Live

\* The row updateUser writes.
LEMMA WrittenRow ==
  ASSUME SlotsOK, NEW w \in Slots, At(w, "write", {"updateUser"})
  PROVE  /\ NewRole(req[w]) \in Roles
         /\ NewActive(req[w]) \in BOOLEAN
         /\ req[w].snap \in Row
         /\ req[w].ask \in Request
<1>1. SlotOK(req[w])
  BY DEF SlotsOK
<1>2. req[w].snap \in Row /\ req[w].ask \in Request
  BY <1>1 DEF At, SlotOK, CopyOps
<1> QED BY <1>2 DEF At, NewRole, NewActive, Row, Request

LEMMA RowStatementsTables ==
  ASSUME TypeOK, SlotsOK, NEW w \in Slots,
         \/ UpdateUser(w) \/ DeleteUser(w) \/ SetUserActive(w)
         \/ ResetPassword(w) \/ RevokeUserSessions(w)
  PROVE  TablesOK'
<1> DEFINE a == req[w].ask
<1>1. /\ SlotOK(req[w]) /\ req[w].pc # "idle"
      /\ a \in Request /\ Complete(a)
  BY DEF SlotsOK, SlotOK, At, UpdateUser, DeleteUser, SetUserActive,
         ResetPassword, RevokeUserSessions
<1>2. TablesOK /\ \A i \in Live : users[i] \in Row
  BY DEF TypeOK, TablesOK
<1>3. ASSUME NEW i, NEW row, SetRow(i, row), OnlyUsers,
             i \in Live => row \in Row
      PROVE  TablesOK'
  <2>1. Live' = Live /\ users' \in [Live -> Row]
    BY <1>3, SetRowType
  <2> QED BY <1>2, <1>3, <2>1 DEF TablesOK, OnlyUsers
<1>4. CASE UNCHANGED users /\ OnlyUsers
  BY <1>4, UnchangedTables DEF OnlyUsers, Tables
<1>5. CASE UpdateUser(w)
  <2> DEFINE email == IF a.email # None THEN a.email ELSE req[w].snap.email
             row == [users[a.id] EXCEPT !.email = email,
                                        !.role = NewRole(req[w]),
                                        !.active = NewActive(req[w])]
  <2>1. /\ NewRole(req[w]) \in Roles /\ NewActive(req[w]) \in BOOLEAN
        /\ req[w].snap \in Row
    BY <1>5, WrittenRow DEF UpdateUser
  <2>2. email \in Emails
    BY <1>1, <2>1 DEF Request, Row
  <2>3. a.id \in Live => row \in Row
    BY <1>2, <2>1, <2>2 DEF Row
  <2>4. SetRow(a.id, row) \/ UNCHANGED users
    BY <1>5 DEF UpdateUser
  <2>5. OnlyUsers
    BY <1>5 DEF UpdateUser
  <2> HIDE DEF row
  <2> QED BY <1>3, <1>4, <2>3, <2>4, <2>5
<1>6. CASE DeleteUser(w)
  <2>1. \/ UNCHANGED users
        \/ users' = [j \in Live \ {a.id} |-> users[j]]
    BY <1>6 DEF DeleteUser
  <2>2. OnlyUsers
    BY <1>6 DEF DeleteUser
  <2>3. CASE users' = [j \in Live \ {a.id} |-> users[j]]
    BY <1>2, <2>2, <2>3 DEF TablesOK, OnlyUsers, Live
  <2> QED BY <1>4, <2>1, <2>2, <2>3
<1>7. CASE SetUserActive(w)
  <2> DEFINE row == [users[a.id] EXCEPT !.active = (a.op = "enableUser")]
  <2>1. SetRow(a.id, row) /\ OnlyUsers
    BY <1>7 DEF SetUserActive
  <2>2. a.id \in Live => row \in Row
    BY <1>2 DEF Row
  <2> QED BY <1>3, <2>1, <2>2
<1>8. CASE ResetPassword(w)
  <2> DEFINE row == [users[a.id] EXCEPT !.pw = a.pw, !.ver = @ + 1]
  <2>1. SetRow(a.id, row) /\ OnlyUsers
    BY <1>8 DEF ResetPassword
  <2>2. a.pw \in Passwords \cup {None}
    BY <1>1 DEF Request
  <2>3. ASSUME NEW u \in Row, NEW pw \in Passwords \cup {None}
        PROVE  [u EXCEPT !.pw = pw, !.ver = @ + 1] \in Row
    <3> DEFINE n == u.ver + 1
    <3>1. n \in Nat
      BY DEF Row
    <3> HIDE DEF n
    <3>2. [u EXCEPT !.pw = pw, !.ver = n] \in Row
      BY <3>1 DEF Row
    <3> QED BY <3>2 DEF n
  <2>4. a.id \in Live => row \in Row
    BY <1>2, <2>2, <2>3
  <2> QED BY <1>3, <2>1, <2>4
<1>9. CASE RevokeUserSessions(w)
  <2> DEFINE row == [users[a.id] EXCEPT !.ver = @ + 1]
  <2>1. SetRow(a.id, row) /\ OnlyUsers
    BY <1>9 DEF RevokeUserSessions
  <2>2. a.id \in Live => row \in Row
    BY <1>2 DEF Row
  <2> QED BY <1>3, <2>1, <2>2
<1> QED BY <1>5, <1>6, <1>7, <1>8, <1>9

LEMMA InsertStatementsTables ==
  ASSUME TypeOK, SlotsOK, NEW w \in Slots, InsertUser(w) \/ InsertOidcUser(w)
  PROVE  TablesOK'
<1> DEFINE a == req[w].ask
<1>1. TablesOK
  BY DEF TypeOK, TablesOK
<1>2. SlotOK(req[w]) /\ a \in Request /\ Complete(a)
  BY DEF SlotsOK, SlotOK, At, InsertUser, InsertOidcUser
<1>3. ASSUME NEW i \in Ids \ used, NEW row \in Row, AddRow(i, row)
      PROVE  /\ Live' \subseteq used' /\ used' \subseteq Ids
             /\ users' \in [Live' -> Row]
  <2>1. Live' = Live \cup {i} /\ users' \in [Live \cup {i} -> Row]
    BY <1>3, AddRowType
  <2> QED BY <1>1, <1>3, <2>1 DEF TablesOK, AddRow
<1>4. CASE InsertUser(w)
  <2> DEFINE row == [email |-> a.email, pw |-> a.pw, role |-> a.role,
                     active |-> a.active # FALSE, ver |-> 1]
  <2>1. row \in Row
    BY <1>2, <1>4 DEF InsertUser, At, Complete, Request, Row
  <2>2. UNCHANGED <<audited, roles, perms, issued>>
    BY <1>4 DEF InsertUser
  <2>3. UNCHANGED <<users, used>> \/ \E i \in Ids \ used : AddRow(i, row)
    BY <1>4 DEF InsertUser
  <2> HIDE DEF row
  <2>4. CASE UNCHANGED <<users, used>>
    BY <2>2, <2>4, UnchangedTables DEF Tables
  <2>5. CASE \E i \in Ids \ used : AddRow(i, row)
    BY <1>1, <1>3, <2>1, <2>2, <2>5 DEF TablesOK
  <2> QED BY <2>3, <2>4, <2>5
<1>5. CASE InsertOidcUser(w)
  <2> DEFINE row == [email |-> a.email, pw |-> None, role |-> DefaultRole,
                     active |-> TRUE, ver |-> 1]
  <2>1. row \in Row
    BY <1>2, <1>5, ConstantsAssumption
    DEF InsertOidcUser, At, Complete, Request, Row
  <2>2. UNCHANGED <<audited, roles, perms>>
    BY <1>5 DEF InsertOidcUser
  <2>3. \/ UNCHANGED <<users, used, issued>>
        \/ \E i \in Ids \ used : /\ AddRow(i, row)
                                /\ issued' = issued \cup {[user |-> i, ver |-> 1]}
    BY <1>5 DEF InsertOidcUser, TokenOf
  <2> HIDE DEF row
  <2>4. CASE UNCHANGED <<users, used, issued>>
    BY <2>2, <2>4, UnchangedTables DEF Tables
  <2>5. CASE \E i \in Ids \ used :
               AddRow(i, row) /\ issued' = issued \cup {[user |-> i, ver |-> 1]}
    <3>1. PICK i \in Ids \ used :
            AddRow(i, row) /\ issued' = issued \cup {[user |-> i, ver |-> 1]}
      BY <2>5
    <3>2. issued' \subseteq Token
      BY <1>1, <3>1 DEF TablesOK, Token
    <3> QED BY <1>1, <1>3, <2>1, <2>2, <3>1, <3>2 DEF TablesOK
  <2> QED BY <2>3, <2>4, <2>5
<1> QED BY <1>4, <1>5

LEMMA OtherStatementsTables ==
  ASSUME TypeOK, SlotsOK, NEW w \in Slots,
         WriteRole(w) \/ DeleteRole(w) \/ Reread(w) \/ Audit(w) \/ RereadFails(w)
  PROVE  TablesOK'
<1> DEFINE a == req[w].ask
<1>1. TablesOK
  BY DEF TypeOK, TablesOK
<1>2. SlotOK(req[w]) /\ a \in Request /\ Complete(a)
  BY DEF SlotsOK, SlotOK, At, WriteRole, DeleteRole, Reread, Audit, RereadFails
<1>3. CASE WriteRole(w)
  <2>1. a.role \in Roles
    BY <1>2, <1>3 DEF WriteRole, At, Complete, Request
  <2>2. UNCHANGED <<users, used, audited, issued, Live>>
    BY <1>3 DEF WriteRole, Live
  <2>3. \/ UNCHANGED <<roles, perms>>
        \/ /\ a.grants \subseteq Catalogue
           /\ roles' = roles \cup {a.role}
           /\ perms' = [perms EXCEPT ![a.role] = a.grants]
    BY <1>3 DEF WriteRole
  <2> QED BY <1>1, <2>1, <2>2, <2>3 DEF TablesOK
<1>4. CASE DeleteRole(w)
  BY <1>1, <1>4 DEF DeleteRole, TablesOK, Live
<1>5. CASE Reread(w) \/ RereadFails(w)
  <2>1. \/ issued' = issued \cup {NobodysToken}
        \/ a.id \in Live /\ issued' = issued \cup {TokenOf(a.id, users[a.id])}
    BY <1>5 DEF Reread, RereadFails, SignForNobody
  <2>2. issued' \subseteq Token
    BY <1>1, <2>1 DEF TablesOK, TokenOf, NobodysToken, Token, Row
  <2> QED BY <1>1, <1>5, <2>2 DEF Reread, RereadFails, TablesOK, Live
<1>6. CASE Audit(w)
  BY <1>1, <1>6 DEF Audit, TablesOK, Live
<1> QED BY <1>3, <1>4, <1>5, <1>6

LEMMA RestartTables ==
  ASSUME TypeOK, Restart
  PROVE  TablesOK'
<1> DEFINE row == [email |-> AdminEmail, pw |-> AdminPassword,
                   role |-> "ADMIN", active |-> TRUE, ver |-> 1]
<1>1. row \in Row
  BY ConstantsAssumption DEF Row
<1>2. /\ roles' = roles \cup SystemRoles
      /\ perms' = [r \in Roles |-> IF r \in SystemRoles
                                    THEN perms[r] \cup Seeds[r] ELSE perms[r]]
      /\ UNCHANGED <<audited, issued>>
  BY DEF Restart
<1>3. perms' \in [Roles -> SUBSET Catalogue] /\ roles' \subseteq Roles
  BY <1>2, ConstantsAssumption DEF TypeOK
<1>4. UNCHANGED <<users, used>> \/ \E i \in Ids \ used : AddRow(i, row)
  BY DEF Restart
<1> HIDE DEF row
<1>5. CASE UNCHANGED <<users, used>>
  BY <1>2, <1>3, <1>5 DEF TypeOK, TablesOK, Live
<1>6. CASE \E i \in Ids \ used : AddRow(i, row)
  <2>1. PICK i \in Ids \ used : AddRow(i, row)
    BY <1>6
  <2>2. Live' = Live \cup {i} /\ users' \in [Live \cup {i} -> Row]
    BY <1>1, <2>1, AddRowType
  <2> QED BY <1>2, <1>3, <2>1, <2>2 DEF TypeOK, TablesOK, AddRow
<1> QED BY <1>4, <1>5, <1>6

-----------------------------------------------------------------------------
(* The invariant.                                                          *)

\* A deleteRole on its way to the write holds a role that is not a system
\* role (SlotsOK): without it SystemRolesStay would not be inductive.
IInv == TypeOK /\ SlotsOK /\ SystemRolesStay /\ NoTokenFromFuture

LEMMA InitInvariant == Init => IInv
<1> SUFFICES ASSUME Init PROVE IInv
  OBVIOUS
<1>1. SlotsOK
  BY DEF Init, SlotsOK, SlotOK, Idle, Slot, PC
<1>2. TypeOK
  BY <1>1, StartAssumption DEF Init, TypeOK, SlotsOK, Live
<1>3. SystemRolesStay
  BY StartAssumption DEF Init, SystemRolesStay
<1>4. NoTokenFromFuture
  BY StartAssumption, ConstantsAssumption DEF Init, NoTokenFromFuture, Live
<1> QED BY <1>1, <1>2, <1>3, <1>4 DEF IInv

LEMMA NextSlots ==
  ASSUME TypeOK, SlotsOK, [Next]_vars
  PROVE  SlotsOK'
<1>1. CASE UNCHANGED vars
  BY <1>1 DEF vars, SlotsOK
<1>2. CASE Restart
  BY <1>2 DEF Restart, SlotsOK, SlotOK, Idle, Slot, PC
<1>3. ASSUME NEW w \in Slots,
             \/ Begin(w) \/ BeginChangePassword(w) \/ Login(w)
             \/ OidcKnown(w) \/ OidcNew(w)
      PROVE  SlotsOK'
  BY <1>3, BeginSlots
<1>4. ASSUME NEW w \in Slots, Step(w) \/ StatementFails(w) \/ RereadFails(w)
      PROVE  SlotsOK'
  BY <1>4, StepSlots, FaultSlots, EndSlots DEF RereadFails
<1> QED BY <1>1, <1>2, <1>3, <1>4 DEF Next

\* The statements that read, and those that start a request without writing.
Reads(w) == \/ Begin(w) \/ BeginChangePassword(w) \/ Login(w) \/ OidcNew(w)
            \/ Authorize(w) \/ LoadUser(w) \/ CheckEmail(w) \/ CheckRole(w)
            \/ CheckAssign(w) \/ GuardLastAdmin(w) \/ CheckMembers(w)
            \/ StatementFails(w)

LEMMA ReadsWriteNothing ==
  ASSUME NEW w \in Slots, Reads(w)
  PROVE  UNCHANGED Tables
BY DEF Reads, Tables, NoWrite, OnlyUsers, Begin, BeginChangePassword, Login,
       OidcNew, Authorize, LoadUser, CheckEmail, CheckRole, CheckAssign,
       GuardLastAdmin, CheckMembers, StatementFails

LEMMA NextTables ==
  ASSUME TypeOK, SlotsOK, [Next]_vars
  PROVE  TablesOK'
<1>1. CASE UNCHANGED vars
  BY <1>1, UnchangedTables DEF vars, Tables
<1>2. CASE Restart
  BY <1>2, RestartTables
<1>3. ASSUME NEW w \in Slots, Reads(w)
      PROVE  TablesOK'
  BY <1>3, ReadsWriteNothing, UnchangedTables
<1>4. ASSUME NEW w \in Slots, OidcKnown(w)
      PROVE  TablesOK'
  <2>1. PICK i \in Live : issued' = issued \cup {TokenOf(i, users[i])}
    BY <1>4 DEF OidcKnown
  <2>2. issued' \subseteq Token
    BY <2>1 DEF TypeOK, TokenOf, Token, Row
  <2> QED BY <1>4, <2>2 DEF OidcKnown, TypeOK, TablesOK, Live
<1>5. ASSUME NEW w \in Slots, Step(w) \/ RereadFails(w), ~Reads(w)
      PROVE  TablesOK'
  BY <1>5, RowStatementsTables, InsertStatementsTables, OtherStatementsTables
  DEF Step, Reads
<1>6. ASSUME NEW w \in Slots,
             \/ Begin(w) \/ BeginChangePassword(w) \/ Login(w)
             \/ OidcNew(w) \/ StatementFails(w)
      PROVE  Reads(w)
  BY <1>6 DEF Reads
<1> QED BY <1>1, <1>2, <1>3, <1>4, <1>5, <1>6 DEF Next

LEMMA NextTypeOK ==
  ASSUME TypeOK, SlotsOK, [Next]_vars
  PROVE  TypeOK'
BY NextSlots, NextTables DEF TypeOK, TablesOK, SlotsOK

-----------------------------------------------------------------------------
(* System roles.                                                           *)

LEMMA NextSystemRoles ==
  ASSUME IInv, [Next]_vars
  PROVE  SystemRolesStay'
<1>1. roles \subseteq roles' => SystemRolesStay'
  BY DEF IInv, SystemRolesStay
<1>2. CASE UNCHANGED vars
  BY <1>1, <1>2 DEF vars
<1>3. CASE Restart
  BY <1>1, <1>3 DEF Restart
<1>4. ASSUME NEW w \in Slots, Reads(w)
      PROVE  SystemRolesStay'
  BY <1>1, <1>4, ReadsWriteNothing DEF Tables
<1>5. ASSUME NEW w \in Slots, DeleteRole(w)
      PROVE  SystemRolesStay'
  <2>1. SlotOK(req[w]) /\ At(w, "write", {"deleteRole"})
    BY <1>5 DEF IInv, SlotsOK, DeleteRole
  <2>2. req[w].ask.role \notin SystemRoles
    BY <2>1 DEF SlotOK, At
  <2> QED BY <1>5, <2>2 DEF DeleteRole, IInv, SystemRolesStay
<1>6. ASSUME NEW w \in Slots,
             \/ OidcKnown(w) \/ Step(w) \/ RereadFails(w),
             ~Reads(w), ~DeleteRole(w)
      PROVE  SystemRolesStay'
  <2>1. roles \subseteq roles'
    BY <1>6 DEF OidcKnown, Step, Reads, OnlyUsers, InsertUser, InsertOidcUser,
       UpdateUser, DeleteUser, SetUserActive, ResetPassword,
       RevokeUserSessions, WriteRole, Reread, Audit, RereadFails
  <2> QED BY <1>1, <2>1
<1> QED BY <1>2, <1>3, <1>4, <1>5, <1>6 DEF Next, Reads

-----------------------------------------------------------------------------
(* Every step is a step of the session registry, or changes nothing of it. *)

LEMMA SameRegistry ==
  ASSUME UNCHANGED <<users, used, issued>>
  PROVE  UNCHANGED Registry!registryVars
BY DEF Registry!registryVars, Live

LEMMA SameVersion ==
  ASSUME TypeOK, NEW i, NEW row, SetRow(i, row), OnlyUsers,
         i \in Live => row.ver = users[i].ver
  PROVE  UNCHANGED Registry!registryVars
<1>1. Live' = Live
  BY DEF SetRow, Live
<1>2. \A j \in Live : users'[j].ver = users[j].ver
  BY DEF SetRow
<1> QED BY <1>1, <1>2 DEF Registry!registryVars, OnlyUsers

LEMMA OpenStep ==
  ASSUME TypeOK, NEW i \in Ids \ used, NEW row, row.ver = 1, AddRow(i, row),
         issued' \in {issued, issued \cup {TokenOf(i, row)}}
  PROVE  Registry!Open(i)
<1>1. Live' = Live \cup {i}
  BY DEF AddRow, Live
<1>2. i \notin Live /\ used' = used \cup {i}
  BY DEF TypeOK, AddRow
<1>3. \A j \in Live' : users'[j] = IF j = i THEN row ELSE users[j]
  BY <1>1 DEF AddRow
<1> QED
  BY <1>1, <1>2, <1>3
  DEF Registry!Open, Registry!Opened, Registry!SignedFor, TokenOf, TypeOK

LEMMA RevokeStep ==
  ASSUME TypeOK, NEW i \in Live, NEW row, SetRow(i, row), OnlyUsers,
         row.ver = users[i].ver + 1
  PROVE  Registry!Revoke(i)
<1>1. Live' = Live
  BY DEF SetRow, Live
<1>2. \A j \in Live : users'[j] = IF j = i THEN row ELSE users[j]
  BY DEF SetRow
<1> QED BY <1>1, <1>2 DEF Registry!Revoke, OnlyUsers

LEMMA SignStep ==
  ASSUME NEW i \in Live, UNCHANGED <<users, used>>,
         issued' = issued \cup {TokenOf(i, users[i])}
  PROVE  Registry!Sign(i)
BY DEF Registry!Sign, Registry!SignedFor, TokenOf, Live

LEMMA VoidStep ==
  ASSUME UNCHANGED <<users, used>>, issued' = issued \cup {NobodysToken}
  PROVE  Registry!SignForNobody
BY DEF Registry!SignForNobody, Registry!SignedFor, NobodysToken, Live

LEMMA CloseStep ==
  ASSUME TypeOK, NEW i \in Live, users' = [j \in Live \ {i} |-> users[j]],
         OnlyUsers
  PROVE  Registry!Close(i)
<1>1. Live' = Live \ {i}
  BY DEF Live
<1>2. used' \ Live' = (used \ Live) \cup {i}
  BY <1>1 DEF TypeOK, OnlyUsers
<1> QED BY <1>1, <1>2 DEF Registry!Close, Registry!Opened, OnlyUsers

LEMMA RegistryStep ==
  ASSUME TypeOK, SlotsOK, [Next]_vars
  PROVE  [Registry!Next]_(Registry!registryVars)
<1>0. Registry!Opened = Live /\ Live \subseteq Ids
  BY DEF Registry!Opened, TypeOK
<1>1. CASE UNCHANGED vars
  BY <1>1, SameRegistry DEF vars
<1>2. CASE Restart
  <2> DEFINE row == [email |-> AdminEmail, pw |-> AdminPassword,
                     role |-> "ADMIN", active |-> TRUE, ver |-> 1]
  <2>1. row.ver = 1
    OBVIOUS
  <2>2. /\ UNCHANGED <<users, used>> \/ \E i \in Ids \ used : AddRow(i, row)
        /\ UNCHANGED issued
    BY <1>2 DEF Restart
  <2> HIDE DEF row
  <2> QED BY <2>1, <2>2, SameRegistry, OpenStep DEF Registry!Next
<1>3. ASSUME NEW w \in Slots, Reads(w)
      PROVE  UNCHANGED Registry!registryVars
  BY <1>3, ReadsWriteNothing, SameRegistry DEF Tables
<1>4. ASSUME NEW w \in Slots, OidcKnown(w) \/ Reread(w) \/ RereadFails(w)
      PROVE  [Registry!Next]_(Registry!registryVars)
  <2>1. UNCHANGED <<users, used>>
    BY <1>4 DEF OidcKnown, Reread, RereadFails
  <2>2. \/ issued' = issued \cup {NobodysToken}
        \/ \E i \in Live : issued' = issued \cup {TokenOf(i, users[i])}
    BY <1>4 DEF OidcKnown, Reread, RereadFails, SignForNobody
  <2> QED BY <1>0, <2>1, <2>2, VoidStep, SignStep DEF Registry!Next
<1>5. ASSUME NEW w \in Slots, WriteRole(w) \/ DeleteRole(w) \/ Audit(w)
      PROVE  UNCHANGED Registry!registryVars
  BY <1>5, SameRegistry DEF WriteRole, DeleteRole, Audit
<1>6. ASSUME NEW w \in Slots, InsertUser(w)
      PROVE  [Registry!Next]_(Registry!registryVars)
  <2> DEFINE a == req[w].ask
             row == [email |-> a.email, pw |-> a.pw, role |-> a.role,
                     active |-> a.active # FALSE, ver |-> 1]
  <2>1. row.ver = 1
    OBVIOUS
  <2>2. /\ UNCHANGED issued
        /\ UNCHANGED <<users, used>> \/ \E i \in Ids \ used : AddRow(i, row)
    BY <1>6 DEF InsertUser
  <2> HIDE DEF row
  <2> QED BY <2>1, <2>2, SameRegistry, OpenStep DEF Registry!Next
<1>7. ASSUME NEW w \in Slots, InsertOidcUser(w)
      PROVE  [Registry!Next]_(Registry!registryVars)
  <2> DEFINE row == [email |-> req[w].ask.email, pw |-> None,
                     role |-> DefaultRole, active |-> TRUE, ver |-> 1]
  <2>1. row.ver = 1
    OBVIOUS
  <2>2. \/ UNCHANGED <<users, used, issued>>
        \/ \E i \in Ids \ used : /\ AddRow(i, row)
                                /\ issued' = issued \cup {TokenOf(i, row)}
    BY <1>7 DEF InsertOidcUser
  <2> HIDE DEF row
  <2> QED BY <2>1, <2>2, SameRegistry, OpenStep DEF Registry!Next
<1>8. ASSUME NEW w \in Slots, UpdateUser(w) \/ SetUserActive(w)
      PROVE  UNCHANGED Registry!registryVars
  <2>1. \A i \in Live : users[i] \in Row
    BY DEF TypeOK
  <2>2. CASE UpdateUser(w) /\ UNCHANGED users
    BY <2>2, SameRegistry DEF UpdateUser, OnlyUsers
  <2>3. CASE UpdateUser(w) /\ ~UNCHANGED users
    <3> DEFINE a == req[w].ask
               email == IF a.email # None THEN a.email ELSE req[w].snap.email
               row == [users[a.id] EXCEPT !.email = email,
                                          !.role = NewRole(req[w]),
                                          !.active = NewActive(req[w])]
    <3>1. SetRow(a.id, row) /\ OnlyUsers
      BY <2>3 DEF UpdateUser
    <3>2. a.id \in Live => row.ver = users[a.id].ver
      BY <2>1 DEF Row
    <3> HIDE DEF row
    <3> QED BY <3>1, <3>2, SameVersion
  <2>4. CASE SetUserActive(w)
    <3> DEFINE a == req[w].ask
               row == [users[a.id] EXCEPT !.active = (a.op = "enableUser")]
    <3>1. SetRow(a.id, row) /\ OnlyUsers
      BY <2>4 DEF SetUserActive
    <3>2. a.id \in Live => row.ver = users[a.id].ver
      BY <2>1 DEF Row
    <3> HIDE DEF row
    <3> QED BY <3>1, <3>2, SameVersion
  <2> QED BY <1>8, <2>2, <2>3, <2>4
<1>9. ASSUME NEW w \in Slots, ResetPassword(w) \/ RevokeUserSessions(w)
      PROVE  [Registry!Next]_(Registry!registryVars)
  <2> DEFINE a == req[w].ask
             row == IF ResetPassword(w)
                    THEN [users[a.id] EXCEPT !.pw = a.pw, !.ver = @ + 1]
                    ELSE [users[a.id] EXCEPT !.ver = @ + 1]
  <2>1. SetRow(a.id, row) /\ OnlyUsers
    BY <1>9 DEF ResetPassword, RevokeUserSessions
  <2>2. a.id \in Live => row.ver = users[a.id].ver + 1
    BY DEF TypeOK, Row
  <2> HIDE DEF row
  <2>3. CASE a.id \in Live
    BY <1>0, <2>1, <2>2, <2>3, RevokeStep DEF Registry!Next
  <2>4. CASE a.id \notin Live
    BY <2>1, <2>4, SameVersion
  <2> QED BY <2>3, <2>4
<1>10. ASSUME NEW w \in Slots, DeleteUser(w)
       PROVE  [Registry!Next]_(Registry!registryVars)
  <2> DEFINE i == req[w].ask.id
  <2>1. /\ OnlyUsers
        /\ UNCHANGED users \/ users' = [j \in Live \ {i} |-> users[j]]
    BY <1>10 DEF DeleteUser
  <2>2. CASE UNCHANGED users
    BY <2>1, <2>2, SameRegistry DEF OnlyUsers
  <2>3. CASE i \in Live /\ users' = [j \in Live \ {i} |-> users[j]]
    BY <1>0, <2>1, <2>3, CloseStep DEF Registry!Next
  <2>4. CASE i \notin Live /\ users' = [j \in Live \ {i} |-> users[j]]
    <3>1. users' = users
      BY <2>4 DEF Live, TypeOK
    <3> QED BY <2>1, <3>1, SameRegistry DEF OnlyUsers
  <2> QED BY <2>1, <2>2, <2>3, <2>4
<1> QED
  BY <1>1, <1>2, <1>3, <1>4, <1>5, <1>6, <1>7, <1>8, <1>9, <1>10
  DEF Next, Step, Reads

\* Versions only grow, new accounts have fresh ids, new tokens are current or
\* name nobody.
LEMMA VersionsGrow ==
  ASSUME TypeOK, SlotsOK, [Next]_vars
  PROVE  /\ \A i \in Live \cap Live' : users[i].ver <= users'[i].ver
         /\ \A i \in Live' \ Live : i \notin used
         /\ used \subseteq used'
         /\ \A t \in issued' \ issued :
              \/ t.user \in Live' /\ users'[t.user].ver = t.ver
              \/ t.user = None
<1> DEFINE V == [i \in Live |-> users[i].ver]
<1>1. [Registry!Next]_(Registry!registryVars)
  BY RegistryStep
<1>2. TablesOK /\ TablesOK'
  BY NextTables DEF TypeOK, TablesOK
<1>3. /\ DOMAIN V = Live /\ \A i \in Live : V[i] = users[i].ver /\ V[i] \in Nat
      /\ DOMAIN V' = Live' /\ \A i \in Live' : V'[i] = users'[i].ver
      /\ used = Live \cup (used \ Live) /\ used' = Live' \cup (used' \ Live')
  BY <1>2 DEF TablesOK, Row
<1>4. CASE UNCHANGED Registry!registryVars
  <2>1. V' = V /\ issued' = issued /\ used' \ Live' = used \ Live
    BY <1>4 DEF Registry!registryVars
  <2>2. Live' = Live
    BY <1>3, <2>1
  <2> HIDE DEF V
  <2> QED BY <1>3, <2>1, <2>2
<1>5. ASSUME NEW i \in Ids, Registry!Open(i)
      PROVE  /\ i \notin used /\ Live' = Live \cup {i} /\ used \subseteq used'
             /\ \A j \in Live' : V'[j] = IF j = i THEN 1 ELSE V[j]
             /\ issued' \subseteq issued \cup {[user |-> i, ver |-> 1]}
  <2>1. /\ i \notin Live \cup (used \ Live)
        /\ V' = [j \in Live \cup {i} |-> IF j = i THEN 1 ELSE V[j]]
        /\ issued' \in {issued, issued \cup {[user |-> i, ver |-> 1]}}
        /\ used' \ Live' = used \ Live
    BY <1>5 DEF Registry!Open, Registry!Opened, Registry!SignedFor
  <2> HIDE DEF V
  <2> QED BY <1>3, <2>1
<1>6. ASSUME NEW i \in Live, Registry!Sign(i)
      PROVE  /\ Live' = Live /\ used' = used /\ V' = V
             /\ issued' = issued \cup {[user |-> i, ver |-> V[i]]}
  <2>1. /\ V' = V /\ used' \ Live' = used \ Live
        /\ issued' = issued \cup {[user |-> i, ver |-> V[i]]}
    BY <1>6 DEF Registry!Sign, Registry!SignedFor
  <2> HIDE DEF V
  <2> QED BY <1>3, <2>1
<1>7. ASSUME NEW i \in Live, Registry!Revoke(i)
      PROVE  /\ Live' = Live /\ used' = used /\ issued' = issued
             /\ \A j \in Live : V'[j] = IF j = i THEN V[j] + 1 ELSE V[j]
  <2>1. /\ V' = [V EXCEPT ![i] = @ + 1] /\ used' \ Live' = used \ Live
        /\ issued' = issued
    BY <1>7 DEF Registry!Revoke
  <2> HIDE DEF V
  <2> QED BY <1>3, <2>1
<1>8. ASSUME NEW i \in Live, Registry!Close(i)
      PROVE  /\ Live' = Live \ {i} /\ used \subseteq used' /\ issued' = issued
             /\ \A j \in Live' : V'[j] = V[j]
  <2>1. /\ V' = [j \in Live \ {i} |-> V[j]] /\ issued' = issued
        /\ used' \ Live' = (used \ Live) \cup {i}
    BY <1>8 DEF Registry!Close, Registry!Opened
  <2> HIDE DEF V
  <2> QED BY <1>3, <2>1
<1>9. Registry!Opened = Live
  BY DEF Registry!Opened
<1>14. ASSUME Registry!SignForNobody
       PROVE  /\ Live' = Live /\ used' = used /\ V' = V
              /\ issued' = issued \cup {[user |-> None, ver |-> 0]}
  <2>1. /\ V' = V /\ used' \ Live' = used \ Live
        /\ issued' = issued \cup {[user |-> None, ver |-> 0]}
    BY <1>14 DEF Registry!SignForNobody, Registry!SignedFor
  <2> HIDE DEF V
  <2> QED BY <1>3, <2>1
<1> HIDE DEF V
<1>15. CASE Registry!SignForNobody
  BY <1>3, <1>14, <1>15
<1>10. CASE \E i \in Ids : Registry!Open(i)
  BY <1>3, <1>5, <1>10
<1>11. CASE \E i \in Live : Registry!Sign(i)
  BY <1>3, <1>6, <1>11
<1>12. CASE \E i \in Live : Registry!Revoke(i)
  BY <1>3, <1>7, <1>12
<1>13. CASE \E i \in Live : Registry!Close(i)
  BY <1>3, <1>8, <1>13
<1> QED
  BY <1>1, <1>4, <1>9, <1>10, <1>11, <1>12, <1>13, <1>15 DEF Registry!Next

LEMMA NextTokens ==
  ASSUME IInv, [Next]_vars
  PROVE  /\ NoTokenFromFuture'
         /\ \A t \in issued : Revoked(t) => Revoked(t)'
<1>1. TablesOK /\ TablesOK' /\ NoTokenFromFuture /\ TypeOK /\ SlotsOK
  BY NextTables DEF IInv, TypeOK, TablesOK
<1>2. Live \subseteq used /\ Live' \subseteq used' /\ used \subseteq used'
  BY <1>1, VersionsGrow DEF TablesOK
<1>3. ASSUME NEW i \in used, i \in Live'
      PROVE  /\ i \in Live
             /\ users[i].ver \in Nat /\ users'[i].ver \in Nat
             /\ users[i].ver <= users'[i].ver
  <2>1. i \in Live
    BY <1>1, <1>3, VersionsGrow
  <2>2. users[i].ver <= users'[i].ver
    BY <1>1, <1>3, <2>1, VersionsGrow
  <2>3. users[i].ver \in Nat /\ users'[i].ver \in Nat
    BY <1>1, <1>3, <2>1 DEF TablesOK, Row
  <2> QED BY <2>1, <2>2, <2>3
<1>0. None \notin Live'
  BY <1>1, ConstantsAssumption DEF TablesOK
<1>4. ASSUME NEW t \in issued
      PROVE  /\ t.user \in used \cup {None} /\ t.ver \in Nat
             /\ t.user \in Live => t.ver <= users[t.user].ver
  BY <1>1 DEF NoTokenFromFuture, TablesOK, Token
<1>5. ASSUME NEW t \in issued'
      PROVE  /\ t.user \in used' \cup {None}
             /\ t.user \in Live' => t.ver <= users'[t.user].ver
  <2>1. CASE t \in issued
    <3>1. t.user \in used' \cup {None}
      BY <1>2, <1>4, <2>1
    <3>2. ASSUME t.user \in Live'
          PROVE  t.ver <= users'[t.user].ver
      <4>1. /\ t.user \in Live
            /\ users[t.user].ver \in Nat /\ users'[t.user].ver \in Nat
            /\ users[t.user].ver <= users'[t.user].ver
        BY <1>0, <1>3, <1>4, <2>1, <3>2
      <4>2. t.ver \in Nat /\ t.ver <= users[t.user].ver
        BY <1>4, <2>1, <4>1
      <4> QED BY <4>1, <4>2
    <3> QED BY <3>1, <3>2
  <2>2. CASE t.user = None
    BY <1>0, <2>2
  <2>3. CASE t \notin issued /\ t.user # None
    <3>1. t.user \in Live' /\ users'[t.user].ver = t.ver
      BY <1>1, <2>3, VersionsGrow
    <3>2. t.ver \in Nat
      BY <1>1 DEF TablesOK, Token
    <3> QED BY <1>2, <3>1, <3>2
  <2> QED BY <2>1, <2>2, <2>3
<1>6. ASSUME NEW t \in issued, Revoked(t)
      PROVE  Revoked(t)'
  <2>1. CASE t.user \notin Live'
    BY <2>1 DEF Revoked
  <2>2. CASE t.user \in Live'
    <3>1. /\ t.user \in Live
          /\ users[t.user].ver \in Nat /\ users'[t.user].ver \in Nat
          /\ users[t.user].ver <= users'[t.user].ver
      BY <1>0, <1>3, <1>4, <2>2
    <3>2. t.ver \in Nat /\ t.ver <= users[t.user].ver
      BY <1>4, <3>1
    <3>3. users[t.user].ver # t.ver
      BY <1>6, <3>1 DEF Revoked
    <3>4. users'[t.user].ver # t.ver
      BY <3>1, <3>2, <3>3
    <3> QED BY <3>4 DEF Revoked
  <2> QED BY <2>1, <2>2
<1> QED BY <1>5, <1>6 DEF NoTokenFromFuture

LEMMA NextInvariant == IInv /\ [Next]_vars => IInv'
BY NextTypeOK, NextSlots, NextSystemRoles, NextTokens DEF IInv

\* The invariant holds in every reachable state.
THEOREM Invariant == Spec => []IInv
BY InitInvariant, NextInvariant, PTL DEF Spec

\* The variables keep their types through every request, fault and restart:
\* no handler writes an absent role or flag into a row.
THEOREM TypeCorrect == Spec => []TypeOK
BY Invariant, PTL DEF IInv

\* "Default roles (system)": no interleaving of role requests deletes one.
THEOREM SystemRolesAlways == Spec => []SystemRolesStay
BY Invariant, PTL DEF IInv

\* No token is ever ahead of the token_version of its user, the tokens signed
\* after a second read that failed included: they name nobody.
THEOREM TokensNeverAhead == Spec => []NoTokenFromFuture
BY Invariant, PTL DEF IInv

\* A revoked token, or one of a deleted user, is never accepted again,
\* whatever copies the requests in flight write back.
THEOREM RevokedForever == Spec => RevokedStaysRevoked
<1>1. IInv /\ [Next]_vars
        => [\A t \in issued : Revoked(t) => Revoked(t)']_vars
  BY NextTokens
<1> QED BY <1>1, Invariant, PTL DEF Spec, RevokedStaysRevoked

\* Accounts implements SessionRegistry, with users.token_version as the
\* versions and the deleted ids as the closed accounts.
THEOREM Implements == Spec => ImplementsRegistry
<1>1. Init => Registry!Init
  BY StartAssumption DEF Init, Registry!Init, Live
<1>2. IInv /\ [Next]_vars => [Registry!Next]_(Registry!registryVars)
  BY RegistryStep DEF IInv
<1> QED BY <1>1, <1>2, Invariant, PTL DEF Spec, ImplementsRegistry, Registry!Spec

-----------------------------------------------------------------------------
(* What one step does to the rows of users.                                *)

RowAdded == \E i \in Ids \ used, row \in Row :
              AddRow(i, row) /\ (Live = {} \/ ~EmailTaken(row.email, None))
RowGone == \E i : users' = [j \in Live \ {i} |-> users[j]]
RowChanged ==
  \E i, row : /\ SetRow(i, row)
              /\ i \in Live =>
                   /\ row.email = users[i].email \/ ~EmailTaken(row.email, i)
                   /\ row.pw = users[i].pw \/ row.ver = users[i].ver + 1

LEMMA UsersStep ==
  ASSUME TypeOK, SlotsOK, [Next]_vars
  PROVE  users' = users \/ RowAdded \/ RowGone \/ RowChanged
<1>1. CASE UNCHANGED vars
  BY <1>1 DEF vars
<1>2. CASE Restart
  <2> DEFINE row == [email |-> AdminEmail, pw |-> AdminPassword,
                     role |-> "ADMIN", active |-> TRUE, ver |-> 1]
  <2>1. row \in Row
    BY ConstantsAssumption DEF Row
  <2>2. users' = users \/ (Live = {} /\ \E i \in Ids \ used : AddRow(i, row))
    BY <1>2 DEF Restart
  <2> HIDE DEF row
  <2> QED BY <2>1, <2>2 DEF RowAdded
<1>3. ASSUME NEW w \in Slots,
             \/ Reads(w) \/ OidcKnown(w) \/ Reread(w) \/ WriteRole(w)
             \/ DeleteRole(w) \/ Audit(w) \/ RereadFails(w)
      PROVE  users' = users
  BY <1>3, ReadsWriteNothing
  DEF Tables, OidcKnown, Reread, WriteRole, DeleteRole, Audit, RereadFails
<1>4. ASSUME NEW w \in Slots, InsertUser(w) \/ InsertOidcUser(w)
      PROVE  users' = users \/ RowAdded
  <2> DEFINE a == req[w].ask
             row == IF InsertUser(w)
                    THEN [email |-> a.email, pw |-> a.pw, role |-> a.role,
                          active |-> a.active # FALSE, ver |-> 1]
                    ELSE [email |-> a.email, pw |-> None,
                          role |-> DefaultRole, active |-> TRUE, ver |-> 1]
  <2>1. SlotOK(req[w]) /\ a \in Request /\ Complete(a)
    BY <1>4 DEF SlotsOK, SlotOK, At, InsertUser, InsertOidcUser
  <2>2. CASE InsertUser(w)
    <3>1. row \in Row /\ row.email = a.email
      BY <2>1, <2>2 DEF InsertUser, At, Complete, Request, Row
    <3>2. \/ users' = users
          \/ ~EmailTaken(a.email, None) /\ \E i \in Ids \ used : AddRow(i, row)
      BY <2>2 DEF InsertUser
    <3> HIDE DEF row
    <3> QED BY <3>1, <3>2 DEF RowAdded
  <2>3. CASE InsertOidcUser(w) /\ ~InsertUser(w)
    <3>1. row \in Row /\ row.email = a.email
      BY <2>1, <2>3, ConstantsAssumption
      DEF InsertOidcUser, At, Complete, Request, Row
    <3>2. \/ users' = users
          \/ ~EmailTaken(a.email, None) /\ \E i \in Ids \ used : AddRow(i, row)
      BY <2>3 DEF InsertOidcUser
    <3> HIDE DEF row
    <3> QED BY <3>1, <3>2 DEF RowAdded
  <2> QED BY <1>4, <2>2, <2>3
<1>5. ASSUME NEW w \in Slots, DeleteUser(w)
      PROVE  users' = users \/ RowGone
  BY <1>5 DEF DeleteUser, RowGone
<1>6. ASSUME NEW i, NEW row, SetRow(i, row),
             i \in Live =>
               /\ row.email = users[i].email \/ ~EmailTaken(row.email, i)
               /\ row.pw = users[i].pw \/ row.ver = users[i].ver + 1
      PROVE  RowChanged
  BY <1>6 DEF RowChanged
<1>7. \A i \in Live : users[i] \in Row
  BY DEF TypeOK
<1>8. ASSUME NEW w \in Slots, UpdateUser(w)
      PROVE  users' = users \/ RowChanged
  <2> DEFINE a == req[w].ask
             email == IF a.email # None THEN a.email ELSE req[w].snap.email
             row == [users[a.id] EXCEPT !.email = email,
                                        !.role = NewRole(req[w]),
                                        !.active = NewActive(req[w])]
  <2>1. \/ users' = users
        \/ SetRow(a.id, row) /\ ~EmailTaken(email, a.id)
    BY <1>8 DEF UpdateUser
  <2>2. a.id \in Live => row.email = email /\ row.pw = users[a.id].pw
    BY <1>7 DEF Row
  <2> HIDE DEF row
  <2> QED BY <1>6, <2>1, <2>2
<1>9. ASSUME NEW w \in Slots, SetUserActive(w)
      PROVE  RowChanged
  <2> DEFINE a == req[w].ask
             row == [users[a.id] EXCEPT !.active = (a.op = "enableUser")]
  <2>1. SetRow(a.id, row)
    BY <1>9 DEF SetUserActive
  <2>2. a.id \in Live => row.email = users[a.id].email /\ row.pw = users[a.id].pw
    BY <1>7 DEF Row
  <2> HIDE DEF row
  <2> QED BY <1>6, <2>1, <2>2
<1>10. ASSUME NEW w \in Slots, ResetPassword(w) \/ RevokeUserSessions(w)
       PROVE  RowChanged
  <2> DEFINE a == req[w].ask
             row == IF ResetPassword(w)
                    THEN [users[a.id] EXCEPT !.pw = a.pw, !.ver = @ + 1]
                    ELSE [users[a.id] EXCEPT !.ver = @ + 1]
  <2>1. SetRow(a.id, row)
    BY <1>10 DEF ResetPassword, RevokeUserSessions
  <2>2. a.id \in Live => row.email = users[a.id].email
                         /\ row.ver = users[a.id].ver + 1
    BY <1>7 DEF Row
  <2> HIDE DEF row
  <2> QED BY <1>6, <2>1, <2>2
<1> QED
  BY <1>1, <1>2, <1>3, <1>4, <1>5, <1>8, <1>9, <1>10 DEF Next, Step, Reads

LEMMA NextEmails ==
  ASSUME TypeOK, SlotsOK, UniqueEmails, [Next]_vars
  PROVE  UniqueEmails'
<1>1. CASE users' = users
  BY <1>1 DEF UniqueEmails, Live
<1>2. CASE RowAdded
  <2>1. PICK i \in Ids \ used, row \in Row :
          AddRow(i, row) /\ (Live = {} \/ ~EmailTaken(row.email, None))
    BY <1>2 DEF RowAdded
  <2>2. /\ Live' = Live \cup {i} /\ i \notin Live
        /\ \A j \in Live' : users'[j] = IF j = i THEN row ELSE users[j]
    BY <2>1 DEF AddRow, Live, TypeOK
  <2>3. \A j \in Live : users[j].email # row.email
    BY <2>1, ConstantsAssumption DEF EmailTaken, TypeOK
  <2> QED BY <2>2, <2>3 DEF UniqueEmails
<1>3. CASE RowGone
  BY <1>3 DEF RowGone, UniqueEmails, Live
<1>4. CASE RowChanged
  <2>1. PICK i, row :
          /\ SetRow(i, row)
          /\ i \in Live => row.email = users[i].email \/ ~EmailTaken(row.email, i)
    BY <1>4 DEF RowChanged
  <2>2. /\ Live' = Live
        /\ \A j \in Live' : users'[j] = IF j = i THEN row ELSE users[j]
    BY <2>1 DEF SetRow, Live
  <2>3. i \in Live => \A j \in Live : j # i => users[j].email # row.email
    BY <2>1 DEF EmailTaken, UniqueEmails
  <2> QED BY <2>2, <2>3 DEF UniqueEmails
<1> QED BY <1>1, <1>2, <1>3, <1>4, UsersStep

\* Only the statement that moves the version to its next value changes a hash.
LEMMA PasswordMovesVersion ==
  ASSUME TypeOK, SlotsOK, [Next]_vars,
         NEW i \in Live, i \in Live', users[i].pw # users'[i].pw
  PROVE  users'[i].ver = users[i].ver + 1
<1>1. ~RowAdded /\ ~RowGone /\ users' # users
  <2>1. CASE RowAdded
    BY <2>1 DEF RowAdded, AddRow, TypeOK
  <2>2. CASE RowGone
    BY <2>2 DEF RowGone, Live
  <2> QED BY <2>1, <2>2
<1>2. RowChanged
  BY <1>1, UsersStep
<1>3. PICK j, row :
        /\ SetRow(j, row)
        /\ j \in Live => row.pw = users[j].pw \/ row.ver = users[j].ver + 1
  BY <1>2 DEF RowChanged
<1>4. users'[i] = IF i = j THEN row ELSE users[i]
  BY <1>3 DEF SetRow
<1> QED BY <1>3, <1>4

LEMMA NextPasswords ==
  ASSUME IInv, [Next]_vars,
         NEW i \in Live, i \in Live', users[i].pw # users'[i].pw,
         NEW t \in issued, t.user = i
  PROVE  Revoked(t)'
<1>1. TypeOK /\ SlotsOK /\ t.ver <= users[i].ver
  BY DEF IInv, NoTokenFromFuture
<1>2. users[i].ver \in Nat /\ t.ver \in Nat
  BY <1>1 DEF TypeOK, Row, Token
<1>3. users'[i].ver = users[i].ver + 1
  BY <1>1, PasswordMovesVersion
<1>4. users'[i].ver # t.ver
  BY <1>1, <1>2, <1>3
<1> QED BY <1>4 DEF Revoked

\* Two users never share an address.
THEOREM EmailsUnique == Spec => []UniqueEmails
<1>1. Init => UniqueEmails
  BY StartAssumption DEF Init, UniqueEmails, Live
<1>2. IInv /\ UniqueEmails /\ [Next]_vars => UniqueEmails'
  BY NextEmails DEF IInv
<1> QED BY <1>1, <1>2, Invariant, PTL DEF Spec

\* The statement that changes a password revokes every token signed for that
\* user so far.
THEOREM PasswordChangeEndsSessions == Spec => PasswordChangeRevokes
<1>1. IInv /\ [Next]_vars
        => [\A i \in Live : (i \in Live' /\ users[i].pw # users'[i].pw)
              => \A t \in issued : t.user = i => Revoked(t)']_vars
  BY NextPasswords
<1> QED BY <1>1, Invariant, PTL DEF Spec, PasswordChangeRevokes

-----------------------------------------------------------------------------
(* A login between its two reads, whatever runs beside it.                 *)

\* The row of the first read holds the password that was given, and as long as
\* the user is at the version of that row the password has not changed.
Verified(r) ==
  r.pc = "reread" =>
    /\ r.me \in Row /\ r.me.pw = r.ask.pw /\ r.ask.id \in used
    /\ r.ask.id \in Live =>
         /\ r.me.ver <= users[r.ask.id].ver
         /\ r.me.ver = users[r.ask.id].ver => users[r.ask.id].pw = r.me.pw

LoginsVerified == \A w \in Slots : Verified(req[w])

\* Only Login leads to the second read, and nothing changes a request there.
LEMMA OnlyLoginRereads ==
  ASSUME SlotsOK, [Next]_vars, NEW w \in Slots, req'[w].pc = "reread"
  PROVE  req'[w] = req[w] \/ Login(w)
<1>0. req \in [Slots -> Slot] /\ \A v \in Slots : SlotOK(req[v])
  BY DEF SlotsOK
<1>1. CASE UNCHANGED vars
  BY <1>1 DEF vars
<1>2. CASE Restart
  BY <1>2 DEF Restart, Idle
<1>3. ASSUME NEW v \in Slots, NEW pc, Goto(v, pc), pc # "reread"
      PROVE  req'[w] = req[w]
  BY <1>0, <1>3 DEF Goto, Slot
<1>4. ASSUME NEW v \in Slots, Answer(v) \/ SignForNobody(v)
      PROVE  req'[w] = req[w]
  BY <1>0, <1>4 DEF Answer, SignForNobody, Idle, Slot
<1>5. ASSUME NEW v \in Slots, NEW pc, NEW ok, Continue(v, ok, pc), pc # "reread"
      PROVE  req'[w] = req[w]
  BY <1>3, <1>4, <1>5 DEF Continue
<1>6. ASSUME NEW v \in Slots,
             Begin(v) \/ BeginChangePassword(v) \/ OidcKnown(v) \/ OidcNew(v)
      PROVE  req'[w] = req[w]
  BY <1>0, <1>6 DEF Begin, BeginChangePassword, OidcKnown, OidcNew, Serve
<1>7. ASSUME NEW v \in Slots, Login(v)
      PROVE  req'[w] = req[w] \/ Login(w)
  <2>1. CASE v = w
    BY <1>7, <2>1
  <2>2. CASE v # w
    <3>1. \E r : req' = [req EXCEPT ![v] = r]
      BY <1>7 DEF Login, Serve
    <3> QED BY <1>0, <2>2, <3>1
  <2> QED BY <2>1, <2>2
<1>8. ASSUME NEW r
      PROVE  AfterEmail(r) # "reread" /\ AfterChecks(r) # "reread"
             /\ AfterLoad(r) # "reread"
  BY DEF AfterEmail, AfterChecks, AfterLoad
<1>9. ASSUME NEW v \in Slots, Authorize(v)
      PROVE  req'[w] = req[w]
  BY <1>5, <1>9 DEF Authorize
<1>10. ASSUME NEW v \in Slots, LoadUser(v)
       PROVE  req'[w] = req[w]
  <2> DEFINE r == [req[v] EXCEPT !.snap = users[req[v].ask.id]]
  <2>1. CASE req' = [req EXCEPT ![v] = [r EXCEPT !.pc = AfterLoad(r)]]
    <3>1. v # w
      <4>1. [r EXCEPT !.pc = AfterLoad(r)].pc = AfterLoad(r)
        BY <1>0 DEF Slot
      <4> HIDE DEF r
      <4> QED BY <1>0, <1>8, <2>1, <4>1
    <3> QED BY <1>0, <2>1, <3>1
  <2>2. CASE Answer(v)
    BY <1>4, <2>2
  <2> QED BY <1>10, <2>1, <2>2 DEF LoadUser
<1>11. ASSUME NEW v \in Slots, CheckRole(v)
       PROVE  req'[w] = req[w]
  <2>1. req[v].ask.op \in RoleOps \cup {"updateUser"}
    BY <1>0, <1>11 DEF CheckRole, SlotOK
  <2>2. AfterRole[req[v].ask.op] # "reread"
    BY <2>1 DEF AfterRole, RoleOps
  <2> QED BY <1>5, <1>11, <2>2 DEF CheckRole
<1>12. ASSUME NEW v \in Slots,
              CheckEmail(v) \/ CheckAssign(v) \/ GuardLastAdmin(v) \/ CheckMembers(v)
       PROVE  req'[w] = req[w]
  BY <1>5, <1>8, <1>12 DEF CheckEmail, CheckAssign, GuardLastAdmin, CheckMembers
<1>13. ASSUME NEW v \in Slots,
              \/ InsertUser(v) \/ InsertOidcUser(v) \/ UpdateUser(v) \/ DeleteUser(v)
              \/ SetUserActive(v) \/ ResetPassword(v) \/ RevokeUserSessions(v)
              \/ WriteRole(v) \/ DeleteRole(v) \/ Reread(v) \/ Audit(v)
              \/ RereadFails(v)
       PROVE  req'[w] = req[w]
  <2>1. \/ Goto(v, "audit") \/ Goto(v, "revoke") \/ Answer(v) \/ SignForNobody(v)
    <3>1. CASE SetUserActive(v)
      BY <3>1 DEF SetUserActive
    <3>2. CASE UpdateUser(v)
      BY <3>2 DEF UpdateUser
    <3>3. CASE ~SetUserActive(v) /\ ~UpdateUser(v)
      BY <1>13, <3>3 DEF InsertUser, InsertOidcUser, DeleteUser, ResetPassword,
         RevokeUserSessions, WriteRole, DeleteRole, Reread, Audit, RereadFails
    <3> QED BY <3>1, <3>2, <3>3
  <2> QED BY <1>3, <1>4, <2>1
<1>14. ASSUME NEW v \in Slots, StatementFails(v)
       PROVE  req'[w] = req[w]
  <2>1. CASE req[v].pc \in {"email", "revoke"}
    BY <1>3, <1>8, <1>14, <2>1 DEF StatementFails
  <2>2. CASE req[v].pc = "assign"
    BY <1>5, <1>8, <1>14, <2>2 DEF StatementFails
  <2>3. CASE req[v].pc \notin {"email", "assign", "revoke"}
    BY <1>4, <1>14, <2>3 DEF StatementFails
  <2> QED BY <2>1, <2>2, <2>3
<1> QED
  BY <1>1, <1>2, <1>6, <1>7, <1>9, <1>10, <1>11, <1>12, <1>13, <1>14 DEF Next, Step

LEMMA NextVerified ==
  ASSUME IInv, LoginsVerified, [Next]_vars
  PROVE  LoginsVerified'
<1>1. TypeOK /\ SlotsOK /\ TypeOK'
  BY NextTypeOK DEF IInv
<1> SUFFICES ASSUME NEW w \in Slots, req'[w].pc = "reread"
             PROVE  Verified(req[w])'
  BY DEF LoginsVerified, Verified
<1>2. CASE req'[w] = req[w]
  <2> DEFINE i == req[w].ask.id
             m == req[w].me
  <2>1. /\ m \in Row /\ m.pw = req[w].ask.pw /\ i \in used
        /\ i \in Live => /\ m.ver <= users[i].ver
                         /\ m.ver = users[i].ver => users[i].pw = m.pw
    BY <1>2 DEF LoginsVerified, Verified
  <2>2. used \subseteq used'
    BY <1>1, VersionsGrow
  <2>3. ASSUME i \in Live'
        PROVE  /\ m.ver <= users'[i].ver
               /\ m.ver = users'[i].ver => users'[i].pw = m.pw
    <3>1. i \in Live /\ users[i].ver <= users'[i].ver
      BY <1>1, <2>1, <2>3, VersionsGrow
    <3>2. m.ver \in Nat /\ users[i].ver \in Nat /\ users'[i].ver \in Nat
      BY <1>1, <2>1, <2>3, <3>1 DEF TypeOK, Row
    <3>3. users'[i].pw = users[i].pw \/ users'[i].ver = users[i].ver + 1
      BY <1>1, <2>3, <3>1, PasswordMovesVersion
    <3> HIDE DEF i, m
    <3> QED BY <2>1, <3>1, <3>2, <3>3
  <2> QED BY <1>2, <2>1, <2>2, <2>3 DEF Verified
<1>3. CASE Login(w)
  <2>0. PICK a \in Requests, i \in Live :
          LET ok == users[i].active /\ users[i].pw = a.pw
          IN  Serve(w, [a EXCEPT !.id = i], i, users[i],
                    IF ok THEN "reread" ELSE "audit")
    BY <1>3 DEF Login
  <2>1. /\ users[i].active /\ users[i].pw = a.pw
        /\ Serve(w, [a EXCEPT !.id = i], i, users[i], "reread")
    <3>1. CASE users[i].active /\ users[i].pw = a.pw
      BY <2>0, <3>1
    <3>2. CASE ~(users[i].active /\ users[i].pw = a.pw)
      <4>1. Serve(w, [a EXCEPT !.id = i], i, users[i], "audit")
        BY <2>0, <3>2
      <4>2. req'[w].pc = "audit"
        BY <1>1, <4>1 DEF Serve, SlotsOK
      <4> QED BY <4>2
    <3> QED BY <3>1, <3>2
  <2>2. a \in Request /\ users[i] \in Row /\ users[i].ver \in Nat /\ i \in used
    BY <1>1, ConstantsAssumption DEF TypeOK, Row
  <2>3. /\ req'[w].me = users[i]
        /\ req'[w].ask.id = i /\ req'[w].ask.pw = a.pw
    BY <1>1, <2>1, <2>2 DEF SlotsOK, Serve, Request
  <2>4. users' = users /\ used' = used
    BY <1>3 DEF Login, NoWrite, OnlyUsers
  <2> QED BY <2>1, <2>2, <2>3, <2>4 DEF Verified, Live
<1> QED BY <1>1, <1>2, <1>3, OnlyLoginRereads

\* Whatever runs between the two reads of a login, a token at the version of the
\* first read is for the password the user still has.
THEOREM LoginsProvePasswords == Spec => LoginProvesPassword
<1>1. Init => LoginsVerified
  BY DEF Init, LoginsVerified, Verified, Idle
<1>2. IInv /\ LoginsVerified /\ [Next]_vars => LoginsVerified'
  BY NextVerified
<1>3. IInv /\ LoginsVerified /\ [Next]_vars =>
        [\A w \in Slots, i \in Live :
           (/\ req[w].pc = "reread" /\ req'[w].pc = "audit" /\ req[w].ask.id = i
            /\ TokenOf(i, users[i]) = TokenOf(i, req[w].me))
           => users[i].pw = req[w].ask.pw]_vars
  BY DEF LoginsVerified, Verified, TokenOf
<1> QED BY <1>1, <1>2, <1>3, Invariant, PTL DEF Spec, LoginProvesPassword

-----------------------------------------------------------------------------
(* One request at a time: what a handler has read is still so.             *)

\* What the one request in flight knows at a statement: its copy is the row,
\* the checks it has passed still hold.
Held(r, pc) ==
  /\ r.ask.op \in CopyOps /\ pc \in {"email", "role", "assign", "guard", "write"}
       => r.ask.id \in Live /\ users[r.ask.id] = r.snap
  /\ r.ask.op \in CopyOps /\ pc = "write" /\ AfterChecks(r) = "guard"
       => Cardinality(ActiveAdmins) > 1
  /\ r.ask.op = "createUser" /\ pc \in {"email", "write"} => r.ask.role \in roles
  /\ r.ask.op = "updateUser" /\ pc \in {"assign", "guard", "write"}
       => r.ask.role \in roles \cup {None}
  /\ r.ask.op = "updateUser" /\ pc \in {"guard", "write"}
       => \/ r.ask.role \in {None, r.snap.role}
          \/ "roles.assign" \in perms[r.me.role]
  /\ r.ask.op = "deleteRole" /\ pc = "write"
       => \A i \in Live : users[i].role # r.ask.role

Alone(s) == Slots = {s}
HeldBy(s) == req[s].pc # "idle" => Held(req[s], req[s].pc)

LEMMA Moved ==
  ASSUME SlotsOK, NEW s \in Slots, NEW pc, Goto(s, pc)
  PROVE  /\ req'[s].pc = pc
         /\ req'[s].ask = req[s].ask /\ req'[s].me = req[s].me
         /\ req'[s].snap = req[s].snap
         /\ AfterChecks(req'[s]) = AfterChecks(req[s])
<1>1. req[s] \in Slot /\ req'[s] = [req[s] EXCEPT !.pc = pc]
  BY DEF SlotsOK, Goto
<1>2. /\ req'[s].pc = pc
      /\ req'[s].ask = req[s].ask /\ req'[s].me = req[s].me
      /\ req'[s].snap = req[s].snap
  BY <1>1 DEF Slot
<1> QED BY <1>2 DEF AfterChecks, NewRole, NewActive

\* A request that has ended, or written, knows nothing any more.
LEMMA HeldAtEnd ==
  ASSUME NEW s \in Slots, req'[s].pc \in {"idle", "audit", "revoke", "perm", "load"}
  PROVE  HeldBy(s)'
BY DEF HeldBy, Held

LEMMA HeldOnGoto ==
  ASSUME SlotsOK, NEW s \in Slots, NEW pc, Goto(s, pc), UNCHANGED Tables,
         Held(req[s], pc)
  PROVE  HeldBy(s)'
BY Moved DEF HeldBy, Held, Tables, Live, ActiveAdmins

LEMMA HeldOnAnswer ==
  ASSUME SlotsOK, NEW s \in Slots, Answer(s)
  PROVE  HeldBy(s)'
<1>1. req'[s].pc = "idle"
  BY DEF SlotsOK, Answer, Idle
<1> QED BY <1>1, HeldAtEnd

LEMMA HeldOnContinue ==
  ASSUME SlotsOK, NEW s \in Slots, NEW pc, NEW ok, Continue(s, ok, pc),
         UNCHANGED Tables, ok => Held(req[s], pc)
  PROVE  HeldBy(s)'
BY HeldOnGoto, HeldOnAnswer DEF Continue

LEMMA HeldOnServe ==
  ASSUME SlotsOK, NEW s \in Slots, NEW a, NEW i, NEW row, NEW pc,
         Serve(s, a, i, row, pc), UNCHANGED Tables,
         \/ pc \in {"perm", "audit"}
         \/ pc = "write" /\ a.op \in {"oidc", "changePassword"}
         \/ pc = "reread" /\ a.op = "login"
  PROVE  HeldBy(s)'
<1>1. req'[s].pc = pc /\ req'[s].ask = a
  BY DEF SlotsOK, Serve
<1>2. CASE pc \in {"perm", "audit"}
  BY <1>1, <1>2, HeldAtEnd
<1>3. CASE pc \in {"write", "reread"}
  BY <1>1, <1>3 DEF HeldBy, Held, CopyOps, Tables, Live
<1> QED BY <1>2, <1>3

LEMMA HeldAtStart ==
  ASSUME TypeOK, SlotsOK, NEW s \in Slots, HeldBy(s),
         Begin(s) \/ BeginChangePassword(s) \/ Login(s) \/ OidcKnown(s) \/ OidcNew(s)
  PROVE  HeldBy(s)'
<1>1. CASE Begin(s)
  <2>1. UNCHANGED Tables
    BY <1>1 DEF Begin, NoWrite, OnlyUsers, Tables
  <2> QED BY <1>1, <2>1, HeldOnServe DEF Begin
<1>2. CASE BeginChangePassword(s)
  <2>1. UNCHANGED Tables
    BY <1>2 DEF BeginChangePassword, NoWrite, OnlyUsers, Tables
  <2>2. PICK t \in issued, a \in Requests :
          /\ a.op = "changePassword"
          /\ Serve(s, [a EXCEPT !.id = t.user], t.user, users[t.user], "write")
    BY <1>2 DEF BeginChangePassword
  <2>3. [a EXCEPT !.id = t.user].op = "changePassword"
    BY <2>2, ConstantsAssumption DEF Request
  <2> QED BY <2>1, <2>2, <2>3, HeldOnServe
<1>3. CASE Login(s)
  <2>1. UNCHANGED Tables
    BY <1>3 DEF Login, NoWrite, OnlyUsers, Tables
  <2>2. PICK a \in Requests, i \in Live :
          /\ a.op = "login"
          /\ LET ok == users[i].active /\ users[i].pw = a.pw
             IN  Serve(s, [a EXCEPT !.id = i], i, users[i],
                       IF ok THEN "reread" ELSE "audit")
    BY <1>3 DEF Login
  <2>3. DEFINE b == [a EXCEPT !.id = i]
  <2>4. b.op = "login"
    BY <2>2, ConstantsAssumption DEF Request
  <2> HIDE DEF b
  <2>5. \/ Serve(s, b, i, users[i], "audit")
        \/ Serve(s, b, i, users[i], "reread")
    BY <2>2 DEF b
  <2> QED BY <2>1, <2>4, <2>5, HeldOnServe
<1>4. CASE OidcKnown(s)
  <2>1. req[s].pc = "idle" /\ req' = req
    BY <1>4 DEF OidcKnown
  <2> QED BY <2>1, HeldAtEnd
<1>5. CASE OidcNew(s)
  <2>1. UNCHANGED Tables
    BY <1>5 DEF OidcNew, NoWrite, OnlyUsers, Tables
  <2> QED BY <1>5, <2>1, HeldOnServe DEF OidcNew
<1> QED BY <1>1, <1>2, <1>3, <1>4, <1>5

LEMMA HeldAfterLoad ==
  ASSUME TypeOK, SlotsOK, NEW s \in Slots, LoadUser(s)
  PROVE  HeldBy(s)'
<1> DEFINE a == req[s].ask
           r == [req[s] EXCEPT !.snap = users[a.id]]
<1>1. CASE Answer(s)
  BY <1>1, HeldOnAnswer
<1>2. CASE /\ a.id \in Live
           /\ req' = [req EXCEPT ![s] = [r EXCEPT !.pc = AfterLoad(r)]]
  <2>1. req[s] \in Slot /\ UNCHANGED Tables
    BY DEF SlotsOK, LoadUser, NoWrite, OnlyUsers, Tables
  <2>2. r.ask = a /\ r.snap = users[a.id]
    BY <2>1 DEF Slot
  <2>3. /\ req'[s].pc = AfterLoad(r) /\ req'[s].ask = a
        /\ req'[s].snap = r.snap /\ AfterChecks(req'[s]) = AfterChecks(r)
    <3>1. /\ req'[s].pc = AfterLoad(r) /\ req'[s].ask = a /\ req'[s].me = r.me
          /\ req'[s].snap = r.snap
      BY <1>2, <2>1 DEF SlotsOK, Slot
    <3> QED BY <2>2, <3>1 DEF AfterChecks, NewRole, NewActive
  <2>4. /\ AfterLoad(r) \in {"email", "role", "guard", "write"}
        /\ AfterLoad(r) \in {"guard", "write"} /\ a.op \in CopyOps
             => AfterLoad(r) = AfterChecks(r)
        /\ AfterLoad(r) \in {"guard", "write"} /\ a.op = "updateUser"
             => a.role = None
    BY <2>2 DEF AfterLoad, AfterEmail, AfterChecks, CopyOps
  <2>5. a.op \notin {"createUser", "deleteRole"}
    BY DEF LoadUser, SlotsOK, SlotOK, UserOps
  <2> HIDE DEF r, a
  <2> QED
    BY <1>2, <2>1, <2>2, <2>3, <2>4, <2>5 DEF HeldBy, Held, Tables, Live, a
<1> QED BY <1>1, <1>2 DEF LoadUser

LEMMA HeldAfterEmail ==
  ASSUME SlotsOK, NEW s \in Slots, req[s].pc = "email", HeldBy(s)
  PROVE  Held(req[s], AfterEmail(req[s]))
<1>1. req[s].ask.op \in {"createUser", "updateUser"}
  BY DEF SlotsOK, SlotOK
<1>2. Held(req[s], "email")
  BY DEF HeldBy
<1>3. CASE req[s].ask.op = "createUser"
  BY <1>2, <1>3 DEF AfterEmail, Held, CopyOps
<1>4. CASE req[s].ask.op = "updateUser" /\ req[s].ask.role # None
  BY <1>2, <1>4 DEF AfterEmail, Held, CopyOps
<1>5. CASE req[s].ask.op = "updateUser" /\ req[s].ask.role = None
  <2>1. /\ AfterEmail(req[s]) = AfterChecks(req[s])
        /\ AfterChecks(req[s]) \in {"guard", "write"}
    BY <1>5 DEF AfterEmail, AfterChecks
  <2> QED BY <1>2, <1>5, <2>1 DEF Held, CopyOps
<1> QED BY <1>1, <1>3, <1>4, <1>5

LEMMA HeldAfterAssign ==
  ASSUME SlotsOK, NEW s \in Slots, req[s].pc = "assign", HeldBy(s),
         \/ req[s].ask.role = req[s].snap.role
         \/ "roles.assign" \in perms[req[s].me.role]
  PROVE  Held(req[s], AfterChecks(req[s]))
<1>1. req[s].ask.op = "updateUser"
  BY DEF SlotsOK, SlotOK
<1>2. Held(req[s], "assign")
  BY DEF HeldBy
<1>3. AfterChecks(req[s]) \in {"guard", "write"}
  BY DEF AfterChecks
<1> QED BY <1>1, <1>2, <1>3 DEF Held, CopyOps

LEMMA HeldAfterRole ==
  ASSUME SlotsOK, NEW s \in Slots, CheckRole(s), HeldBy(s)
  PROVE  HeldBy(s)'
<1> DEFINE a == req[s].ask
<1>1. /\ req[s].pc = "role" /\ UNCHANGED Tables
      /\ Continue(s, (a.role \in roles) # (a.op = "createRole"), AfterRole[a.op])
  BY DEF CheckRole, NoWrite, OnlyUsers, Tables
<1>2. a.op \in RoleOps \cup {"updateUser"} /\ Held(req[s], "role")
  BY <1>1 DEF SlotsOK, SlotOK, HeldBy
<1>3. CASE a.op = "createUser"
  <2>1. a.role \in roles => Held(req[s], "email")
    BY <1>3 DEF Held, CopyOps
  <2>2. AfterRole[a.op] = "email" /\ (a.op = "createRole") = FALSE
    BY <1>3 DEF AfterRole
  <2>3. Continue(s, a.role \in roles, "email")
    BY <1>1, <2>2
  <2> QED BY <1>1, <2>1, <2>3, HeldOnContinue
<1>4. CASE a.op = "updateUser"
  <2>1. a.role \in roles => Held(req[s], "assign")
    BY <1>2, <1>4 DEF Held, CopyOps
  <2>2. AfterRole[a.op] = "assign" /\ (a.op = "createRole") = FALSE
    BY <1>4 DEF AfterRole
  <2>3. Continue(s, a.role \in roles, "assign")
    BY <1>1, <2>2
  <2> QED BY <1>1, <2>1, <2>3, HeldOnContinue
<1>5. CASE a.op \in {"createRole", "updateRole", "deleteRole"}
  <2>1. AfterRole[a.op] \in {"write", "members"}
        /\ (AfterRole[a.op] = "write" => a.op # "deleteRole")
    BY <1>5 DEF AfterRole
  <2>2. Held(req[s], AfterRole[a.op])
    BY <1>5, <2>1 DEF Held, CopyOps
  <2> QED BY <1>1, <2>2, HeldOnContinue
<1> QED BY <1>2, <1>3, <1>4, <1>5 DEF RoleOps

LEMMA HeldAfterGuard ==
  ASSUME SlotsOK, NEW s \in Slots, GuardLastAdmin(s) \/ CheckMembers(s), HeldBy(s)
  PROVE  HeldBy(s)'
<1>1. UNCHANGED Tables
  BY DEF GuardLastAdmin, CheckMembers, NoWrite, OnlyUsers, Tables
<1>2. CASE GuardLastAdmin(s)
  <2>1. req[s].ask.op \in CopyOps /\ Held(req[s], "guard")
    BY <1>2 DEF GuardLastAdmin, SlotsOK, SlotOK, HeldBy
  <2>2. Cardinality(ActiveAdmins) > 1 => Held(req[s], "write")
    BY <2>1 DEF Held, CopyOps
  <2> QED BY <1>1, <1>2, <2>2, HeldOnContinue DEF GuardLastAdmin
<1>3. CASE CheckMembers(s)
  <2> DEFINE ok == /\ req[s].ask.role \in roles \ SystemRoles
                   /\ \A i \in Live : users[i].role # req[s].ask.role
  <2>1. req[s].ask.op = "deleteRole" /\ Continue(s, ok, "write")
    BY <1>3 DEF CheckMembers, SlotsOK, SlotOK
  <2>2. ok => Held(req[s], "write")
    BY <2>1 DEF Held, CopyOps
  <2> HIDE DEF ok
  <2> QED BY <1>1, <2>1, <2>2, HeldOnContinue
<1> QED BY <1>2, <1>3

LEMMA HeldAfterStep ==
  ASSUME TypeOK, SlotsOK, NEW s \in Slots, HeldBy(s),
         Step(s) \/ StatementFails(s) \/ RereadFails(s)
  PROVE  HeldBy(s)'
<1>1. CASE Authorize(s)
  <2> DEFINE first == IF req[s].ask.op \in {"createUser", "createRole",
                                            "updateRole", "deleteRole"}
                      THEN "role" ELSE "load"
  <2>1. /\ Continue(s, PermOf[req[s].ask.op] \in perms[req[s].me.role], first)
        /\ UNCHANGED Tables
    BY <1>1 DEF Authorize, NoWrite, OnlyUsers, Tables
  <2>2. Held(req[s], first)
    BY DEF Held, CopyOps
  <2> HIDE DEF first
  <2> QED BY <2>1, <2>2, HeldOnContinue
<1>2. CASE LoadUser(s)
  BY <1>2, HeldAfterLoad
<1>3. CASE CheckEmail(s)
  BY <1>3, HeldAfterEmail, HeldOnContinue DEF CheckEmail, NoWrite, OnlyUsers, Tables
<1>4. CASE CheckRole(s)
  BY <1>4, HeldAfterRole
<1>5. CASE CheckAssign(s)
  BY <1>5, HeldAfterAssign, HeldOnContinue
  DEF CheckAssign, NoWrite, OnlyUsers, Tables
<1>6. CASE GuardLastAdmin(s) \/ CheckMembers(s)
  BY <1>6, HeldAfterGuard
<1>7. ASSUME NEW pc \in {"audit", "revoke"}, Goto(s, pc)
      PROVE  HeldBy(s)'
  BY <1>7, Moved, HeldAtEnd
<1>8. CASE \/ InsertUser(s) \/ InsertOidcUser(s) \/ UpdateUser(s)
           \/ DeleteUser(s) \/ SetUserActive(s) \/ ResetPassword(s)
           \/ RevokeUserSessions(s) \/ WriteRole(s) \/ DeleteRole(s) \/ Reread(s)
           \/ Audit(s) \/ RereadFails(s)
  <2>1. Goto(s, "audit") \/ Goto(s, "revoke") \/ Answer(s) \/ SignForNobody(s)
    <3>1. CASE SetUserActive(s)
      BY <3>1 DEF SetUserActive
    <3>2. CASE UpdateUser(s)
      BY <3>2 DEF UpdateUser
    <3>3. CASE ~SetUserActive(s) /\ ~UpdateUser(s)
      BY <1>8, <3>3 DEF InsertUser, InsertOidcUser, DeleteUser, ResetPassword,
         RevokeUserSessions, WriteRole, DeleteRole, Reread, Audit, RereadFails
    <3> QED BY <3>1, <3>2, <3>3
  <2>2. SignForNobody(s) => req'[s].pc = "audit"
    BY DEF SignForNobody, SlotsOK, Slot
  <2> QED BY <1>7, <2>1, <2>2, HeldOnAnswer, HeldAtEnd
<1>9. CASE StatementFails(s)
  <2>1. UNCHANGED Tables
    BY <1>9 DEF StatementFails, NoWrite, OnlyUsers, Tables
  <2>2. CASE req[s].pc = "email"
    BY <1>9, <2>1, <2>2, HeldAfterEmail, HeldOnGoto DEF StatementFails
  <2>3. CASE req[s].pc = "assign"
    BY <1>9, <2>1, <2>3, HeldAfterAssign, HeldOnContinue DEF StatementFails
  <2>4. CASE req[s].pc = "revoke"
    BY <1>7, <1>9, <2>4 DEF StatementFails
  <2>5. CASE req[s].pc \notin {"email", "assign", "revoke"}
    BY <1>9, <2>5, HeldOnAnswer DEF StatementFails
  <2> QED BY <2>2, <2>3, <2>4, <2>5
<1> QED BY <1>1, <1>2, <1>3, <1>4, <1>5, <1>6, <1>8, <1>9 DEF Step

LEMMA NextHeld ==
  ASSUME NEW s, Alone(s), TypeOK, SlotsOK, HeldBy(s), [Next]_vars
  PROVE  HeldBy(s)'
<1>1. s \in Slots
  BY DEF Alone
<1>2. CASE UNCHANGED vars
  BY <1>2 DEF vars, HeldBy, Held, Live, ActiveAdmins
<1>3. CASE Restart
  BY <1>1, <1>3, HeldAtEnd DEF Restart, Idle
<1>4. CASE \/ Begin(s) \/ BeginChangePassword(s) \/ Login(s) \/ OidcKnown(s)
           \/ OidcNew(s)
  BY <1>1, <1>4, HeldAtStart
<1>5. CASE Step(s) \/ StatementFails(s) \/ RereadFails(s)
  BY <1>1, <1>5, HeldAfterStep
<1> QED BY <1>2, <1>3, <1>4, <1>5 DEF Next, Alone

-----------------------------------------------------------------------------
(* What one request at a time does to administrators and roles.            *)

\* The guard leaves an administrator beside the one it is asked about.
LEMMA AnotherAdmin ==
  ASSUME Cardinality(ActiveAdmins) > 1, NEW i
  PROVE  \E j \in ActiveAdmins : j # i
<1>1. ASSUME ActiveAdmins = {}
      PROVE  FALSE
  BY <1>1, FS_EmptySet
<1>2. ASSUME ActiveAdmins = {i}
      PROVE  FALSE
  BY <1>2, FS_Singleton
<1> QED BY <1>1, <1>2

\* What the row statements leave of the other rows, and of the row itself.
LEMMA OthersStay ==
  ASSUME NEW i, NEW row, SetRow(i, row), NEW j \in ActiveAdmins, j # i
  PROVE  j \in ActiveAdmins'
BY DEF SetRow, ActiveAdmins, Live

LEMMA UpdatedRow ==
  ASSUME TypeOK, SlotsOK, NEW s \in Slots, HeldBy(s), UpdateUser(s), users' # users
  PROVE  LET r == req[s]
             i == r.ask.id
             email == IF r.ask.email # None THEN r.ask.email ELSE r.snap.email
         IN  /\ i \in Live /\ users[i] = r.snap /\ users[i] \in Row
             /\ SetRow(i, [users[i] EXCEPT !.email = email, !.role = NewRole(r),
                                           !.active = NewActive(r)])
             /\ Held(r, "write") /\ r.ask.op = "updateUser"
<1>1. req[s].pc = "write" /\ req[s].ask.op = "updateUser"
  BY DEF UpdateUser, At
<1>2. Held(req[s], "write")
  BY <1>1 DEF HeldBy
<1>3. req[s].ask.id \in Live /\ users[req[s].ask.id] = req[s].snap
  BY <1>1, <1>2 DEF Held, CopyOps
<1>4. users[req[s].ask.id] \in Row
  BY <1>3 DEF TypeOK
<1> QED BY <1>1, <1>2, <1>3, <1>4 DEF UpdateUser

LEMMA UpdateKeepsAdmin ==
  ASSUME TypeOK, SlotsOK, NEW s \in Slots, HeldBy(s), AdminRemains, UpdateUser(s)
  PROVE  AdminRemains'
<1> DEFINE r == req[s]
           i == r.ask.id
           email == IF r.ask.email # None THEN r.ask.email ELSE r.snap.email
           row == [users[i] EXCEPT !.email = email, !.role = NewRole(r),
                                   !.active = NewActive(r)]
<1>1. CASE users' = users
  BY <1>1 DEF AdminRemains, ActiveAdmins, Live
<1>2. CASE users' # users
  <2>1. /\ i \in Live /\ users[i] = r.snap /\ users[i] \in Row /\ SetRow(i, row)
        /\ Held(r, "write") /\ r.ask.op = "updateUser"
    BY <1>2, UpdatedRow
  <2>2. row.role = NewRole(r) /\ row.active = NewActive(r)
    BY <2>1 DEF Row
  <2> HIDE DEF row
  <2>3. CASE AfterChecks(r) = "guard"
    <3>1. Cardinality(ActiveAdmins) > 1
      BY <2>1, <2>3 DEF Held, CopyOps
    <3>2. PICK j \in ActiveAdmins : j # i
      BY <3>1, AnotherAdmin
    <3> QED BY <2>1, <3>2, OthersStay DEF AdminRemains
  <2>4. CASE AfterChecks(r) # "guard"
    <3>1. PICK j \in ActiveAdmins : TRUE
      BY DEF AdminRemains
    <3>2. CASE j = i
      <4>1. NewRole(r) = "ADMIN" /\ NewActive(r)
        BY <2>1, <2>4, <3>2 DEF AfterChecks, ActiveAdmins
      <4>2. i \in Live' /\ users'[i] = row
        BY <2>1 DEF SetRow, Live
      <4> QED BY <2>2, <4>1, <4>2 DEF AdminRemains, ActiveAdmins
    <3> QED BY <2>1, <3>1, <3>2, OthersStay DEF AdminRemains
  <2> QED BY <2>3, <2>4
<1> QED BY <1>1, <1>2

LEMMA RemovalKeepsAdmin ==
  ASSUME TypeOK, SlotsOK, NEW s \in Slots, HeldBy(s), AdminRemains,
         DeleteUser(s) \/ SetUserActive(s)
  PROVE  AdminRemains'
<1> DEFINE r == req[s]
           i == r.ask.id
<1>1. r.pc = "write" /\ r.ask.op \in {"deleteUser", "disableUser", "enableUser"}
  BY DEF DeleteUser, SetUserActive, At
<1>2. Held(r, "write")
  BY <1>1 DEF HeldBy
<1>3. i \in Live /\ users[i] = r.snap /\ users[i] \in Row
  <2>1. i \in Live /\ users[i] = r.snap
    BY <1>1, <1>2 DEF Held, CopyOps
  <2> QED BY <2>1 DEF TypeOK
<1>4. CASE r.ask.op = "enableUser"
  <2> DEFINE row == [users[i] EXCEPT !.active = TRUE]
  <2>1. SetRow(i, row)
    BY <1>1, <1>4 DEF DeleteUser, SetUserActive, At
  <2>2. row.role = users[i].role /\ row.active
    BY <1>3 DEF Row
  <2> HIDE DEF row
  <2>3. \A j \in ActiveAdmins : j \in ActiveAdmins'
    BY <2>1, <2>2 DEF SetRow, ActiveAdmins, Live
  <2> QED BY <2>3 DEF AdminRemains
<1>5. CASE r.ask.op \in {"deleteUser", "disableUser"}
  <2>1. PICK j \in ActiveAdmins : j # i
    <3>1. CASE users[i].role = "ADMIN"
      <4>1. AfterChecks(r) = "guard"
        BY <1>3, <1>5, <3>1 DEF AfterChecks, NewActive
      <4> QED BY <1>1, <1>2, <4>1, AnotherAdmin DEF Held, CopyOps
    <3>2. CASE users[i].role # "ADMIN"
      BY <3>2 DEF AdminRemains, ActiveAdmins
    <3> QED BY <3>1, <3>2
  <2>2. \/ users' = users
        \/ users' = [k \in Live \ {i} |-> users[k]]
        \/ \E row : SetRow(i, row)
    BY DEF DeleteUser, SetUserActive
  <2>3. j \in ActiveAdmins'
    BY <2>1, <2>2, OthersStay DEF ActiveAdmins, Live
  <2> QED BY <2>3 DEF AdminRemains
<1> QED BY <1>1, <1>4, <1>5

\* Adding a row, a new password and a new version leave roles and flags alone.
LEMMA AddingKeepsAdmin ==
  ASSUME TypeOK, AdminRemains, NEW i \in Ids \ used, NEW row, AddRow(i, row)
  PROVE  AdminRemains'
<1>1. i \notin Live
  BY DEF TypeOK
<1>2. \A j \in ActiveAdmins : j \in ActiveAdmins'
  BY <1>1 DEF AddRow, ActiveAdmins, Live
<1> QED BY <1>2 DEF AdminRemains

SameRoles == /\ Live' = Live
             /\ \A j \in Live : users'[j].role = users[j].role
                                /\ users'[j].active = users[j].active

LEMMA VersionKeepsRoles ==
  ASSUME TypeOK, SlotsOK, NEW s \in Slots, ResetPassword(s) \/ RevokeUserSessions(s)
  PROVE  SameRoles
<1> DEFINE i == req[s].ask.id
<1>1. PICK row : /\ SetRow(i, row)
                 /\ i \in Live => row.role = users[i].role
                                  /\ row.active = users[i].active
  <2>1. i \in Live => users[i] \in Row
    BY DEF TypeOK
  <2>2. CASE ResetPassword(s)
    <3> DEFINE row == [users[i] EXCEPT !.pw = req[s].ask.pw, !.ver = @ + 1]
    <3>1. SetRow(i, row)
      BY <2>2 DEF ResetPassword
    <3>2. i \in Live => row.role = users[i].role /\ row.active = users[i].active
      BY <2>1 DEF Row
    <3> QED BY <3>1, <3>2
  <2>3. CASE RevokeUserSessions(s)
    <3> DEFINE row == [users[i] EXCEPT !.ver = @ + 1]
    <3>1. SetRow(i, row)
      BY <2>3 DEF RevokeUserSessions
    <3>2. i \in Live => row.role = users[i].role /\ row.active = users[i].active
      BY <2>1 DEF Row
    <3> QED BY <3>1, <3>2
  <2> QED BY <2>2, <2>3
<1> QED BY <1>1 DEF SameRoles, SetRow, Live

\* Steps that touch no row of users.
NoRow(s) == \/ Reads(s) \/ OidcKnown(s) \/ WriteRole(s) \/ DeleteRole(s)
            \/ Reread(s) \/ Audit(s) \/ RereadFails(s)

LEMMA NoRowKeeps ==
  ASSUME NEW s \in Slots, NoRow(s)
  PROVE  users' = users
<1>1. CASE Reads(s)
  BY <1>1, ReadsWriteNothing DEF Tables
<1>2. CASE ~Reads(s)
  BY <1>2 DEF NoRow, OidcKnown, WriteRole, DeleteRole, Reread, Audit, RereadFails
<1> QED BY <1>1, <1>2

LEMMA NextAlone ==
  ASSUME NEW s, Alone(s), [Next]_vars
  PROVE  \/ users' = users /\ (UNCHANGED vars \/ NoRow(s))
         \/ Restart
         \/ InsertUser(s) \/ InsertOidcUser(s)
         \/ UpdateUser(s) \/ DeleteUser(s) \/ SetUserActive(s)
         \/ ResetPassword(s) \/ RevokeUserSessions(s)
<1>1. s \in Slots
  BY DEF Alone
<1>2. CASE UNCHANGED vars
  BY <1>2 DEF vars
<1>3. NoRow(s) => users' = users
  BY <1>1, NoRowKeeps
<1>4. ASSUME \/ Begin(s) \/ BeginChangePassword(s) \/ Login(s) \/ OidcKnown(s)
             \/ OidcNew(s) \/ Step(s) \/ StatementFails(s) \/ RereadFails(s),
             ~NoRow(s)
      PROVE  \/ InsertUser(s) \/ InsertOidcUser(s)
             \/ UpdateUser(s) \/ DeleteUser(s) \/ SetUserActive(s)
             \/ ResetPassword(s) \/ RevokeUserSessions(s)
  BY <1>4 DEF NoRow, Reads, Step
<1> QED BY <1>2, <1>3, <1>4 DEF Next, Alone

LEMMA NextAdmins ==
  ASSUME NEW s, Alone(s), TypeOK, SlotsOK, HeldBy(s), AdminRemains, [Next]_vars
  PROVE  AdminRemains'
<1>1. s \in Slots
  BY DEF Alone
<1>2. CASE users' = users
  BY <1>2 DEF AdminRemains, ActiveAdmins, Live
<1>3. CASE Restart
  BY <1>2, <1>3 DEF Restart, AdminRemains, ActiveAdmins
<1>4. CASE UpdateUser(s)
  BY <1>1, <1>4, UpdateKeepsAdmin
<1>5. CASE DeleteUser(s) \/ SetUserActive(s)
  BY <1>1, <1>5, RemovalKeepsAdmin
<1>6. CASE InsertUser(s) \/ InsertOidcUser(s)
  <2>1. users' = users \/ \E i \in Ids \ used : \E row : AddRow(i, row)
    BY <1>6 DEF InsertUser, InsertOidcUser
  <2> QED BY <1>2, <2>1, AddingKeepsAdmin
<1>7. CASE ResetPassword(s) \/ RevokeUserSessions(s)
  BY <1>1, <1>7, VersionKeepsRoles DEF SameRoles, AdminRemains, ActiveAdmins
<1> QED BY <1>2, <1>3, <1>4, <1>5, <1>6, <1>7, NextAlone

LEMMA NextRolesInUse ==
  ASSUME NEW s, Alone(s), DefaultRole \in SystemRoles, IInv, HeldBy(s),
         NoDanglingRole, [Next]_vars
  PROVE  NoDanglingRole'
<1> USE DEF NoDanglingRole
<1>1. s \in Slots /\ TypeOK /\ SlotsOK /\ SystemRoles \subseteq roles
  BY DEF Alone, IInv, SystemRolesStay
<1>2. ASSUME SameRoles, roles' = roles
      PROVE  NoDanglingRole'
  BY <1>2 DEF SameRoles
<1>3. ASSUME NEW i \in Ids \ used, NEW row, row.role \in roles, AddRow(i, row),
             roles \subseteq roles'
      PROVE  NoDanglingRole'
  BY <1>3 DEF AddRow, Live
<1>4. ASSUME NEW i, NEW row, SetRow(i, row), roles' = roles,
             i \in Live => row.role \in roles
      PROVE  NoDanglingRole'
  BY <1>4 DEF SetRow, Live
<1>5. CASE users' = users /\ (UNCHANGED vars \/ NoRow(s))
  <2>1. CASE DeleteRole(s)
    <3>1. req[s].ask.op = "deleteRole" /\ req[s].pc = "write"
      BY <2>1 DEF DeleteRole, At
    <3>2. \A i \in Live : users[i].role # req[s].ask.role
      BY <3>1 DEF HeldBy, Held
    <3> QED BY <1>5, <2>1, <3>2 DEF DeleteRole, Live
  <2>2. CASE Reads(s)
    BY <1>1, <1>5, <2>2, ReadsWriteNothing DEF Tables, Live
  <2>3. CASE ~Reads(s) /\ ~DeleteRole(s)
    <3>1. roles \subseteq roles'
      BY <1>5, <2>3 DEF NoRow, OidcKnown, WriteRole, Reread, Audit, RereadFails,
         vars
    <3> QED BY <1>5, <3>1 DEF Live
  <2> QED BY <2>1, <2>2, <2>3
<1>6. CASE Restart
  <2> DEFINE row == [email |-> AdminEmail, pw |-> AdminPassword,
                     role |-> "ADMIN", active |-> TRUE, ver |-> 1]
  <2>1. row.role \in roles
    BY <1>1, ConstantsAssumption
  <2>2. roles \subseteq roles'
        /\ (users' = users \/ \E i \in Ids \ used : AddRow(i, row))
    BY <1>6 DEF Restart
  <2> HIDE DEF row
  <2> QED BY <1>3, <2>1, <2>2 DEF Live
<1>7. CASE InsertUser(s)
  <2> DEFINE a == req[s].ask
             row == [email |-> a.email, pw |-> a.pw, role |-> a.role,
                     active |-> a.active # FALSE, ver |-> 1]
  <2>1. row.role \in roles
    BY <1>7 DEF InsertUser, At, HeldBy, Held
  <2>2. UNCHANGED roles /\ (users' = users \/ \E i \in Ids \ used : AddRow(i, row))
    BY <1>7 DEF InsertUser
  <2> HIDE DEF row
  <2> QED BY <1>3, <2>1, <2>2 DEF Live
<1>8. CASE InsertOidcUser(s)
  <2> DEFINE row == [email |-> req[s].ask.email, pw |-> None, role |-> DefaultRole,
                     active |-> TRUE, ver |-> 1]
  <2>1. row.role \in roles
    BY <1>1
  <2>2. UNCHANGED roles /\ (users' = users \/ \E i \in Ids \ used : AddRow(i, row))
    BY <1>8 DEF InsertOidcUser
  <2> HIDE DEF row
  <2> QED BY <1>3, <2>1, <2>2 DEF Live
<1>9. CASE UpdateUser(s)
  <2>1. roles' = roles
    BY <1>9 DEF UpdateUser, OnlyUsers
  <2>2. CASE users' = users
    BY <2>1, <2>2 DEF Live
  <2>3. CASE users' # users
    <3> DEFINE r == req[s]
               i == r.ask.id
               email == IF r.ask.email # None THEN r.ask.email ELSE r.snap.email
               row == [users[i] EXCEPT !.email = email, !.role = NewRole(r),
                                       !.active = NewActive(r)]
    <3>1. /\ i \in Live /\ users[i] = r.snap /\ users[i] \in Row /\ SetRow(i, row)
          /\ Held(r, "write") /\ r.ask.op = "updateUser"
      BY <1>1, <1>9, <2>3, UpdatedRow
    <3>2. row.role = NewRole(r)
      BY <3>1 DEF Row
    <3> HIDE DEF row
    <3>3. NewRole(r) \in roles
      BY <3>1 DEF Held, NewRole
    <3> QED BY <1>4, <2>1, <3>1, <3>2, <3>3
  <2> QED BY <2>2, <2>3
<1>10. CASE DeleteUser(s)
  <2>1. roles' = roles /\ (\/ users' = users
                           \/ users' = [j \in Live \ {req[s].ask.id} |-> users[j]])
    BY <1>10 DEF DeleteUser, OnlyUsers
  <2> QED BY <2>1 DEF Live
<1>11. CASE SetUserActive(s)
  <2> DEFINE i == req[s].ask.id
             row == [users[i] EXCEPT !.active = (req[s].ask.op = "enableUser")]
  <2>1. SetRow(i, row) /\ roles' = roles
    BY <1>11 DEF SetUserActive, OnlyUsers
  <2>2. i \in Live => row.role = users[i].role
    BY <1>1 DEF TypeOK, Row
  <2> HIDE DEF row
  <2> QED BY <1>4, <2>1, <2>2
<1>12. CASE ResetPassword(s) \/ RevokeUserSessions(s)
  BY <1>1, <1>2, <1>12, VersionKeepsRoles
  DEF ResetPassword, RevokeUserSessions, OnlyUsers
<1> QED
  BY <1>5, <1>6, <1>7, <1>8, <1>9, <1>10, <1>11, <1>12, NextAlone

-----------------------------------------------------------------------------
(* The theorems.  last_admin_race shows that the first needs one slot.     *)

LEMMA AloneInvariant ==
  ASSUME NEW s, Alone(s)
  PROVE  Spec => [](IInv /\ HeldBy(s))
<1>1. Init => HeldBy(s)
  BY DEF Init, HeldBy, Alone, Idle
<1>2. IInv /\ HeldBy(s) /\ [Next]_vars => HeldBy(s)'
  BY NextHeld DEF IInv
<1> QED BY <1>1, <1>2, Invariant, PTL DEF Spec

\* With one request at a time, failing statements and restarts, an active
\* administrator remains.
THEOREM AdministratorRemains ==
  ASSUME NEW s, Slots = {s},
         \E i \in DOMAIN StartUsers : StartUsers[i].role = "ADMIN" /\ StartUsers[i].active
  PROVE  Spec => []AdminRemains
<1>1. Alone(s)
  BY DEF Alone
<1>2. Init => AdminRemains
  BY DEF Init, AdminRemains, ActiveAdmins, Live
<1>3. IInv /\ HeldBy(s) /\ AdminRemains /\ [Next]_vars => AdminRemains'
  BY <1>1, NextAdmins DEF IInv
<1>4. Spec => [](IInv /\ HeldBy(s))
  BY <1>1, AloneInvariant
<1> QED BY <1>2, <1>3, <1>4, PTL DEF Spec

\* With one request at a time no user holds a role that is not there, provided
\* the default role of single sign-on is a system role.
THEOREM RolesInUseExist ==
  ASSUME NEW s, Slots = {s}, DefaultRole \in SystemRoles,
         \A i \in DOMAIN StartUsers : StartUsers[i].role \in StartRoles
  PROVE  Spec => []NoDanglingRole
<1>1. Alone(s)
  BY DEF Alone
<1>2. Init => NoDanglingRole
  BY DEF Init, NoDanglingRole, Live
<1>3. IInv /\ HeldBy(s) /\ NoDanglingRole /\ [Next]_vars => NoDanglingRole'
  BY <1>1, NextRolesInUse
<1>4. Spec => [](IInv /\ HeldBy(s))
  BY <1>1, AloneInvariant
<1> QED BY <1>2, <1>3, <1>4, PTL DEF Spec

\* The slot serving an updateUser that writes.
Updating(s, i) == At(s, "write", {"updateUser"}) /\ req'[s] # req[s] /\ i \in Live'

\* What updateUser does to any row.
LEMMA UpdateDoes ==
  ASSUME NEW s, Alone(s), TypeOK, SlotsOK, HeldBy(s), [Next]_vars,
         NEW i \in Live, Updating(s, i)
  PROVE  \/ users'[i] = users[i]
         \/ LET r == req[s]
                email == IF r.ask.email # None THEN r.ask.email ELSE r.snap.email
            IN  /\ users[i] = r.snap /\ users[i] \in Row /\ Held(r, "write")
                /\ users'[i] = [users[i] EXCEPT !.email = email, !.role = NewRole(r),
                                                !.active = NewActive(r)]
<1>1. s \in Slots /\ req[s].pc = "write" /\ req[s].ask.op = "updateUser"
  BY DEF Alone, Updating, At
<1>2. CASE users' = users
  BY <1>2
<1>3. CASE UpdateUser(s) /\ users' # users
  <2> DEFINE r == req[s]
             email == IF r.ask.email # None THEN r.ask.email ELSE r.snap.email
             row == [users[r.ask.id] EXCEPT !.email = email, !.role = NewRole(r),
                                            !.active = NewActive(r)]
  <2>1. /\ users[r.ask.id] = r.snap /\ users[r.ask.id] \in Row
        /\ SetRow(r.ask.id, row) /\ Held(r, "write")
    BY <1>1, <1>3, UpdatedRow
  <2>2. users'[i] = IF i = r.ask.id THEN row ELSE users[i]
    BY <2>1 DEF SetRow
  <2>3. CASE i = r.ask.id
    BY <2>1, <2>2, <2>3
  <2>4. CASE i # r.ask.id
    BY <2>2, <2>4
  <2> QED BY <2>3, <2>4
<1>4. CASE Restart
  BY <1>2, <1>4 DEF Restart
<1>5. ~(\/ InsertUser(s) \/ InsertOidcUser(s) \/ DeleteUser(s) \/ SetUserActive(s)
        \/ ResetPassword(s) \/ RevokeUserSessions(s))
  BY <1>1 DEF InsertUser, InsertOidcUser, DeleteUser, SetUserActive, ResetPassword,
              RevokeUserSessions, At
<1> QED BY <1>2, <1>3, <1>4, <1>5, NextAlone

\* With one request at a time a role changes only by the hand of somebody who
\* holds roles.assign at that moment.
THEOREM RolesChangedByAssigners ==
  ASSUME NEW s, Slots = {s}
  PROVE  Spec => RoleChangeNeedsAssign
<1>1. Alone(s)
  BY DEF Alone
<1>2. ASSUME IInv, HeldBy(s), [Next]_vars, NEW w \in Slots, NEW i \in Live,
             At(w, "write", {"updateUser"}), req'[w] # req[w], i \in Live',
             users'[i].role # users[i].role
      PROVE  "roles.assign" \in perms[req[w].me.role]
  <2>1. w = s /\ Updating(s, i) /\ TypeOK /\ SlotsOK
    BY <1>1, <1>2 DEF Alone, Updating, IInv
  <2> DEFINE r == req[s]
             email == IF r.ask.email # None THEN r.ask.email ELSE r.snap.email
  <2>2. /\ users[i] = r.snap /\ users[i] \in Row /\ Held(r, "write")
        /\ users'[i] = [users[i] EXCEPT !.email = email, !.role = NewRole(r),
                                        !.active = NewActive(r)]
    BY <1>1, <1>2, <2>1, UpdateDoes
  <2>3. users'[i].role = NewRole(r)
    BY <2>2 DEF Row
  <2>4. r.ask.op = "updateUser" /\ r.ask.role \notin {None, r.snap.role}
    BY <1>2, <2>1, <2>2, <2>3 DEF At, NewRole
  <2> QED BY <2>1, <2>2, <2>4 DEF Held
<1>3. IInv /\ HeldBy(s) /\ [Next]_vars =>
        [\A w \in Slots, i \in Live :
           (/\ At(w, "write", {"updateUser"}) /\ req'[w] # req[w]
            /\ i \in Live' /\ users'[i].role # users[i].role)
           => "roles.assign" \in perms[req[w].me.role]]_vars
  BY <1>2
<1>4. Spec => [](IInv /\ HeldBy(s))
  BY <1>1, AloneInvariant
<1> QED BY <1>3, <1>4, PTL DEF Spec, RoleChangeNeedsAssign

\* With one request at a time updateUser changes only what its body names.
THEOREM OnlyNamedFieldsChange ==
  ASSUME NEW s, Slots = {s}
  PROVE  Spec => UpdateChangesOnlyNamedFields
<1>1. Alone(s)
  BY DEF Alone
<1>2. ASSUME IInv, HeldBy(s), [Next]_vars, NEW w \in Slots, NEW i \in Live,
             At(w, "write", {"updateUser"}), req'[w].pc = "audit", i \in Live'
      PROVE  LET a == req[w].ask
             IN  /\ users'[i].email # users[i].email => a.email # None
                 /\ users'[i].role # users[i].role => a.role # None
                 /\ users'[i].active # users[i].active => a.active # None
  <2>1. w = s /\ Updating(s, i) /\ TypeOK /\ SlotsOK /\ req[s].ask.op = "updateUser"
    BY <1>1, <1>2 DEF Alone, Updating, IInv, At
  <2>2. CASE users'[i] = users[i]
    BY <2>2
  <2>3. CASE users'[i] # users[i]
    <3> DEFINE r == req[s]
               email == IF r.ask.email # None THEN r.ask.email ELSE r.snap.email
    <3>1. /\ users[i] = r.snap /\ users[i] \in Row
          /\ users'[i] = [users[i] EXCEPT !.email = email, !.role = NewRole(r),
                                          !.active = NewActive(r)]
      BY <1>1, <1>2, <2>1, <2>3, UpdateDoes
    <3>2. /\ users'[i].email = email /\ users'[i].role = NewRole(r)
          /\ users'[i].active = NewActive(r)
      BY <3>1 DEF Row
    <3> QED BY <2>1, <3>1, <3>2 DEF NewRole, NewActive
  <2> QED BY <2>2, <2>3
<1>3. IInv /\ HeldBy(s) /\ [Next]_vars =>
        [\A w \in Slots, i \in Live :
           (/\ At(w, "write", {"updateUser"}) /\ req'[w].pc = "audit"
            /\ i \in Live')
           => LET a == req[w].ask
              IN  /\ users'[i].email # users[i].email => a.email # None
                  /\ users'[i].role # users[i].role => a.role # None
                  /\ users'[i].active # users[i].active => a.active # None]_vars
  BY <1>2
<1>4. Spec => [](IInv /\ HeldBy(s))
  BY <1>1, AloneInvariant
<1> QED BY <1>3, <1>4, PTL DEF Spec, UpdateChangesOnlyNamedFields
=============================================================================

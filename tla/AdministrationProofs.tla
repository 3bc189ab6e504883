------------------------ MODULE AdministrationProofs ------------------------
(***************************************************************************)
(* Theorems about modules AdminUsers, for any number of users and          *)
(* requests, and Administration, which composes all that administrators    *)
(* change.                                                                 *)
(***************************************************************************)
EXTENDS Administration, EnvironmentsProofs, ServicesProofs

(* Users and their permissions.                                            *)

-----------------------------------------------------------------------------
(* The inductive invariant. *)

Clerks == 1 .. MaxOrders

WriteSteps == {"write fullname", "write email", "write admin", "write permissions",
               "write token", "write delete"}

FindSteps == {"fullname", "email", "admin", "permissions", "token", "delete"}

(* Only some requests make or delete rows, or change who is administrator. *)
FlowOf(pc, op) ==
  /\ pc = "exists" => op \in {"add", "remove", "admin", "permissions", "token"}
  /\ pc \in {"new", "create"} => op \in {"add", "visit", "command add"}
  /\ pc \in {"admin", "write admin"} => op \in {"admin", "command edit"}
  /\ pc \in {"delete", "write delete"} => op \in {"remove", "command delete"}

Flow == \A c \in Clerks : FlowOf(clerk[c].pc, clerk[c].op)

(* Ids are given once: the row that was found is of the user, or gone.     *)
RowFound ==
  \A c \in Clerks :
    clerk[c].pc \in WriteSteps =>
      /\ clerk[c].row \in 1 .. lastId
      /\ clerk[c].row \in DOMAIN users => users[clerk[c].row].name = clerk[c].name

UnaskedSeen ==
  \A c \in Clerks : clerk[c].pc \notin Over /\ Unasked(clerk[c].op) => "unasked" \in unruly

OneAtWork ==
  "overlap" \notin unruly =>
    \A c, d \in Clerks : clerk[c].pc \notin Over /\ clerk[d].pc \notin Over => c = d

Orderly == unruly \cap {"overlap", "unasked"} = {}

(* Who was allowed to remove or demote somebody else still is an           *)
(* administrator while the request is at work.                             *)
Entitled ==
  Orderly =>
    \A c \in Clerks :
      clerk[c].pc \notin Over \cup {"allow"} /\ clerk[c].op \in {"remove", "admin"} =>
        clerk[c].name # clerk[c].by /\ MayAdminister(clerk[c].by)

UsersIInv ==
  /\ UsersTypeOK /\ Flow /\ RowFound /\ UnaskedSeen /\ OneAtWork /\ Entitled /\ SomeAdminLeft

-----------------------------------------------------------------------------
(* Typing. *)

LEMMA AnyUserType == AnyUser \in Users
  BY UsersAssumption DEF AnyUser

LEMMA ZeroType == 0 \in UserId
  BY UsersAssumption DEF UserId

LEMMA IdleType ==
  ASSUME NEW pc \in Over
  PROVE  Idle(pc) \in ClerkState /\ Idle(pc).pc = pc /\ Idle(pc).op = "edit"
<1>1. pc \in ClerkStep
  BY DEF Over, ClerkStep
<1>2. "edit" \in Operation
  BY DEF Operation
<1>. QED  BY <1>1, <1>2, AnyUserType, ZeroType DEF Idle, ClerkState

LEMMA NewUserType ==
  ASSUME NEW u \in Users, NEW a \in BOOLEAN
  PROVE  NewUser(u, a) \in UserRow /\ NewUser(u, a).admin = a /\ NewUser(u, a).name = u
  BY UsersAssumption DEF NewUser, UserRow, Order

LEMMA WriteStepType ==
  /\ DOMAIN WriteStep = FindSteps
  /\ \A p \in FindSteps :
       /\ WriteStep[p] \in WriteSteps
       /\ WriteStep[p] = "write admin" => p = "admin"
       /\ WriteStep[p] = "write delete" => p = "delete"
  BY DEF WriteStep, FindSteps, WriteSteps

(* What Turn does to the request and to the others. *)
LEMMA TurnType ==
  ASSUME UsersTypeOK, NEW c \in Clerks, NEW pc \in ClerkStep, Turn(c, pc)
  PROVE  /\ clerk' \in [Clerks -> ClerkState]
         /\ clerk'[c].pc = pc
         /\ \A d \in Clerks \ {c} : clerk'[d] = clerk[d]
         /\ pc \notin Over =>
              /\ clerk'[c].op = clerk[c].op /\ clerk'[c].by = clerk[c].by
              /\ clerk'[c].name = clerk[c].name
         /\ pc \in Over => clerk'[c].op = "edit"
<1>1. clerk \in [Clerks -> ClerkState] /\ clerk[c] \in ClerkState
  BY DEF UsersTypeOK, Clerks
<1>2. CASE pc \in Over
  <2>1. clerk' = [clerk EXCEPT ![c] = Idle(pc)]
    BY <1>2 DEF Turn
  <2>. QED  BY <1>1, <1>2, <2>1, IdleType
<1>3. CASE pc \notin Over
  <2>1. clerk' = [clerk EXCEPT ![c] = [clerk[c] EXCEPT !.pc = pc]]
    BY <1>3 DEF Turn
  <2>2. /\ [clerk[c] EXCEPT !.pc = pc] \in ClerkState
        /\ [clerk[c] EXCEPT !.pc = pc].pc = pc
        /\ [clerk[c] EXCEPT !.pc = pc].op = clerk[c].op
        /\ [clerk[c] EXCEPT !.pc = pc].by = clerk[c].by
        /\ [clerk[c] EXCEPT !.pc = pc].name = clerk[c].name
    BY <1>1 DEF ClerkState
  <2>. QED  BY <1>1, <1>3, <2>1, <2>2
<1>. QED  BY <1>2, <1>3

LEMMA AfterAllowFlow ==
  ASSUME NEW k
  PROVE  /\ AfterAllow(k) \in {"error", "exists", "fullname", "permissions"}
         /\ FlowOf(AfterAllow(k), k.op)
         /\ k.op \in {"remove", "admin"} /\ k.name = k.by => AfterAllow(k) = "error"
  BY DEF AfterAllow, FlowOf

LEMMA AfterExistsFlow ==
  ASSUME NEW k, NEW b \in BOOLEAN, FlowOf("exists", k.op)
  PROVE  /\ AfterExists(k, b) \in {"error", "new", "ok", "delete", "admin", "allow", "token"}
         /\ FlowOf(AfterExists(k, b), k.op)
  BY DEF AfterExists, FlowOf

LEMMA AfterCreateFlow ==
  ASSUME NEW k
  PROVE  /\ AfterCreate(k) \in {"permissions", "token", "ok"}
         /\ FlowOf(AfterCreate(k), k.op)
  BY DEF AfterCreate, FlowOf

LEMMA AfterWriteFlow ==
  ASSUME NEW k
  PROVE  /\ AfterWrite(k) \in {"email", "fullname", "admin", "token", "permissions", "ok"}
         /\ FlowOf(AfterWrite(k), k.op)
  BY DEF AfterWrite, FlowOf

-----------------------------------------------------------------------------
(* Who is administrator. *)

(* Rows of other users, and new rows, do not change the first row of u.    *)
LEMMA AdministratorStays ==
  ASSUME NEW u, MayAdminister(u),
         \A i \in UserRows(u) : i \in DOMAIN users' /\ users'[i] = users[i],
         \A i \in DOMAIN users' : users'[i].name = u => i \in UserRows(u)
  PROVE  MayAdminister(u)'
<1>1. UserRows(u)' = UserRows(u)
  BY DEF UserRows
<1>2. FirstRow(u)' = FirstRow(u) /\ FirstRow(u) \subseteq UserRows(u)
  BY <1>1 DEF FirstRow
<1>. QED  BY <1>2 DEF MayAdminister

LEMMA AdministratorIsThere ==
  ASSUME NEW u, MayAdminister(u)
  PROVE  \E i \in DOMAIN users : users[i].name = u /\ users[i].admin
  BY DEF MayAdminister, FirstRow, UserRows

(* A statement fails, or does not. *)
LEMMA UnrulyKept ==
  ASSUME UsersTypeOK, UNCHANGED unruly \/ OneFails
  PROVE  /\ unruly' \subseteq Unruliness /\ unruly \subseteq unruly'
         /\ Orderly' <=> Orderly
         /\ "overlap" \in unruly' <=> "overlap" \in unruly
  BY DEF UsersTypeOK, OneFails, Unruliness, Orderly

-----------------------------------------------------------------------------
(* A request makes a step.  Rows keep their ids and names; what has to be  *)
(* shown of administrators is collected in the last two hypotheses.        *)
LEMMA StepKeeps ==
  ASSUME UsersIInv, NEW c \in Clerks, clerk[c].pc \notin Over,
         clerk' \in [Clerks -> ClerkState],
         \A d \in Clerks \ {c} : clerk'[d] = clerk[d],
         clerk'[c].pc \notin Over =>
           /\ clerk'[c].op = clerk[c].op /\ clerk'[c].by = clerk[c].by
           /\ clerk'[c].name = clerk[c].name,
         FlowOf(clerk'[c].pc, clerk'[c].op),
         clerk'[c].pc \in WriteSteps =>
           /\ clerk'[c].row \in 1 .. lastId'
           /\ clerk'[c].row \in DOMAIN users' => users'[clerk'[c].row].name = clerk'[c].name,
         UNCHANGED unruly \/ OneFails,
         lastId' \in UserId, lastId <= lastId',
         DOMAIN users' \subseteq 1 .. lastId', \A i \in DOMAIN users' : users'[i] \in UserRow,
         \A i \in DOMAIN users' :
           i \in 1 .. lastId => i \in DOMAIN users /\ users'[i].name = users[i].name,
         Orderly => \E i \in DOMAIN users' : users'[i].admin,
         Orderly /\ clerk'[c].pc \notin Over \cup {"allow"} /\ clerk[c].op \in {"remove", "admin"} =>
           clerk[c].name # clerk[c].by /\ MayAdminister(clerk[c].by)'
  PROVE  UsersIInv'
<1>1. UsersTypeOK'
  BY UnrulyKept DEF UsersIInv, UsersTypeOK, Clerks
<1>2. Flow'
  BY DEF UsersIInv, Flow
<1>3. RowFound'
  <2>. SUFFICES ASSUME NEW d \in Clerks \ {c}, clerk[d].pc \in WriteSteps
       PROVE  /\ clerk[d].row \in 1 .. lastId'
              /\ clerk[d].row \in DOMAIN users' => users'[clerk[d].row].name = clerk[d].name
    BY DEF RowFound
  <2>1. clerk[d].row \in 1 .. lastId
    BY DEF UsersIInv, RowFound
  <2>2. lastId \in Nat /\ lastId' \in Nat
    BY UsersAssumption DEF UsersIInv, UsersTypeOK, UserId
  <2>. QED  BY <2>1, <2>2 DEF UsersIInv, RowFound
<1>4. UnaskedSeen'
  BY UnrulyKept DEF UsersIInv, UnaskedSeen
<1>5. OneAtWork'
  BY UnrulyKept DEF UsersIInv, OneAtWork
<1>6. Orderly' <=> Orderly
  BY UnrulyKept DEF UsersIInv
<1>7. Entitled'
  <2>1. ASSUME Orderly, NEW d \in Clerks \ {c}
        PROVE  clerk[d].pc \in Over
    BY <2>1 DEF UsersIInv, OneAtWork, Orderly
  <2>. QED  BY <1>6, <2>1 DEF Entitled
<1>8. SomeAdminLeft'
  BY <1>6 DEF SomeAdminLeft, Orderly
<1>. QED  BY <1>1, <1>2, <1>3, <1>4, <1>5, <1>7, <1>8 DEF UsersIInv

(* It goes on to another step with Turn, and nothing was written. *)
LEMMA TurnKeeps ==
  ASSUME UsersIInv, NEW c \in Clerks, clerk[c].pc \notin Over,
         NEW pc \in ClerkStep \ WriteSteps, Turn(c, pc),
         pc \notin Over => FlowOf(pc, clerk[c].op),
         UNCHANGED unruly \/ OneFails,
         UNCHANGED <<users, lastId>>,
         Orderly /\ pc \notin Over \cup {"allow"} /\ clerk[c].op \in {"remove", "admin"} =>
           clerk[c].name # clerk[c].by /\ MayAdminister(clerk[c].by)
  PROVE  UsersIInv'
<1>1. UsersTypeOK /\ lastId \in UserId /\ lastId \in Nat
  BY UsersAssumption DEF UsersIInv, UsersTypeOK, UserId
<1>2. /\ clerk' \in [Clerks -> ClerkState]
      /\ clerk'[c].pc = pc
      /\ \A d \in Clerks \ {c} : clerk'[d] = clerk[d]
      /\ pc \notin Over =>
           /\ clerk'[c].op = clerk[c].op /\ clerk'[c].by = clerk[c].by
           /\ clerk'[c].name = clerk[c].name
      /\ pc \in Over => clerk'[c].op = "edit"
  BY <1>1, TurnType
<1>3. FlowOf(clerk'[c].pc, clerk'[c].op)
  BY <1>2 DEF FlowOf, Over
<1>4. \A u : MayAdminister(u)' <=> MayAdminister(u)
  BY DEF MayAdminister, FirstRow, UserRows
<1>5. /\ lastId' \in UserId /\ lastId <= lastId'
      /\ DOMAIN users' \subseteq 1 .. lastId' /\ \A i \in DOMAIN users' : users'[i] \in UserRow
      /\ \A i \in DOMAIN users' :
           i \in 1 .. lastId => i \in DOMAIN users /\ users'[i].name = users[i].name
      /\ Orderly => \E i \in DOMAIN users' : users'[i].admin
  BY <1>1 DEF UsersTypeOK, UsersIInv, SomeAdminLeft, Orderly
<1>. QED  BY <1>2, <1>3, <1>4, <1>5, StepKeeps

-----------------------------------------------------------------------------
(* What is asked before anything is written.                               *)

LEMMA AllowKeeps ==
  ASSUME UsersIInv, NEW c \in Clerks, Allow(c)
  PROVE  UsersIInv'
<1>1. clerk[c].pc = "allow" /\ UNCHANGED <<users, lastId>>
  BY DEF Allow, Stands
<1>2. CASE Turn(c, "error") /\ (UNCHANGED unruly \/ OneFails)
  BY <1>1, <1>2, TurnKeeps DEF Over, ClerkStep, WriteSteps
<1>3. CASE MayAdminister(clerk[c].by) /\ Turn(c, AfterAllow(clerk[c])) /\ UNCHANGED unruly
  <2>. DEFINE pc == AfterAllow(clerk[c])
  <2>1. /\ pc \in {"error", "exists", "fullname", "permissions"} /\ FlowOf(pc, clerk[c].op)
        /\ clerk[c].op \in {"remove", "admin"} /\ clerk[c].name = clerk[c].by => pc = "error"
    BY AfterAllowFlow
  <2>2. pc \in ClerkStep \ WriteSteps
    BY <2>1 DEF ClerkStep, WriteSteps
  <2>3. Turn(c, pc)
    BY <1>3
  <2>. HIDE DEF pc
  <2>. QED  BY <1>1, <1>3, <2>1, <2>2, <2>3, TurnKeeps DEF Over
<1>. QED  BY <1>2, <1>3 DEF Allow

(* What Entitled says of a request, for its next step. *)
LEMMA StillEntitled ==
  ASSUME UsersIInv, NEW c \in Clerks, clerk[c].pc \notin Over \cup {"allow"}
  PROVE  Orderly /\ clerk[c].op \in {"remove", "admin"} =>
           clerk[c].name # clerk[c].by /\ MayAdminister(clerk[c].by)
  BY DEF UsersIInv, Entitled

LEMMA CheckKeeps ==
  ASSUME UsersIInv, NEW c \in Clerks, CheckExists(c) \/ New(c)
  PROVE  UsersIInv'
<1>1. clerk[c].pc \in {"exists", "new"} /\ UNCHANGED <<users, lastId>>
  BY DEF CheckExists, New, Stands
<1>2. FlowOf(clerk[c].pc, clerk[c].op)
  BY DEF UsersIInv, Flow
<1>3. PICK pc \in ClerkStep \ WriteSteps :
        Turn(c, pc) /\ (pc \notin Over => FlowOf(pc, clerk[c].op)) /\ (UNCHANGED unruly \/ OneFails)
  <2>1. CASE CheckExists(c)
    <3>1. PICK b \in BOOLEAN : Turn(c, AfterExists(clerk[c], b)) /\ (UNCHANGED unruly \/ OneFails)
      BY <2>1 DEF CheckExists
    <3>2. /\ AfterExists(clerk[c], b) \in {"error", "new", "ok", "delete", "admin", "allow", "token"}
          /\ FlowOf(AfterExists(clerk[c], b), clerk[c].op)
      BY <1>2, <2>1, AfterExistsFlow DEF CheckExists, Stands
    <3>3. AfterExists(clerk[c], b) \in ClerkStep \ WriteSteps
      BY <3>2 DEF ClerkStep, WriteSteps
    <3>. QED  BY <3>1, <3>2, <3>3
  <2>2. CASE New(c)
    <3>1. PICK pc \in {"create", "error"} : Turn(c, pc) /\ (UNCHANGED unruly \/ OneFails)
      BY <2>2 DEF New
    <3>2. pc \notin Over => FlowOf(pc, clerk[c].op)
      BY <1>2, <2>2, <3>1 DEF New, Stands, FlowOf, Over
    <3>3. pc \in ClerkStep \ WriteSteps
      BY <3>1 DEF ClerkStep, WriteSteps
    <3>. QED  BY <3>1, <3>2, <3>3
  <2>. QED  BY <2>1, <2>2
<1>4. clerk[c].pc \notin Over \cup {"allow"}
  BY <1>1 DEF Over
<1>. QED  BY <1>1, <1>3, <1>4, StillEntitled, TurnKeeps

LEMMA FindUserKeeps ==
  ASSUME UsersIInv, NEW c \in Clerks, FindUser(c)
  PROVE  UsersIInv'
<1>. DEFINE k == clerk[c]
<1>0. /\ UsersTypeOK /\ clerk[c] \in ClerkState /\ clerk \in [Clerks -> ClerkState]
      /\ lastId \in UserId /\ lastId \in Nat
  BY UsersAssumption DEF UsersIInv, UsersTypeOK, UserId, Clerks
<1>1. k.pc \in FindSteps /\ UNCHANGED <<users, lastId>> /\ FlowOf(k.pc, k.op)
  BY WriteStepType DEF FindUser, UsersIInv, Flow
<1>2. k.pc \notin Over \cup {"allow"}
  BY <1>1 DEF Over, FindSteps
<1>3. CASE Turn(c, "error") /\ (UNCHANGED unruly \/ OneFails)
  BY <1>1, <1>2, <1>3, TurnKeeps DEF Over, ClerkStep, WriteSteps
<1>4. ASSUME NEW i \in FirstRow(k.name), NEW found,
             found = [k EXCEPT !.row = i, !.pc = WriteStep[k.pc]], UNCHANGED unruly
      PROVE  /\ Turn(c, AfterWrite(found)) => UsersIInv'
             /\ clerk' = [clerk EXCEPT ![c] = found] => UsersIInv'
  <2>1. i \in DOMAIN users /\ users[i].name = k.name /\ i \in 1 .. lastId /\ i \in UserId
    <3>1. i \in DOMAIN users /\ users[i].name = k.name /\ i \in 1 .. lastId
      BY <1>0 DEF FirstRow, UserRows, UsersTypeOK
    <3>. QED  BY <1>0, <3>1, UsersAssumption DEF UserId
  <2>2. /\ WriteStep[k.pc] \in WriteSteps
        /\ WriteStep[k.pc] = "write admin" => k.pc = "admin"
        /\ WriteStep[k.pc] = "write delete" => k.pc = "delete"
    BY <1>1, WriteStepType
  <2>3. PICK pc \in WriteSteps : pc = WriteStep[k.pc]
    BY <2>2
  <2>4. /\ found \in ClerkState /\ found.pc = pc /\ found.row = i /\ found.op = k.op
        /\ found.by = k.by /\ found.name = k.name
    <3>1. found = [k EXCEPT !.row = i, !.pc = pc] /\ pc \in ClerkStep
      BY <1>4, <2>3 DEF WriteSteps, ClerkStep
    <3>. QED  BY <1>0, <2>1, <3>1 DEF ClerkState
  <2>5. ASSUME Turn(c, AfterWrite(found)) PROVE UsersIInv'
    <3>1. /\ AfterWrite(found) \in {"email", "fullname", "admin", "token", "permissions", "ok"}
          /\ FlowOf(AfterWrite(found), k.op)
      BY <2>4, AfterWriteFlow
    <3>2. AfterWrite(found) \in ClerkStep \ WriteSteps
      BY <3>1 DEF ClerkStep, WriteSteps
    <3>. QED  BY <1>1, <1>2, <1>4, <2>5, <3>1, <3>2, StillEntitled, TurnKeeps
  <2>6. ASSUME clerk' = [clerk EXCEPT ![c] = found] PROVE UsersIInv'
    <3>1. /\ clerk' \in [Clerks -> ClerkState] /\ clerk'[c] = found
          /\ \A d \in Clerks \ {c} : clerk'[d] = clerk[d]
      BY <1>0, <2>4, <2>6
    <3>2. FlowOf(pc, k.op)
      BY <1>1, <2>2, <2>3 DEF FlowOf, WriteSteps
    <3>4. /\ lastId' \in UserId /\ lastId <= lastId'
          /\ DOMAIN users' \subseteq 1 .. lastId' /\ \A j \in DOMAIN users' : users'[j] \in UserRow
          /\ \A j \in DOMAIN users' :
               j \in 1 .. lastId => j \in DOMAIN users /\ users'[j].name = users[j].name
          /\ Orderly => \E j \in DOMAIN users' : users'[j].admin
      BY <1>0, <1>1 DEF UsersTypeOK, UsersIInv, SomeAdminLeft, Orderly
    <3>5. /\ clerk'[c].row \in 1 .. lastId'
          /\ clerk'[c].row \in DOMAIN users' => users'[clerk'[c].row].name = clerk'[c].name
      BY <1>1, <2>1, <2>4, <3>1
    <3>6. clerk[c].pc \notin Over
      BY <1>1, <1>2
    <3>7. /\ clerk'[c].op = clerk[c].op /\ clerk'[c].by = clerk[c].by
          /\ clerk'[c].name = clerk[c].name
      BY <2>4, <3>1
    <3>8. FlowOf(clerk'[c].pc, clerk'[c].op)
      BY <2>4, <3>1, <3>2
    <3>9. Orderly /\ clerk[c].op \in {"remove", "admin"} =>
            clerk[c].name # clerk[c].by /\ MayAdminister(clerk[c].by)'
      <4>1. MayAdminister(clerk[c].by)' <=> MayAdminister(clerk[c].by)
        BY <1>1, <3>7 DEF MayAdminister, FirstRow, UserRows
      <4>. QED  BY <1>2, <4>1, StillEntitled
    <3>. QED  BY <1>4, <3>1, <3>4, <3>5, <3>6, <3>7, <3>8, <3>9, StepKeeps
  <2>. QED  BY <2>5, <2>6
<1>. QED  BY <1>3, <1>4 DEF FindUser

-----------------------------------------------------------------------------
(* What is written. *)

LEMMA CreateKeeps ==
  ASSUME UsersIInv, NEW c \in Clerks, CreateUser(c)
  PROVE  UsersIInv'
<1>0. /\ UsersTypeOK /\ clerk[c] \in ClerkState /\ lastId \in UserId /\ lastId \in Nat
      /\ DOMAIN users \subseteq 1 .. lastId
  BY UsersAssumption DEF UsersIInv, UsersTypeOK, UserId, Clerks
<1>1. clerk[c].pc = "create" /\ clerk[c].op \in {"add", "visit", "command add"}
  BY DEF CreateUser, Stands, UsersIInv, Flow, FlowOf
<1>2. CASE OneFails /\ Turn(c, "error") /\ UNCHANGED <<users, lastId>>
  BY <1>1, <1>2, TurnKeeps DEF Over, ClerkStep, WriteSteps
<1>3. CASE /\ lastId < MaxUserRows /\ lastId' = lastId + 1
           /\ users' = [i \in DOMAIN users \cup {lastId + 1} |->
                          IF i = lastId + 1 THEN NewUser(clerk[c].name, clerk[c].flag)
                          ELSE users[i]]
           /\ Turn(c, AfterCreate(clerk[c])) /\ UNCHANGED unruly
  <2>1. NewUser(clerk[c].name, clerk[c].flag) \in UserRow
    BY <1>0, NewUserType DEF ClerkState
  <2>2. /\ lastId' \in UserId /\ lastId <= lastId'
        /\ DOMAIN users' \subseteq 1 .. lastId'
        /\ \A i \in DOMAIN users : i \in DOMAIN users' /\ users'[i] = users[i]
        /\ \A i \in DOMAIN users' :
             i \in 1 .. lastId => i \in DOMAIN users /\ users'[i].name = users[i].name
    BY <1>0, <1>3, UsersAssumption DEF UserId
  <2>3. \A i \in DOMAIN users' : users'[i] \in UserRow
    BY <1>0, <1>3, <2>1 DEF UsersTypeOK
  <2>4. Orderly => \E i \in DOMAIN users' : users'[i].admin
    BY <2>2 DEF UsersIInv, SomeAdminLeft, Orderly
  <2>. DEFINE pc == AfterCreate(clerk[c])
  <2>5. pc \in {"permissions", "token", "ok"} /\ FlowOf(pc, clerk[c].op)
    BY AfterCreateFlow
  <2>6. pc \in ClerkStep \ WriteSteps
    BY <2>5 DEF ClerkStep, WriteSteps
  <2>7. Turn(c, pc)
    BY <1>3
  <2>. HIDE DEF pc
  <2>8. /\ clerk' \in [Clerks -> ClerkState]
        /\ clerk'[c].pc = pc
        /\ \A d \in Clerks \ {c} : clerk'[d] = clerk[d]
        /\ pc \notin Over =>
             /\ clerk'[c].op = clerk[c].op /\ clerk'[c].by = clerk[c].by
             /\ clerk'[c].name = clerk[c].name
        /\ pc \in Over => clerk'[c].op = "edit"
    BY <1>0, <2>6, <2>7, TurnType
  <2>9. FlowOf(clerk'[c].pc, clerk'[c].op)
    BY <2>5, <2>8 DEF FlowOf, Over
  <2>10. clerk[c].pc \notin Over /\ clerk[c].op \notin {"remove", "admin"}
    BY <1>1 DEF Over
  <2>11. clerk'[c].pc \notin WriteSteps
    BY <2>6, <2>8
  <2>. QED  BY <1>3, <2>2, <2>3, <2>4, <2>8, <2>9, <2>10, <2>11, StepKeeps
<1>. QED  BY <1>2, <1>3 DEF CreateUser

(* A request that demotes or removes leaves the user who makes it alone.   *)
LEMMA AnotherIsLeft ==
  ASSUME UsersIInv, NEW c \in Clerks, clerk[c].pc \in {"write admin", "write delete"}, Orderly
  PROVE  /\ clerk[c].op \in {"remove", "admin"}
         /\ \E i \in DOMAIN users : i # clerk[c].row /\ users[i].admin
<1>1. clerk[c].op \in {"admin", "command edit", "remove", "command delete"}
  BY DEF UsersIInv, Flow, FlowOf
<1>2. clerk[c].pc \notin Over \cup {"allow"} /\ clerk[c].pc \in WriteSteps
  BY DEF Over, WriteSteps
<1>3. clerk[c].op \in {"remove", "admin"}
  BY <1>1, <1>2 DEF UsersIInv, UnaskedSeen, Unasked, Orderly
<1>4. clerk[c].name # clerk[c].by /\ MayAdminister(clerk[c].by)
  BY <1>2, <1>3, StillEntitled
<1>5. PICK i \in DOMAIN users : users[i].name = clerk[c].by /\ users[i].admin
  BY <1>4, AdministratorIsThere
<1>6. i # clerk[c].row
  BY <1>2, <1>4, <1>5 DEF UsersIInv, RowFound
<1>. QED  BY <1>3, <1>5, <1>6

(* The row of the request alone is changed or deleted, and stays of its    *)
(* user.                                                                   *)
LEMMA RowWriteKeeps ==
  ASSUME UsersIInv, NEW c \in Clerks, clerk[c].pc \in WriteSteps,
         NEW pc \in ClerkStep \ WriteSteps, Turn(c, pc), pc \notin Over => FlowOf(pc, clerk[c].op),
         UNCHANGED <<lastId, unruly>>,
         DOMAIN users' \subseteq DOMAIN users,
         \A i \in DOMAIN users : i # clerk[c].row => i \in DOMAIN users' /\ users'[i] = users[i],
         \A i \in DOMAIN users' : users'[i] \in UserRow /\ users'[i].name = users[i].name,
         Orderly => \E i \in DOMAIN users' : users'[i].admin
  PROVE  UsersIInv'
<1>0. /\ UsersTypeOK /\ lastId \in UserId /\ lastId \in Nat /\ DOMAIN users \subseteq 1 .. lastId
  BY UsersAssumption DEF UsersIInv, UsersTypeOK, UserId
<1>1. /\ clerk' \in [Clerks -> ClerkState]
      /\ clerk'[c].pc = pc
      /\ \A d \in Clerks \ {c} : clerk'[d] = clerk[d]
      /\ pc \notin Over =>
           /\ clerk'[c].op = clerk[c].op /\ clerk'[c].by = clerk[c].by
           /\ clerk'[c].name = clerk[c].name
      /\ pc \in Over => clerk'[c].op = "edit"
  BY <1>0, TurnType
<1>2. FlowOf(clerk'[c].pc, clerk'[c].op)
  BY <1>1 DEF FlowOf, Over
<1>3. clerk[c].pc \notin Over \cup {"allow"}
  BY DEF Over, WriteSteps
<1>4. ASSUME Orderly, clerk[c].op \in {"remove", "admin"}, pc \notin Over
      PROVE  clerk[c].name # clerk[c].by /\ MayAdminister(clerk[c].by)'
  <2>1. clerk[c].name # clerk[c].by /\ MayAdminister(clerk[c].by)
    BY <1>3, <1>4, StillEntitled
  <2>2. PICK u : u = clerk[c].by /\ clerk'[c].by = u
    BY <1>1, <1>4
  <2>3. clerk[c].row \notin UserRows(u)
    BY <2>1, <2>2 DEF UserRows, UsersIInv, RowFound
  <2>4. \A i \in UserRows(u) : i \in DOMAIN users' /\ users'[i] = users[i]
    BY <2>3 DEF UserRows
  <2>5. \A i \in DOMAIN users' : users'[i].name = u => i \in UserRows(u)
    BY DEF UserRows
  <2>6. MayAdminister(u)'
    BY <2>1, <2>2, <2>4, <2>5, AdministratorStays
  <2>. QED  BY <2>1, <2>2, <2>6
<1>5. clerk'[c].pc \notin WriteSteps
  BY <1>1
<1>6. \A i \in DOMAIN users' :
        i \in 1 .. lastId => i \in DOMAIN users /\ users'[i].name = users[i].name
  OBVIOUS
<1>7. DOMAIN users' \subseteq 1 .. lastId' /\ lastId <= lastId' /\ lastId' \in UserId
  BY <1>0
<1>. QED  BY <1>1, <1>2, <1>3, <1>4, <1>5, <1>6, <1>7, StepKeeps

LEMMA WriteKeeps ==
  ASSUME UsersIInv, NEW c \in Clerks, WriteUser(c)
  PROVE  UsersIInv'
<1>. DEFINE k == clerk[c]
<1>0. UsersTypeOK /\ k \in ClerkState
  BY DEF UsersIInv, UsersTypeOK, Clerks
<1>1. k.pc \in WriteSteps \ {"write delete"} /\ UNCHANGED lastId
  <2>1. k.pc \in {WriteStep[p] : p \in FindSteps} \ {"write delete"} /\ UNCHANGED lastId
    BY WriteStepType DEF WriteUser
  <2>. QED  BY <2>1, WriteStepType
<1>2. k.pc \notin Over \cup {"allow"}
  BY <1>1 DEF WriteSteps, Over
<1>3. CASE OneFails /\ Turn(c, "error") /\ UNCHANGED users
  BY <1>1, <1>2, <1>3, TurnKeeps DEF Over, ClerkStep, WriteSteps
<1>4. CASE /\ users' = [i \in DOMAIN users |->
                           IF i = k.row THEN Changed(users[i], k, c) ELSE users[i]]
           /\ Turn(c, AfterWrite(k)) /\ UNCHANGED unruly
  <2>. DEFINE pc == AfterWrite(k)
  <2>1. pc \in {"email", "fullname", "admin", "token", "permissions", "ok"} /\ FlowOf(pc, k.op)
    BY AfterWriteFlow
  <2>2. pc \in ClerkStep \ WriteSteps
    BY <2>1 DEF ClerkStep, WriteSteps
  <2>3. ASSUME NEW row \in UserRow
        PROVE  /\ Changed(row, k, c) \in UserRow /\ Changed(row, k, c).name = row.name
               /\ k.pc # "write admin" => Changed(row, k, c).admin = row.admin
    <3>1. c \in Order /\ k.flag \in BOOLEAN
      BY <1>0, UsersAssumption DEF Order, Clerks, ClerkState
    <3>2. CASE k.pc = "write fullname"
      BY <3>1, <3>2 DEF Changed, UserRow
    <3>3. CASE k.pc = "write email"
      BY <3>1, <3>3 DEF Changed, UserRow
    <3>4. CASE k.pc = "write admin"
      BY <3>1, <3>4 DEF Changed, UserRow
    <3>5. CASE k.pc = "write permissions"
      <4>1. PICK p \in {"some", "all"} : Changed(row, k, c) = [row EXCEPT !.perms = p]
        BY <3>5 DEF Changed
      <4>. QED  BY <3>5, <4>1 DEF UserRow
    <3>6. CASE k.pc = "write token"
      BY <3>1, <3>6 DEF Changed, UserRow
    <3>. QED  BY <1>1, <3>2, <3>3, <3>4, <3>5, <3>6 DEF WriteSteps
  <2>4. /\ DOMAIN users' = DOMAIN users
        /\ \A i \in DOMAIN users : i # k.row => users'[i] = users[i]
        /\ \A i \in DOMAIN users' : users'[i] \in UserRow /\ users'[i].name = users[i].name
    BY <1>0, <1>4, <2>3 DEF UsersTypeOK
  <2>5. Orderly => \E i \in DOMAIN users' : users'[i].admin
    <3>. SUFFICES ASSUME Orderly PROVE \E i \in DOMAIN users' : users'[i].admin
      OBVIOUS
    <3>1. CASE k.pc = "write admin"
      BY <2>4, <3>1, AnotherIsLeft
    <3>2. CASE k.pc # "write admin"
      <4>1. \A i \in DOMAIN users : users'[i].admin = users[i].admin
        BY <1>0, <1>4, <2>3, <3>2 DEF UsersTypeOK
      <4>. QED  BY <2>4, <4>1 DEF UsersIInv, SomeAdminLeft, Orderly
    <3>. QED  BY <3>1, <3>2
  <2>6. Turn(c, pc)
    BY <1>4
  <2>. HIDE DEF pc
  <2>. QED  BY <1>1, <1>4, <2>1, <2>2, <2>4, <2>5, <2>6, RowWriteKeeps
<1>. QED  BY <1>3, <1>4 DEF WriteUser

LEMMA DeleteKeeps ==
  ASSUME UsersIInv, NEW c \in Clerks, DeleteUser(c)
  PROVE  UsersIInv'
<1>1. clerk[c].pc = "write delete" /\ UNCHANGED lastId /\ UsersTypeOK
  BY DEF DeleteUser, Stands, UsersIInv
<1>2. clerk[c].pc \notin Over
  BY <1>1 DEF Over
<1>3. CASE OneFails /\ Turn(c, "error") /\ UNCHANGED users
  BY <1>1, <1>2, <1>3, TurnKeeps DEF Over, ClerkStep, WriteSteps
<1>4. CASE /\ users' = [i \in DOMAIN users \ {clerk[c].row} |-> users[i]]
           /\ Turn(c, "ok") /\ UNCHANGED unruly
  <2>1. /\ DOMAIN users' \subseteq DOMAIN users
        /\ \A i \in DOMAIN users : i # clerk[c].row => i \in DOMAIN users' /\ users'[i] = users[i]
        /\ \A i \in DOMAIN users' : users'[i] \in UserRow /\ users'[i].name = users[i].name
    BY <1>1, <1>4 DEF UsersTypeOK
  <2>2. Orderly => \E i \in DOMAIN users' : users'[i].admin
    BY <1>1, <2>1, AnotherIsLeft
  <2>3. clerk[c].pc \in WriteSteps /\ "ok" \in ClerkStep \ WriteSteps /\ "ok" \in Over
    BY <1>1 DEF WriteSteps, ClerkStep, Over
  <2>. QED  BY <1>1, <1>4, <2>1, <2>2, <2>3, RowWriteKeeps
<1>. QED  BY <1>3, <1>4 DEF DeleteUser

-----------------------------------------------------------------------------
(* A request comes. *)
LEMMA OrderKeeps ==
  ASSUME UsersIInv, NEW c \in Clerks, NEW op \in Operation, NEW by \in Users, NEW u \in Users,
         NEW flag \in BOOLEAN, NEW wantsToken \in BOOLEAN,
         TakeOrder(c, op, by, u, flag, wantsToken)
  PROVE  UsersIInv'
<1>0. UsersTypeOK /\ clerk \in [Clerks -> ClerkState]
  BY DEF UsersIInv, UsersTypeOK, Clerks
<1>1. /\ clerk[c].pc = "idle" /\ UNCHANGED <<users, lastId>> /\ unruly \subseteq unruly'
      /\ unruly' \subseteq Unruliness
      /\ Busy # {} => "overlap" \in unruly'
      /\ Unasked(op) => "unasked" \in unruly'
  BY <1>0 DEF TakeOrder, Stands, UsersTypeOK, Unruliness
<1>2. /\ FirstStep(op) \in {"exists", "new", "email", "delete", "allow"}
      /\ FlowOf(FirstStep(op), op)
      /\ op \in {"remove", "admin"} => FirstStep(op) = "allow"
  BY DEF FirstStep, FlowOf, Operation
<1>. DEFINE pc == FirstStep(op)
            order == [pc |-> pc, op |-> op, by |-> by, name |-> u, flag |-> flag,
                      wantsToken |-> wantsToken, row |-> 0]
<1>3. pc \in ClerkStep \ (WriteSteps \cup Over)
  BY <1>2 DEF ClerkStep, WriteSteps, Over
<1>. HIDE DEF pc
<1>4. order \in ClerkState
  BY <1>3, ZeroType DEF ClerkState
<1>5. /\ clerk' \in [Clerks -> ClerkState] /\ clerk'[c] = order
      /\ \A d \in Clerks \ {c} : clerk'[d] = clerk[d]
  BY <1>0, <1>4 DEF TakeOrder, pc
<1>6. clerk'[c].pc = pc /\ clerk'[c].op = op
  BY <1>5
<1>7. UsersTypeOK'
  BY <1>0, <1>1, <1>5 DEF UsersTypeOK, Clerks
<1>8a. FlowOf(clerk'[c].pc, clerk'[c].op)
  BY <1>2, <1>6 DEF pc
<1>8b. Flow'
  BY <1>5, <1>8a DEF UsersIInv, Flow
<1>8c. RowFound'
  BY <1>1, <1>3, <1>5, <1>6 DEF UsersIInv, RowFound
<1>8d. UnaskedSeen'
  BY <1>1, <1>5, <1>6 DEF UsersIInv, UnaskedSeen
<1>9. ASSUME "overlap" \notin unruly', NEW d \in Clerks PROVE clerk[d].pc \in Over
  <2>1. Busy = {}
    BY <1>1, <1>9
  <2>. QED  BY <2>1 DEF Busy, Clerks
<1>10. OneAtWork'
  BY <1>5, <1>9 DEF OneAtWork
<1>11. Entitled'
  BY <1>2, <1>5, <1>6, <1>9 DEF Entitled, Orderly, pc
<1>12. SomeAdminLeft'
  BY <1>1 DEF UsersIInv, SomeAdminLeft
<1>. QED  BY <1>7, <1>8b, <1>8c, <1>8d, <1>10, <1>11, <1>12 DEF UsersIInv

-----------------------------------------------------------------------------
LEMMA UsersInitially == UsersInit => UsersIInv
<1>. SUFFICES ASSUME UsersInit PROVE UsersIInv
  OBVIOUS
<1>1. "idle" \in Over /\ Idle("idle") \in ClerkState /\ Idle("idle").pc = "idle"
  BY IdleType DEF Over
<1>2. /\ clerk \in [Clerks -> ClerkState] /\ \A c \in Clerks : clerk[c].pc = "idle"
  BY <1>1 DEF UsersInit, Clerks
<1>3. /\ lastId \in UserId /\ 1 \in DOMAIN users /\ DOMAIN users = 1 .. lastId
  BY UsersAssumption DEF UsersInit, UserId
<1>4. \A i \in DOMAIN users : users[i] \in UserRow
  BY <1>3, NewUserType DEF UsersInit
<1>5. UsersTypeOK
  BY <1>2, <1>3, <1>4 DEF UsersInit, UsersTypeOK, Unruliness, Clerks
<1>6. Flow /\ RowFound /\ UnaskedSeen /\ OneAtWork /\ Entitled
  BY <1>1, <1>2 DEF Flow, FlowOf, RowFound, WriteSteps, UnaskedSeen, OneAtWork, Entitled
<1>7. SomeAdminLeft
  <2>1. users[1].admin
    BY AnyUserType, NewUserType DEF UsersInit
  <2>. QED  BY <1>3, <2>1 DEF SomeAdminLeft
<1>. QED  BY <1>5, <1>6, <1>7 DEF UsersIInv

LEMMA UsersStep ==
  ASSUME UsersIInv, [UsersNext]_usersVars
  PROVE  UsersIInv'
<1>1. ASSUME NEW c \in Clerks, ClerkActs(c) PROVE UsersIInv'
  BY <1>1, AllowKeeps, CheckKeeps, CreateKeeps, FindUserKeeps, WriteKeeps, DeleteKeeps DEF ClerkActs
<1>2. CASE UNCHANGED usersVars
  BY <1>2 DEF usersVars, UsersIInv, UsersTypeOK, Flow, RowFound, UnaskedSeen, OneAtWork, Entitled,
              Orderly, SomeAdminLeft, MayAdminister, FirstRow, UserRows
<1>. QED  BY <1>1, <1>2, OrderKeeps DEF UsersNext, Clerks

(* Each reachable state satisfies the inductive invariant. *)
THEOREM UsersInvariantHolds == UsersSpec => []UsersIInv
<1>1. UsersIInv /\ [UsersNext]_usersVars => UsersIInv'
  BY UsersStep
<1>. QED  BY <1>1, UsersInitially, PTL DEF UsersSpec

(* The rows of users and the requests at work keep their types. *)
THEOREM UsersTypeCorrect == UsersSpec => []UsersTypeOK
<1>1. UsersIInv => UsersTypeOK
  BY DEF UsersIInv
<1>. QED  BY <1>1, UsersInvariantHolds, PTL

(* Refusing to remove or demote oneself is enough to keep an administrator *)
(* for any number of users and requests, as long as these come one after   *)
(* the other and ask for permission; whichever statement fails.            *)
THEOREM AdminsSound == UsersSpec => []SomeAdminLeft
<1>1. UsersIInv => SomeAdminLeft
  BY DEF UsersIInv
<1>. QED  BY <1>1, UsersInvariantHolds, PTL

-----------------------------------------------------------------------------
(* What a request has done so far, while nobody else is at work on the     *)
(* same user and no statement has failed.                                  *)

Undisputed == unruly \cap {"shared", "failure"} = {}

(* The steps of each kind of request. *)
Path(op) ==
  CASE op = "add" -> {"allow", "exists", "new", "create", "permissions", "write permissions",
                      "token", "write token"}
    [] op = "edit" -> {"allow", "fullname", "write fullname", "email", "write email"}
    [] op = "remove" -> {"allow", "exists", "delete", "write delete"}
    [] op = "admin" -> {"allow", "exists", "admin", "write admin", "permissions",
                        "write permissions", "token", "write token"}
    [] op = "permissions" -> {"exists", "allow", "permissions", "write permissions"}
    [] op = "token" -> {"allow", "exists", "token", "write token"}
    [] op \in {"visit", "command add"} -> {"new", "create"}
    [] op = "command edit" -> {"email", "write email", "fullname", "write fullname", "admin",
                               "write admin"}
    [] op = "command delete" -> {"delete", "write delete"}

OnPath == \A c \in Clerks : clerk[c].pc \notin Over => clerk[c].pc \in Path(clerk[c].op)

(* What earlier steps of request k, the c-th one, wrote to its row.        *)
SoFar(k, row, c) ==
  /\ k.op = "edit" /\ k.pc \in {"email", "write email"} => row.fullname = c
  /\ k.op = "command edit" /\ k.pc \in {"admin", "write admin"} => row.fullname = c
  /\ k.op = "add" /\ k.pc \in {"permissions", "write permissions"} =>
       k.flag /\ row.admin = k.flag /\ row.token = 0
  /\ k.op = "add" /\ k.pc \in {"token", "write token"} =>
       k.wantsToken /\ row.admin = k.flag /\ (k.flag <=> row.perms = "all")
  /\ k.op = "admin" /\ k.pc \in {"permissions", "write permissions"} =>
       k.flag /\ row.admin = k.flag
  /\ k.op = "admin" /\ k.pc \in {"token", "write token"} =>
       k.flag /\ row.admin = k.flag /\ row.perms = "all"

Halfway(c) ==
  /\ clerk[c].pc = "create" => UserRows(clerk[c].name) = {}
  /\ clerk[c].pc \in WriteSteps => clerk[c].row \in UserRows(clerk[c].name)
  /\ \A i \in UserRows(clerk[c].name) : SoFar(clerk[c], users[i], c)

OneRowEach == \A i, j \in DOMAIN users : users[i].name = users[j].name => i = j

OneClerkEach ==
  \A c, d \in Clerks :
    clerk[c].pc \notin Over /\ clerk[d].pc \notin Over /\ clerk[c].name = clerk[d].name => c = d

Careful == OneRowEach /\ OneClerkEach /\ \A c \in Clerks : clerk[c].pc \notin Over => Halfway(c)

DoneIInv == UsersIInv /\ OnPath /\ (Undisputed => Careful)

(* What DoneWhenOK says of the c-th request when it ends. *)
Done(c) ==
  LET k == clerk[c] IN
  IF k.op \in {"remove", "command delete"}
  THEN \A i \in DOMAIN users' : users'[i].name # k.name
  ELSE \A i \in DOMAIN users' : users'[i].name = k.name => AsAsked(k, users'[i], c)

-----------------------------------------------------------------------------
(* One step of a request, without the table. *)

SameOrder(j, k) == j.op = k.op /\ j.name = k.name /\ j.flag = k.flag /\ j.wantsToken = k.wantsToken

LEMMA ClerkNumber == \A c \in Clerks : c # 0
  BY UsersAssumption DEF Clerks

(* A row is written. *)
LEMMA WrittenSoFar ==
  ASSUME NEW c \in Clerks, NEW k \in ClerkState, k.pc \in WriteSteps \ {"write delete"},
         k.pc \in Path(k.op), NEW row \in UserRow, SoFar(k, row, c),
         NEW new, new = Changed(row, k, c)
  PROVE  /\ AfterWrite(k) = "ok" => AsAsked(k, new, c)
         /\ \A j : SameOrder(j, k) /\ j.pc = AfterWrite(k) => SoFar(j, new, c)
<1>0. c # 0 /\ k.flag \in BOOLEAN /\ k.wantsToken \in BOOLEAN
  BY ClerkNumber DEF ClerkState
<1>1. /\ k.pc = "write fullname" => new.fullname = c
      /\ k.pc = "write email" => new.email = c /\ new.fullname = row.fullname
      /\ k.pc = "write admin" => new.admin = k.flag /\ new.fullname = row.fullname
      /\ k.pc = "write permissions" =>
           /\ k.op = "permissions" => new.perms = "some"
           /\ k.op # "permissions" => new.perms = "all"
           /\ new.admin = row.admin /\ new.token = row.token
      /\ k.pc = "write token" => new.token = c /\ new.admin = row.admin /\ new.perms = row.perms
  BY DEF Changed, UserRow
<1>2. CASE k.op = "add"
  BY <1>0, <1>1, <1>2 DEF SameOrder, SoFar, AsAsked, AfterWrite, Path, WriteSteps
<1>3. CASE k.op = "edit"
  BY <1>0, <1>1, <1>3 DEF SameOrder, SoFar, AsAsked, AfterWrite, Path, WriteSteps
<1>4. CASE k.op = "admin"
  BY <1>0, <1>1, <1>4 DEF SameOrder, SoFar, AsAsked, AfterWrite, Path, WriteSteps
<1>5. CASE k.op \in {"permissions", "token"}
  BY <1>0, <1>1, <1>5 DEF SameOrder, SoFar, AsAsked, AfterWrite, Path, WriteSteps
<1>6. CASE k.op = "command edit"
  BY <1>0, <1>1, <1>6 DEF SameOrder, SoFar, AsAsked, AfterWrite, Path, WriteSteps
<1>7. CASE k.op \in {"remove", "visit", "command add", "command delete"}
  BY <1>0, <1>1, <1>7 DEF Path, WriteSteps
<1>. QED  BY <1>2, <1>3, <1>4, <1>5, <1>6, <1>7 DEF ClerkState, Operation

LEMMA WriteStepNames ==
  /\ WriteStep["fullname"] = "write fullname" /\ WriteStep["email"] = "write email"
  /\ WriteStep["admin"] = "write admin" /\ WriteStep["permissions"] = "write permissions"
  /\ WriteStep["token"] = "write token" /\ WriteStep["delete"] = "write delete"
  BY DEF WriteStep

LEMMA PathGoesOn ==
  ASSUME NEW k, k.pc \in Path(k.op), k.op \in Operation
  PROVE  /\ k.pc = "allow" => AfterAllow(k) \in Path(k.op) \cup Over
         /\ k.pc = "exists" => \A b \in BOOLEAN : AfterExists(k, b) \in Path(k.op) \cup Over
         /\ k.pc = "new" => "create" \in Path(k.op)
         /\ k.pc = "create" => AfterCreate(k) \in Path(k.op) \cup Over
         /\ k.pc \in FindSteps => WriteStep[k.pc] \in Path(k.op)
         /\ k.pc \in WriteSteps => AfterWrite(k) \in Path(k.op) \cup Over
<1>1. k.pc = "allow" => AfterAllow(k) \in Path(k.op) \cup Over
  BY DEF Path, AfterAllow, Over, Operation
<1>2. k.pc = "exists" => \A b \in BOOLEAN : AfterExists(k, b) \in Path(k.op) \cup Over
  BY DEF Path, AfterExists, Over, Operation
<1>3. k.pc = "new" => "create" \in Path(k.op)
  BY DEF Path, Operation
<1>4. k.pc = "create" => AfterCreate(k) \in Path(k.op) \cup Over
  BY DEF Path, AfterCreate, Over, Operation
<1>5. k.pc \in FindSteps => WriteStep[k.pc] \in Path(k.op)
  BY WriteStepNames DEF Path, FindSteps, Operation
<1>6. k.pc \in WriteSteps => AfterWrite(k) \in Path(k.op) \cup Over
  BY DEF Path, WriteSteps, AfterWrite, Over, Operation
<1>. QED  BY <1>1, <1>2, <1>3, <1>4, <1>5, <1>6

LEMMA TurnAsks ==
  ASSUME UsersTypeOK, NEW c \in Clerks, NEW pc \in ClerkStep, Turn(c, pc)
  PROVE  /\ clerk'[c].pc = pc /\ \A d \in Clerks \ {c} : clerk'[d] = clerk[d]
         /\ pc \notin Over => SameOrder(clerk'[c], clerk[c]) /\ clerk'[c].row = clerk[c].row
<1>1. clerk \in [Clerks -> ClerkState] /\ clerk[c] \in ClerkState
  BY DEF UsersTypeOK, Clerks
<1>2. clerk'[c].pc = pc /\ \A d \in Clerks \ {c} : clerk'[d] = clerk[d]
  BY TurnType
<1>3. CASE pc \notin Over
  <2>1. clerk'[c] = [clerk[c] EXCEPT !.pc = pc]
    BY <1>1, <1>3 DEF Turn
  <2>2. /\ [clerk[c] EXCEPT !.pc = pc].op = clerk[c].op
        /\ [clerk[c] EXCEPT !.pc = pc].name = clerk[c].name
        /\ [clerk[c] EXCEPT !.pc = pc].flag = clerk[c].flag
        /\ [clerk[c] EXCEPT !.pc = pc].wantsToken = clerk[c].wantsToken
        /\ [clerk[c] EXCEPT !.pc = pc].row = clerk[c].row
    BY <1>1 DEF ClerkState
  <2>. QED  BY <1>2, <2>1, <2>2 DEF SameOrder
<1>. QED  BY <1>2, <1>3

LEMMA OverSteps == Over \subseteq ClerkStep /\ FindSteps \subseteq ClerkStep /\ WriteSteps \subseteq ClerkStep
  BY DEF Over, FindSteps, WriteSteps, ClerkStep

-----------------------------------------------------------------------------
(* Requests stay on their paths. *)

LEMMA OnPathKept ==
  ASSUME UsersIInv, OnPath, [UsersNext]_usersVars
  PROVE  OnPath'
<1>0. UsersTypeOK /\ clerk \in [Clerks -> ClerkState]
  BY DEF UsersIInv, UsersTypeOK, Clerks
<1>1. ASSUME NEW c \in Clerks, NEW pc \in (Path(clerk[c].op) \cap ClerkStep) \cup Over, Turn(c, pc)
      PROVE  OnPath'
  <2>1. /\ clerk'[c].pc = pc /\ \A d \in Clerks \ {c} : clerk'[d] = clerk[d]
        /\ pc \notin Over => SameOrder(clerk'[c], clerk[c])
    BY <1>0, <1>1, TurnAsks, OverSteps
  <2>. QED  BY <1>1, <2>1 DEF OnPath, SameOrder
<1>2. \A op \in Operation : Path(op) \subseteq ClerkStep
  BY DEF Path, ClerkStep, Operation
<1>3. ASSUME NEW c \in Clerks, clerk[c].pc \notin Over
      PROVE  clerk[c].pc \in Path(clerk[c].op) /\ clerk[c].op \in Operation
  BY <1>0, <1>3 DEF OnPath, ClerkState
<1>4. ASSUME NEW c \in Clerks, Allow(c) \/ CheckExists(c) \/ New(c) \/ CreateUser(c)
      PROVE  OnPath'
  <2>1. clerk[c].pc \notin Over
    BY <1>4 DEF Allow, CheckExists, New, CreateUser, Stands, Over
  <2>2. PICK pc \in Path(clerk[c].op) \cup Over : Turn(c, pc)
    <3>1. CASE Allow(c)
      <4>1. AfterAllow(clerk[c]) \in Path(clerk[c].op) \cup Over
        BY <1>3, <2>1, <3>1, PathGoesOn DEF Allow, Stands
      <4>. QED  BY <3>1, <4>1 DEF Allow, Over
    <3>2. CASE CheckExists(c)
      <4>1. \A b \in BOOLEAN : AfterExists(clerk[c], b) \in Path(clerk[c].op) \cup Over
        BY <1>3, <2>1, <3>2, PathGoesOn DEF CheckExists, Stands
      <4>2. \E b \in BOOLEAN : Turn(c, AfterExists(clerk[c], b))
        BY <3>2 DEF CheckExists
      <4>. QED  BY <4>1, <4>2
    <3>3. CASE New(c)
      <4>1. "create" \in Path(clerk[c].op)
        BY <1>3, <2>1, <3>3, PathGoesOn DEF New, Stands
      <4>. QED  BY <3>3, <4>1 DEF New, Over
    <3>4. CASE CreateUser(c)
      <4>1. AfterCreate(clerk[c]) \in Path(clerk[c].op) \cup Over
        BY <1>3, <2>1, <3>4, PathGoesOn DEF CreateUser, Stands
      <4>. QED  BY <3>4, <4>1 DEF CreateUser, Over
    <3>. QED  BY <1>4, <3>1, <3>2, <3>3, <3>4
  <2>3. pc \in (Path(clerk[c].op) \cap ClerkStep) \cup Over
    BY <1>2, <1>3, <2>1, <2>2
  <2>. QED  BY <1>1, <2>2, <2>3
<1>5. ASSUME NEW c \in Clerks, FindUser(c) PROVE OnPath'
  <2>. DEFINE k == clerk[c]
  <2>1. k.pc \in FindSteps /\ k.pc \notin Over
    BY <1>5, WriteStepType DEF FindUser, FindSteps, Over
  <2>2. CASE Turn(c, "error")
    BY <1>1, <2>2 DEF Over
  <2>3. ASSUME NEW i, NEW found, found = [k EXCEPT !.row = i, !.pc = WriteStep[k.pc]]
        PROVE  /\ Turn(c, AfterWrite(found)) => OnPath'
               /\ clerk' = [clerk EXCEPT ![c] = found] => OnPath'
    <3>1. k.pc \in Path(k.op) /\ k.op \in Operation
      BY <1>3, <2>1
    <3>2. WriteStep[k.pc] \in WriteSteps /\ WriteStep[k.pc] \in Path(k.op)
      BY <2>1, <3>1, PathGoesOn, WriteStepType
    <3>3. found.pc = WriteStep[k.pc] /\ found.op = k.op
      BY <1>0, <2>3 DEF ClerkState
    <3>4. AfterWrite(found) \in Path(k.op) \cup Over
      BY <3>1, <3>2, <3>3, PathGoesOn
    <3>5. AfterWrite(found) \in (Path(k.op) \cap ClerkStep) \cup Over
      BY <1>2, <3>1, <3>4
    <3>6. clerk' = [clerk EXCEPT ![c] = found] => OnPath'
      BY <1>0, <3>2, <3>3 DEF OnPath
    <3>. QED  BY <1>1, <3>5, <3>6
  <2>. QED  BY <1>5, <2>2, <2>3 DEF FindUser
<1>6. ASSUME NEW c \in Clerks, WriteUser(c) \/ DeleteUser(c) PROVE OnPath'
  <2>1. CASE Turn(c, "error") \/ Turn(c, "ok")
    BY <1>1, <2>1 DEF Over
  <2>2. CASE Turn(c, AfterWrite(clerk[c])) /\ clerk[c].pc \in WriteSteps
    <3>1. clerk[c].pc \notin Over
      BY <2>2 DEF WriteSteps, Over
    <3>2. AfterWrite(clerk[c]) \in (Path(clerk[c].op) \cap ClerkStep) \cup Over
      BY <1>2, <1>3, <2>2, <3>1, PathGoesOn
    <3>. QED  BY <1>1, <2>2, <3>2
  <2>. QED  BY <1>6, <2>1, <2>2, WriteStepType DEF WriteUser, DeleteUser
<1>7. ASSUME NEW c \in Clerks, NEW op \in Operation, NEW by \in Users, NEW u \in Users,
             NEW flag \in BOOLEAN, NEW wantsToken \in BOOLEAN,
             TakeOrder(c, op, by, u, flag, wantsToken)
      PROVE  OnPath'
  <2>1. FirstStep(op) \in Path(op)
    BY DEF FirstStep, Path, Operation
  <2>2. /\ clerk'[c].pc = FirstStep(op) /\ clerk'[c].op = op
        /\ \A d \in Clerks \ {c} : clerk'[d] = clerk[d]
    BY <1>0, <1>7 DEF TakeOrder
  <2>. QED  BY <2>1, <2>2 DEF OnPath
<1>8. CASE UNCHANGED usersVars
  BY <1>8 DEF usersVars, OnPath
<1>. QED  BY <1>4, <1>5, <1>6, <1>7, <1>8 DEF UsersNext, ClerkActs, Clerks

-----------------------------------------------------------------------------
(* A request at work disturbs no other user. *)
LEMMA CarefulKept ==
  ASSUME Careful, NEW c \in Clerks, clerk[c].pc \notin Over, NEW u, u = clerk[c].name,
         \A d \in Clerks \ {c} : clerk'[d] = clerk[d],
         clerk'[c].pc \notin Over => clerk'[c].name = u,
         \A i \in DOMAIN users : users[i].name # u => i \in DOMAIN users' /\ users'[i] = users[i],
         \A i \in DOMAIN users' : users'[i].name # u => i \in DOMAIN users /\ users'[i] = users[i],
         \A i, j \in UserRows(u)' : i = j,
         clerk'[c].pc \notin Over => Halfway(c)'
  PROVE  Careful'
<1>1. OneRowEach'
  BY DEF Careful, OneRowEach, UserRows
<1>2. OneClerkEach'
  BY DEF Careful, OneClerkEach
<1>3. ASSUME NEW d \in Clerks, clerk'[d].pc \notin Over, d # c PROVE Halfway(d)'
  <2>1. clerk'[d] = clerk[d] /\ clerk[d].pc \notin Over /\ clerk[d].name # u /\ Halfway(d)
    BY <1>3 DEF Careful, OneClerkEach
  <2>2. UserRows(clerk[d].name)' = UserRows(clerk[d].name)
    BY <2>1 DEF UserRows
  <2>3. \A i \in UserRows(clerk[d].name) : users'[i] = users[i]
    BY <2>1 DEF UserRows
  <2>. QED  BY <2>1, <2>2, <2>3 DEF Halfway
<1>. QED  BY <1>1, <1>2, <1>3 DEF Careful

LEMMA ReadingKeeps ==
  ASSUME UsersTypeOK, Careful, NEW c \in Clerks, clerk[c].pc \notin Over,
         NEW pc \in ClerkStep \ WriteSteps, Turn(c, pc), UNCHANGED users,
         pc = "create" => UserRows(clerk[c].name) = {},
         \A i \in UserRows(clerk[c].name) :
           \A j : SameOrder(j, clerk[c]) /\ j.pc = pc => SoFar(j, users[i], c)
  PROVE  Careful'
<1>1. /\ clerk'[c].pc = pc /\ \A d \in Clerks \ {c} : clerk'[d] = clerk[d]
      /\ pc \notin Over => SameOrder(clerk'[c], clerk[c])
  BY TurnAsks
<1>2. PICK u : u = clerk[c].name
  OBVIOUS
<1>3. UserRows(u)' = UserRows(u)
  BY DEF UserRows
<1>4. pc \notin Over => Halfway(c)'
  BY <1>1, <1>2, <1>3 DEF Halfway, SameOrder
<1>5. \A i, j \in UserRows(u)' : i = j
  BY <1>3 DEF Careful, OneRowEach, UserRows
<1>. QED  BY <1>1, <1>2, <1>4, <1>5, CarefulKept DEF SameOrder

LEMMA AllowDone ==
  ASSUME DoneIInv, Undisputed, NEW c \in Clerks, Allow(c), Undisputed'
  PROVE  Careful' /\ (clerk'[c].pc = "ok" => Done(c))
<1>0. UsersTypeOK /\ Careful
  BY DEF DoneIInv, UsersIInv
<1>1. clerk[c].pc = "allow" /\ clerk[c].pc \notin Over /\ UNCHANGED users
      /\ clerk[c].pc \in Path(clerk[c].op)
  BY DEF Allow, Stands, Over, DoneIInv, OnPath
<1>2. PICK pc \in {"error", "exists", "fullname", "permissions"} :
        Turn(c, pc) /\ (pc = "permissions" => clerk[c].op \notin {"add", "admin"})
  BY DEF Allow, AfterAllow
<1>3. pc \in ClerkStep \ WriteSteps /\ pc # "create" /\ pc # "ok"
  BY DEF ClerkStep, WriteSteps
<1>4. \A j, row : SameOrder(j, clerk[c]) /\ j.pc = pc => SoFar(j, row, c)
  BY <1>2 DEF SameOrder, SoFar
<1>5. Careful'
  BY <1>0, <1>1, <1>2, <1>3, <1>4, ReadingKeeps
<1>. QED  BY <1>0, <1>2, <1>3, <1>5, TurnAsks

LEMMA ExistsDone ==
  ASSUME DoneIInv, Undisputed, NEW c \in Clerks, CheckExists(c), Undisputed'
  PROVE  Careful' /\ (clerk'[c].pc = "ok" => Done(c))
<1>. DEFINE k == clerk[c]
            mine == UserRows(k.name)
<1>0. UsersTypeOK /\ Careful
  BY DEF DoneIInv, UsersIInv
<1>1. k.pc = "exists" /\ k.pc \notin Over /\ UNCHANGED users /\ k.pc \in Path(k.op)
  BY DEF CheckExists, Stands, Over, DoneIInv, OnPath
<1>2. k.op \in {"add", "remove", "admin", "permissions", "token"}
  BY <1>1 DEF DoneIInv, UsersIInv, Flow, FlowOf
<1>3. PICK pc : pc = AfterExists(k, mine # {})
  OBVIOUS
<1>4. Turn(c, pc)
  BY <1>3 DEF CheckExists, OneFails, Undisputed
<1>5. /\ pc \in {"error", "new", "ok", "delete", "admin", "allow", "token"}
      /\ pc = "admin" => k.op = "admin"
      /\ pc = "token" => k.op = "token"
      /\ pc = "ok" => k.op \in {"remove", "admin"} /\ mine = {}
  BY <1>2, <1>3 DEF AfterExists
<1>6. pc \in ClerkStep \ WriteSteps /\ pc # "create"
  BY <1>5 DEF ClerkStep, WriteSteps
<1>7. \A j, row : SameOrder(j, k) /\ j.pc = pc => SoFar(j, row, c)
  BY <1>5 DEF SameOrder, SoFar
<1>8. Careful'
  BY <1>0, <1>1, <1>4, <1>6, <1>7, ReadingKeeps
<1>9. pc = "ok" => Done(c)
  BY <1>1, <1>5 DEF Done, UserRows
<1>. QED  BY <1>0, <1>4, <1>6, <1>8, <1>9, TurnAsks

LEMMA NewDone ==
  ASSUME DoneIInv, Undisputed, NEW c \in Clerks, New(c), Undisputed'
  PROVE  Careful' /\ (clerk'[c].pc = "ok" => Done(c))
<1>0. UsersTypeOK /\ Careful
  BY DEF DoneIInv, UsersIInv
<1>1. clerk[c].pc = "new" /\ clerk[c].pc \notin Over /\ UNCHANGED users
  BY DEF New, Stands, Over
<1>2. PICK pc \in {"create", "error"} :
        Turn(c, pc) /\ (pc = "create" => UserRows(clerk[c].name) = {})
  BY DEF New, OneFails, Undisputed
<1>3. pc \in ClerkStep \ WriteSteps /\ pc # "ok"
  BY DEF ClerkStep, WriteSteps
<1>4. \A j, row : SameOrder(j, clerk[c]) /\ j.pc = pc => SoFar(j, row, c)
  BY <1>2 DEF SameOrder, SoFar
<1>5. Careful'
  BY <1>0, <1>1, <1>2, <1>3, <1>4, ReadingKeeps
<1>. QED  BY <1>0, <1>2, <1>3, <1>5, TurnAsks

(* A new user has the only row of its name. *)
LEMMA CreateDone ==
  ASSUME DoneIInv, Undisputed, NEW c \in Clerks, CreateUser(c), Undisputed'
  PROVE  Careful' /\ (clerk'[c].pc = "ok" => Done(c))
<1>0. /\ UsersTypeOK /\ Careful /\ clerk[c] \in ClerkState /\ lastId \in Nat
      /\ DOMAIN users \subseteq 1 .. lastId
  BY UsersAssumption DEF DoneIInv, UsersIInv, UsersTypeOK, Clerks, UserId
<1>1. PICK k \in ClerkState : k = clerk[c]
  BY <1>0
<1>2. PICK u : u = k.name
  OBVIOUS
<1>3. PICK new : new = NewUser(u, k.flag)
  OBVIOUS
<1>4. PICK pc : pc = AfterCreate(k)
  OBVIOUS
<1>5. k.pc = "create" /\ k.pc \notin Over /\ k.pc \in Path(k.op) /\ k.op \in Operation
  BY <1>1 DEF CreateUser, Stands, Over, DoneIInv, OnPath, ClerkState
<1>6. UserRows(u) = {}
  BY <1>0, <1>1, <1>2, <1>5 DEF Careful, Halfway
<1>7. /\ users' = [i \in DOMAIN users \cup {lastId + 1} |->
                     IF i = lastId + 1 THEN new ELSE users[i]]
      /\ Turn(c, pc)
  BY <1>1, <1>2, <1>3, <1>4 DEF CreateUser, OneFails, Undisputed
<1>8. new.name = u /\ new.admin = k.flag /\ new.perms = "none" /\ new.token = 0
  BY <1>3 DEF NewUser
<1>9. /\ \A i \in DOMAIN users : i \in DOMAIN users' /\ users'[i] = users[i]
      /\ \A i \in DOMAIN users' : i \in DOMAIN users \/ (i = lastId + 1 /\ users'[i] = new)
  BY <1>0, <1>7
<1>10. \A i \in UserRows(u)' : i = lastId + 1 /\ users'[i] = new
  BY <1>6, <1>9 DEF UserRows
<1>11. k.flag \in BOOLEAN /\ k.wantsToken \in BOOLEAN /\ c # 0
  BY ClerkNumber DEF ClerkState
<1>12. /\ pc \in {"permissions", "token", "ok"}
       /\ pc \in ClerkStep \ WriteSteps /\ pc # "create"
  <2>1. pc \in {"permissions", "token", "ok"}
    BY <1>4, AfterCreateFlow
  <2>. QED  BY <2>1 DEF ClerkStep, WriteSteps
<1>13. /\ clerk'[c].pc = pc /\ \A d \in Clerks \ {c} : clerk'[d] = clerk[d]
       /\ pc \notin Over => SameOrder(clerk'[c], k)
  BY <1>0, <1>1, <1>7, <1>12, TurnAsks
<1>14. \A j : SameOrder(j, k) /\ j.pc = pc => SoFar(j, new, c)
  BY <1>4, <1>8, <1>11 DEF SameOrder, SoFar, AfterCreate
<1>15. pc = "ok" => k.op \notin {"remove", "command delete"} /\ AsAsked(k, new, c)
  BY <1>4, <1>5, <1>8, <1>11 DEF AsAsked, AfterCreate, Path, Operation
<1>16. pc \notin Over => Halfway(c)'
  <2>1. SUFFICES ASSUME pc \notin Over PROVE Halfway(c)'
    OBVIOUS
  <2>2. SoFar(clerk'[c], new, c) /\ clerk'[c].name = u
    BY <1>2, <1>13, <1>14, <2>1 DEF SameOrder
  <2>3. \A i \in UserRows(u)' : users'[i] = new
    BY <1>10
  <2>. QED  BY <1>12, <1>13, <2>2, <2>3 DEF Halfway
<1>17. Careful'
  <2>1. \A i, j \in UserRows(u)' : i = j
    BY <1>10
  <2>2. \A i \in DOMAIN users : users[i].name # u => i \in DOMAIN users' /\ users'[i] = users[i]
    BY <1>9
  <2>3. \A i \in DOMAIN users' : users'[i].name # u => i \in DOMAIN users /\ users'[i] = users[i]
    BY <1>8, <1>9
  <2>4. u = clerk[c].name /\ clerk[c].pc \notin Over
    BY <1>1, <1>2, <1>5
  <2>5. clerk'[c].pc \notin Over => clerk'[c].name = u
    BY <1>2, <1>13 DEF SameOrder
  <2>. QED  BY <1>0, <1>13, <1>16, <2>1, <2>2, <2>3, <2>4, <2>5, CarefulKept
<1>18. pc = "ok" => Done(c)
  BY <1>1, <1>2, <1>10, <1>15 DEF Done, UserRows
<1>. QED  BY <1>13, <1>17, <1>18

LEMMA FindDone ==
  ASSUME DoneIInv, Undisputed, NEW c \in Clerks, FindUser(c), Undisputed'
  PROVE  Careful' /\ (clerk'[c].pc = "ok" => Done(c))
<1>0. /\ UsersTypeOK /\ Careful /\ clerk[c] \in ClerkState /\ clerk \in [Clerks -> ClerkState]
  BY DEF DoneIInv, UsersIInv, UsersTypeOK, Clerks
<1>1. PICK k \in ClerkState : k = clerk[c]
  BY <1>0
<1>2. PICK u : u = k.name
  OBVIOUS
<1>3. /\ k.pc \in FindSteps /\ k.pc \notin Over /\ k.pc \in Path(k.op) /\ k.op \in Operation
      /\ UNCHANGED users
  <2>1. k.pc \in FindSteps /\ UNCHANGED users
    BY <1>1, WriteStepType DEF FindUser
  <2>. QED  BY <1>1, <2>1 DEF FindSteps, Over, DoneIInv, OnPath, ClerkState
<1>4. CASE Turn(c, "error")
  <2>1. "error" \in ClerkStep \ WriteSteps
    BY DEF ClerkStep, WriteSteps
  <2>2. \A j, row : j.pc = "error" => SoFar(j, row, c)
    BY DEF SoFar
  <2>3. Careful'
    BY <1>0, <1>1, <1>3, <1>4, <2>1, <2>2, ReadingKeeps
  <2>. QED  BY <1>0, <1>4, <2>1, <2>3, TurnAsks
<1>5. ASSUME NEW i \in FirstRow(u), NEW found,
             found = [k EXCEPT !.row = i, !.pc = WriteStep[k.pc]],
             IF k.pc = "admin" /\ users[i].admin = k.flag
               THEN Turn(c, AfterWrite(found)) ELSE clerk' = [clerk EXCEPT ![c] = found]
      PROVE  Careful' /\ (clerk'[c].pc = "ok" => Done(c))
  <2>1. i \in UserRows(u) /\ users[i].name = u /\ i \in DOMAIN users
    BY DEF FirstRow, UserRows
  <2>2. \A j \in UserRows(u) : j = i
    BY <1>0, <2>1 DEF Careful, OneRowEach, UserRows
  <2>3. SameOrder(found, k) /\ found.pc = WriteStep[k.pc] /\ found.row = i
    BY <1>5 DEF ClerkState, SameOrder
  <2>4. SoFar(k, users[i], c)
    BY <1>0, <1>1, <1>2, <1>3, <2>1 DEF Careful, Halfway
  <2>5. CASE k.pc = "admin" /\ users[i].admin = k.flag
    <3>1. found.pc = "write admin" /\ Turn(c, AfterWrite(found))
      BY <1>5, <2>3, <2>5, WriteStepNames
    <3>2. k.op \in {"admin", "command edit"} /\ k.flag \in BOOLEAN
      BY <1>3, <2>5 DEF Path, Operation, ClerkState
    <3>3. PICK pc : pc = AfterWrite(found)
      OBVIOUS
    <3>4. /\ pc = IF k.op = "admin" /\ k.flag THEN "permissions" ELSE "ok"
          /\ pc \in ClerkStep \ WriteSteps /\ pc # "create"
      <4>1. pc = IF k.op = "admin" /\ k.flag THEN "permissions" ELSE "ok"
        BY <2>3, <3>1, <3>2, <3>3 DEF AfterWrite, SameOrder
      <4>. QED  BY <4>1 DEF ClerkStep, WriteSteps
    <3>5. \A j : SameOrder(j, k) /\ j.pc = pc => SoFar(j, users[i], c)
      BY <2>5, <3>2, <3>4 DEF SameOrder, SoFar
    <3>6. pc = "ok" => AsAsked(k, users[i], c)
      BY <2>4, <2>5, <3>2, <3>4 DEF AsAsked, SoFar
    <3>7. Careful'
      BY <1>0, <1>1, <1>2, <1>3, <2>2, <3>1, <3>3, <3>4, <3>5, ReadingKeeps
    <3>8. pc = "ok" => Done(c)
      BY <1>1, <1>2, <1>3, <2>2, <3>2, <3>6 DEF Done, UserRows
    <3>9. clerk'[c].pc = pc
      BY <1>0, <3>1, <3>3, <3>4, TurnAsks
    <3>. QED  BY <3>7, <3>8, <3>9
  <2>6. CASE ~(k.pc = "admin" /\ users[i].admin = k.flag)
    <3>1. clerk'[c] = found /\ \A d \in Clerks \ {c} : clerk'[d] = clerk[d]
      BY <1>0, <1>5, <2>6
    <3>2. WriteStep[k.pc] \in WriteSteps /\ WriteStep[k.pc] # "ok" /\ WriteStep[k.pc] # "create"
      BY <1>3, WriteStepType DEF WriteSteps
    <3>3. SoFar(found, users[i], c)
      BY <1>3, <2>3, <2>4, WriteStepNames DEF SameOrder, SoFar, FindSteps
    <3>4. UserRows(u)' = UserRows(u)
      BY <1>3 DEF UserRows
    <3>5. Halfway(c)'
      BY <1>2, <1>3, <2>1, <2>2, <2>3, <3>1, <3>2, <3>3, <3>4 DEF Halfway, SameOrder
    <3>6. \A j, l \in UserRows(u)' : j = l
      BY <2>2, <3>4
    <3>7. Careful'
      BY <1>0, <1>1, <1>2, <1>3, <2>3, <3>1, <3>5, <3>6, CarefulKept DEF SameOrder
    <3>. QED  BY <2>3, <3>1, <3>2, <3>7
  <2>. QED  BY <2>5, <2>6
<1>. QED  BY <1>1, <1>2, <1>4, <1>5 DEF FindUser

LEMMA WriteDone ==
  ASSUME DoneIInv, Undisputed, NEW c \in Clerks, WriteUser(c), Undisputed'
  PROVE  Careful' /\ (clerk'[c].pc = "ok" => Done(c))
<1>0. /\ UsersTypeOK /\ Careful /\ clerk[c] \in ClerkState
      /\ \A i \in DOMAIN users : users[i] \in UserRow
  BY DEF DoneIInv, UsersIInv, UsersTypeOK, Clerks
<1>1. PICK k \in ClerkState : k = clerk[c]
  BY <1>0
<1>2. PICK u : u = k.name
  OBVIOUS
<1>3. k.pc \in WriteSteps \ {"write delete"}
  <2>1. k.pc \in {WriteStep[p] : p \in FindSteps} \ {"write delete"}
    BY <1>1, WriteStepType DEF WriteUser
  <2>. QED  BY <2>1, WriteStepType
<1>4. k.pc \notin Over /\ k.pc \in Path(k.op) /\ k.op \in Operation
  BY <1>1, <1>3 DEF WriteSteps, Over, DoneIInv, OnPath, ClerkState
<1>5. PICK r : r = k.row
  OBVIOUS
<1>6. r \in UserRows(u) /\ SoFar(k, users[r], c)
  BY <1>0, <1>1, <1>2, <1>3, <1>4, <1>5 DEF Careful, Halfway
<1>7. r \in DOMAIN users /\ users[r].name = u /\ \A i \in UserRows(u) : i = r
  BY <1>0, <1>6 DEF UserRows, Careful, OneRowEach
<1>8. PICK new : new = Changed(users[r], k, c)
  OBVIOUS
<1>9. PICK pc : pc = AfterWrite(k)
  OBVIOUS
<1>10. /\ users' = [i \in DOMAIN users |-> IF i = r THEN Changed(users[i], k, c) ELSE users[i]]
       /\ Turn(c, pc)
  BY <1>1, <1>5, <1>9 DEF WriteUser, OneFails, Undisputed
<1>11. /\ DOMAIN users' = DOMAIN users /\ users'[r] = new
       /\ \A i \in DOMAIN users \ {r} : users'[i] = users[i]
  BY <1>7, <1>8, <1>10
<1>12. new.name = u
  BY <1>0, <1>3, <1>7, <1>8 DEF Changed, UserRow, WriteSteps
<1>13. UserRows(u)' = {r}
  BY <1>7, <1>11, <1>12 DEF UserRows
<1>14. /\ pc = "ok" => AsAsked(k, new, c)
       /\ \A j : SameOrder(j, k) /\ j.pc = pc => SoFar(j, new, c)
  BY <1>0, <1>3, <1>4, <1>6, <1>7, <1>8, <1>9, WrittenSoFar
<1>15. pc \in ClerkStep \ WriteSteps /\ pc # "create"
  <2>1. pc \in {"email", "fullname", "admin", "token", "permissions", "ok"}
    BY <1>9, AfterWriteFlow
  <2>. QED  BY <2>1 DEF ClerkStep, WriteSteps
<1>16. /\ clerk'[c].pc = pc /\ \A d \in Clerks \ {c} : clerk'[d] = clerk[d]
       /\ pc \notin Over => SameOrder(clerk'[c], k)
  BY <1>0, <1>1, <1>10, <1>15, TurnAsks
<1>17. pc \notin Over => Halfway(c)'
  <2>1. SUFFICES ASSUME pc \notin Over PROVE Halfway(c)'
    OBVIOUS
  <2>2. SoFar(clerk'[c], new, c) /\ clerk'[c].name = u
    BY <1>2, <1>14, <1>16, <2>1 DEF SameOrder
  <2>. QED  BY <1>11, <1>13, <1>15, <1>16, <2>2 DEF Halfway
<1>18. Careful'
  <2>1. \A i, j \in UserRows(u)' : i = j
    BY <1>13
  <2>2. \A i \in DOMAIN users : users[i].name # u => i \in DOMAIN users' /\ users'[i] = users[i]
    BY <1>7, <1>11
  <2>3. \A i \in DOMAIN users' : users'[i].name # u => i \in DOMAIN users /\ users'[i] = users[i]
    BY <1>11, <1>12
  <2>4. u = clerk[c].name /\ clerk[c].pc \notin Over
    BY <1>1, <1>2, <1>4
  <2>5. clerk'[c].pc \notin Over => clerk'[c].name = u
    BY <1>2, <1>16 DEF SameOrder
  <2>. QED  BY <1>0, <1>16, <1>17, <2>1, <2>2, <2>3, <2>4, <2>5, CarefulKept
<1>19. pc = "ok" => Done(c)
  <2>1. k.op \notin {"remove", "command delete"}
    BY <1>3, <1>4 DEF Path, WriteSteps
  <2>2. \A i \in DOMAIN users' : users'[i].name = u => users'[i] = new
    BY <1>11, <1>13 DEF UserRows
  <2>. QED  BY <1>1, <1>2, <1>14, <2>1, <2>2 DEF Done
<1>. QED  BY <1>16, <1>18, <1>19

LEMMA DeleteDone ==
  ASSUME DoneIInv, Undisputed, NEW c \in Clerks, DeleteUser(c), Undisputed'
  PROVE  Careful' /\ (clerk'[c].pc = "ok" => Done(c))
<1>0. UsersTypeOK /\ Careful
  BY DEF DoneIInv, UsersIInv
<1>1. /\ clerk[c].pc = "write delete" /\ clerk[c].pc \in WriteSteps /\ clerk[c].pc \notin Over
      /\ clerk[c].op \in {"remove", "command delete"}
  BY DEF DeleteUser, Stands, WriteSteps, Over, DoneIInv, UsersIInv, Flow, FlowOf
<1>2. PICK u : u = clerk[c].name
  OBVIOUS
<1>3. PICK r : r = clerk[c].row
  OBVIOUS
<1>4. r \in UserRows(u) /\ \A i \in UserRows(u) : i = r
  BY <1>0, <1>1, <1>2, <1>3 DEF Careful, Halfway, UserRows, OneRowEach
<1>5. users' = [i \in DOMAIN users \ {r} |-> users[i]] /\ Turn(c, "ok")
  BY <1>3 DEF DeleteUser, OneFails, Undisputed
<1>6. /\ DOMAIN users' = DOMAIN users \ {r} /\ \A i \in DOMAIN users' : users'[i] = users[i]
  BY <1>5
<1>7. \A i \in DOMAIN users' : users'[i].name # u
  BY <1>4, <1>6 DEF UserRows
<1>8. clerk'[c].pc = "ok" /\ "ok" \in Over /\ \A d \in Clerks \ {c} : clerk'[d] = clerk[d]
  BY <1>0, <1>5, TurnAsks, OverSteps DEF Over
<1>9. Careful'
  <2>1. \A i, j \in UserRows(u)' : i = j
    BY <1>7 DEF UserRows
  <2>2. \A i \in DOMAIN users : users[i].name # u => i \in DOMAIN users' /\ users'[i] = users[i]
    BY <1>4, <1>6 DEF UserRows
  <2>. QED  BY <1>0, <1>1, <1>2, <1>6, <1>8, <2>1, <2>2, CarefulKept
<1>10. Done(c)
  BY <1>1, <1>2, <1>7 DEF Done
<1>. QED  BY <1>9, <1>10

LEMMA OrderDone ==
  ASSUME DoneIInv, NEW c \in Clerks, NEW op \in Operation, NEW by \in Users, NEW u \in Users,
         NEW flag \in BOOLEAN, NEW wantsToken \in BOOLEAN,
         TakeOrder(c, op, by, u, flag, wantsToken), Undisputed, Undisputed'
  PROVE  Careful' /\ clerk'[c].pc # "ok"
<1>0. /\ UsersTypeOK /\ Careful /\ clerk \in [Clerks -> ClerkState]
  BY DEF DoneIInv, UsersIInv, UsersTypeOK, Clerks
<1>1. PICK pc : pc = FirstStep(op)
  OBVIOUS
<1>2. /\ pc \in {"exists", "new", "email", "delete", "allow"}
      /\ pc = "email" => op = "command edit"
  BY <1>1 DEF FirstStep, Operation
<1>3. /\ clerk'[c].pc = pc /\ clerk'[c].op = op /\ clerk'[c].name = u
      /\ \A d \in Clerks \ {c} : clerk'[d] = clerk[d]
      /\ UNCHANGED users
      /\ \A d \in Busy : clerk[d].name # u
  BY <1>0, <1>1 DEF TakeOrder, Undisputed
<1>4. \A row : SoFar(clerk'[c], row, c)
  BY <1>2, <1>3 DEF SoFar
<1>5. Halfway(c)'
  BY <1>2, <1>3, <1>4 DEF Halfway, WriteSteps
<1>6. OneRowEach'
  BY <1>0, <1>3 DEF Careful, OneRowEach
<1>7. OneClerkEach'
  BY <1>0, <1>3 DEF Careful, OneClerkEach, Busy, Clerks
<1>8. ASSUME NEW d \in Clerks, d # c, clerk'[d].pc \notin Over PROVE Halfway(d)'
  BY <1>0, <1>3, <1>8 DEF Careful, Halfway, UserRows
<1>. QED  BY <1>2, <1>3, <1>5, <1>6, <1>7, <1>8 DEF Careful

LEMMA DoneStep ==
  ASSUME DoneIInv, [UsersNext]_usersVars
  PROVE  /\ DoneIInv'
         /\ \A c \in Clerks :
              clerk[c].pc # "ok" /\ clerk'[c].pc = "ok" /\ Undisputed' => Done(c)
<1>1. UsersIInv' /\ OnPath'
  BY UsersStep, OnPathKept DEF DoneIInv
<1>2. unruly \subseteq unruly'
  <2>1. ASSUME NEW c \in Clerks, Allow(c) \/ CheckExists(c) \/ New(c) PROVE unruly \subseteq unruly'
    BY <2>1 DEF Allow, CheckExists, New, OneFails
  <2>2. ASSUME NEW c \in Clerks, CreateUser(c) \/ WriteUser(c) \/ DeleteUser(c)
        PROVE  unruly \subseteq unruly'
    BY <2>2 DEF CreateUser, WriteUser, DeleteUser, OneFails
  <2>3. ASSUME NEW c \in Clerks, FindUser(c) PROVE unruly \subseteq unruly'
    BY <2>3 DEF FindUser, OneFails
  <2>4. ASSUME NEW c \in Clerks, NEW op \in Operation, NEW by \in Users, NEW u \in Users,
               NEW flag \in BOOLEAN, NEW wantsToken \in BOOLEAN,
               TakeOrder(c, op, by, u, flag, wantsToken)
        PROVE  unruly \subseteq unruly'
    <3>1. \E A, B, C : unruly' = unruly \cup A \cup B \cup C
      BY <2>4 DEF TakeOrder
    <3>. QED  BY <3>1
  <2>. QED  BY <2>1, <2>2, <2>3, <2>4 DEF UsersNext, ClerkActs, Clerks, usersVars
<1>3. SUFFICES ASSUME Undisputed'
               PROVE  Careful' /\ \A c \in Clerks : clerk[c].pc # "ok" /\ clerk'[c].pc = "ok" => Done(c)
  BY <1>1 DEF DoneIInv
<1>4. Undisputed
  BY <1>2, <1>3 DEF Undisputed
<1>5. ASSUME NEW c \in Clerks, ClerkActs(c)
      PROVE  Careful' /\ \A d \in Clerks : clerk[d].pc # "ok" /\ clerk'[d].pc = "ok" => Done(d)
  <2>1. Careful' /\ (clerk'[c].pc = "ok" => Done(c))
    BY <1>3, <1>4, <1>5, AllowDone, ExistsDone, NewDone, CreateDone, FindDone, WriteDone, DeleteDone
       DEF ClerkActs
  <2>2. \A d \in Clerks \ {c} : clerk'[d] = clerk[d]
    BY <1>5 DEF ClerkActs, Allow, CheckExists, New, CreateUser, FindUser, WriteUser, DeleteUser,
       Turn, DoneIInv, UsersIInv, UsersTypeOK, Clerks
  <2>. QED  BY <2>1, <2>2
<1>6. ASSUME NEW c \in Clerks, NEW op \in Operation, NEW by \in Users, NEW u \in Users,
             NEW flag \in BOOLEAN, NEW wantsToken \in BOOLEAN,
             TakeOrder(c, op, by, u, flag, wantsToken)
      PROVE  Careful' /\ \A d \in Clerks : clerk[d].pc # "ok" /\ clerk'[d].pc = "ok" => Done(d)
  <2>1. Careful' /\ clerk'[c].pc # "ok"
    BY <1>3, <1>4, <1>6, OrderDone
  <2>2. \A d \in Clerks \ {c} : clerk'[d] = clerk[d]
    BY <1>6 DEF TakeOrder, DoneIInv, UsersIInv, UsersTypeOK, Clerks
  <2>. QED  BY <2>1, <2>2
<1>7. CASE UNCHANGED usersVars
  BY <1>3, <1>4, <1>7 DEF usersVars, DoneIInv, Undisputed, Careful, OneRowEach, OneClerkEach, Halfway,
     UserRows
<1>. QED  BY <1>5, <1>6, <1>7 DEF UsersNext, Clerks

LEMMA DoneInitially == UsersInit => DoneIInv
<1>. SUFFICES ASSUME UsersInit PROVE DoneIInv
  OBVIOUS
<1>1. UsersIInv
  BY UsersInitially
<1>2. \A c \in Clerks : clerk[c].pc \in Over
  BY IdleType DEF UsersInit, Clerks, Over
<1>3. OneRowEach
  BY DEF UsersInit, OneRowEach
<1>. QED  BY <1>1, <1>2, <1>3 DEF DoneIInv, OnPath, Careful, OneClerkEach

(* Each reachable state satisfies the inductive invariant. *)
THEOREM DoneInvariantHolds == UsersSpec => []DoneIInv
<1>1. DoneIInv /\ [UsersNext]_usersVars => DoneIInv'
  BY DoneStep
<1>. QED  BY <1>1, DoneInitially, PTL DEF UsersSpec

(* The statements of a request leave the row as asked, or gone, when it is *)
(* answered OK, for any number of users and of requests at once, unless    *)
(* others were at work on the same user or a statement failed.             *)
THEOREM OrdersDone == UsersSpec => DoneWhenOK
<1>1. ASSUME DoneIInv, [UsersNext]_usersVars, NEW c \in Clerks,
             clerk[c].pc # "ok", clerk'[c].pc = "ok", unruly' \cap {"shared", "failure"} = {}
      PROVE  Done(c)
  BY <1>1, DoneStep DEF Undisputed
<1>. DEFINE Act == \A c \in 1 .. MaxOrders :
       LET k == clerk[c] IN
       (k.pc # "ok" /\ clerk'[c].pc = "ok" /\ unruly' \cap {"shared", "failure"} = {}) =>
         IF k.op \in {"remove", "command delete"}
         THEN \A i \in DOMAIN users' : users'[i].name # k.name
         ELSE \A i \in DOMAIN users' : users'[i].name = k.name => AsAsked(k, users'[i], c)
<1>2. DoneIInv /\ [UsersNext]_usersVars => [Act]_usersVars
  BY <1>1 DEF Done, Clerks
<1>. QED  BY <1>2, DoneInvariantHolds, PTL DEF UsersSpec, DoneWhenOK

(* All that administrators change, together.                               *)

-----------------------------------------------------------------------------
(* Each table that administrators change goes through a behaviour of its   *)
(* own module, so what is proved of one holds of all of them together.     *)
THEOREM AdministrationImplementsParts ==
  AdministrationSpec => EnvironmentsSpec /\ UsersSpec /\ SessionsSpec /\ SettingsSpec
<1>1. AdministrationInit => EnvironmentsInit /\ UsersInit /\ SessionsInit /\ SettingsInit
  BY DEF AdministrationInit
<1>2. [AdministrationNext]_administrationVars =>
        /\ [EnvironmentsNext]_environmentVars /\ [UsersNext]_usersVars
        /\ [SessionsNext]_sessionsVars /\ [SettingsNext]_settingsVars
  BY DEF AdministrationNext, administrationVars
<1>. QED  BY <1>1, <1>2, PTL
          DEF AdministrationSpec, EnvironmentsSpec, UsersSpec, SessionsSpec, SettingsSpec

(* Environments, users, sessions and settings keep their types.            *)
THEOREM AdministrationTypeCorrect == AdministrationSpec => []AdministrationTypeOK
<1>1. EnvironmentsTypeOK /\ UsersTypeOK /\ SessionsTypeOK /\ SettingsTypeOK => AdministrationTypeOK
  BY DEF AdministrationTypeOK
<1>. QED  BY <1>1, AdministrationImplementsParts, EnvironmentsTypeCorrect, UsersTypeCorrect,
             SessionsTypeCorrect, SettingsTypeCorrect, PTL
=============================================================================

------------------------------ MODULE AdminUsers ------------------------------
(***************************************************************************)
(* Users of osctrl: rows of admin_users, which administrators add, edit,   *)
(* remove and promote, one statement after the other, while the command    *)
(* and header authentication do the same without asking.  A user is looked *)
(* up by name, and nothing keeps a name unique.                            *)
(***************************************************************************)
EXTENDS Naturals, FiniteSets

CONSTANTS
  Users,      \* names
  MaxOrders,  \* how many requests are made, each by a goroutine or a command
  MaxUserRows \* how many rows are ever made

ASSUME UsersAssumption == Users # {} /\ MaxOrders \in Nat /\ MaxUserRows \in Nat

VARIABLES
  users,    \* admin_users, by id
  lastId,   \* the last id
  clerk,    \* the requests, in the order they came
  unruly    \* history: what happened that a property makes an exception for

usersVars == <<users, lastId, clerk, unruly>>

Order == 0 .. MaxOrders

UserId == 0 .. MaxUserRows

(* perms: permissions for no environment, for all there are, or what a     *)
(* request says.  fullname, email and token: the request that wrote them.  *)
UserRow ==
  [name : Users, admin : BOOLEAN, perms : {"none", "all", "some"},
   fullname : Order, email : Order, token : Order]

Operation == {"add", "edit", "remove", "admin", "permissions", "token", "visit",
              "command add", "command edit", "command delete"}

(* The steps of a request; "write ..." follows the statement that finds    *)
(* the row of the user.                                                    *)
ClerkStep == {"idle", "allow", "exists", "new", "create", "fullname", "write fullname", "email",
              "write email", "admin", "write admin", "permissions", "write permissions",
              "token", "write token", "delete", "write delete", "ok", "error"}

(* by makes the request about name; flag is Admin or the flag of the       *)
(* command, wantsToken is Token.  row is the row that was found.           *)
ClerkState ==
  [pc : ClerkStep, op : Operation, by : Users, name : Users, flag : BOOLEAN,
   wantsToken : BOOLEAN, row : UserId]

(* Requests have overlapped, also about the same name; the command or      *)
(* headers were used, which ask for no permission; a statement failed.     *)
Unruliness == {"overlap", "shared", "unasked", "failure"}

UsersTypeOK ==
  /\ lastId \in UserId
  /\ DOMAIN users \subseteq 1 .. lastId /\ \A i \in DOMAIN users : users[i] \in UserRow
  /\ clerk \in [1 .. MaxOrders -> ClerkState]
  /\ unruly \subseteq Unruliness

-----------------------------------------------------------------------------
NewUser(u, isAdmin) ==
  [name |-> u, admin |-> isAdmin, perms |-> "none", fullname |-> 0, email |-> 0, token |-> 0]

AnyUser == CHOOSE u \in Users : TRUE

Idle(pc) ==
  [pc |-> pc, op |-> "edit", by |-> AnyUser, name |-> AnyUser, flag |-> FALSE,
   wantsToken |-> FALSE, row |-> 0]

(* The first user is an administrator; others may be. *)
UsersInit ==
  /\ lastId \in 1 .. MaxUserRows
  /\ users \in [1 .. lastId -> {NewUser(u, a) : u \in Users, a \in BOOLEAN}]
  /\ \A i, j \in 1 .. lastId : users[i].name = users[j].name => i = j
  /\ users[1] = NewUser(AnyUser, TRUE)
  /\ clerk = [c \in 1 .. MaxOrders |-> Idle("idle")] /\ unruly = {}

Over == {"idle", "ok", "error"}

Busy == {c \in 1 .. MaxOrders : clerk[c].pc \notin Over}

Stands(c, pc) == clerk[c].pc = pc

Turn(c, pc) ==
  clerk' = [clerk EXCEPT ![c] = IF pc \in Over THEN Idle(pc) ELSE [@ EXCEPT !.pc = pc]]

UserRows(u) == {i \in DOMAIN users : users[i].name = u}

(* Get: the first row of the name, by id. *)
FirstRow(u) == {i \in UserRows(u) : \A j \in UserRows(u) : i <= j}

(* One statement fails. *)
OneFails == "failure" \notin unruly /\ unruly' = unruly \cup {"failure"}

Unasked(op) == op \in {"visit", "command add", "command edit", "command delete"}

FirstStep(op) ==
  CASE op = "permissions"             -> "exists"
    [] op \in {"visit", "command add"} -> "new"
    [] op = "command edit"            -> "email"
    [] op = "command delete"          -> "delete"
    [] OTHER                          -> "allow"

(* All of the operations; where a request has no flag it is FALSE. *)
TakeOrder(c, op, by, u, flag, wantsToken) ==
  /\ Stands(c, "idle") /\ \A d \in 1 .. MaxOrders : Stands(d, "idle") => c <= d
  /\ flag => op \in {"add", "admin", "visit", "command add", "command edit"}
  /\ wantsToken => op = "add"
  /\ Unasked(op) => by = u
  /\ clerk' = [clerk EXCEPT ![c] =
       [pc |-> FirstStep(op), op |-> op, by |-> by, name |-> u, flag |-> flag,
        wantsToken |-> wantsToken, row |-> 0]]
  /\ unruly' = unruly
       \cup {x \in {"overlap"} : Busy # {}}
       \cup {x \in {"shared"} : \E d \in Busy : clerk[d].name = u}
       \cup {x \in {"unasked"} : Unasked(op)}
  /\ UNCHANGED <<users, lastId>>

-----------------------------------------------------------------------------
(* Mutants.  Each repeats a definition that follows with a plausible bug:  *)
(* a request may be about the user who makes it; the token is forgotten.   *)

AfterAllowAnyone(k) ==
  CASE k.op \in {"add", "remove", "admin", "token"} -> "exists"
    [] k.op = "edit"                               -> "fullname"
    [] OTHER                                       -> "permissions"

AfterWriteForgetful(k) ==
  CASE k.pc = "write fullname" /\ k.op = "edit" -> "email"
    [] k.pc = "write email" /\ k.op = "command edit" -> "fullname"
    [] k.pc = "write fullname" /\ k.op = "command edit" -> "admin"
    [] OTHER -> "ok"

-----------------------------------------------------------------------------
(* What is asked before anything is written.                               *)

MayAdminister(u) == \E i \in FirstRow(u) : users[i].admin

(* "attempt to remove current user", "attempt to de-admin current user" *)
AfterAllow(k) ==
  IF k.op \in {"remove", "admin"} /\ k.name = k.by THEN "error"
  ELSE CASE k.op \in {"add", "remove", "admin", "token"} -> "exists"
         [] k.op = "edit"                               -> "fullname"
         [] OTHER                                       -> "permissions"

(* CheckPermissions at the administrator's level. *)
Allow(c) ==
  /\ Stands(c, "allow")
  /\ \/ MayAdminister(clerk[c].by) /\ Turn(c, AfterAllow(clerk[c])) /\ UNCHANGED unruly
     \/ ~MayAdminister(clerk[c].by) /\ Turn(c, "error") /\ UNCHANGED unruly
     \/ OneFails /\ Turn(c, "error")
  /\ UNCHANGED <<users, lastId>>

AfterExists(k, found) ==
  CASE k.op = "add"         -> IF found THEN "error" ELSE "new"
    [] k.op = "remove"      -> IF found THEN "delete" ELSE "ok"
    [] k.op = "admin"       -> IF found THEN "admin" ELSE "ok"
    [] k.op = "permissions" -> IF found THEN "allow" ELSE "error"
    [] k.op = "token"       -> IF found THEN "token" ELSE "error"

(* Exists drops the error of the database, and has found nothing then. *)
CheckExists(c) ==
  /\ Stands(c, "exists")
  /\ \/ Turn(c, AfterExists(clerk[c], UserRows(clerk[c].name) # {})) /\ UNCHANGED unruly
     \/ OneFails /\ Turn(c, AfterExists(clerk[c], FALSE))
  /\ UNCHANGED <<users, lastId>>

(* New asks Exists once more. *)
New(c) ==
  /\ Stands(c, "new")
  /\ \/ /\ Turn(c, IF UserRows(clerk[c].name) = {} THEN "create" ELSE "error")
        /\ UNCHANGED unruly
     \/ OneFails /\ Turn(c, "create")
  /\ UNCHANGED <<users, lastId>>

-----------------------------------------------------------------------------
(* What is written.                                                        *)

(* An administrator gets permissions for all environments, and a new one   *)
(* a token if it was asked for.                                            *)
AfterCreate(k) ==
  IF k.op # "add" THEN "ok"
  ELSE IF k.flag THEN "permissions" ELSE IF k.wantsToken THEN "token" ELSE "ok"

AfterWrite(k) ==
  CASE k.op = "edit" /\ k.pc = "write fullname"         -> "email"
    [] k.op = "command edit" /\ k.pc = "write email"    -> "fullname"
    [] k.op = "command edit" /\ k.pc = "write fullname" -> "admin"
    [] k.op = "admin" /\ k.pc # "write token" /\ k.flag ->
         IF k.pc = "write permissions" THEN "token" ELSE "permissions"
    [] k.op = "add" /\ k.pc = "write permissions" /\ k.wantsToken -> "token"
    [] OTHER -> "ok"

CreateUser(c) ==
  /\ Stands(c, "create")
  /\ \/ /\ lastId < MaxUserRows /\ lastId' = lastId + 1
        /\ users' = [i \in DOMAIN users \cup {lastId + 1} |->
                       IF i = lastId + 1 THEN NewUser(clerk[c].name, clerk[c].flag)
                       ELSE users[i]]
        /\ Turn(c, AfterCreate(clerk[c])) /\ UNCHANGED unruly
     \/ OneFails /\ Turn(c, "error") /\ UNCHANGED <<users, lastId>>

WriteStep ==
  [fullname |-> "write fullname", email |-> "write email", admin |-> "write admin",
   permissions |-> "write permissions", token |-> "write token", delete |-> "write delete"]

(* Every Change..., UpdateToken and Delete looks for the row first;        *)
(* ChangeAdmin writes nothing when the flag is what it was.                *)
FindUser(c) ==
  LET k == clerk[c] IN
  /\ k.pc \in DOMAIN WriteStep
  /\ \/ \E i \in FirstRow(k.name) :
          LET found == [k EXCEPT !.row = i, !.pc = WriteStep[k.pc]]
              asItIs == k.pc = "admin" /\ users[i].admin = k.flag
          IN  /\ IF asItIs THEN Turn(c, AfterWrite(found))
                           ELSE clerk' = [clerk EXCEPT ![c] = found]
              /\ UNCHANGED unruly
     \/ UserRows(k.name) = {} /\ Turn(c, "error") /\ UNCHANGED unruly
     \/ OneFails /\ Turn(c, "error")
  /\ UNCHANGED <<users, lastId>>

(* One column, or the two of a token. *)
Changed(row, k, c) ==
  CASE k.pc = "write fullname"    -> [row EXCEPT !.fullname = c]
    [] k.pc = "write email"       -> [row EXCEPT !.email = c]
    [] k.pc = "write admin"       -> [row EXCEPT !.admin = k.flag]
    [] k.pc = "write permissions" -> [row EXCEPT !.perms = IF k.op = "permissions" THEN "some" ELSE "all"]
    [] k.pc = "write token"       -> [row EXCEPT !.token = c]

(* By id: a row that was deleted meanwhile is not written. *)
WriteUser(c) ==
  LET k == clerk[c] IN
  /\ k.pc \in {WriteStep[p] : p \in DOMAIN WriteStep} \ {"write delete"}
  /\ \/ /\ users' = [i \in DOMAIN users |-> IF i = k.row THEN Changed(users[i], k, c) ELSE users[i]]
        /\ Turn(c, AfterWrite(k)) /\ UNCHANGED unruly
     \/ OneFails /\ Turn(c, "error") /\ UNCHANGED users
  /\ UNCHANGED lastId

DeleteUser(c) ==
  /\ Stands(c, "write delete")
  /\ \/ /\ users' = [i \in DOMAIN users \ {clerk[c].row} |-> users[i]]
        /\ Turn(c, "ok") /\ UNCHANGED unruly
     \/ OneFails /\ Turn(c, "error") /\ UNCHANGED users
  /\ UNCHANGED lastId

ClerkActs(c) ==
  \/ Allow(c) \/ CheckExists(c) \/ New(c) \/ CreateUser(c) \/ FindUser(c) \/ WriteUser(c)
  \/ DeleteUser(c)

UsersNext ==
  \E c \in 1 .. MaxOrders :
    \/ ClerkActs(c)
    \/ \E op \in Operation, by, u \in Users, flag, wantsToken \in BOOLEAN :
         TakeOrder(c, op, by, u, flag, wantsToken)

UsersSpec == UsersInit /\ [][UsersNext]_usersVars

-----------------------------------------------------------------------------
(* UsersPOSTHandler refuses to remove or demote the user who asks: as long *)
(* as requests do not overlap and the command is not used, an              *)
(* administrator is left.                                                  *)
SomeAdminLeft ==
  unruly \cap {"overlap", "unasked"} = {} => \E i \in DOMAIN users : users[i].admin

(* What the row of a user is after a request that was answered OK. *)
AsAsked(k, row, c) ==
  CASE k.op = "add"          -> /\ row.admin = k.flag /\ (k.flag <=> row.perms = "all")
                                /\ (k.wantsToken <=> row.token = c)
    [] k.op = "admin"        -> /\ row.admin = k.flag
                                /\ k.flag => row.perms = "all" /\ row.token = c
    [] k.op = "edit"         -> row.fullname = c /\ row.email = c
    [] k.op = "permissions"  -> row.perms = "some"
    [] k.op = "token"        -> row.token = c
    [] k.op = "command edit" -> row.admin = k.flag /\ row.fullname = c
    [] OTHER                 -> row.admin = k.flag

(* The many statements of a request leave what was asked for and nothing   *)
(* less: when it is answered OK, and nobody else was at work on the same   *)
(* user nor did a statement fail, the row is as asked, or gone.            *)
DoneWhenOK ==
  [][\A c \in 1 .. MaxOrders :
       LET k == clerk[c] IN
       (k.pc # "ok" /\ clerk'[c].pc = "ok" /\ unruly' \cap {"shared", "failure"} = {}) =>
         IF k.op \in {"remove", "command delete"}
         THEN \A i \in DOMAIN users' : users'[i].name # k.name
         ELSE \A i \in DOMAIN users' : users'[i].name = k.name => AsAsked(k, users'[i], c)]_usersVars
=============================================================================

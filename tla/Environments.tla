---------------------------- MODULE Environments ----------------------------
(***************************************************************************)
(* The row of one TLS environment, its secret links, and the requests of   *)
(* the admin service and of the command line tool that edit it at the same *)
(* time.  Some edits write one column; others read the whole row, change   *)
(* it and write all of it back, whatever was edited meanwhile.  Rows are   *)
(* found by name, which nothing keeps unique, and written by id.           *)
(***************************************************************************)
EXTENDS Naturals, FiniteSets

CONSTANTS
  Requests,  \* requests of operators: each one is made at most once
  First,     \* the request that created the environment, if there is one yet
  Blank,     \* "", the zero value of a column
  On, Off,   \* the values of debug_http; Off is its zero value
  InFlight,  \* how many requests may run at the same time
  MaxRows,   \* how many rows are ever made
  Operations \* what operators do, a subset of AllOperations

(* One value per edit: column values, paths and deadlines are told apart by *)
(* the request that wrote them.                                            *)
Edits == Requests \cup {First}

ColumnEdits == {"configuration", "certificate", "expire enroll", "expire remove",
                "debug on", "debug off"}

RowEdits == {"intervals", "extend enroll", "extend remove", "update"}

AllOperations ==
  ColumnEdits \cup RowEdits \cup {"create", "create by command", "delete", "remove tag"}

ASSUME EnvironmentsAssumption ==
  /\ IsFiniteSet(Requests) /\ First \notin Requests
  /\ Blank \notin Edits /\ {On, Off} \cap (Edits \cup {Blank}) = {} /\ On # Off
  /\ InFlight \in Nat /\ MaxRows \in Nat \ {0}
  /\ Operations \subseteq AllOperations

VARIABLES
  table,   \* rows of tls_environments, by id
  present, \* the ids of the rows that are there
  made,    \* the last id
  tag,     \* TRUE: there is a tag named after the environment
  passed,  \* the deadlines that are over
  request, \* handlers of the admin service and commands
  overlapped \* history: two requests have run at the same time

environmentVars == <<table, present, made, tag, passed, request, overlapped>>

Columns == {"configuration", "certificate", "flags", "debug_http", "intervals",
            "hostname", "enroll_secret_path", "enroll_expire",
            "remove_secret_path", "remove_expire"}

Links == {<<"enroll_secret_path", "enroll_expire">>,
          <<"remove_secret_path", "remove_expire">>}

(* Flags name the intervals and the host name they were generated from. *)
FlagTexts == Edits \X Edits

Values == Edits \cup FlagTexts \cup {Blank, On, Off}

Row == [Columns -> Values]

RequestState ==
  [pc : {"idle", "get", "write", "generate", "flags", "insert", "tag", "done"},
   op : AllOperations \cup {Blank}, id : 0 .. MaxRows, seen : Row]

EnvironmentsTypeOK ==
  /\ table \in [1 .. MaxRows -> Row]
  /\ present \subseteq 1 .. made /\ made \in 0 .. MaxRows
  /\ tag \in BOOLEAN /\ overlapped \in BOOLEAN
  /\ passed \subseteq Edits
  /\ request \in [Requests -> RequestState]

-----------------------------------------------------------------------------
BlankRow == [c \in Columns |-> Blank]

(* Mutant: the flags are made from the wrong column. *)
WrongColumn(row) == <<row["intervals"], row["debug_http"]>>

Generated(row) == <<row["intervals"], row["hostname"]>>

With(row, columns, v) == [c \in Columns |-> IF c \in columns THEN v ELSE row[c]]

Empty(e) ==
  [c \in Columns |-> CASE c \in {"certificate", "flags"} -> Blank
                       [] c = "debug_http" -> Off
                       [] OTHER -> e]

(* Empty, as the two creators complete it: the command may be given a      *)
(* certificate and --debug, and leaves the flags to a later statement.     *)
NewRows(e, by) ==
  IF by = "create" THEN {[Empty(e) EXCEPT !["flags"] = Generated(Empty(e))]}
                   ELSE {With(With(Empty(e), {"certificate"}, c), {"debug_http"}, d) :
                           c \in {Blank, e}, d \in {On, Off}}

EnvironmentsInit ==
  /\ made \in {0, 1} /\ present = 1 .. made /\ tag = (made = 1)
  /\ table = [i \in 1 .. MaxRows |->
       IF i <= made THEN [Empty(First) EXCEPT !["flags"] = Generated(Empty(First))]
                    ELSE BlankRow]
  /\ overlapped = FALSE
  /\ passed = {}
  /\ request = [r \in Requests |->
       [pc |-> "idle", op |-> Blank, id |-> 0, seen |-> BlankRow]]

-----------------------------------------------------------------------------
(* Get orders the rows of the name by id. *)
Found(i) == i \in present /\ \A j \in present : i <= j

Running == {r \in Requests : request[r].pc \notin {"idle", "done"}}

(* The next free request takes op on, reading row i, and goes to pc. *)
Begin(r, op, pc, i) ==
  /\ op \in Operations /\ request[r].pc = "idle" /\ Cardinality(Running) < InFlight
  /\ request' = [request EXCEPT ![r] =
       [pc |-> pc, op |-> op, id |-> i, seen |-> IF i = 0 THEN BlankRow ELSE table[i]]]
  /\ overlapped' = (overlapped \/ Running # {})

Goto(r, pc) == request' = [request EXCEPT ![r].pc = pc]

-----------------------------------------------------------------------------
(* Edits of one column: what the row held does not matter, so that looking *)
(* it up and updating it by its id is as good as one step.                 *)

Column(op) ==
  CASE op \in {"debug on", "debug off"} -> "debug_http"
    [] op = "expire enroll" -> "enroll_expire"
    [] op = "expire remove" -> "remove_expire"
    [] OTHER -> op

EditColumn(r, op) ==
  /\ op \in ColumnEdits
  /\ \E i \in present :
       /\ Found(i) /\ Begin(r, op, "done", i)
       /\ table' = [table EXCEPT ![i][Column(op)] =
            CASE op = "debug on" -> On [] op = "debug off" -> Off [] OTHER -> r]
  /\ passed' = IF op \in {"expire enroll", "expire remove"} THEN passed \cup {r} ELSE passed
  /\ UNCHANGED <<present, made, tag>>

ConfPOSTHandler(r) == EditColumn(r, "configuration")

EnrollPOSTHandler(r) == EditColumn(r, "certificate")

ExpireLink(r) == EditColumn(r, "expire enroll") \/ EditColumn(r, "expire remove")

ChangeDebugHTTP(r) == EditColumn(r, "debug on") \/ EditColumn(r, "debug off")

-----------------------------------------------------------------------------
(* Edits of the whole row. *)

EditRow(r, op) ==
  /\ op \in RowEdits
  /\ \E i \in present :
       Found(i) /\ Begin(r, op, IF op = "update" THEN "get" ELSE "write", i)
  /\ UNCHANGED <<table, present, made, tag, passed>>

IntervalsPOSTHandler(r) == EditRow(r, "intervals")

ExtendLink(r) == EditRow(r, "extend enroll") \/ EditRow(r, "extend remove")

updateEnvironment(r) == EditRow(r, "update")

(* The command sets debug_http, and hostname if it is given one. *)
Updated(seen, r) ==
  {With(With(seen, {"debug_http"}, d), {"hostname"}, h) :
     d \in {On, Off}, h \in {seen["hostname"], r}}

(* Update looks for a row of the name, but writes the one it was given. *)
Get(r) ==
  /\ request[r].pc = "get"
  /\ Goto(r, IF present = {} THEN "done" ELSE "write")
  /\ UNCHANGED <<table, present, made, tag, passed, overlapped>>

(* Mutant: extending the enroll link gives the same path a new deadline, as *)
(* RotateSecret does.                                                      *)
ExtendOnly(r) ==
  {IF request[r].op = "extend remove"
   THEN With(request[r].seen, {"remove_secret_path", "remove_expire"}, r)
   ELSE With(request[r].seen, {"enroll_expire"}, r)}

(* Mutant: extending the remove link moves the deadline of the other one. *)
OtherDeadline(r) ==
  {With(request[r].seen, {"remove_secret_path", "enroll_expire"}, r)}

(* The row as a request wants to write it.  Blank is an interval of zero. *)
Edited(r) ==
  LET seen == request[r].seen
  IN  CASE request[r].op = "intervals" -> {With(seen, {"intervals"}, v) : v \in {r, Blank}}
        [] request[r].op = "extend enroll" ->
             {With(seen, {"enroll_secret_path", "enroll_expire"}, r)}
        [] request[r].op = "extend remove" ->
             {With(seen, {"remove_secret_path", "remove_expire"}, r)}
        [] OTHER -> Updated(seen, r)

(* Updates with a struct skips the columns whose new value is the zero one. *)
Updates(row, new) ==
  [c \in Columns |-> IF new[c] \in {Blank, Off} THEN row[c] ELSE new[c]]

(* A row that is gone is not written. *)
Put(i, new) ==
  table' = IF i \in present THEN [table EXCEPT ![i] = Updates(@, new)] ELSE table

(* Mutant: the flags are left as they were when the intervals change. *)
WriteOnly(r) ==
  /\ request[r].pc = "write"
  /\ \E new \in Edited(r) :
       /\ Put(request[r].id, new)
       /\ request' = [request EXCEPT ![r].seen = new, ![r].pc = "done"]
  /\ UNCHANGED <<present, made, tag, passed, overlapped>>

Write(r) ==
  /\ request[r].pc = "write"
  /\ \E new \in Edited(r) :
       /\ Put(request[r].id, new)
       /\ request' = [request EXCEPT
            ![r].seen = new,
            ![r].pc = CASE request[r].op = "intervals" -> "generate"
                        [] request[r].op = "update" -> "flags"
                        [] OTHER -> "done"]
  /\ UNCHANGED <<present, made, tag, passed, overlapped>>

(* GenerateFlagsEnv reads the row again. *)
GenerateFlags(r) ==
  /\ request[r].pc = "generate"
  /\ \/ \E i \in present :
          /\ Found(i)
          /\ request' = [request EXCEPT ![r].pc = "flags", ![r].seen = table[i]]
     \/ present = {} /\ Goto(r, "done")
  /\ UNCHANGED <<table, present, made, tag, passed, overlapped>>

UpdateFlags(r) ==
  /\ request[r].pc = "flags"
  /\ table' = [i \in DOMAIN table |->
       IF Found(i) THEN [table[i] EXCEPT !["flags"] = Generated(request[r].seen)]
                   ELSE table[i]]
  /\ Goto(r, "done")
  /\ UNCHANGED <<present, made, tag, passed, overlapped>>

-----------------------------------------------------------------------------
(* An environment is created unless there is one, which is looked up first. *)
Create(r, op) ==
  /\ op \in {"create", "create by command"}
  /\ present = {} /\ Begin(r, op, "insert", 0)
  /\ UNCHANGED <<table, present, made, tag, passed>>

(* The links of the admin service are born expired. *)
Insert(r) ==
  /\ request[r].pc = "insert" /\ made < MaxRows
  /\ made' = made + 1 /\ present' = present \cup {made + 1}
  /\ \E row \in NewRows(r, request[r].op) :
       /\ table' = [table EXCEPT ![made + 1] = row]
       /\ request' = [request EXCEPT ![r].pc = "tag", ![r].seen = row]
  /\ passed' = IF request[r].op = "create" THEN passed \cup {r} ELSE passed
  /\ UNCHANGED <<tag, overlapped>>

(* NewTag fails when there is one.  The command then ends without flags. *)
NewTag(r) ==
  /\ request[r].pc = "tag"
  /\ tag' = TRUE
  /\ Goto(r, IF ~tag /\ request[r].op = "create by command" THEN "flags" ELSE "done")
  /\ UNCHANGED <<table, present, made, passed, overlapped>>

Delete(r) ==
  /\ \E i \in present :
       /\ Found(i) /\ Begin(r, "delete", "done", i)
       /\ present' = present \ {i}
  /\ UNCHANGED <<table, made, tag, passed>>

(* The tag is not removed with the environment, but by operators. *)
RemoveTag(r) ==
  /\ tag /\ Begin(r, "remove tag", "done", 0)
  /\ tag' = FALSE
  /\ UNCHANGED <<table, present, made, passed>>

-----------------------------------------------------------------------------
(* Twenty-four hours pass since the request that set the deadline. *)
Pass(e) ==
  /\ e \notin passed
  /\ \E i \in present, c \in {"enroll_expire", "remove_expire"} : table[i][c] = e
  /\ passed' = passed \cup {e}
  /\ UNCHANGED <<table, present, made, tag, request, overlapped>>

RequestStep(r) ==
  \/ ConfPOSTHandler(r) \/ EnrollPOSTHandler(r) \/ ExpireLink(r) \/ ChangeDebugHTTP(r)
  \/ IntervalsPOSTHandler(r) \/ ExtendLink(r) \/ updateEnvironment(r)
  \/ Get(r) \/ Write(r) \/ GenerateFlags(r) \/ UpdateFlags(r)
  \/ Create(r, "create") \/ Create(r, "create by command")
  \/ Insert(r) \/ NewTag(r) \/ Delete(r) \/ RemoveTag(r)

EnvironmentsNext ==
  \/ \E r \in Requests : RequestStep(r)
  \/ \E e \in Edits : Pass(e)

EnvironmentsSpec == EnvironmentsInit /\ [][EnvironmentsNext]_environmentVars
=============================================================================

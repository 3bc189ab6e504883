------------------------------- MODULE Queries -------------------------------
(***************************************************************************)
(* On-demand (distributed) queries, from the operator's request to the     *)
(* last result.  Four kinds of actors meet in four database tables:        *)
(*   - the handlers of the admin and API services that create a query      *)
(*     (one database statement after the other, no transaction);           *)
(*   - the operator who completes, activates or deletes it;                *)
(*   - osqueryd on the nodes, which reads queries and writes results       *)
(*     through the TLS service (external, modelled from its requests);     *)
(*   - one goroutine per accepted write, which accounts for the results    *)
(*     after the response has been sent, and one more per result that      *)
(*     stores its data.                                                    *)
(* Every action is one database statement, or several of which only one    *)
(* reads or writes what another actor can see or change.                   *)
(***************************************************************************)
EXTENDS Naturals, FiniteSets

CONSTANTS
  Names,      \* names of distributed queries
  Nodes,      \* UUIDs of the nodes
  NoUUID,     \* the UUID of a zero OsqueryNode, ""
  NoName,     \* no query
  Targets,    \* targets an operator can name
  Kind,       \* [Targets -> TargetTypes]
  Covers,     \* [Targets -> SUBSET Nodes], the nodes isQueryTarget accepts
  Listed,     \* [Targets -> SUBSET Nodes], the nodes the target's look-up finds
  Choices,    \* the sets of targets of a request
  Requests,   \* the handlers in use, a subset of RequestKinds
  Workers,    \* goroutines: at most this many results are accepted
  InFlight,   \* how many of them may run at the same time
  MaxKey,     \* how often a node enrols
  Operations, \* what the operator does meanwhile, a subset of OperatorActions
  DBErrors    \* TRUE: a database statement may fail

TargetTypes == {"environment", "platform", "uuid", "localname"}

RequestKinds == {"query", "carve", "api"}

Results == {"ok", "error"}

OperatorActions == {"complete", "activate", "delete", "remove node"}

ASSUME ConstantsAssumption ==
  /\ IsFiniteSet(Names) /\ NoName \notin Names
  /\ IsFiniteSet(Nodes) /\ NoUUID \notin Nodes
  /\ IsFiniteSet(Targets) /\ Targets \cap Nodes = {}
  /\ Kind \in [Targets -> TargetTypes]
  /\ Covers \in [Targets -> SUBSET Nodes]
  /\ Listed \in [Targets -> SUBSET Nodes]
  /\ Choices \subseteq SUBSET Targets /\ Requests \subseteq RequestKinds
  /\ IsFiniteSet(Workers)
  /\ InFlight \in Nat /\ MaxKey \in Nat
  /\ Operations \subseteq OperatorActions
  /\ DBErrors \in BOOLEAN

VARIABLES
  query,    \* table distributed_queries without its two counters
  tally,    \* columns executions ("ok") and errors ("error") of that table
  targets,  \* table distributed_query_targets
  execs,    \* table distributed_query_executions
  logs,     \* result data stored by QueryLog
  run,      \* the request that creates each query
  node,     \* table osquery_nodes
  read,     \* the read request of each node
  pending,  \* results each osqueryd has yet to deliver
  worker,   \* ProcessLogQueryResult goroutines
  dispatch, \* DispatchQueries goroutines
  counted   \* history: the results whose increment was written

vars == <<query, tally, targets, execs, logs, run, node, read, pending,
          worker, dispatch, counted>>

rows == <<query, tally, targets, execs, logs>>

UUIDs == Nodes \cup {NoUUID}

(* A result as the server accounts for it; "by" tells rows apart like their id. *)
Answer == [name : Names, uuid : UUIDs, by : Workers, result : Results]

QueryRow == [created : BOOLEAN, active : BOOLEAN, completed : BOOLEAN,
             deleted : BOOLEAN, expected : Nat]

RunState == [pc : {"none", "target", "count", "done", "failed"},
             by : RequestKinds, todo : SUBSET Targets, expected : SUBSET (Nodes \cup Targets)]

NodeRow == [present : BOOLEAN, key : Nat, seen : BOOLEAN]

ReadState == [busy : BOOLEAN, left : SUBSET Names, found : SUBSET Names]

WorkerState ==
  [pc : {"idle", "lookup", "next", "inc", "write", "track", "verify",
         "complete", "done"},
   from : UUIDs, key : Nat, uuid : UUIDs, name : Names \cup {NoName},
   todo : SUBSET Names, failed : SUBSET Names, seen : Nat, quota : Nat]

TypeOK ==
  /\ query \in [Names -> QueryRow]
  /\ tally \in [Names -> [Results -> Nat]]
  /\ targets \in [Names -> SUBSET Targets]
  /\ execs \subseteq Answer /\ logs \subseteq Answer
  /\ run \in [Names -> RunState]
  /\ node \in [Nodes -> NodeRow]
  /\ read \in [Nodes -> ReadState]
  /\ pending \in [Nodes -> SUBSET Names]
  /\ worker \in [Workers -> WorkerState]
  /\ dispatch \subseteq Answer /\ counted \subseteq Answer

-----------------------------------------------------------------------------
NoRow == [created |-> FALSE, active |-> FALSE, completed |-> FALSE,
          deleted |-> FALSE, expected |-> 0]

Resting(pc) ==
  [pc |-> pc, from |-> NoUUID, key |-> 0, uuid |-> NoUUID, name |-> NoName,
   todo |-> {}, failed |-> {}, seen |-> 0, quota |-> 0]

(* Each node is enrolled and was seen lately, or not, or has yet to enrol. *)
Init ==
  /\ query = [q \in Names |-> NoRow]
  /\ tally = [q \in Names |-> [r \in Results |-> 0]]
  /\ targets = [q \in Names |-> {}]
  /\ execs = {} /\ logs = {}
  /\ run = [q \in Names |-> [pc |-> "none", by |-> "query", todo |-> {},
                             expected |-> {}]]
  /\ node \in [Nodes -> {[present |-> TRUE, key |-> 1, seen |-> TRUE],
                         [present |-> TRUE, key |-> 1, seen |-> FALSE],
                         [present |-> FALSE, key |-> 0, seen |-> FALSE]}]
  /\ read = [n \in Nodes |-> [busy |-> FALSE, left |-> {}, found |-> {}]]
  /\ pending = [n \in Nodes |-> {}]
  /\ worker = [w \in Workers |-> Resting("idle")]
  /\ dispatch = {} /\ counted = {}

-----------------------------------------------------------------------------
(* The request that creates a query. *)

(* The query is active, and expects nothing, from its first statement on. *)
RunCreate(q, by) ==
  /\ by \in Requests /\ run[q].pc = "none"
  /\ \E T \in Choices :
       run' = [run EXCEPT ![q] = [pc |-> "target", by |-> by, todo |-> T,
                                  expected |-> {}]]
  /\ query' = [query EXCEPT ![q].created = TRUE, ![q].active = TRUE]
  /\ UNCHANGED <<tally, targets, execs, logs, node, read, pending, worker,
                 dispatch, counted>>

QueryRunPOSTHandler(q) == RunCreate(q, "query")

CarvesRunPOSTHandler(q) == RunCreate(q, "carve")

apiQueriesRunHandler(q) == RunCreate(q, "api")

Order == [environment |-> 1, platform |-> 2, uuid |-> 3, localname |-> 4]

(* The loops run over environments, platforms, UUIDs and hosts, in this order. *)
NextTarget(q, t) ==
  /\ run[q].pc = "target" /\ t \in run[q].todo
  /\ \A u \in run[q].todo : Order[Kind[t]] <= Order[Kind[u]]

(* Envs.Exists, checkValidPlatform, CheckByUUID, CheckByHost *)
ValidTarget(t) ==
  Kind[t] = "environment" \/ \E n \in Listed[t] : node[n].present

(* A target that is not found is skipped, also when its count failed. *)
RunTarget(q, t) ==
  /\ NextTarget(q, t)
  /\ \/ /\ ValidTarget(t)
        /\ targets' = [targets EXCEPT ![q] = @ \cup {t}]
        /\ run' = [run EXCEPT ![q].pc = "count"]
     \/ /\ DBErrors \/ ~ValidTarget(t)
        /\ run' = [run EXCEPT ![q].todo = @ \ {t}]
        /\ UNCHANGED targets
  /\ UNCHANGED <<query, tally, execs, logs, node, read, pending, worker,
                 dispatch, counted>>

(* What the target adds to the list of the expected: the nodes seen lately *)
(* for an environment or a platform, the UUID itself, and for a host its   *)
(* name as the operator typed it, or nothing when a carve is created.      *)
ExpectedOf(q, t) ==
  CASE Kind[t] \in {"environment", "platform"} ->
         {n \in Listed[t] : node[n].present /\ node[n].seen}
    [] Kind[t] = "uuid" -> Listed[t]
    [] Kind[t] = "localname" -> IF run[q].by = "carve" THEN {} ELSE {t}

RunCount(q) ==
  /\ run[q].pc = "count"
  /\ \E t \in run[q].todo \cap targets[q] :
       run' = [run EXCEPT ![q] = [pc |-> "target", by |-> @.by, todo |-> @.todo \ {t},
                                  expected |-> @.expected \cup ExpectedOf(q, t)]]
  /\ UNCHANGED <<rows, node, read, pending, worker, dispatch, counted>>

(* removeStringDuplicates, then SetExpected: an update of one column. *)
RunSetExpected(q) ==
  /\ run[q].pc = "target" /\ run[q].todo = {}
  /\ query' = [query EXCEPT ![q].expected = Cardinality(run[q].expected)]
  /\ run' = [run EXCEPT ![q].pc = "done"]
  /\ UNCHANGED <<tally, targets, execs, logs, node, read, pending, worker,
                 dispatch, counted>>

(* A failing statement ends the request; what it wrote stays. *)
RunAbort(q) ==
  /\ DBErrors /\ run[q].pc \in {"target", "count"}
  /\ run' = [run EXCEPT ![q].pc = "failed"]
  /\ UNCHANGED <<rows, node, read, pending, worker, dispatch, counted>>

-----------------------------------------------------------------------------
(* Mutants.  Each repeats a definition that follows with a plausible bug;  *)
(* the properties are checked to tell the two apart.                       *)

ActivateUndeletes(q) ==
  /\ "activate" \in Operations /\ query[q].created
  /\ query' = [query EXCEPT ![q].completed = FALSE, ![q].active = TRUE, ![q].deleted = FALSE]
  /\ UNCHANGED <<tally, targets, execs, logs, run, node, read, pending,
                 worker, dispatch, counted>>

DeleteOnlyMarks(q) ==
  /\ "delete" \in Operations /\ query[q].created
  /\ query' = [query EXCEPT ![q].deleted = TRUE]
  /\ UNCHANGED <<tally, targets, execs, logs, run, node, read, pending,
                 worker, dispatch, counted>>

NoTargetMeansAll(n, q) == targets[q] = {} \/ \E t \in targets[q] : n \in Covers[t]

ErrorsRunAgain(n, q) == ~ \E e \in execs : e.name = q /\ e.uuid = n /\ e.result = "ok"

(* IncError reads the counter of IncExecution. *)
IncReadOther(w) ==
  /\ worker[w].pc = "inc"
  /\ worker' = [worker EXCEPT ![w].pc = "write", ![w].seen = tally[worker[w].name]["ok"]]
  /\ UNCHANGED <<rows, run, node, read, pending, dispatch, counted>>

EnoughOffByOne(q) == tally[q]["ok"] + tally[q]["error"] + 1 >= query[q].expected

EnoughIsMore(q) == tally[q]["ok"] + tally[q]["error"] > query[q].expected

(* The goroutine goes on under the key it was given, whether or not known. *)
LookupKeepsKey(w) ==
  /\ worker[w].pc = "lookup"
  /\ worker' = [worker EXCEPT ![w].pc = "next", ![w].uuid = worker[w].key]
  /\ UNCHANGED <<rows, run, node, read, pending, dispatch, counted>>

-----------------------------------------------------------------------------
(* The operator: QueryActionsPOSTHandler and the command line tool. *)

SetFlags(q, row) ==
  /\ query[q].created
  /\ query' = [query EXCEPT ![q] = row]
  /\ UNCHANGED <<tally, targets, execs, logs, run, node, read, pending,
                 worker, dispatch, counted>>

Complete(q) ==
  /\ "complete" \in Operations
  /\ SetFlags(q, [query[q] EXCEPT !.completed = TRUE, !.active = FALSE])

Activate(q) ==
  /\ "activate" \in Operations
  /\ SetFlags(q, [query[q] EXCEPT !.completed = FALSE, !.active = TRUE])

Delete(q) ==
  /\ "delete" \in Operations
  /\ SetFlags(q, [query[q] EXCEPT !.deleted = TRUE, !.active = FALSE])

-----------------------------------------------------------------------------
(* The nodes. *)

(* EnrollHandler gives the node a new key, whether or not it had one. *)
Enroll(n) ==
  /\ node[n].key < MaxKey
  /\ node' = [node EXCEPT ![n] = [present |-> TRUE, key |-> @.key + 1, seen |-> TRUE]]
  /\ UNCHANGED <<rows, run, read, pending, worker, dispatch, counted>>

(* An operator deletes the node: ArchiveDeleteByUUID. *)
RemoveNode(n) ==
  /\ "remove node" \in Operations /\ node[n].present
  /\ node' = [node EXCEPT ![n].present = FALSE, ![n].seen = FALSE]
  /\ UNCHANGED <<rows, run, read, pending, worker, dispatch, counted>>

(* QueryReadHandler finds the node and updates it, which marks it as seen; *)
(* NodeQueries lists the active queries.                                   *)
ReadBegin(n) ==
  /\ node[n].present /\ ~read[n].busy
  /\ read' = [read EXCEPT ![n] = [busy |-> TRUE, found |-> {},
                                  left |-> {q \in Names : query[q].active}]]
  /\ node' = [node EXCEPT ![n].seen = TRUE]
  /\ UNCHANGED <<rows, run, pending, worker, dispatch, counted>>

IsQueryTarget(n, q) == \E t \in targets[q] : n \in Covers[t]

NotYetExecuted(n, q) == ~ \E e \in execs : e.name = q /\ e.uuid = n

(* One round of the loop of NodeQueries.  When the count of executions     *)
(* fails there seem to be none.                                            *)
ReadCheck(n, q) ==
  /\ read[n].busy /\ q \in read[n].left
  /\ \E fresh \in {NotYetExecuted(n, q), DBErrors \/ NotYetExecuted(n, q)} :
       read' = [read EXCEPT
         ![n].left = @ \ {q},
         ![n].found = IF IsQueryTarget(n, q) /\ fresh THEN @ \cup {q} ELSE @]
  /\ UNCHANGED <<rows, run, node, pending, worker, dispatch, counted>>

(* The response, which can get lost.  osqueryd runs the queries it receives *)
(* and keeps the results until they are delivered.                         *)
ReadReply(n) ==
  /\ read[n].busy /\ read[n].left = {}
  /\ \E received \in {read[n].found, {}} :
       pending' = [pending EXCEPT ![n] = @ \cup received]
  /\ read' = [read EXCEPT ![n] = [busy |-> FALSE, left |-> {}, found |-> {}]]
  /\ UNCHANGED <<rows, run, node, worker, dispatch, counted>>

Running == {w \in Workers : worker[w].pc \notin {"idle", "done"}}

(* QueryWriteHandler accepts the results of a known key and answers; the *)
(* answer can get lost, and then osqueryd sends the results again.       *)
Write(n, w) ==
  /\ node[n].present /\ ~read[n].busy /\ pending[n] # {}
  /\ worker[w].pc = "idle" /\ Cardinality(Running) < InFlight
  /\ \E failed \in SUBSET pending[n] :
       worker' = [worker EXCEPT ![w] =
         [Resting("lookup") EXCEPT !.from = n, !.key = node[n].key,
                                   !.todo = pending[n], !.failed = failed]]
  /\ \E kept \in {{}, pending[n]} : pending' = [pending EXCEPT ![n] = kept]
  /\ UNCHANGED <<rows, run, node, read, dispatch, counted>>

-----------------------------------------------------------------------------
(* ProcessLogQueryResult: a goroutine that the response does not wait for. *)

Goto(w, pc) == worker' = [worker EXCEPT ![w].pc = pc]

Current(w) ==
  [name |-> worker[w].name, uuid |-> worker[w].uuid, by |-> w,
   result |-> IF worker[w].name \in worker[w].failed THEN "error" ELSE "ok"]

(* GetByKey; a failure is logged and the zero node used from then on. *)
Lookup(w) ==
  /\ worker[w].pc = "lookup"
  /\ \E ok \in IF DBErrors THEN BOOLEAN ELSE {TRUE} :
       LET n == worker[w].from
           known == ok /\ node[n].present /\ node[n].key = worker[w].key
       IN  worker' = [worker EXCEPT ![w].pc = "next",
                                    ![w].uuid = IF known THEN n ELSE NoUUID]
  /\ UNCHANGED <<rows, run, node, read, pending, dispatch, counted>>

(* The next result of the map, in any order: go DispatchQueries. *)
Take(w) ==
  /\ worker[w].pc = "next"
  /\ \E q \in worker[w].todo :
       /\ worker' = [worker EXCEPT ![w].pc = "inc", ![w].name = q,
                                   ![w].todo = @ \ {q}]
       /\ dispatch' = dispatch \cup {[Current(w) EXCEPT
            !.name = q,
            !.result = IF q \in worker[w].failed THEN "error" ELSE "ok"]}
  /\ UNCHANGED <<rows, run, node, read, pending, counted>>

(* IncExecution or IncError: the read of the counter ... *)
IncRead(w) ==
  /\ worker[w].pc = "inc"
  /\ worker' = [worker EXCEPT
       ![w].pc = "write",
       ![w].seen = tally[worker[w].name][Current(w).result]]
  /\ UNCHANGED <<rows, run, node, read, pending, dispatch, counted>>

(* ... and the write of one more. *)
IncWrite(w) ==
  /\ worker[w].pc = "write"
  /\ tally' = [tally EXCEPT
       ![worker[w].name][Current(w).result] = worker[w].seen + 1]
  /\ counted' = counted \cup {Current(w)}
  /\ Goto(w, "track")
  /\ UNCHANGED <<query, targets, execs, logs, run, node, read, pending, dispatch>>

IncFail(w) ==
  /\ DBErrors /\ worker[w].pc \in {"inc", "write"}
  /\ Goto(w, "track")
  /\ UNCHANGED <<rows, run, node, read, pending, dispatch, counted>>

TrackExecution(w) ==
  /\ worker[w].pc = "track"
  /\ \/ execs' = execs \cup {Current(w)}
     \/ DBErrors /\ UNCHANGED execs
  /\ Goto(w, "verify")
  /\ UNCHANGED <<query, tally, targets, logs, run, node, read, pending,
                 dispatch, counted>>

(* The goroutine goes on with its next result, or ends. *)
Proceed(w) ==
  worker' = [worker EXCEPT ![w] =
    IF @.todo = {} THEN Resting("done")
    ELSE [@ EXCEPT !.pc = "next", !.name = NoName, !.seen = 0, !.quota = 0]]

Enough(q) == tally[q]["ok"] + tally[q]["error"] >= query[q].expected

(* VerifyComplete: the row is read and compared ... *)
Verify(w) ==
  /\ worker[w].pc = "verify"
  /\ \/ /\ Enough(worker[w].name)
        /\ worker' = [worker EXCEPT ![w].pc = "complete",
                                    ![w].quota = query[worker[w].name].expected]
     \/ /\ DBErrors \/ ~Enough(worker[w].name)
        /\ Proceed(w)
  /\ UNCHANGED <<rows, run, node, read, pending, dispatch, counted>>

(* ... and then written. *)
VerifyComplete(w) ==
  /\ worker[w].pc = "complete"
  /\ \/ query' = [query EXCEPT ![worker[w].name].completed = TRUE,
                               ![worker[w].name].active = FALSE]
     \/ DBErrors /\ UNCHANGED query
  /\ Proceed(w)
  /\ UNCHANGED <<tally, targets, execs, logs, run, node, read, pending,
                 dispatch, counted>>

(* DispatchQueries and QueryLog: the result data reach the log store. *)
DispatchQueries(a) ==
  /\ a \in dispatch
  /\ dispatch' = dispatch \ {a}
  /\ \/ logs' = logs \cup {a}
     \/ DBErrors /\ UNCHANGED logs
  /\ UNCHANGED <<query, tally, targets, execs, run, node, read, pending,
                 worker, counted>>

-----------------------------------------------------------------------------
Requester ==
  \E q \in Names :
    \/ QueryRunPOSTHandler(q) \/ CarvesRunPOSTHandler(q) \/ apiQueriesRunHandler(q)
    \/ RunCount(q) \/ RunSetExpected(q) \/ RunAbort(q)
    \/ \E t \in Targets : RunTarget(q, t)

Operator == \E q \in Names : Complete(q) \/ Activate(q) \/ Delete(q)

NodeStep(n) ==
  \/ Enroll(n) \/ RemoveNode(n) \/ ReadBegin(n) \/ ReadReply(n)
  \/ \E q \in Names : ReadCheck(n, q)
  \/ \E w \in Workers : Write(n, w)

WorkerStep(w) ==
  \/ Lookup(w) \/ Take(w) \/ IncRead(w) \/ IncWrite(w) \/ IncFail(w)
  \/ TrackExecution(w) \/ Verify(w) \/ VerifyComplete(w)

Next ==
  \/ Requester \/ Operator
  \/ \E n \in Nodes : NodeStep(n)
  \/ \E w \in Workers : WorkerStep(w)
  \/ \E a \in dispatch : DispatchQueries(a)

Spec == Init /\ [][Next]_vars

(* A started handler or goroutine runs to its end.  Nodes and operators    *)
(* need not do anything.                                                   *)
Fairness ==
  /\ \A w \in Workers : WF_vars(WorkerStep(w))
  /\ \A n \in Nodes : WF_vars(ReadReply(n) \/ \E q \in Names : ReadCheck(n, q))
  /\ \A q \in Names : WF_vars(RunCount(q) \/ RunSetExpected(q)
                              \/ \E t \in Targets : RunTarget(q, t))
  /\ WF_vars(\E a \in dispatch : DispatchQueries(a))

=============================================================================

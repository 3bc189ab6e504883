----------------------------- MODULE LogCleanup -----------------------------
(***************************************************************************)
(* The goroutine of the admin service that deletes old logs every hour:    *)
(* the status and result logs of each environment by their age, and the    *)
(* completed queries, while goroutines of the TLS service still write      *)
(* results and operators complete, activate and withdraw queries.          *)
(*                                                                         *)
(* Two calls of CleanQueryLogs do less, or more, than they say, because of *)
(* what gorm 1.9 makes of them.  Offset without Limit adds nothing to a    *)
(* statement of the mysql dialect, the one of backend.go.  And Delete of a *)
(* slice has no primary key to select by and, here, no other condition: it *)
(* is a DELETE FROM without WHERE.                                         *)
(***************************************************************************)
EXTENDS Naturals, FiniteSets, Sequences

CONSTANTS
  OldNames,   \* names of queries
  LogEnvs,    \* environments
  LogKinds,   \* "status", "result"
  NoQuery,
  Entries,    \* setting clean_query_entries, the offset
  MaxLogs     \* how often logs come in

ASSUME CleanupAssumption ==
  /\ LogKinds \subseteq {"status", "result"} /\ IsFiniteSet(OldNames)
  /\ NoQuery \notin OldNames
  /\ Entries \in Nat /\ MaxLogs \in Nat

VARIABLES
  flags,    \* the row of each query in distributed_queries: what its flags say
  stored,   \* the tables with a row of the query, for each query
  logs,     \* status and result logs of an environment, by their age
  envRows,  \* tls_environments
  cleaner,  \* the goroutine
  incoming, \* how often logs came in
  finished, \* history: queries that were completed once
  late,     \* history: queries a row of which was written after its table was emptied for it
  broken    \* history: a statement failed, the service restarted

cleanupVars ==
  <<flags, stored, logs, envRows, cleaner, incoming, finished, late, broken>>

(* In the order in which they are cleaned. *)
Tables == <<"data", "targets", "executions">>

TableSet == {"data", "targets", "executions"}

(* envs says where among the logs it is, queue, query and table where      *)
(* among the queries.                                                      *)
CleanerState ==
  [pc : {"asleep", "logs", "list", "find", "delete", "row"}, envs : SUBSET LogEnvs,
   queue : SUBSET OldNames, query : OldNames \cup {NoQuery}, table : 1 .. 3]

CleanupTypeOK ==
  /\ flags \in [OldNames -> {"none", "active", "completed", "withdrawn", "gone"}]
  /\ stored \in [OldNames -> SUBSET TableSet]
  /\ logs \in [LogEnvs \X LogKinds -> SUBSET {"new", "old"}]
  /\ envRows \subseteq LogEnvs
  /\ cleaner \in CleanerState
  /\ incoming \in 0 .. MaxLogs
  /\ finished \subseteq OldNames /\ late \subseteq OldNames
  /\ broken \in BOOLEAN

-----------------------------------------------------------------------------
Asleep == [pc |-> "asleep", envs |-> {}, queue |-> {}, query |-> NoQuery, table |-> 1]

CleanupInit ==
  /\ flags = [q \in OldNames |-> "none"]
  /\ stored = [q \in OldNames |-> {}]
  /\ logs = [l \in LogEnvs \X LogKinds |-> {}] /\ envRows = LogEnvs
  /\ cleaner = Asleep /\ incoming = 0
  /\ finished = {} /\ late = {} /\ broken = FALSE

Existing == {q \in OldNames : flags[q] \notin {"none", "gone"}}

-----------------------------------------------------------------------------
(* What the rest of osctrl does meanwhile. *)

SetFlags(q, from, to) == flags[q] \in from /\ flags' = [flags EXCEPT ![q] = to]

(* Create; the targets come in statements of their own. *)
CreateQuery(q) ==
  /\ SetFlags(q, {"none"}, "active")
  /\ UNCHANGED <<stored, logs, envRows, cleaner, incoming, finished, late, broken>>

(* Complete, by an operator or by VerifyComplete; Activate; and Delete,    *)
(* which does not complete a query.                                        *)
CompleteQuery(q) ==
  /\ SetFlags(q, {"active", "withdrawn"}, "completed")
  /\ finished' = finished \cup {q}
  /\ UNCHANGED <<stored, logs, envRows, cleaner, incoming, late, broken>>

ActivateQuery(q) ==
  /\ SetFlags(q, {"completed", "withdrawn"}, "active")
  /\ UNCHANGED <<stored, logs, envRows, cleaner, incoming, finished, late, broken>>

WithdrawQuery(q) ==
  /\ SetFlags(q, {"active"}, "withdrawn")
  /\ UNCHANGED <<stored, logs, envRows, cleaner, incoming, finished, late, broken>>

(* The cleaner has emptied the table on account of the query. *)
Emptied(q, i) ==
  \/ flags[q] = "gone"
  \/ cleaner.query = q /\ (cleaner.table > i \/ cleaner.pc = "row")

(* CreateTarget, TrackExecution, and Query of the logger for the results.  *)
WriteRow(q, i) ==
  /\ flags[q] # "none" /\ Tables[i] \notin stored[q]
  /\ stored' = [stored EXCEPT ![q] = @ \cup {Tables[i]}]
  /\ late' = late \cup {p \in {q} : Emptied(q, i)}
  /\ UNCHANGED <<flags, logs, envRows, cleaner, incoming, finished, broken>>

(* Status and Result of the logger: osqueryd sends logs. *)
WriteLog(e, k) ==
  /\ e \in envRows /\ incoming < MaxLogs /\ incoming' = incoming + 1
  /\ logs' = [logs EXCEPT ![<<e, k>>] = @ \cup {"new"}]
  /\ UNCHANGED <<flags, stored, envRows, cleaner, finished, late, broken>>

(* The interval of the settings passes. *)
LogAges(e, k) ==
  /\ "new" \in logs[<<e, k>>]
  /\ logs' = [logs EXCEPT ![<<e, k>>] = {"old"}]
  /\ UNCHANGED <<flags, stored, envRows, cleaner, incoming, finished, late, broken>>

(* The logs of an environment stay when it is deleted. *)
DeleteLogEnv(e) ==
  /\ e \in envRows /\ envRows' = envRows \ {e}
  /\ UNCHANGED <<flags, stored, logs, cleaner, incoming, finished, late, broken>>

-----------------------------------------------------------------------------
(* Mutants.  Each repeats a definition that follows with a plausible bug:  *)
(* queries are listed that were deleted, not those completed, or all of    *)
(* them; executions are skipped.                                           *)

ListedWithdrawn(old) == {q \in old : flags[q] = "withdrawn"}

ListedAll(old) == old

AfterTableSkip(i) == IF i = 2 THEN [pc |-> "row", table |-> 3] ELSE [pc |-> "find", table |-> i + 1]

-----------------------------------------------------------------------------
(* The hourly round.  Every statement may fail.  ok says whether it does   *)
(* what it is for.                                                         *)

Failing(ok) == broken' = (broken \/ ~ok)

(* All environments, or none when that fails. *)
Wake(ok) ==
  /\ cleaner.pc = "asleep"
  /\ cleaner' = [cleaner EXCEPT !.pc = "logs", !.envs = IF ok THEN envRows ELSE {}]
  /\ Failing(ok)
  /\ UNCHANGED <<flags, stored, logs, envRows, incoming, finished, late>>

(* CleanStatusLogs and CleanResultLogs of an environment; their failure is *)
(* only logged.                                                            *)
CleanLogs(ok) ==
  /\ cleaner.pc = "logs" /\ cleaner.envs # {}
  /\ \E e \in cleaner.envs :
       /\ cleaner' = [cleaner EXCEPT !.envs = @ \ {e}]
       /\ logs' = [l \in LogEnvs \X LogKinds |->
                     IF l[1] = e /\ ok THEN logs[l] \ {"old"} ELSE logs[l]]
  /\ Failing(ok)
  /\ UNCHANGED <<flags, stored, envRows, incoming, finished, late>>

LogsDone ==
  /\ cleaner.pc = "logs" /\ cleaner.envs = {}
  /\ cleaner' = [cleaner EXCEPT !.pc = "list"]
  /\ UNCHANGED <<flags, stored, logs, envRows, incoming, finished, late, broken>>

(* The flags that count are those that were read here. *)
Listed(old) == {q \in old : flags[q] = "completed"}

(* The next query of the queue. *)
TakeNext(queue) ==
  IF queue = {} THEN {Asleep}
  ELSE {[Asleep EXCEPT !.pc = "find", !.queue = queue \ {q}, !.query = q] : q \in queue}

(* Find finds every query, whatever the offset, and none when it fails. *)
ListQueries(ok) ==
  /\ cleaner.pc = "list"
  /\ cleaner' \in TakeNext(IF ok THEN Listed(Existing) ELSE {})
  /\ Failing(ok)
  /\ UNCHANGED <<flags, stored, logs, envRows, incoming, finished, late>>

(* The rows of the query in one table, by name; every failure ends the     *)
(* round.  Nothing depends on what is found.                               *)
FindRows(ok) ==
  /\ cleaner.pc = "find"
  /\ cleaner' = IF ok THEN [cleaner EXCEPT !.pc = "delete"] ELSE Asleep
  /\ Failing(ok)
  /\ UNCHANGED <<flags, stored, logs, envRows, incoming, finished, late>>

AfterTable(i) == IF i = 3 THEN [pc |-> "row", table |-> 3] ELSE [pc |-> "find", table |-> i + 1]

(* Delete of the slice of rows that were found: the whole table, also when *)
(* none was.                                                               *)
DeleteRows(ok) ==
  /\ cleaner.pc = "delete"
  /\ IF ok
     THEN /\ cleaner' = [cleaner EXCEPT !.pc = AfterTable(cleaner.table).pc,
                                        !.table = AfterTable(cleaner.table).table]
          /\ stored' = [q \in OldNames |-> stored[q] \ {Tables[cleaner.table]}]
     ELSE cleaner' = Asleep /\ UNCHANGED stored
  /\ Failing(ok)
  /\ UNCHANGED <<flags, logs, envRows, incoming, finished, late>>

DeleteQuery(ok) ==
  /\ cleaner.pc = "row"
  /\ IF ok
     THEN /\ flags' = [flags EXCEPT ![cleaner.query] = "gone"]
          /\ cleaner' \in TakeNext(cleaner.queue)
     ELSE cleaner' = Asleep /\ UNCHANGED flags
  /\ Failing(ok)
  /\ UNCHANGED <<stored, logs, envRows, incoming, finished, late>>

RestartCleaner ==
  /\ ~broken /\ broken' = TRUE
  /\ cleaner.pc # "asleep" /\ cleaner' = Asleep
  /\ UNCHANGED <<flags, stored, logs, envRows, incoming, finished, late>>

CleanerStep(ok) ==
  \/ Wake(ok) \/ CleanLogs(ok) \/ (ok /\ LogsDone) \/ ListQueries(ok) \/ FindRows(ok)
  \/ DeleteRows(ok) \/ DeleteQuery(ok)

CleanerActs == (\E ok \in BOOLEAN : (ok \/ ~broken) /\ CleanerStep(ok)) \/ RestartCleaner

QueriesChange ==
  \E q \in OldNames :
    \/ CreateQuery(q) \/ CompleteQuery(q) \/ ActivateQuery(q) \/ WithdrawQuery(q)
    \/ \E i \in 1 .. 3 : WriteRow(q, i)

LogsChange ==
  \E e \in LogEnvs : DeleteLogEnv(e) \/ \E k \in LogKinds : WriteLog(e, k) \/ LogAges(e, k)

CleanupNext == CleanerActs \/ QueriesChange \/ LogsChange

CleanupSpec == CleanupInit /\ [][CleanupNext]_cleanupVars

-----------------------------------------------------------------------------
(* CleanQueryLogs goes from table to table without foreign keys: what is   *)
(* left of a query that is gone was written when its table had been        *)
(* emptied already.                                                        *)
OrphansAreLate == \A q \in OldNames : flags[q] = "gone" /\ stored[q] # {} => q \in late

(* Only completed queries are cleaned: the row of a query that was never   *)
(* completed stays, and so do all results, targets and executions until    *)
(* some query has been completed, whatever is written, listed and deleted  *)
(* at the same time.                                                       *)
UncompletedStay ==
  [][/\ \A q \in OldNames \ finished : flags'[q] # "gone"
     /\ finished = {} => \A q \in OldNames : stored[q] \subseteq stored'[q]]_cleanupVars

(* "CleanQueryLogs will delete old query logs" (logging/db.go), the ones   *)
(* "to delete with OFFSET": while no more queries exist than the setting   *)
(* keeps, no results, targets and executions are lost of a query that was  *)
(* never completed.                                                        *)
OthersKept ==
  [][Cardinality(Existing) <= Entries =>
       \A q \in OldNames \ finished : stored[q] \subseteq stored'[q]]_cleanupVars

(* No more queries are kept for ever, once all are completed.              *)
CompletedQueriesGo ==
  (\A q \in Existing : flags[q] = "completed") ~>
    \/ Cardinality(Existing) <= Entries
    \/ \E q \in Existing : flags[q] # "completed"

(* Old logs do not stay for ever while their environment exists.           *)
OldLogsGo ==
  \A e \in LogEnvs, k \in LogKinds :
    ("old" \in logs[<<e, k>>]) ~> ("old" \notin logs[<<e, k>>] \/ e \notin envRows)

=============================================================================

# A TLA+ model of osctrl

osctrl manages fleets of osquery agents. This directory holds TLA+ modules that
model the parts of it where several actors change the same rows of the
database, configurations that check them with TLC, and proofs checked by TLAPS.
Paths are relative to the root of the repository; the modules were written from
the code and not from its documentation.

- [The system](#the-system): components, state, operations, what is hard
- [The modules](#the-modules): what each one models, how it corresponds to the code
- [The runs](#the-runs): what is checked, the bounds and why they are enough
- [Fairness](#fairness)
- [The theorems](#the-theorems): what is proved, from what, along which argument
- [Disagreements with the code](#disagreements-with-the-code)
- [What is not modelled](#what-is-not-modelled)
- [The plan](#the-plan)
- [Running it](#running-it)

`PROJECT.json` lists components, runs, findings, hazards and theorems, and maps
each definition to the lines that it models.

## The system

Three services and a command line tool share one SQL database:

- **osctrl-tls** (`tls/`) answers osqueryd: enrolment, configuration, logs,
  distributed queries and carves.
- **osctrl-admin** (`admin/`) is the web interface of the operators, and runs
  the periodic clean-up of sessions and logs.
- **osctrl-api** (`api/`) lists things and creates queries.
- **osctrl-cli** (`cli/`) edits the database directly.

All of them go through the same managers (`queries/`, `carves/`, `nodes/`,
`tags/`, `environments/`, `settings/`, `users/`). The managers keep no state but
the tables, and take no locks and no transactions: an operation is a row read in
one statement and written in another. Requests run in goroutines of their own,
and osctrl-tls answers some of them before it has done the work (`go ...`). What
goes wrong in osctrl, if anything, goes wrong between two statements, so that
**a statement, not a function, is the step of every module here**.

| Component | State | Operations | What is hard | What makes it correct |
|---|---|---|---|---|
| On-demand queries: `queries/queries.go`, `admin/handlers/post.go`, `api/handlers-queries.go`, `logging/process.go` | `distributed_queries`, `_targets`, `_executions`, stored results | create (query, carve, API), complete, activate, delete; distributed read and write; accounting of results | counters incremented without a lock; a query is active before it is complete; goroutines outlive the response and the node's key | a query ends when, and not before, its results are in; a node that answered is not asked again; no result is lost or booked to another node |
| Carve upload: `carves/carves.go`, `tls/handlers/carves.go` | `carved_files`, `carved_blocks` | init, block, delete | one goroutine per block; blocks sent again; restart; deletion half-way | COMPLETED means that the file is whole, and a whole file becomes COMPLETED |
| Carve download: `carves/carves.go`, `admin/handlers/get.go` | archive files on disk | archive, serve | the file is written once, at a time the operator chooses; writing may fail | a download is the whole file, in order |
| Environments: `environments/*.go`, `admin/handlers/post.go`, `cli/environment.go` | `tls_environments`: configuration, flags, intervals, secret links and their deadlines | edits of one column or of the whole row; expire and extend links; create, delete | whole rows written back after a stale read; zero values skipped; derived columns | a revoked link stays revoked; a link keeps its own deadline; flags follow what they are made of |
| Enrolment and nodes: `nodes/nodes.go`, `tls/handlers/handlers.go` | `osquery_nodes`, its archive, histories; the key osqueryd holds | enrol, update, archive, delete; metadata and addresses | check, then create; rows looked up by different keys in one request; answers lost | a key names one row; a host has one row; the key that was answered is known |
| Tags: `tags/tags.go` | `admin_tags`, `tagged_nodes` | new, delete, edit, tag, untag | check, then insert | a node is tagged once with each tag |
| Node metadata and logs: `logging/`, `nodes/nodes.go` | columns of the node, four history tables | update on each log and each request | early returns between the history and the row; counts without a lock | what the row has is in the histories; a log reaches the row; no request is counted twice |
| Log clean-up: `logging/db.go`, `admin/main.go` | log tables | hourly deletion | table by table, statement by statement, while queries are in use | only what is old and completed goes, nothing is left of it, and it does go |
| Users, permissions, tokens: `users/`, `admin/handlers/post.go`, `admin/handlers/tokens.go`, `cli/user.go` | `admin_users` | add, edit, remove, promote, permissions, token | several statements per request, each of which finds the row by name again; names are not unique | an administrator is left; what was answered OK is done |
| Sessions: `admin/sessions/sessions.go`, `admin/auth*` | `user_sessions`, a cookie key made at start | save, get, destroy, clean up | the key does not survive a restart; requests of a browser overlap, and each looks at its cookie several times | a cookie is of the user who logged in; what was refused stays so; sessions go in the end |
| Settings: `settings/settings.go`, `*/settings.go` | `setting_values` | check, insert, write, change, delete | services start at the same time; a failed lookup looks like an absent value; a service ends half-way | one row per value; values of the file are current; a service can start |
| Caches of osctrl-tls: `tls/main.go` | maps of environments and settings | reload | read while replaced, empty after a failure | a value that stays reaches the map |
| Metrics: `metrics/metrics.go` | counters, a connection | increment, connect, send | the connection is outside of the mutex | counters are exact; every value is sent, no connection left open |
| Pages, JSON listings, API listings | none | read | | |

The components meet in the tables. osqueryd enrols and gets a key; each later
request finds its row by that key, and each result is booked under the UUID of
the row that the key names *at that moment*. A carve is a query whose result is
a second protocol, carve-init and carve-block. Environments are the target of
queries and of enrolment, and each has a tag, which enrolment gives to the new
node.

The hazards are listed one by one, at their lines, in `PROJECT.json`.

## The modules

| Module | What it is |
|---|---|
| `Queries` | on-demand queries, from the operator's request to the last result |
| `QueriesProps` | their properties, and the refinement mapping to `QueryLifecycle` |
| `QueryLifecycle` | abstract: what a query promises the operator |
| `QueriesOverlap` | `Queries` with the history of races, failed verdicts and reopened queries, and the properties that speak of it |
| `QueriesProofs` | theorems on `Queries` and `QueriesOverlap` |
| `Carves` | the upload of carved files |
| `CarvesProps` | its properties, and the refinement mapping to `CarveTransfer` |
| `CarveTransfer` | abstract: what an upload promises |
| `CarvesProofs` | theorems on `Carves` |
| `CarveDownloads`, `DownloadsProofs` | downloads, composed with the uploads of `Carves` |
| `Environments`, `EnvironmentsProps`, `EnvironmentsProofs` | one environment: its row, its links, edits of it |
| `Enrolment`, `EnrolmentProps`, `EnrolmentProofs` | the nodes table, its archive, tags, and osqueryd's key |
| `NodeMetadata`, `NodeRecordsProofs` | names and addresses of a node, and their histories |
| `AdminUsers`, `AdministrationProofs` | the users table, and the requests that edit it |
| `AdminSessions`, `ServicesProofs` | cookies, sessions and the requests of browsers |
| `ServiceSettings`, `ServicesProofs` | services that start, their settings, and the map of osctrl-tls |
| `LogCleanup`, `ServicesProofs` | the hourly round that deletes logs and queries |
| `Metrics`, `ServicesProofs` | counters under a mutex, a connection outside of it |
| `Administration`, `AdministrationProofs` | composes `Environments`, `AdminUsers`, `AdminSessions` and `ServiceSettings` |
| `NodeRecords`, `NodeRecordsProofs` | composes `Enrolment` and `NodeMetadata` |
| `Services`, `ServicesProofs` | composes `Metrics`, `AdminSessions`, `LogCleanup` and `ServiceSettings`, with fairness |
| `MCQueries`, `MCQueriesOverlap`, `MCCarves`, `MCCarveDownloads`, `MCAdministration`, `MCNodeRecords`, `MCServices` | instances for TLC |

`Administration`, `NodeRecords` and `Services` put components next to each other
that share no table (or, for a node, that see an enrolment from different sides).
A variable (`part`, in `Services` `moving`) says which of them moves in a behaviour: what holds of one
cannot depend on the others, so that interleaving them would only multiply
states. That the compositions implement the specifications of their parts is proved. Where components do share state they are composed for good:
`CarveDownloads` extends `Carves`, operators and osqueryd are actions of
`Queries` and `Enrolment`, and `LogCleanup` has the handlers and goroutines that
write the tables it cleans.

Conventions. A variable is a table, or the local state of the requests and
goroutines that work on it (`pc`, what they have read). `DBErrors`, `Failures`
and `DiskErrors` let a statement fail, and the action then takes the branch that
the code takes on an error. `InFlight`/`AtOnce` bound how many run at the same
time. Variables called *history* in their comment (`counted`, `raced`,
`disturbed`, `overlapped`) are not in the code, and no guard reads them but to bound how
often something fails. The section "Mutants"
of a module repeats definitions with a plausible bug; nothing uses them but the
mutation of the properties listed in `PROJECT.json`.

### Queries

| Variable | In the code |
|---|---|
| `query`, `tally` | `DistributedQuery`: flags and `Expected`; the columns `Executions` and `Errors` |
| `targets`, `execs` | `DistributedQueryTarget`, `DistributedQueryExecution` |
| `logs` | what `QueryLog` stores |
| `run` | a request in `QueryRunPOSTHandler`, `CarvesRunPOSTHandler` or `apiQueriesRunHandler` |
| `node` | `OsqueryNode`: there or not, its key, whether it was seen within `InactiveHours` |
| `read`, `worker`, `dispatch` | a request in `QueryReadHandler`; goroutines in `ProcessLogQueryResult` and in `DispatchQueries` |
| `pending` | results that osqueryd has yet to deliver (external) |

A request that creates a query inserts the row, already active and expecting 0
(`RunCreate`), then goes through its targets (`RunTarget` checks one and inserts
it, `RunCount` reads the nodes it stands for), and sets `expected` last
(`RunSetExpected`). What a target adds to `expected` differs from whom
`isQueryTarget` serves: inactive nodes are served but not counted, a UUID and
a host name of one node count twice, a host name counts under the name that was
typed, and the carve handler does not count host names at all. `Kind`, `Listed`
(whom the look-up of a target finds) and `Covers` (whom `isQueryTarget` accepts)
are constants, so that all of these are instances.

`ReadBegin` lists the active queries, `ReadCheck` looks at one of them (whose
executions seem to be none when their count fails),
`ReadReply` answers. `Write` accepts the results of a node and starts a
goroutine: `Lookup` finds the node by the key of the request and goes on with
the zero node if there is none, `Take` picks the next result and starts
`DispatchQueries`, `IncRead`/`IncWrite` are the two statements of
`IncExecution` and `IncError`, then come `TrackExecution` and the two statements
of `VerifyComplete` (`Verify`, `VerifyComplete`). The operator's actions are
whole: the statement that reads the row only finds its id.

`QueriesOverlap` adds three variables that no guard reads: `raced` are the queries of
which two goroutines were between the read and the write of the same counter,
`reopened` those that were made active again, `unjudged` those of which a statement
of `VerifyComplete` failed. `QueryCountersExact` and `CompletedWhenAnswered` exempt
these queries, and nothing else: goroutines overlap as they do in the code.

`QueryLifecycle` has no handlers, goroutines or counters: a query is published,
its quota announced once, answers come in, the service may `Judge` when they
reach the quota and `Close` on such a verdict, and the operator may do as the
page allows. `ImplementsLifecycle` maps an answer to a written increment and
a verdict to a goroutine between the two statements of `VerifyComplete`.

### Carves and CarveDownloads

`file` is `carved_files` by session, without its time of completion, which is
a statement of its own (`stamped`); `blocks` is `carved_blocks`, where a block
sent again is a row of its own; `client` is the carver of osqueryd (external);
`worker` are the goroutines of `ProcessCarveBlock`: `CreateBlock`, the two
statements of `CompleteBlock`, `Check` (`Completed`), then `Progress` or `Finish`
and `Stamp` (`ChangeStatus`). `carve_id` is unique, so that a carve-init request
whose answer was lost is refused when repeated. `Delete` removes the row and
leaves the blocks. `Restart` ends the goroutines; everything else is in the
database or on the node.

`CarveTransfer` is what an upload promises: COMPLETED only when all blocks are
stored, and a deleted upload never returns.

`CarveDownloads` extends `Carves` with the files on disk (`archive`) and the
requests of `CarvesDownloadHandler`: `ArchiveStat` (an existing file is served as
it is), `ArchiveBlocks` (sorted by block), `ArchiveOpen` (to append),
`ArchiveWrite` once per block, `ArchiveClose`, and serving. Its `GetBlocks` and
`archive` name blocks instead of holding their bytes; rows of the same block come in
either order, as nothing but `block_id` orders them. Nothing keeps two requests from
making the same file; `mixed` remembers the sessions of which a request made
the file while another one was at work on it.

### Environments

`table` is `tls_environments` by id, for rows of one name: nothing keeps the name
unique. Column values are named after the request that wrote them, so that "the
flags are those of these intervals" and "this is the deadline of that link" can be
told. `request` are handlers of the admin service and commands, with the row that
they have read (`seen`). Edits of one column are one step, because the row that
they read does not matter; edits of the whole row (`UpdateIntervals`,
`RotateEnrollPath`, `RotateRemove`, and `Update`, used by the command) are
a read and a `Write` that puts back all columns. `Updates` is the ORM's: writing
a struct skips zero values (`Blank`, `Off`). Flags are made from one more read
(`GenerateFlags`) and written in one more statement (`UpdateFlags`). `Pass` is
the clock: a deadline is over twenty-four hours after it was set, at any time as
far as the model goes. The links of an environment created by the admin service
are born expired, those of the command are not, and the command ends without
flags when the tag is still there.

### Enrolment

`nodes` is `osquery_nodes` by id, `archive` the archive with keys and triggers,
`tags` and `tagged` the tables of the tags, `handler` the requests of
`EnrollHandler`, `TagNodesPOSTHandler` and `NodeActionsPOSTHandler`. `agent` is
osqueryd (external): the environment it was installed for, its key, and the
request whose answer it waits for; it asks again when no answer comes, and forgets a key
that is refused. `EnrollCheck` looks for the UUID *in the environment* (and goes
on as if there were none when the count fails, as all checks by counting do),
`UpdateByUUID` and `Archive` for the first row of the UUID *in any*: both are as
in the code. `Create` inserts, `History` stands for the four histories, any of
which ends the request and leaves the row, `TagNode` checks and `InsertTag`
inserts. `Reinstall` is osqueryd installed again with the secret of another
environment; `Restart` is a restart of osctrl-tls.

### NodeMetadata

`row` is the row of one node (its enrolment in two environments is `Enrolment`'s),
`names` and `ips` the histories, `reqs` handlers and goroutines with the row they
have read (`node`), the number and count of the record they are about to increment
(`id`, `count`) and the statements they have left (`left`, worked off in the order of
`LogOrder` or `CreateOrder`). An address may have several records, and
`GetHistoryIPAddress` takes the one that was not updated for longest: a record
keeps which others were updated before it (`older`). `""` is the address of a
request without the header `X-Real-IP`. In a log, a name that
differs from the row is recorded, the address is recorded (`RecordAddress`) or
counted (`CountAddress` writes one more than it has read), and the row is saved
last (`SaveNode`); any of these may fail and ends it. The first enrolment writes the row first
(`CreateNode`) and then the histories in `CreateOrder`; a repeated one
(`EnrolAgain`, `UpdateByUUID`) writes the row and no history, and so a log from
the new address finds no record of it, gives up in `IncHistoryIPAddress` and saves nothing:
`LogsReachRow` makes the exception that the code makes. A configuration request
or a query read is a log without names. `ProcessLogs` with an empty list of logs
reads the last element of nothing and panics; such a request ends before it
changes anything, and is left out.

### AdminUsers

`users` is `admin_users` by id, `clerk` are the requests and commands, one
statement or question at a time: who asks (`by`), about whom (`name`), the flag
for administrators, and the row that the last look-up by name returned (`row`).
`AfterAllow`, `AfterExists`, `AfterCreate` and `AfterWrite` are the order of the
statements of `UsersPOSTHandler`, `PermissionsPOSTHandler`,
`TokensPOSTHandler`, the header authentication (which adds users that it does
not know) and the commands. `Exists` drops the error of the database. Nothing keeps a name
unique when two requests add it at the same time: `Get` takes the first.

### AdminSessions

`sessions` is `user_sessions` by id: whose it is, with the cookie key of which
start (`key`), expired or not, marked deleted or not. `cookie` is what a browser
holds, `page` are requests, each with the cookie it was sent with. `CheckAuth`
looks at the cookie; with SAML a request without a session goes on to `Save`,
which looks at it again and makes a new session if there is none (`NewSession`), whose
cookie the answer carries even if it is an error;
`Destroy` and `Expire` are logout. Answers come in any order and may be lost.
`RestartAdmin` is a restart: a new key, requests are lost, rows stay. With
header authentication there are no sessions: `New` refuses a user that exists,
so that the second request of a header user is forbidden.

### ServiceSettings

`rows` holds the values of each name in the order of their ids, `proc` is where
each service is in its start (`Program`: the values it checks), `config` its
configuration file, `collector` whether metrics can be sent, `map` and `fetched`
the map of osctrl-tls and what its goroutine has just read for it. A value is
checked (`CheckValue`: an error counts as absent), and inserted or, if it is of
the file, written; metrics that are on are connected, and osctrl-tls that
cannot do so switches them off and ends (`DisableMetrics`). osctrl-admin and
osctrl-api return before they do that, so that they start only when their
collector does, which is why `Disabling` names osctrl-tls alone. Operators add without
asking whether a value exists, change the first row and delete. `GetMap` takes the last row of a
name in whatever order the database has, the readers elsewhere the first. A failed
query leaves an empty map, with which nodes to be accelerated are told to ask
again in 0 seconds, until the next reload.

### LogCleanup

`flags` is what the row of each query says, `stored` which of the tables of
data, targets and executions have rows of it, `logs` the logs of each environment by age, `cleaner`
the goroutine of osctrl-admin. Its round goes through the environments
(`CleanLogs`), lists the queries (`ListQueries`), keeps those completed *at that
moment* (`Listed`), and for each goes through three tables (`FindRows`,
`DeleteRows`) and deletes the row (`DeleteQuery`). Meanwhile queries are created,
completed, activated and withdrawn, and goroutines still write rows of them.

What two of the statements do is decided by the ORM (gorm 1.9.16) and not by the
text of `CleanQueryLogs`. `Offset` without `Limit` writes nothing in the mysql dialect
(`backend/backend.go:18`), so that all queries are listed, whatever
`clean_query_entries` says. `Unscoped().Delete(&rows)` of a slice has no primary key, and no
condition is given: it is a DELETE FROM without WHERE. `DeleteRows` therefore empties the
table for all queries, also when the rows that were looked for are none, and what
was found is not in the state. The row of the query itself is deleted by its primary key. What the
round keeps for ever: rows of withdrawn queries that were never completed, and the
logs of environments that were deleted.

### Metrics

`counter` are the counters, `mux` the mutex, `sender` goroutines in `Inc`:
`LoadCounter` and `StoreCounter` under the mutex, `ReportValue` reads again and
unlocks; then `CloseConn`, `Dial`, `AssignConn` and `Send`, which starts again a
number of times when it fails (`SendAgain`; for UDP errors are not looked at).
`connOpen` is the one connection of the struct, `forgotten` says that an open
one was overwritten, `lost` that a value was given up. A counter starts at 1 and
again, after its interval, at 0: `Advanced` does as the code does.

## The runs

Each run takes two and a half minutes or less on two cores.

| Run | Module / cfg | What it asks | Bounds |
|---|---|---|---|
| `queries` | `MCQueriesOverlap` / `Queries` | Two goroutines overlap on the same query while it is created and may be deleted. `VerifyComplete` never decides early; counters are exact unless both counted the same thing at once; a query with all its results is completed; an answered or withdrawn query stops being served; accepted results are stored (liveness) | one node that the query targets twice, by UUID and by name; one query, two results |
| `queries_keys` | `MCQueriesOverlap` / `QueriesKeys` | A node is removed and enrols again between its requests, any statement may fail, the operator does anything, carves and API queries with targets that differ between counting and serving. Nothing is booked to a node that the query does not target; the code implements `QueryLifecycle` | one node, two keys, one result |
| `queries_lost_update` | `MCQueries` / `QueriesLostUpdate` | (violated) the counters show every result | two nodes, two results |
| `queries_early` | `QueriesEarly` | (violated) a query is completed only when its results are in | two nodes, two results |
| `carves` | `MCCarves` / `Carves` | Blocks sent again, failing statements, restarts, deletion, three goroutines at once. Never COMPLETED before enough blocks were counted | two blocks, three deliveries |
| `carves_status` | `CarvesStatus` | (violated) the status tells completion | three blocks |
| `downloads` | `MCCarveDownloads` / `Downloads` | Upload by overlapping goroutines and downloads together, restarts, deletion, a disk that fails. COMPLETED files are whole; the goroutines implement `CarveTransfer`; what is served is in order, unless two downloads made the file together; a whole file whose blocks came one at a time is marked COMPLETED | two blocks, three downloads, two of them at once |
| `downloads_early` | `DownloadsEarly` | (violated) the download of a COMPLETED carve is whole | three blocks, two downloads |
| `administration` | `MCAdministration` / `Administration` | Environments: any two of three requests overlap; links keep their deadlines, a revoked link returns only by a stale write, without overlap flags are up to date. Users: two requests of any kind; as long as they do not overlap and the command is not used an administrator is left, and what is answered OK is done. Sessions: cookies are of the user who logged in, refused ones stay refused. Settings: two services start together; one row per value, current values of the file | three requests, two rows; two requests, two names, three rows; two requests at once of three, two sessions, two starts; two services, one change, one crash, one failure |
| `node_records` | `MCNodeRecords` / `NodeRecords` | A host enrols, moves between environments, is deleted and tagged; answers, statements and the service fail. A key names one row; without overlap or failure the answered key is known, replaced keys are archived, a host that did not move has one row, a node is tagged once. Its logs: what the row has is in the histories, addresses are never counted too often, a log that nothing came between reaches the row | one host, two environments, two handlers, three keys, two requests of operators; three requests from two addresses or none, one deletion |
| `services` | `MCServices` / `Services` | Metrics: counters are exact, connections are not left open and values not lost but by overlap and the network. Clean-up: nothing is left of a query but what was written late, no query goes that was never completed; sessions, logs and queries go (liveness). Settings reach the map; osctrl-tls starts in the end (liveness) | two goroutines, three requests; two requests at once, two sessions, two starts; two queries, one kept; one service, one change, one crash, one failure |
| `cleanup_others` | `LogCleanup` / `CleanupOthers` | (violated) a round takes nothing of other queries, and nothing while no more exist than are kept | two queries, both to be kept |

Why these bounds are enough to mean something:

- All races in the code are between *two* statements of one actor and one
  statement of another; two goroutines, requests or handlers have all of them.
  Where a third matters it is there: two overlapping blocks and a late one
  (`carves`), a third edit after two that overlapped, a page after two that
  overlapped (`administration`).
- Queries, carves, environments and hosts do not share rows, except for hosts
  targeted by the same query (two nodes in the runs that show a lost result and
  an early completion; one node with two results where order is the question). Two
  operators are needed to demote one another, and two queries for a round to
  take one and leave the other.
- Two blocks are the least that can be out of order or missing in part; three
  downloads with two at once have one that makes the file, one that meets it, and
  one that finds what they left. A file of two blocks with one block sent again
  is enough to complete it with a block missing.
- Three enrolments are the least for A, B, B (two environments, a lost answer).
  Two addresses are the least for a log from another one than the row has.
- Two starts of osctrl-admin are the least for a session of a former key; two
  times are the least for an interval that is over. `Retries` is 0 in
  `services`, so that a value is given up after one failure; it is any number
  in the theorems.
- The keys of `MaxKey`, the rows of `MaxRows`, `MaxUserRows` and `MaxSessions`, the
  requests of `MaxAsked`, `MaxOrders`, `MaxSent`, `MaxRequests` and `MaxIncs`, the edits
  of `MaxEdits`, the logs of `MaxLogs` and the times of `MaxTime` and `MaxStarts` bound
  what the code does not. `AdminUsers`, `LogCleanup` and `ServiceSettings` let
  at most one statement fail in a behaviour. The theorems hold for any
  values of these constants.

Deadlock is not checked: operators and nodes may stop for good, and once the
bounded number of results or requests is spent, every run may stop. That
goroutines, starting services and clean-ups do not get stuck half-way is what
the liveness properties say. Symmetry is used for interchangeable goroutines and
requests only, and in no run that checks liveness.

Preconditions in properties are part of what they say and are listed with them.
They speak of history variables, which only remember what happened:
`raced`, `reopened`, `unjudged` and `mixed` (above),
`disturbed` and `overlapped` (requests overlapped, something failed), `unruly`
(requests overlapped, or about the same user; the command or the headers were used; a
statement failed), `crossed` (who else worked on the node during a request),
`trouble` (goroutines were in `ConnectAndSend` together; the network failed),
`mishaps` (two starts at a time, a value added by hand, a failure, a crash), `late` (a row
was written after its table was emptied) and `broken`. Without these
preconditions `QueryCountersExact`, `CompletedWhenAnswered`, `DownloadsInOrder`, `WholeFilesCompleted`,
`NothingTwice`, `ReplacedKeysArchived`, `AnsweredKeyKnown`,
`FlagsUpToDate`, `SomeAdminLeft`, `DoneWhenOK`, `LogsReachRow`, `OneRowPerSetting`,
`ConnectionKept` and `OrphansAreLate` are violated by the races listed in
`PROJECT.json` as hazards, whose notes say what is exempt where. Variants looked at and found violated, with the reason:

- `KeyNamesOneRow` holds whatever overlaps. That every host has one row does
  not: a host enrolled in A, then in B, then again in B updates the row that
  was A's (the first of its UUID), and ends with two rows in B and none in A.
- A request that writes back a stale row revives a link that another one
  expired or replaced meanwhile; `RevokedForGood` says that nothing else does.
- Two first downloads at the same time append to one file: blocks twice.
  `DownloadsInOrder` says that this takes two of them at the same file. And
  the second download of a compressed file is given a name without its suffix.
- An environment created by the command while the tag of a former one is still
  there has no flags: `FlagsUpToDate` makes an exception for blank flags.
- Two administrators who demote or remove one another at the same time leave
  none: `SomeAdminLeft` without its precondition.
- The addresses of a node are counted too rarely as well as exactly, never too
  often: `CountsNotAbove` is an inequality since goroutines lose counts.
- A start whose lookup failed inserts a second row of a value that was there;
  `Inc` gives a value up after its retries; a goroutine that overlaps another in
  `ConnectAndSend` overwrites an open connection, which nobody closes then.

## Fairness

`FairOverlapSpec` (`QueriesOverlap`, with `Fairness` of `Queries`) assumes weak fairness of each goroutine and of each
request that has started, and of nothing else: the Go scheduler runs every
runnable goroutine, none of them waits for a lock or for another one, and a
statement of the database returns. Nodes and operators are not fair: osqueryd
may never read, write or enrol again, and no property needs it to. The fair run
has no failing statements and no restarts, since either may end a goroutine for
good: that every accepted result is stored is true only while statements
succeed.

`ServicesFairness` (`Services`) assumes weak fairness of
- the clock of each session (`SessionAges`) and the clean-up of the sessions, a
  goroutine with a ticker (`admin/main.go`): a session is deleted even if no
  cookie can be decoded for it any more;
- the successful steps of the clean-up of logs and queries, a goroutine with a
  ticker as well; failures end a round, happen once, and a later round does it again;
- starting a service and the steps of its start: the services are restarted by a
  supervisor when they end (`deploy/config/systemd.service`, `Restart=on-failure`;
  `log.Fatal` is such an end), and a start waits for nobody;
- the goroutine of osctrl-tls that reloads the settings, with a ticker
  (`tls/main.go`).

Operators, browsers, nodes, the network and the collector are not fair, nor is
any failure. A failed statement, a crash, or an edit happens a bounded number of times: with
failures for ever no clean-up and no start would have to succeed.

## The theorems

| Theorem | Says, for every value of the constants |
|---|---|
| `QueriesProofs!TypeCorrect` | `TypeOK` |
| `QueriesProofs!CountersSound` | `CountersNeverOverstate`: a counter never shows more results than were counted, even where goroutines race for it |
| `QueriesProofs!VerdictSound` | `VerdictNeverEarly`: completion is never decided before as many results came in as the row that was read expects |
| `QueriesProofs!LifecycleImplemented` | `Queries` implements `QueryLifecycle`, with failures, deleted nodes and any number of queries, nodes and goroutines |
| `QueriesProofs!TrackedSound` | `OnlyTargetedNodesTracked`, whichever nodes are removed or get new keys and whichever statement fails |
| `QueriesProofs!QueryCountersSound` | `QueryCountersExact`, for any number of overlapping goroutines: the lost increment of `queries_lost_update` takes two of them between read and write of one counter |
| `QueriesProofs!CompletionSound` | `CompletedWhenAnswered`, however goroutines overlap, for queries without such a race, a failed verdict or a second activation |
| `CarvesProofs!CarvesTypeCorrect` | `CarvesTypeOK` |
| `CarvesProofs!FinishSound` | `FinishNeverEarly`, with failures, repeated blocks and restarts |
| `CarvesProofs!CompletedSound` | `CompletedFilesWhole`, if no block is sent again and no statement fails |
| `CarvesProofs!TransferImplemented` | `Carves` implements `CarveTransfer`, under the same two assumptions |
| `DownloadsProofs!DownloadsTypeCorrect` | `DownloadsTypeOK` |
| `DownloadsProofs!DownloadsSound` | `DownloadsInOrder`, with a disk that fails and any number of downloads at once, if no block is sent again and no statement fails |
| `DownloadsProofs!WholeFilesSound` | `WholeFilesCompleted`, with restarts, deletion and downloads that overlap, if no block is sent again, no statement fails and files have a block at least |
| `EnvironmentsProofs!EnvironmentsTypeCorrect` | `EnvironmentsTypeOK` |
| `EnvironmentsProofs!LinksSound` | `LinkKeepsDeadline`, whatever overlaps |
| `EnvironmentsProofs!RevocationSound` | `RevokedForGood`: only a stale write brings a link back, for any number of requests |
| `EnvironmentsProofs!FlagsSound` | `FlagsUpToDate`, as long as requests do not overlap |
| `EnrolmentProofs!EnrolmentTypeCorrect` | `EnrolmentTypeOK` |
| `EnrolmentProofs!KeysSound` | `KeyNamesOneRow`, whatever overlaps, fails, is lost or restarts |
| `EnrolmentProofs!AnswersSound` | `AnsweredKeyKnown`, with lost answers and repeated requests, while handlers do not overlap and nothing fails |
| `EnrolmentProofs!RowsSound` | `NothingTwice`, under the same assumption |
| `EnrolmentProofs!ArchiveSound` | `ReplacedKeysArchived`, under the same assumption |
| `NodeRecordsProofs!RowsRecorded` | `RowRecorded`, whatever overlaps and whenever the node is deleted |
| `NodeRecordsProofs!LogsArrive` | `LogsReachRow`, for any number of handlers |
| `NodeRecordsProofs!CountsSound` | `CountsNotAbove`, whatever overlaps or fails |
| `NodeRecordsProofs!RecordsImplementParts` | `NodeRecords` implements `Enrolment` and `NodeMetadata` |
| `NodeRecordsProofs!RecordsTypeCorrect` | `RecordsTypeOK` |
| `ServicesProofs!MetricsTypeCorrect` | `MetricsTypeOK` |
| `ServicesProofs!CountersSound` | `CountersExact`, for any number of goroutines, intervals and retries |
| `ServicesProofs!ConnectionSound` | `ConnectionKept` |
| `ServicesProofs!SessionsTypeCorrect` | `SessionsTypeOK` |
| `ServicesProofs!CookiesSound` | `CookieMatchesLogin`, across restarts, lost answers and failures |
| `ServicesProofs!RefusalFinal` | `RefusedForGood` |
| `ServicesProofs!CleanupTypeCorrect` | `CleanupTypeOK` |
| `ServicesProofs!OrphansSound` | `OrphansAreLate` |
| `ServicesProofs!UncompletedSound` | `UncompletedStay`: no row of a query that was never completed is deleted, and no table is emptied before some query was completed |
| `ServicesProofs!RowsSound` | `OneRowPerSetting`, for any number of services and settings, crashes and restarts |
| `ServicesProofs!FilesSound` | `FileValuesCurrent` |
| `ServicesProofs!ServicesImplementParts` | `Services` implements `Metrics`, `AdminSessions`, `LogCleanup` and `ServiceSettings` |
| `ServicesProofs!ServicesTypeCorrect` | `ServicesTypeOK` |
| `AdministrationProofs!UsersTypeCorrect` | `UsersTypeOK` |
| `AdministrationProofs!AdminsSound` | `SomeAdminLeft`, whichever statement fails |
| `AdministrationProofs!OrdersDone` | `DoneWhenOK`, for any number of requests and users |
| `AdministrationProofs!AdministrationImplementsParts` | `Administration` implements `Environments`, `AdminUsers`, `AdminSessions` and `ServiceSettings` |
| `AdministrationProofs!AdministrationTypeCorrect` | `AdministrationTypeOK` |

They rest on the assumptions of the modules (`ConstantsAssumption`,
`CarvesAssumption`, `EnvironmentsAssumption`, `EnrolmentAssumption`,
`MetricsAssumption`, `SessionsAssumption`, `CleanupAssumption`,
`UsersAssumption`, `MetadataAssumption`, `DownloadsAssumption`: sets of names are finite or not empty,
sentinels are none of them, bounds are numbers; `SettingsAssumption`: a service checks a
value once, values of a file belong to one service, and the metrics and the map
are not of a file), which TLC evaluates in the runs, and on the library's
theorems on finite sets and sequences. Most theorems are about a component's own
specification. The compositions implement those (`AdministrationImplementsParts`,
`RecordsImplementParts`, `ServicesImplementParts`: a step of another part is a
stutter), so that they hold of what the runs check.

**Queries.** `CountersNeverOverstate` is not inductive: a goroutine that has read
a counter will write what it read plus one, however much later. `IInv` adds that
what was read is at most the number of results counted *now* (`SeenBounded`;
results are never uncounted, so the bound survives the wait), that the goroutine
about to write has not been counted for this result (`CountedOnce`), and that it handles a name
(`HandlesAName`), so that the set it adds to grows by exactly one. Then the
written value, at most the count plus one, is at most the new count. `VerdictNeverEarly`
follows from the counters at the moment of the read, and is kept because counts grow.

*The refinement.* An increment maps to an answer, the two statements of
`VerifyComplete` to `Judge` and `Close`, the requests to `Publish` and
`Announce`, and everything else to a stutter. `LIInv` adds what
the abstract guards ask for: a quota is announced once and only after
publication, an active query was created (`Announced`), and what a node or goroutine has in hand are queries
that were created (`OnlyCreated`). A verdict is allowed because the answers
counted are at least what the goroutine has read, from `IInv`.

*The targets.* A result is booked under the UUID that a goroutine found by the key of
the request, several statements after the queries of that node were read. `Addressed` follows it:
what a node was given targets it (`GivenToTargets`), a goroutine has found the node
that was given the query or none (`HandledForTargets`), and so what it has written is of a
target (`BookedToTargets`). Targets, once written, stay, and keys are never given twice.

*Goroutines that overlap.* `OverlapIInv` is exact where `IInv` has bounds: a counter is
the number of results counted (`QueryCountersExact`), and what a goroutine has read of
it still is what it shows (`SeenExact`), unless two of them stood between read and
write (`CountingAlone`), after which the query is in `raced` for good. `Judged` says
that a query which is not closed has fewer results than it expects, or that a
goroutine which has counted one has yet to look at it: the last to count finds all of
them, since `Enough` reads what no other goroutine can lower. A verdict that comes to
nothing puts the query in `unjudged`, and activation in `reopened`.
Every other statement, SetExpected included, can only raise what is expected,
and is no exception. No constant is assumed to be small.

**Carves.** `CarvesIInv` is the same argument on `completed_blocks`
(`CountBounded`, `ReadBounded`, `CountedOnce`), with `Opened`: a session in use
stays that of its carve. For `CompletedSound`, `ExactlyOnce` adds that deliveries
under way are different blocks of the file (`EachBlockOnce`) and that a block is
stored before it is counted (`StoredBeforeCounted`); the blocks counted are then
as many *different* blocks below the total, so that a count that reaches the
total is the whole file: the lemma `EnoughIsWhole`. `TransferImplemented` maps each step of
a goroutine to a step of `CarveTransfer` or to a stutter; `Finish` needs
`EnoughIsWhole`.

**CarveDownloads.** The upload goes on as in `Carves` (`UploadsGoOn`), so that its
invariants are there to use. `DownloadsIInv` is about sessions that are not `mixed`. While a
download makes the file of such a session no other one is at work on it (`Apart`), and
what it has left to write comes after all that is on disk (`InProgress`, `Precedes`); a download that
failed leaves the file in order, and nobody appends to it: a file that exists is
served as it is. Downloads that meet at a file are recorded in `mixed` in that very step
(`Mixing`). `ExactlyOnce` makes the rows of a file
different blocks, so that their order is strict (`BlocksInOrder`).
`WholeFilesCompleted` is about the upload, and `WholeIInv` about a file whose
goroutines never overlapped (`Orderly`): the count of its row is exact (`Exact`), each
goroutine that is past its increment has counted its block (`InLine`), and once all are
counted the file is stamped or the goroutine of the last block is about to. A file
announced with no blocks would never see a goroutine: `Nonempty`.

**Environments.** `LinkKeepsDeadline` speaks of the table, but a request may write
back what it read long ago. `EnvironmentsIInv` says of every row that some request
has read, as of those in the table, that it is `Good`: each link has its own
deadline, or one that is over. Deadlines never become current again (`passed`
grows), so a stale row stays `Good` and may be written at any time.
For `RevokedForGood` the lemma `StandsBefore` takes a step that is no stale write: a link
that was issued and stands after it stood before. A row that is written whole was read as it
still is, but for a link that the request makes with its deadline; a single column
is no link, or a deadline that is over at once. `FlagsUpToDate` needs to know what a request will write: while none has
overlapped, the one at work knows the row as it is, and flags are behind only in the row whose flags
it is about to make (`FlagsFollow`).

**Enrolment.** A key is made when a handler starts, and is written to a row later
and in another statement, to a row that may not be the one looked for. `EnrolmentIInv` says where keys are
meanwhile: all are of those made so far (`KeysMinted`), the key of a handler that has not
written yet is in no row (`PendingUnused`) and with no other such handler
(`PendingDistinct`). So whichever row a handler writes it to, the key is the only one.
The other properties ask that no handlers overlapped and nothing failed (`~disturbed`).
Under it `Calm` says that what the one handler at work found in an earlier statement still
holds (`InHand`: the rows it will overwrite are archived, there is no row where it
will create one, its host has forgotten its key, the row to delete is archived), that each
host is known by its key or was deleted (`KeyKnown`), and has one row (`OneRow`). What a restart or
a lost answer leaves behind is kept apart in `Awaited` (the answers a host waits for) and `AtHome`
(the environment of a host that never moved), which hold whatever overlaps.

**NodeMetadata.** A handler that saves the row last has recorded what it saves, if
nothing failed: `Sound` says so of every statement that is done, `RowKept` of the row,
where the first enrolment is ahead of the histories it has left to write. For `LogsReachRow`,
a handler that nothing came between knows the row (`Undisturbed`). The counts are
bounded by counting pairs: a request from an address either still has to count (`Uncounted`)
or one unit of a record is its own, as the record has it or as a handler
has read it and will write (`Reached`); a handler that writes one more than it
read adds at most one pair and leaves the others. `CountsNotAbove` is then a comparison
of finite sets, without a sum over the records.

**Metrics.** Under the mutex (`MutexHeld`) the copy of a counter that a
goroutine writes back is still the counter (`CopyFresh`), so that the counter follows the requests,
and the values reported are all there have been, but for the one about to be
(`CountsGood`). Outside of the mutex nothing holds unless goroutines do not meet there:
`Alone` and `Sent` follow one goroutine through close, dial, assign and send.

**AdminSessions.** A session is never renewed and never gets another user or key; a
restart only makes keys older (`KeysPast`). So a session that was refused is dead for good
(`RefusedDead`), and a request that saved a session holds one of its own user
(`SavedOwn`) until its answer sets the cookie.

**LogCleanup.** The flags that the round goes by are those of an earlier moment:
`DoomedEnded` says that the queries it has listed (`Doomed`) were completed once, which no
later change of their flags undoes, and `InRound` that tables are emptied only on account of one of them.
`LeftIsLate` says, table by table, that rows left of a query in a table that was
emptied for it are late, which is `OrphansAreLate` when its row is deleted.

**AdminUsers.** `SomeAdminLeft` is lost by a write that was allowed several
statements earlier. `Entitled` keeps what was asked then: while a request that removes
or demotes somebody else is at work alone (`Alone`), who made it is an
administrator and not the one it is about; `RowFound` (ids are given once) says
that the row it writes is of that other one. So an administrator is left: the one who asked.
`DoneWhenOK` speaks of the answer, and of columns written several statements before it. While no two
requests were about the same user and nothing failed (`Undisputed`), a name has one row
(`OneRowEach`) and one request (`OneClerkEach`), which is half-way (`Halfway`): the row that it
looked up is the one of its user, and each column that its kind writes before the
present step (`Path`, `SoFar`) is as asked.

**ServiceSettings.** A value is looked up in one statement and inserted in another: `Ready`
says that it still is absent unless one of the excuses of `OneRowPerSetting`
arose in between (`Excused`), and that the values of a file that the service is past
(`Past`) are its own, first and only. Values of a file belong to one service, whose starts
do not overlap with themselves: that is why `FileValuesCurrent` needs no more than that no lookup failed.

**Compositions.** Each step of a composition is a step of the part that moves, with the
variables of the others unchanged; the invariants and action properties of the parts follow.

Only model-checked is liveness (`AcceptedResultsLast`, `WithdrawnNotServed`, `OldRecordsGo`,
`ValuesReachMap`, `StartsSucceed`): the prover does not reason about fairness and
ENABLED. Every invariant, action property and refinement that a passing run checks is
also proved. Those that need assumptions on constants need what their runs
have: no block sent again and no failing statement (`CompletedFilesWhole`,
`ImplementsTransfer`, `DownloadsInOrder`, `WholeFilesCompleted`). Without them these are
false, as the variants above and the violated runs show. How many goroutines and requests
run at once is assumed by none.

## Disagreements with the code

Comments in the code promise other than it does in six places; each has a run that shows it.

1. `IncExecution` "to increase the execution count" (`queries/queries.go:301`):
   two goroutines lose an increment, and the query may stay active for ever.
2. `VerifyComplete` "to mark query as completed if the expected executions are
   done" (`queries/queries.go:218`): a result that comes in while the query is
   still being created completes it, since it expects 0 until then.
3. "If it is completed, set status" (`tls/handlers/carves.go:64`): a goroutine that
   judged earlier writes IN PROGRESS over COMPLETED.
4. `Archive` "to convert finalize a completed carve" (`carves/carves.go:254`):
   a download before the upload is complete freezes the file on disk.
5. "CleanQueryLogs will delete old query logs" (`logging/db.go:287`): the slices given to
   `Delete` (lines 300, 308, 316) set no condition, and the results, targets and executions
   of all queries go with those of the first completed one (`cleanup_others`). A query
   that is still active loses its targets, and is served to nobody any more.
6. "Find queries to delete with OFFSET" (`logging/db.go:290`): with the mysql dialect
   there is no OFFSET without LIMIT, so that the newest completed queries go as
   well (`cleanup_others`: no more queries exist than are to be kept).

## What is not modelled

Of the parts that are modelled:

- *Queries, carves*: the text of queries and the bytes of blocks; the flag
  `Hidden` and the "accelerate" answer; `DeleteBlocks`, which nothing calls. Two
  results of one node in one write appear in no run (one query per run), though the
  model and the theorems allow for any number. That carve_id is unique is modelled,
  and has no property of its own: a carve-init whose answer was lost is refused when repeated.
  The second download of a compressed file is served under a name without `.zst`.
- *Environments*: configurations and one-liners are text; `RotateSecret` and
  `RotateSecrets` are called from nowhere; the check that the default
  environment is not deleted.
- *Enrolment, tags*: the description, colour and icon of tags, single
  updates; rows of `tagged_nodes` stay when a tag or node is deleted (the model keeps them
  too) and `GetTags` then fails, on a page that only reads.
- *Node metadata*: hashes, versions, platform, and the times of the last requests of each kind
  (`nodes/nodes.go:612-685`), columns that are overwritten and have no history. A row is found by UUID
  whatever its environment; a node in two environments is in `Enrolment` only.
- *Users*: passwords (bcrypt), `ChangePassword`, and the time and address of the last use
  (`UpdateMetadata`, `UpdateTokenIPAddress`), single updates; permissions are none, all
  or some.
- *Sessions*: SAML and JWT belong to libraries; header authentication keeps no
  session.
- *Settings*: names, types and texts of settings; `addSetting` of the command asserts the type of a
  missing flag and always panics. What osctrl-tls does with `EnvsMap` is only to
  ask whether to print a request; the maps of osctrl-api are read likewise.
- *Logs*: Graylog and Splunk keep no state here; they send what they are given.

Not modelled at all: pages, JSON listings and the API's listings, which only
read; the connection to the database, helpers and types, which keep no state.

## The plan

What is left, in the order in which it would add most:

1. An abstract specification of a download and of an enrolment, in the way of
   `CarveTransfer`, and the proof that they are implemented.
2. Bounds on the loss of a count: how many results, at most, goroutines that race for
   it lose.
3. A model of the maps of environments, once the services use them for more than
   printing.

## Running it

In this directory, with TLC, the community modules and TLAPS 1.4.5 on the path:

    tlc -workers 2 -config Queries.cfg MCQueriesOverlap.tla
    tlapm QueriesProofs.tla

The table above gives the module and the configuration of each run. The runs
that are marked as violated end with a counterexample: it is what they show.

---------------------------- MODULE NodeMetadata ----------------------------
(***************************************************************************)
(* What osctrl-tls knows of one node beyond its key: names and the address *)
(* it comes from, in its row, and the history of each.  Requests of a node *)
(* read the row, add to the histories and save the row, in statements of   *)
(* their own, beside enrolments and the deletion of the node.  The times   *)
(* of its last requests, and hashes and versions, which are saved with the *)
(* names but have no history, are left out.                                *)
(***************************************************************************)
EXTENDS Naturals, Sequences, FiniteSets

CONSTANTS
  NodeRequests, \* handlers at work at the same time
  Addresses,    \* of the header X-Real-IP, or "" when it is missing
  Hosts,        \* what nodes report as names
  MaxRequests,  \* how many requests come
  MaxRemovals   \* how often the node is deleted

ASSUME MetadataAssumption ==
  "" \notin Hosts /\ IsFiniteSet(NodeRequests) /\ MaxRequests \in Nat /\ MaxRemovals \in Nat

Fields == {"username", "hostname", "localname"}

(* The metadata of a log has the same host in all names, or none. *)
Reports == {[f \in Fields |-> v] : v \in Hosts \cup {""}}

NoReport == [f \in Fields |-> ""]

VARIABLES
  row,       \* osquery_nodes: no row of the node, or one
  names,     \* node_history_*: the values recorded of each name
  ips,       \* node_history_ipaddress: the records, by id
  reqs,      \* the handlers
  requested, \* history: the addresses of requests so far, but for repeated enrolments
  enrolled,  \* history: what a repeated enrolment has written
  crossed,   \* history: handlers that others, an enrolment or a deletion came between
  removals,  \* times that the node was deleted
  failed     \* a statement has failed

metadataVars == <<row, names, ips, reqs, requested, enrolled, crossed, removals, failed>>

Text == Hosts \cup {"", "unknown"}
MetadataRow == [id : Nat, addr : Addresses, name : [Fields -> Text]]

(* older: the records that were updated before this one was. *)
IPRecord == [addr : Addresses, count : Nat, older : SUBSET Nat]

Statement == Fields \cup {"read", "ip", "count", "save"}

(* Mutant: the row is saved before the histories. *)
LogOrderSaveFirst ==
  [read |-> 0, save |-> 1, username |-> 2, hostname |-> 3, localname |-> 4, ip |-> 5, count |-> 5]

(* A log writes histories in this order before it saves the row, an        *)
(* enrolment of a new node in the other one after it wrote the row.        *)
LogOrder ==
  [read |-> 0, username |-> 1, hostname |-> 2, localname |-> 3, ip |-> 4, count |-> 4, save |-> 5]

CreateOrder == [hostname |-> 1, localname |-> 2, ip |-> 3, username |-> 4]

(* node is the row as the handler read it, id and count are those of the   *)
(* record of the address as it read it, left the statements that are left. *)
NodeRequest ==
  [kind : {"idle", "create", "update"}, addr : Addresses \cup {""}, report : Reports,
   node : Seq(MetadataRow), id : Nat, count : Nat, left : SUBSET Statement]

MetadataTypeOK ==
  /\ row \in Seq(MetadataRow) /\ Len(row) <= 1
  /\ names \in [Fields -> SUBSET Text]
  /\ ips \in Seq(IPRecord)
  /\ reqs \in [NodeRequests -> NodeRequest]
  /\ \A r \in NodeRequests : reqs[r].left = {} <=> reqs[r].kind = "idle"
  /\ requested \in Seq(Addresses) /\ Len(requested) <= MaxRequests
  /\ enrolled \subseteq Addresses \cup Text
  /\ crossed \subseteq NodeRequests
  /\ removals \in 0 .. MaxRemovals /\ failed \in BOOLEAN

IdleRequest ==
  [kind |-> "idle", addr |-> "", report |-> NoReport, node |-> <<>>, id |-> 0, count |-> 0,
   left |-> {}]

MetadataInit ==
  /\ row = <<>> /\ names = [f \in Fields |-> {}] /\ ips = <<>>
  /\ reqs = [r \in NodeRequests |-> IdleRequest]
  /\ requested = <<>>
  /\ enrolled = {} /\ crossed = {} /\ removals = 0 /\ failed = FALSE

Handling(r) == reqs[r].kind # "idle"

AtWork == {r \in NodeRequests : Handling(r)}

Place(r, step) == IF reqs[r].kind = "create" THEN CreateOrder[step] ELSE LogOrder[step]

Todo(r, step) ==
  step \in reqs[r].left /\ \A other \in reqs[r].left : Place(r, step) <= Place(r, other)

Finish(r) == reqs' = [reqs EXCEPT ![r] = IdleRequest]

(* The handler is done with a statement, or with its last one. *)
NextStatement(r, step) ==
  IF reqs[r].left = {step} THEN Finish(r) ELSE reqs' = [reqs EXCEPT ![r].left = @ \ {step}]

(* A statement fails, and with it what the handler had left. *)
GiveUp(r) == ~failed /\ failed' = TRUE /\ Finish(r)

(* Mutant: empty data is written. *)
UpdateEmpty(n, addr, report) == [n EXCEPT !.addr = addr, !.name = report]

(* What the row has in data that is not empty. *)
Update(n, addr, report) ==
  [n EXCEPT !.addr = IF addr = "" THEN @ ELSE addr,
            !.name = [f \in Fields |-> IF report[f] = "" THEN @[f] ELSE report[f]]]

----------------------------------------------------------------------------
(* A handler starts. *)
Receive(r, addr, request) ==
  /\ ~Handling(r)
  /\ Len(requested) < MaxRequests
  /\ requested' = Append(requested, addr)
  /\ reqs' = [reqs EXCEPT ![r] = request]
  /\ crossed' = IF AtWork = {} THEN {} ELSE AtWork \cup {r}

(* A log, or a request for the configuration or queries and a result of    *)
(* queries, which carry no metadata but the address.                       *)
ReceiveLog(r) ==
  /\ row # <<>>
  /\ \E addr \in Addresses, report \in Reports :
       Receive(r, addr, [IdleRequest EXCEPT !.kind = "update", !.addr = addr,
                                            !.report = report, !.left = {"read"}])
  /\ UNCHANGED <<row, names, ips, enrolled, removals, failed>>

(* nodeFromEnroll does not know the user. *)
EnrolReport(host) == [f \in Fields |-> IF f = "username" THEN "unknown" ELSE host]

(* Create writes the row first.  Two rows of a node are another module's. *)
CreateNode(r) ==
  /\ row = <<>>
  /\ \E addr \in Addresses, host \in Hosts :
       LET n == [id |-> removals, addr |-> addr, name |-> EnrolReport(host)] IN
       /\ row' = <<n>>
       /\ Receive(r, addr, [IdleRequest EXCEPT !.kind = "create", !.addr = addr,
                                               !.node = <<n>>, !.left = Fields \cup {"ip"}])
  /\ UNCHANGED <<names, ips, enrolled, removals, failed>>

(* UpdateByUUID, which writes no history. *)
EnrolAgain ==
  /\ row # <<>> /\ enrolled = {}
  /\ \E addr \in Addresses, host \in Hosts :
       /\ row' = <<Update(row[1], addr, EnrolReport(host))>>
       /\ enrolled' = {addr, host, "unknown"}
  /\ crossed' = crossed \cup AtWork
  /\ UNCHANGED <<names, ips, reqs, requested, removals, failed>>

(* ArchiveDeleteByUUID leaves the histories. *)
RemoveNode ==
  /\ row # <<>> /\ removals < MaxRemovals
  /\ row' = <<>>
  /\ removals' = removals + 1
  /\ crossed' = crossed \cup AtWork
  /\ UNCHANGED <<names, ips, reqs, requested, enrolled, failed>>

(* GetByUUID and GetByKey; then the names that differ are to be recorded. *)
ReadNode(r) ==
  /\ Todo(r, "read")
  /\ \/ /\ row # <<>>
        /\ reqs' = [reqs EXCEPT ![r].node = row,
             ![r].left = {"ip", "save"} \cup
                {f \in Fields : reqs[r].report[f] \notin {"", row[1].name[f]}}]
        /\ UNCHANGED failed
     \/ row = <<>> /\ Finish(r) /\ UNCHANGED failed
     \/ GiveUp(r)
  /\ UNCHANGED <<row, names, ips, requested, enrolled, crossed, removals>>

(* NewHistoryUsername, NewHistoryHostname, NewHistoryLocalname. *)
RecordName(r) ==
  /\ \E f \in Fields :
       /\ Todo(r, f)
       /\ \/ /\ names' = [names EXCEPT ![f] = @ \cup
                  {IF reqs[r].kind = "create" THEN reqs[r].node[1].name[f] ELSE reqs[r].report[f]}]
             /\ NextStatement(r, f)
             /\ UNCHANGED failed
          \/ GiveUp(r) /\ UNCHANGED names
  /\ UNCHANGED <<row, ips, requested, enrolled, crossed, removals>>

(* Whether the address gets a record of its own. *)
NewAddress(r) ==
  reqs[r].kind = "create" \/ reqs[r].addr \notin {"", reqs[r].node[1].addr}

(* Mutant: the record is looked for in those of all addresses. *)
RecordsOfAny(addr) == DOMAIN ips

RecordsOf(addr) == {i \in DOMAIN ips : ips[i].addr = addr}

WriteRecord(i, addr, count) ==
  ips' = [j \in DOMAIN ips \cup {i} |->
            IF j = i THEN [addr |-> addr, count |-> count, older |-> DOMAIN ips \ {i}]
                     ELSE [ips[j] EXCEPT !.older = @ \ {i}]]

(* NewHistoryIPAddress, or GetHistoryIPAddress: the record of the address  *)
(* that was not updated for longest.  Without one the handler gives up.    *)
RecordAddress(r) ==
  /\ Todo(r, "ip")
  /\ \/ /\ NewAddress(r)
        /\ WriteRecord(Len(ips) + 1, reqs[r].addr, 1)
        /\ NextStatement(r, "ip")
        /\ UNCHANGED failed
     \/ /\ ~NewAddress(r)
        /\ \E i \in RecordsOf(reqs[r].addr) :
             /\ ips[i].older \cap RecordsOf(reqs[r].addr) = {}
             /\ reqs' = [reqs EXCEPT ![r].id = i, ![r].count = ips[i].count,
                                     ![r].left = {"count"} \cup (@ \ {"ip"})]
        /\ UNCHANGED <<ips, failed>>
     \/ /\ ~NewAddress(r) /\ RecordsOf(reqs[r].addr) = {}
        /\ Finish(r)
        /\ UNCHANGED <<ips, failed>>
     \/ GiveUp(r) /\ UNCHANGED ips
  /\ UNCHANGED <<row, names, requested, enrolled, crossed, removals>>

(* IncHistoryIPAddress writes one more than it has read. *)
CountAddress(r) ==
  /\ Todo(r, "count")
  /\ \/ /\ WriteRecord(reqs[r].id, ips[reqs[r].id].addr, reqs[r].count + 1)
        /\ NextStatement(r, "count")
        /\ UNCHANGED failed
     \/ GiveUp(r) /\ UNCHANGED ips
  /\ UNCHANGED <<row, names, requested, enrolled, crossed, removals>>

(* What differs from the row that was read goes to the row with its id. *)
SaveNode(r) ==
  LET was == reqs[r].node[1]
      changes == [f \in Fields |-> IF reqs[r].report[f] = was.name[f] THEN "" ELSE reqs[r].report[f]]
      addr == IF reqs[r].addr = was.addr THEN "" ELSE reqs[r].addr
  IN
  /\ Todo(r, "save")
  /\ \/ /\ row' = IF row # <<>> /\ row[1].id = was.id THEN <<Update(row[1], addr, changes)>> ELSE row
        /\ Finish(r)
        /\ UNCHANGED failed
     \/ GiveUp(r) /\ UNCHANGED row
  /\ UNCHANGED <<names, ips, requested, enrolled, crossed, removals>>

MetadataNext ==
  \/ \E r \in NodeRequests :
       \/ ReceiveLog(r) \/ CreateNode(r)
       \/ ReadNode(r) \/ RecordName(r) \/ RecordAddress(r) \/ CountAddress(r) \/ SaveNode(r)
  \/ EnrolAgain \/ RemoveNode

MetadataSpec == MetadataInit /\ [][MetadataNext]_metadataVars

----------------------------------------------------------------------------
(* The values of the row are in the histories, unless a repeated enrolment *)
(* wrote them, its first one is still writing or a statement failed.       *)
RowRecorded ==
  \/ row = <<>> \/ failed \/ \E r \in NodeRequests : reqs[r].kind = "create"
  \/ /\ \A f \in Fields : row[1].name[f] \in names[f] \cup enrolled
     /\ row[1].addr \in enrolled \/ \E i \in DOMAIN ips : ips[i].addr = row[1].addr

(* What the records of an address have counted: 1 .. count of each.        *)
Counted(a) == UNION {{i} \X (1 .. ips[i].count) : i \in {j \in DOMAIN ips : ips[j].addr = a}}

(* The records of an address never count more requests than came from it,  *)
(* whatever handlers read and write between.                               *)
CountsNotAbove ==
  \A a \in Addresses :
    Cardinality(Counted(a)) <= Cardinality({i \in DOMAIN requested : requested[i] = a})

(* A log that nothing came between leaves its names and its address in the *)
(* row when it ends, unless its address has no record: an enrolment that   *)
(* was repeated from another address keeps later logs out until then.      *)
LogsReachRow ==
  [][\A r \in NodeRequests :
       LET q == reqs[r]
           known == \E i \in DOMAIN ips : ips[i].addr = q.addr
       IN
       /\ q.kind = "update" /\ r \notin crossed /\ ~Handling(r)' /\ ~failed'
       /\ known /\ row # <<>>
       => /\ row' # <<>> /\ row'[1].addr = IF q.addr = "" THEN row[1].addr ELSE q.addr
          /\ \A f \in Fields :
               row'[1].name[f] = IF q.report[f] = "" THEN row[1].name[f] ELSE q.report[f]
    ]_metadataVars

=============================================================================

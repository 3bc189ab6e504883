----------------------------- MODULE Enrolment -----------------------------
(***************************************************************************)
(* The nodes table and its archive: osqueryd enrols, loses its key and     *)
(* enrols again, is installed anew in another environment, while operators *)
(* delete, tag and untag nodes.  A node is looked up by UUID in one        *)
(* statement and written in others, and nothing keeps a UUID, a key or a   *)
(* tag of a node unique.                                                   *)
(***************************************************************************)
EXTENDS Naturals, FiniteSets

CONSTANTS
  Nodes,        \* hosts, named by their UUID
  Environments, \* environments; each has a tag of the same name
  Handlers,     \* goroutines of the TLS service and of the admin service
  InFlight,     \* how many handlers may run at the same time
  MaxKey,       \* how many enrolments are requested
  MaxRows,      \* how many rows are ever made
  MaxAsked,     \* how many requests operators make
  Failures,     \* TRUE: statements may fail, and the TLS service may restart
  Operations    \* what operators do, a subset of AllOperations

AllOperations == {"delete", "tag", "untag", "add tag", "remove tag", "reinstall"}

ASSUME EnrolmentAssumption ==
  /\ IsFiniteSet(Handlers) /\ IsFiniteSet(Nodes) /\ Nodes # {} /\ Environments # {}
  /\ InFlight \in Nat /\ MaxKey \in Nat /\ MaxRows \in Nat /\ MaxAsked \in Nat
  /\ Failures \in BOOLEAN /\ Operations \subseteq AllOperations

VARIABLES
  nodes,   \* rows of osquery_nodes, by id
  made,    \* the last id
  archive, \* archive_osquery_nodes: keys and why they were archived
  tags,    \* admin_tags
  tagged,  \* tagged_nodes: tag, node id, and the handler that wrote the row
  handler, \* handlers
  agent,   \* osqueryd on each host
  minted,  \* node keys generated so far
  asked,   \* requests of operators so far
  disturbed \* history: handlers have overlapped, or something has failed

enrolmentVars ==
  <<nodes, made, archive, tags, tagged, handler, agent, minted, asked,
    disturbed>>

Keys == 0 .. MaxKey

NodeRow == [uuid : Nodes, env : Environments, key : Keys]

Steps == {"idle", "check", "archive", "update", "create", "history", "tag", "insert tag",
          "accept", "refuse", "delete", "untag", "delete tag"}

(* row is the node that enrols; id, tag and by say what is tagged or deleted. *)
HandlerState ==
  [pc : Steps, row : NodeRow, id : 0 .. MaxRows, tag : Environments,
   by : SUBSET Handlers]

AgentState ==
  [env : Environments, key : Keys, moved : BOOLEAN, waits : SUBSET Handlers]

EnrolmentTypeOK ==
  /\ made \in 0 .. MaxRows
  /\ DOMAIN nodes \subseteq 1 .. made /\ \A i \in DOMAIN nodes : nodes[i] \in NodeRow
  /\ archive \subseteq [key : Keys, trigger : {"exists", "delete"}]
  /\ tags \subseteq Environments
  /\ tagged \subseteq Environments \X (1 .. made) \X Handlers
  /\ handler \in [Handlers -> HandlerState]
  /\ agent \in [Nodes -> AgentState]
  /\ minted \in Keys /\ asked \in 0 .. MaxAsked /\ disturbed \in BOOLEAN

-----------------------------------------------------------------------------
AnyRow == CHOOSE row \in NodeRow : row.key = 0

Resting ==
  [pc |-> "idle", row |-> AnyRow, id |-> 0, tag |-> AnyRow.env, by |-> {}]

EnrolmentInit ==
  /\ nodes = <<>> /\ made = 0 /\ archive = {} /\ tagged = {} /\ minted = 0 /\ asked = 0
  /\ tags = Environments
  /\ handler = [h \in Handlers |-> Resting]
  /\ \E env \in [Nodes -> Environments] :
       agent = [n \in Nodes |-> [env |-> env[n], key |-> 0, moved |-> FALSE, waits |-> {}]]
  /\ disturbed = FALSE

Running == {h \in Handlers : handler[h].pc # "idle"}

(* A free handler takes a request. *)
Start(h, state) ==
  /\ handler[h].pc = "idle" /\ Cardinality(Running) < InFlight
  /\ handler' = [handler EXCEPT ![h] = state]
  /\ disturbed' = (disturbed \/ Running # {})

(* An operator makes a request. *)
Ask(op) == op \in Operations /\ asked < MaxAsked /\ asked' = asked + 1

At(h, pc) == handler[h].pc = pc

Goto(h, pc) ==
  handler' = [handler EXCEPT ![h] = IF pc = "idle" THEN Resting ELSE [@ EXCEPT !.pc = pc]]

(* Statements fail now and then. *)
Fails == Failures /\ disturbed' = TRUE

Succeeds == UNCHANGED disturbed

(* GetByUUID orders the rows of the UUID, of any environment, by id. *)
GetByUUID(u) ==
  {i \in DOMAIN nodes :
     nodes[i].uuid = u /\ \A j \in DOMAIN nodes : nodes[j].uuid = u => i <= j}

Inserted(i, row) == [j \in DOMAIN nodes \cup {i} |-> IF j = i THEN row ELSE nodes[j]]

CheckByUUIDEnv(u, e) == \E i \in DOMAIN nodes : nodes[i].uuid = u /\ nodes[i].env = e

CheckByKey(k) == \E i \in DOMAIN nodes : nodes[i].key = k

-----------------------------------------------------------------------------
(* osqueryd. *)

(* It asks for a key when it has none, and again when no answer comes. *)
Enroll(n, h) ==
  /\ agent[n].key = 0 /\ minted < MaxKey
  /\ Start(h, [Resting EXCEPT !.pc = "check", !.tag = agent[n].env,
                 !.row = [uuid |-> n, env |-> agent[n].env, key |-> minted + 1]])
  /\ minted' = minted + 1
  /\ agent' = [agent EXCEPT ![n].waits = {h}]
  /\ UNCHANGED <<asked, nodes, made, archive, tags, tagged>>

(* ConfigHandler, LogHandler, QueryReadHandler and QueryWriteHandler refuse *)
(* a key that no row has, or that they could not look for; then osqueryd   *)
(* forgets it.  They do not ask for the environment of the row.            *)
Refused(n) ==
  /\ agent[n].key # 0
  /\ (~CheckByKey(agent[n].key) /\ Succeeds) \/ Fails
  /\ agent' = [agent EXCEPT ![n].key = 0]
  /\ UNCHANGED <<asked, nodes, made, archive, tags, tagged, handler, minted>>

(* It is installed again, with the secret of another environment. *)
Reinstall(n, e) ==
  /\ Ask("reinstall") /\ e # agent[n].env
  /\ agent' = [agent EXCEPT ![n] = [env |-> e, key |-> 0, moved |-> TRUE, waits |-> {}]]
  /\ UNCHANGED <<nodes, made, archive, tags, tagged, handler, minted, disturbed>>

-----------------------------------------------------------------------------
(* Mutants.  Each repeats a definition that follows with a plausible bug:   *)
(* the row is replaced without being archived; it is never looked for; all *)
(* rows of the UUID are updated; the row keeps its key; the id of the new  *)
(* row is not handed back.                                                 *)

CheckForgetsArchive(h) ==
  /\ At(h, "check") /\ Succeeds
  /\ Goto(h, IF CheckByUUIDEnv(handler[h].row.uuid, handler[h].row.env)
             THEN "update" ELSE "create")
  /\ UNCHANGED <<asked, nodes, made, archive, tags, tagged, agent, minted>>

CheckNothing(h) ==
  /\ At(h, "check") /\ Succeeds /\ Goto(h, "create")
  /\ UNCHANGED <<asked, nodes, made, archive, tags, tagged, agent, minted>>

UpdateAll(h) ==
  /\ At(h, "update") /\ Succeeds /\ Goto(h, "accept")
  /\ nodes' = [i \in DOMAIN nodes |->
       IF nodes[i].uuid = handler[h].row.uuid THEN handler[h].row ELSE nodes[i]]
  /\ UNCHANGED <<asked, made, archive, tags, tagged, agent, minted>>

UpdateKeepsKey(h) ==
  /\ At(h, "update") /\ Succeeds /\ Goto(h, "accept")
  /\ nodes' = [i \in DOMAIN nodes |->
       IF i \in GetByUUID(handler[h].row.uuid)
       THEN [handler[h].row EXCEPT !.key = nodes[i].key] ELSE nodes[i]]
  /\ UNCHANGED <<asked, made, archive, tags, tagged, agent, minted>>

CreateByValue(h) ==
  /\ At(h, "create") /\ made < MaxRows
  /\ made' = made + 1 /\ nodes' = Inserted(made + 1, handler[h].row)
  /\ Succeeds /\ Goto(h, "history")
  /\ UNCHANGED <<asked, archive, tags, tagged, agent, minted>>

-----------------------------------------------------------------------------
(* EnrollHandler.  The secret is right.  The count of CheckByUUIDEnv is 0  *)
(* when it fails.                                                          *)

EnrollCheck(h) ==
  /\ At(h, "check")
  /\ \/ /\ Succeeds
        /\ Goto(h, IF CheckByUUIDEnv(handler[h].row.uuid, handler[h].row.env)
                   THEN "archive" ELSE "create")
     \/ Fails /\ Goto(h, "create")
  /\ UNCHANGED <<asked, nodes, made, archive, tags, tagged, agent, minted>>

(* A failure is only logged.  Nobody reads the archive, so that the row may *)
(* be inserted in it when it is read.                                      *)
Archive(h) ==
  /\ At(h, "archive") /\ Goto(h, "update")
  /\ \/ /\ archive' = archive \cup
             {[key |-> nodes[i].key, trigger |-> "exists"] : i \in GetByUUID(handler[h].row.uuid)}
        /\ Succeeds
     \/ Fails /\ UNCHANGED archive
  /\ UNCHANGED <<asked, nodes, made, tags, tagged, agent, minted>>

(* Not the row that was looked for: the first one of the UUID. *)
UpdateByUUID(h) ==
  /\ At(h, "update")
  /\ LET found == GetByUUID(handler[h].row.uuid)
     IN  \/ /\ found # {} /\ Succeeds
            /\ nodes' = [i \in DOMAIN nodes |-> IF i \in found THEN handler[h].row ELSE nodes[i]]
            /\ Goto(h, "accept")
         \/ /\ IF found = {} THEN Succeeds ELSE Fails
            /\ Goto(h, "refuse") /\ UNCHANGED nodes
  /\ UNCHANGED <<asked, made, archive, tags, tagged, agent, minted>>

Create(h) ==
  /\ At(h, "create") /\ made < MaxRows
  /\ \/ /\ made' = made + 1 /\ nodes' = Inserted(made + 1, handler[h].row)
        /\ handler' = [handler EXCEPT ![h].pc = "history", ![h].id = made + 1]
        /\ Succeeds
     \/ Fails /\ Goto(h, "refuse") /\ UNCHANGED <<made, nodes>>
  /\ UNCHANGED <<asked, archive, tags, tagged, agent, minted>>

(* When one of the four histories fails the row stays. *)
History(h) ==
  /\ At(h, "history")
  /\ \/ Succeeds /\ Goto(h, "tag")
     \/ Fails /\ Goto(h, "refuse")
  /\ UNCHANGED <<asked, nodes, made, archive, tags, tagged, agent, minted>>

(* The answer reaches osqueryd if that still waits for it, or gets lost. *)
Answer(h) ==
  /\ handler[h].pc \in {"accept", "refuse"}
  /\ \E answer \in {0, IF At(h, "accept") THEN handler[h].row.key ELSE 0} :
       agent' = [n \in Nodes |->
         IF h \in agent[n].waits THEN [agent[n] EXCEPT !.waits = {}, !.key = answer]
                                  ELSE agent[n]]
  /\ Goto(h, "idle")
  /\ UNCHANGED <<asked, nodes, made, archive, tags, tagged, minted, disturbed>>

-----------------------------------------------------------------------------
(* Tags.  TagNode checks and inserts; enrolment only logs its failure.  A  *)
(* count that fails is 0: there is no such tag, or the node has none.      *)

IsTagged(t, i) == \E r \in tagged : r[1] = t /\ r[2] = i

TagNode(h) ==
  /\ At(h, "tag")
  /\ \/ /\ Succeeds
        /\ Goto(h, IF handler[h].tag \in tags /\ ~IsTagged(handler[h].tag, handler[h].id)
                   THEN "insert tag" ELSE "accept")
     \/ Fails /\ Goto(h, "accept")
     \/ Fails /\ handler[h].tag \in tags /\ Goto(h, "insert tag")
  /\ UNCHANGED <<asked, nodes, made, archive, tags, tagged, agent, minted>>

InsertTag(h) ==
  /\ At(h, "insert tag")
  /\ \/ tagged' = tagged \cup {<<handler[h].tag, handler[h].id, h>>} /\ Succeeds
     \/ Fails /\ UNCHANGED tagged
  /\ Goto(h, "accept")
  /\ UNCHANGED <<asked, nodes, made, archive, tags, agent, minted>>

(* TagNodesPOSTHandler, for one node and one tag. *)
TagNodes(h, n, t) ==
  /\ \E i \in GetByUUID(n), pc \in {"tag", "untag"} :
       /\ Ask(pc) /\ t \in tags
       /\ Start(h, [Resting EXCEPT !.pc = pc, !.id = i, !.tag = t])
  /\ UNCHANGED <<nodes, made, archive, tags, tagged, agent, minted>>

(* UntagNode finds the first of the rows there are. *)
UntagNode(h) ==
  /\ At(h, "untag")
  /\ LET rows == {r \in tagged : r[1] = handler[h].tag /\ r[2] = handler[h].id}
     IN  \/ /\ handler[h].tag \in tags /\ Succeeds
            /\ \E r \in rows :
                 handler' = [handler EXCEPT ![h].pc = "delete tag", ![h].by = {r[3]}]
         \/ /\ IF handler[h].tag \in tags /\ rows # {} THEN Fails ELSE Succeeds
            /\ Goto(h, "idle")
  /\ UNCHANGED <<asked, nodes, made, archive, tags, tagged, agent, minted>>

DeleteTag(h) ==
  /\ At(h, "delete tag")
  /\ \/ /\ tagged' = tagged \ ({handler[h].tag} \X {handler[h].id} \X handler[h].by)
        /\ Succeeds
     \/ Fails /\ UNCHANGED tagged
  /\ Goto(h, "idle")
  /\ UNCHANGED <<asked, nodes, made, archive, tags, agent, minted>>

(* TagsPOSTHandler.  The nodes that have the tag keep it. *)
NewTag(t) ==
  /\ Ask("add tag") /\ t \notin tags
  /\ tags' = tags \cup {t}
  /\ UNCHANGED <<nodes, made, archive, tagged, handler, agent, minted, disturbed>>

RemoveTag(t) ==
  /\ Ask("remove tag") /\ t \in tags
  /\ tags' = tags \ {t}
  /\ UNCHANGED <<nodes, made, archive, tagged, handler, agent, minted, disturbed>>

-----------------------------------------------------------------------------
(* ArchiveDeleteByUUID, for one node: the actions "delete" and "tag" of    *)
(* NodeActionsPOSTHandler, and the command.                                *)

ArchiveDelete(h, n) ==
  /\ Ask("delete")
  /\ \E i \in GetByUUID(n) :
       /\ Start(h, [Resting EXCEPT !.pc = "delete", !.id = i])
       /\ archive' = archive \cup {[key |-> nodes[i].key, trigger |-> "delete"]}
  /\ UNCHANGED <<nodes, made, tags, tagged, agent, minted>>

Delete(h) ==
  /\ At(h, "delete")
  /\ \/ Succeeds /\ nodes' = [i \in DOMAIN nodes \ {handler[h].id} |-> nodes[i]]
     \/ Fails /\ UNCHANGED nodes
  /\ Goto(h, "idle")
  /\ UNCHANGED <<asked, made, archive, tags, tagged, agent, minted>>

-----------------------------------------------------------------------------
(* The TLS service loses its handlers, and osqueryd the connections. *)
Restart ==
  /\ Failures
  /\ LET enrolling == {h \in Handlers : handler[h].row.key # 0}
     IN  /\ enrolling # {}
         /\ handler' = [h \in Handlers |-> IF h \in enrolling THEN Resting ELSE handler[h]]
  /\ agent' = [n \in Nodes |-> [agent[n] EXCEPT !.waits = {}]]
  /\ disturbed' = TRUE
  /\ UNCHANGED <<asked, nodes, made, archive, tags, tagged, minted>>

EnrolmentNext ==
  \/ \E h \in Handlers :
       \/ EnrollCheck(h) \/ Archive(h) \/ UpdateByUUID(h) \/ Create(h) \/ History(h)
       \/ Answer(h) \/ TagNode(h) \/ InsertTag(h) \/ UntagNode(h) \/ DeleteTag(h) \/ Delete(h)
       \/ \E n \in Nodes : Enroll(n, h) \/ ArchiveDelete(h, n)
       \/ \E n \in Nodes, t \in Environments : TagNodes(h, n, t)
  \/ \E n \in Nodes : Refused(n) \/ \E e \in Environments : Reinstall(n, e)
  \/ \E t \in Environments : NewTag(t) \/ RemoveTag(t)
  \/ Restart

EnrolmentSpec == EnrolmentInit /\ [][EnrolmentNext]_enrolmentVars
=============================================================================

-------------------------- MODULE EnrolmentProofs --------------------------
(***************************************************************************)
(* Theorems about module Enrolment, for any number of hosts, environments, *)
(* handlers and requests, whatever overlaps, fails or is lost.             *)
(***************************************************************************)
EXTENDS EnrolmentProps, FiniteSetTheorems, TLAPS

-----------------------------------------------------------------------------
(* The inductive invariant.  A handler that has not written its row yet    *)
(* has a key of its own, which no row has.                                 *)

Pending(h) == handler[h].pc \in {"check", "archive", "update", "create"}

KeysMinted ==
  /\ \A i \in DOMAIN nodes : nodes[i].key <= minted
  /\ \A h \in Handlers : handler[h].row.key <= minted

PendingUnused ==
  \A h \in Handlers, i \in DOMAIN nodes :
    Pending(h) => nodes[i].key # handler[h].row.key

PendingDistinct ==
  \A g, h \in Handlers :
    Pending(g) /\ Pending(h) /\ g # h => handler[g].row.key # handler[h].row.key

(* A handler that will tag a node has the id of a row. *)
NamesRow(h) == handler[h].pc \in {"history", "tag", "insert tag"}

RowsMade == \A h \in Handlers : NamesRow(h) => handler[h].id \in 1 .. made

EnrolmentIInv ==
  /\ EnrolmentTypeOK /\ RowsMade
  /\ KeysMinted /\ PendingUnused /\ PendingDistinct /\ KeyNamesOneRow

-----------------------------------------------------------------------------
(* Handlers. *)

LEMMA AnyRowType == AnyRow \in NodeRow /\ AnyRow.key = 0
<1>1. PICK n \in Nodes, e \in Environments : TRUE
  BY EnrolmentAssumption
<1>2. 0 \in Keys
  BY EnrolmentAssumption DEF Keys
<1>3. [uuid |-> n, env |-> e, key |-> 0] \in NodeRow
  BY <1>1, <1>2 DEF NodeRow
<1>4. \E row \in NodeRow : row.key = 0
  BY <1>3
<1>. QED  BY <1>4 DEF AnyRow

LEMMA RestingType ==
  Resting \in HandlerState /\ Resting.pc = "idle" /\ Resting.row.key = 0
<1>1. Resting.pc = "idle" /\ Resting.row = AnyRow
  BY DEF Resting
<1>2. 0 \in 0 .. MaxRows /\ "idle" \in Steps /\ {} \in SUBSET Handlers
  BY EnrolmentAssumption DEF Steps
<1>3. AnyRow.env \in Environments
  BY AnyRowType DEF NodeRow
<1>. QED  BY <1>1, <1>2, <1>3, AnyRowType DEF Resting, HandlerState

(* What a handler is after Goto. *)
LEMMA GotoHandler ==
  ASSUME EnrolmentTypeOK, NEW h \in Handlers, NEW pc \in Steps, Goto(h, pc)
  PROVE  /\ handler' \in [Handlers -> HandlerState]
         /\ \A g \in Handlers \ {h} : handler'[g] = handler[g]
         /\ handler'[h] \in {Resting, [handler[h] EXCEPT !.pc = pc]}
         /\ handler'[h].pc = pc
         /\ handler'[h].row.key \in {0, handler[h].row.key}
<1>1. handler[h] \in HandlerState /\ handler \in [Handlers -> HandlerState]
  BY DEF EnrolmentTypeOK
<1>2. [handler[h] EXCEPT !.pc = pc] \in HandlerState
  BY <1>1 DEF HandlerState
<1>3. [handler[h] EXCEPT !.pc = pc].pc = pc
      /\ [handler[h] EXCEPT !.pc = pc].row = handler[h].row
  BY <1>1 DEF HandlerState
<1>4. CASE pc = "idle"
  <2>1. handler' = [handler EXCEPT ![h] = Resting]
    BY <1>4 DEF Goto
  <2>. QED  BY <1>1, <1>4, <2>1, RestingType
<1>5. CASE pc # "idle"
  <2>1. handler' = [handler EXCEPT ![h] = [handler[h] EXCEPT !.pc = pc]]
    BY <1>5 DEF Goto
  <2>. QED  BY <1>1, <1>2, <1>3, <2>1
<1>. QED  BY <1>4, <1>5

(* A step that writes no row, makes no key, and starts no enrolment. *)
LEMMA Quiet ==
  ASSUME EnrolmentIInv, EnrolmentTypeOK', RowsMade', UNCHANGED <<nodes, minted>>,
         \A h \in Handlers : handler'[h].row.key \in {0, handler[h].row.key},
         \A h \in Handlers :
           Pending(h)' => Pending(h) /\ handler'[h].row.key = handler[h].row.key
  PROVE  EnrolmentIInv'
<1>1. KeysMinted'
  BY DEF EnrolmentIInv, KeysMinted, EnrolmentTypeOK, Keys
<1>2. PendingUnused'
  BY DEF EnrolmentIInv, PendingUnused
<1>3. PendingDistinct'
  BY DEF EnrolmentIInv, PendingDistinct
<1>4. KeyNamesOneRow'
  BY DEF EnrolmentIInv, KeyNamesOneRow
<1>. QED  BY <1>1, <1>2, <1>3, <1>4 DEF EnrolmentIInv

(* Most steps are of one handler, with Goto, and write at most the archive *)
(* or the rows of tags.                                                    *)
LEMMA QuietGoto ==
  ASSUME EnrolmentIInv, NEW h \in Handlers, NEW pc \in Steps, Goto(h, pc),
         Pending(h) \/ pc \notin {"check", "archive", "update", "create"},
         NamesRow(h) \/ pc \notin {"history", "tag", "insert tag"},
         UNCHANGED <<nodes, made, minted>>, EnrolmentTypeOK'
  PROVE  EnrolmentIInv'
<1>1. /\ \A g \in Handlers \ {h} : handler'[g] = handler[g]
      /\ handler'[h] \in {Resting, [handler[h] EXCEPT !.pc = pc]}
      /\ handler'[h].pc = pc
      /\ handler'[h].row.key \in {0, handler[h].row.key}
  BY GotoHandler DEF EnrolmentIInv
<1>2. Pending(h)' => Pending(h) /\ handler'[h].row.key = handler[h].row.key
  <2>1. SUFFICES ASSUME Pending(h)'
                 PROVE  Pending(h) /\ handler'[h].row.key = handler[h].row.key
    OBVIOUS
  <2>2. Pending(h) /\ handler'[h].pc # "idle"
    BY <1>1, <2>1 DEF Pending
  <2>3. handler'[h] = [handler[h] EXCEPT !.pc = pc]
    BY <1>1, <2>2, RestingType
  <2>4. handler[h] \in HandlerState
    BY DEF EnrolmentIInv, EnrolmentTypeOK
  <2>. QED  BY <2>2, <2>3, <2>4 DEF HandlerState
<1>3. \A g \in Handlers : Pending(g)' =>
        Pending(g) /\ handler'[g].row.key = handler[g].row.key
  BY <1>1, <1>2 DEF Pending
<1>4. \A g \in Handlers : handler'[g].row.key \in {0, handler[g].row.key}
  BY <1>1
<1>5. RowsMade'
  <2>1. SUFFICES ASSUME NamesRow(h)' PROVE handler'[h].id \in 1 .. made
    BY <1>1 DEF EnrolmentIInv, RowsMade, NamesRow
  <2>2. NamesRow(h) /\ handler'[h].pc # "idle"
    BY <1>1, <2>1 DEF NamesRow
  <2>3. handler'[h] = [handler[h] EXCEPT !.pc = pc]
    BY <1>1, <2>2, RestingType
  <2>4. handler[h] \in HandlerState
    BY DEF EnrolmentIInv, EnrolmentTypeOK
  <2>5. handler'[h].id = handler[h].id
    BY <2>3, <2>4 DEF HandlerState
  <2>. QED  BY <2>2, <2>5 DEF EnrolmentIInv, RowsMade
<1>. QED  BY <1>3, <1>4, <1>5, Quiet

-----------------------------------------------------------------------------
(* Types.  UNCHANGED nodes keeps the type of the rows; other steps write   *)
(* the row of a handler.                                                   *)

(* The steps with Goto. *)
LEMMA GotoType ==
  ASSUME EnrolmentTypeOK, NEW h \in Handlers, NEW pc \in Steps, Goto(h, pc),
         DOMAIN nodes' \subseteq 1 .. made, \A i \in DOMAIN nodes' : nodes'[i] \in NodeRow,
         UNCHANGED <<made, minted, asked, tags>>,
         archive' \subseteq [key : Keys, trigger : {"exists", "delete"}],
         tagged' \subseteq Environments \X (1 .. made) \X Handlers,
         agent' \in [Nodes -> AgentState], disturbed' \in BOOLEAN
  PROVE  EnrolmentTypeOK'
<1>1. handler' \in [Handlers -> HandlerState]
  BY GotoHandler
<1>. QED  BY <1>1 DEF EnrolmentTypeOK

(* A handler starts. *)
LEMMA StartType ==
  ASSUME EnrolmentTypeOK, NEW h \in Handlers, NEW state \in HandlerState, Start(h, state)
  PROVE  /\ handler' \in [Handlers -> HandlerState] /\ disturbed' \in BOOLEAN
         /\ handler' = [handler EXCEPT ![h] = state]
  BY DEF EnrolmentTypeOK, Start

LEMMA FoundRows ==
  ASSUME NEW u, EnrolmentTypeOK
  PROVE  /\ GetByUUID(u) \subseteq DOMAIN nodes
         /\ GetByUUID(u) \subseteq 1 .. made
         /\ \A i, j \in GetByUUID(u) : i = j
<1>1. GetByUUID(u) \subseteq DOMAIN nodes
  BY DEF GetByUUID
<1>2. DOMAIN nodes \subseteq 1 .. made /\ made \in Nat
  BY EnrolmentAssumption DEF EnrolmentTypeOK
<1>3. \A i, j \in GetByUUID(u) : i <= j /\ j <= i
  BY DEF GetByUUID
<1>. QED  BY <1>1, <1>2, <1>3

(* A row is archived with its key. *)
LEMMA ArchivedType ==
  ASSUME EnrolmentTypeOK, NEW i \in DOMAIN nodes, NEW t \in {"exists", "delete"}
  PROVE  [key |-> nodes[i].key, trigger |-> t] \in [key : Keys, trigger : {"exists", "delete"}]
<1>1. nodes[i].key \in Keys
  BY DEF EnrolmentTypeOK, NodeRow
<1>. QED  BY <1>1

(* A handler in the middle of a request of an operator enrols nobody. *)
LEMMA RestingWith ==
  ASSUME NEW pc \in Steps, NEW i \in 0 .. MaxRows, NEW t \in Environments
  PROVE  /\ [Resting EXCEPT !.pc = pc, !.id = i, !.tag = t] \in HandlerState
         /\ [Resting EXCEPT !.pc = pc, !.id = i, !.tag = t].row.key = 0
         /\ [Resting EXCEPT !.pc = pc, !.id = i, !.tag = t].pc = pc
  BY RestingType DEF HandlerState

LEMMA AskedType ==
  ASSUME EnrolmentTypeOK, NEW op, Ask(op)
  PROVE  asked' \in 0 .. MaxAsked
<1>1. asked \in Nat /\ MaxAsked \in Nat
  BY EnrolmentAssumption DEF EnrolmentTypeOK
<1>. QED  BY <1>1 DEF Ask

LEMMA StepNames ==
  {"idle", "check", "archive", "update", "create", "history", "tag", "insert tag",
   "accept", "refuse", "delete", "untag", "delete tag"} \subseteq Steps
  BY DEF Steps

LEMMA FlagType ==
  ASSUME EnrolmentTypeOK, Fails \/ Succeeds
  PROVE  disturbed' \in BOOLEAN
  BY DEF Fails, Succeeds, EnrolmentTypeOK

-----------------------------------------------------------------------------
(* The steps of an enrolment. *)

LEMMA EnrollCheckKeeps ==
  ASSUME EnrolmentIInv, NEW h \in Handlers, EnrollCheck(h)
  PROVE  EnrolmentIInv'
<1>1. PICK pc \in {"archive", "create"} : Goto(h, pc)
  BY DEF EnrollCheck
<1>2. pc \in Steps /\ Pending(h)
  BY StepNames DEF EnrollCheck, At, Pending
<1>3. EnrolmentTypeOK'
  BY <1>1, <1>2, GotoType, FlagType DEF EnrollCheck, EnrolmentIInv, EnrolmentTypeOK
<1>. QED  BY <1>1, <1>2, <1>3, QuietGoto DEF EnrollCheck

LEMMA ArchiveKeeps ==
  ASSUME EnrolmentIInv, NEW h \in Handlers, Archive(h)
  PROVE  EnrolmentIInv'
<1>1. Goto(h, "update") /\ "update" \in Steps /\ Pending(h)
  BY StepNames DEF Archive, At, Pending
<1>2. archive' \subseteq [key : Keys, trigger : {"exists", "delete"}]
  <2>1. EnrolmentTypeOK
    BY DEF EnrolmentIInv
  <2>2. \A i \in GetByUUID(handler[h].row.uuid) :
          [key |-> nodes[i].key, trigger |-> "exists"]
            \in [key : Keys, trigger : {"exists", "delete"}]
    BY <2>1, FoundRows, ArchivedType
  <2>. QED  BY <2>1, <2>2 DEF Archive, EnrolmentTypeOK
<1>3. disturbed' \in BOOLEAN
  BY DEF Archive, Fails, Succeeds, EnrolmentIInv, EnrolmentTypeOK
<1>4. UNCHANGED <<nodes, made, minted, asked, tags, tagged, agent>>
  BY DEF Archive
<1>5. EnrolmentTypeOK'
  BY <1>1, <1>2, <1>3, <1>4, GotoType DEF EnrolmentIInv, EnrolmentTypeOK
<1>. QED  BY <1>1, <1>4, <1>5, QuietGoto

LEMMA UpdateByUUIDKeeps ==
  ASSUME EnrolmentIInv, NEW h \in Handlers, UpdateByUUID(h)
  PROVE  EnrolmentIInv'
<1>. DEFINE found == GetByUUID(handler[h].row.uuid)
<1>1. EnrolmentTypeOK /\ Pending(h) /\ handler[h] \in HandlerState
  BY DEF EnrolmentIInv, EnrolmentTypeOK, UpdateByUUID, At, Pending
<1>2. UNCHANGED <<made, minted, asked, tags, tagged, agent, archive>>
      /\ disturbed' \in BOOLEAN
  BY <1>1 DEF UpdateByUUID, Fails, Succeeds, EnrolmentTypeOK
<1>3. CASE Goto(h, "refuse") /\ UNCHANGED nodes
  <2>1. EnrolmentTypeOK'
    BY <1>1, <1>2, <1>3, GotoType, StepNames DEF EnrolmentTypeOK
  <2>. QED  BY <1>2, <1>3, <2>1, QuietGoto, StepNames
<1>4. CASE /\ nodes' = [i \in DOMAIN nodes |-> IF i \in found THEN handler[h].row ELSE nodes[i]]
           /\ Goto(h, "accept")
  <2>1. handler[h].row \in NodeRow
    BY <1>1 DEF HandlerState
  <2>2. /\ DOMAIN nodes' = DOMAIN nodes
        /\ \A i \in DOMAIN nodes : nodes'[i] = IF i \in found THEN handler[h].row ELSE nodes[i]
    BY <1>4
  <2>3. EnrolmentTypeOK'
    BY <1>1, <1>2, <1>4, <2>1, <2>2, GotoType, StepNames DEF EnrolmentTypeOK
  <2>4. /\ \A g \in Handlers \ {h} : handler'[g] = handler[g]
        /\ handler'[h].pc = "accept"
        /\ handler'[h].row.key \in {0, handler[h].row.key}
    BY <1>1, <1>4, GotoHandler, StepNames
  <2>5. \A g \in Handlers : Pending(g)' => g # h /\ Pending(g) /\ handler'[g] = handler[g]
    BY <2>4 DEF Pending
  <2>6. KeysMinted'
    BY <1>1, <1>2, <2>2, <2>4 DEF EnrolmentIInv, KeysMinted, EnrolmentTypeOK, Keys
  <2>7. PendingUnused'
    BY <1>1, <2>2, <2>5 DEF EnrolmentIInv, PendingUnused, PendingDistinct
  <2>8. PendingDistinct'
    BY <2>5 DEF EnrolmentIInv, PendingDistinct
  <2>9. KeyNamesOneRow'
    BY <1>1, <2>2, FoundRows DEF EnrolmentIInv, PendingUnused, KeyNamesOneRow
  <2>10. RowsMade'
    BY <1>2, <2>4 DEF EnrolmentIInv, RowsMade, NamesRow
  <2>. QED  BY <2>3, <2>6, <2>7, <2>8, <2>9, <2>10 DEF EnrolmentIInv
<1>. QED  BY <1>3, <1>4 DEF UpdateByUUID

LEMMA CreateKeeps ==
  ASSUME EnrolmentIInv, NEW h \in Handlers, Create(h)
  PROVE  EnrolmentIInv'
<1>1. EnrolmentTypeOK /\ Pending(h) /\ handler[h] \in HandlerState
      /\ made \in 0 .. MaxRows /\ MaxRows \in Nat
  BY EnrolmentAssumption DEF EnrolmentIInv, EnrolmentTypeOK, Create, At, Pending
<1>2. UNCHANGED <<minted, asked, tags, tagged, agent, archive>> /\ disturbed' \in BOOLEAN
  BY <1>1 DEF Create, Fails, Succeeds, EnrolmentTypeOK
<1>3. CASE Goto(h, "refuse") /\ UNCHANGED <<made, nodes>>
  <2>1. EnrolmentTypeOK'
    BY <1>1, <1>2, <1>3, GotoType, StepNames DEF EnrolmentTypeOK
  <2>. QED  BY <1>2, <1>3, <2>1, QuietGoto, StepNames
<1>4. CASE /\ made' = made + 1 /\ nodes' = Inserted(made + 1, handler[h].row)
           /\ handler' = [handler EXCEPT ![h].pc = "history", ![h].id = made + 1]
  <2>1. handler[h].row \in NodeRow /\ made < MaxRows
    BY <1>1 DEF HandlerState, Create
  <2>2. DOMAIN nodes \subseteq 1 .. made
    BY <1>1 DEF EnrolmentTypeOK
  <2>3. /\ DOMAIN nodes' = DOMAIN nodes \cup {made + 1}
        /\ nodes'[made + 1] = handler[h].row
        /\ \A i \in DOMAIN nodes : nodes'[i] = nodes[i]
    <3>1. made + 1 \notin DOMAIN nodes
      BY <1>1, <2>2
    <3>. QED  BY <1>4, <3>1 DEF Inserted
  <2>4. handler' \in [Handlers -> HandlerState]
    <3>1. [handler[h] EXCEPT !.pc = "history", !.id = made + 1] \in HandlerState
      <4>1. made + 1 \in 0 .. MaxRows
        BY <1>1, <2>1
      <4>. QED  BY <1>1, <4>1, StepNames DEF HandlerState
    <3>2. handler' = [handler EXCEPT ![h] = [handler[h] EXCEPT !.pc = "history", !.id = made + 1]]
      BY <1>1, <1>4 DEF EnrolmentTypeOK
    <3>. QED  BY <1>1, <3>1, <3>2 DEF EnrolmentTypeOK
  <2>5. /\ \A g \in Handlers \ {h} : handler'[g] = handler[g]
        /\ handler'[h].pc = "history" /\ handler'[h].row = handler[h].row
        /\ handler'[h].id = made + 1
    BY <1>1, <1>4 DEF EnrolmentTypeOK, HandlerState
  <2>6. EnrolmentTypeOK'
    <3>1. made' \in 0 .. MaxRows /\ 1 .. made \subseteq 1 .. made' /\ made + 1 \in 1 .. made'
      BY <1>1, <1>4, <2>1
    <3>2. DOMAIN nodes' \subseteq 1 .. made' /\ \A i \in DOMAIN nodes' : nodes'[i] \in NodeRow
      BY <1>1, <2>1, <2>2, <2>3, <3>1 DEF EnrolmentTypeOK
    <3>3. tagged' \subseteq Environments \X (1 .. made') \X Handlers
      BY <1>1, <1>2, <3>1 DEF EnrolmentTypeOK
    <3>. QED  BY <1>1, <1>2, <2>4, <3>1, <3>2, <3>3 DEF EnrolmentTypeOK
  <2>7. \A g \in Handlers : Pending(g)' => g # h /\ Pending(g) /\ handler'[g] = handler[g]
    BY <2>5 DEF Pending
  <2>8. KeysMinted'
    BY <1>2, <2>3, <2>5 DEF EnrolmentIInv, KeysMinted
  <2>9. PendingUnused'
    BY <1>1, <2>3, <2>7 DEF EnrolmentIInv, PendingUnused, PendingDistinct
  <2>10. PendingDistinct'
    BY <2>7 DEF EnrolmentIInv, PendingDistinct
  <2>11. KeyNamesOneRow'
    BY <1>1, <2>3 DEF EnrolmentIInv, PendingUnused, KeyNamesOneRow
  <2>12. RowsMade'
    <3>1. made' = made + 1 /\ made \in Nat
      BY <1>1, <1>4
    <3>2. handler'[h].id \in 1 .. made'
      BY <2>5, <3>1
    <3>3. \A g \in Handlers \ {h} : NamesRow(g)' => handler'[g].id \in 1 .. made'
      <4>1. \A g \in Handlers \ {h} : NamesRow(g)' => handler[g].id \in 1 .. made
        BY <2>5 DEF EnrolmentIInv, RowsMade, NamesRow
      <4>2. 1 .. made \subseteq 1 .. made'
        BY <3>1
      <4>. QED  BY <2>5, <4>1, <4>2
    <3>. QED  BY <3>2, <3>3 DEF RowsMade
  <2>. QED  BY <2>6, <2>8, <2>9, <2>10, <2>11, <2>12 DEF EnrolmentIInv
<1>. QED  BY <1>3, <1>4 DEF Create

LEMMA HistoryKeeps ==
  ASSUME EnrolmentIInv, NEW h \in Handlers, History(h)
  PROVE  EnrolmentIInv'
<1>1. PICK pc \in {"tag", "refuse"} : Goto(h, pc)
  BY DEF History
<1>2. disturbed' \in BOOLEAN
  BY DEF History, Fails, Succeeds, EnrolmentIInv, EnrolmentTypeOK
<1>3. EnrolmentTypeOK'
  BY <1>1, <1>2, GotoType, StepNames DEF History, EnrolmentIInv, EnrolmentTypeOK
<1>. QED  BY <1>1, <1>3, QuietGoto, StepNames DEF History, At, NamesRow

LEMMA AnswerKeeps ==
  ASSUME EnrolmentIInv, NEW h \in Handlers, Answer(h)
  PROVE  EnrolmentIInv'
<1>1. EnrolmentTypeOK /\ handler[h] \in HandlerState /\ 0 \in Keys
  BY EnrolmentAssumption DEF EnrolmentIInv, EnrolmentTypeOK, Keys
<1>2. PICK answer \in {0, IF At(h, "accept") THEN handler[h].row.key ELSE 0} :
        agent' = [n \in Nodes |->
          IF h \in agent[n].waits THEN [agent[n] EXCEPT !.waits = {}, !.key = answer]
                                   ELSE agent[n]]
  BY DEF Answer
<1>3. answer \in Keys
  <2>1. handler[h].row.key \in Keys
    BY <1>1 DEF HandlerState, NodeRow
  <2>. QED  BY <1>1, <1>2, <2>1
<1>4. \A n \in Nodes : agent[n] \in AgentState
  BY <1>1 DEF EnrolmentTypeOK
<1>5. \A n \in Nodes : [agent[n] EXCEPT !.waits = {}, !.key = answer] \in AgentState
  BY <1>3, <1>4 DEF AgentState
<1>6. agent' \in [Nodes -> AgentState]
  BY <1>2, <1>4, <1>5
<1>7. EnrolmentTypeOK'
  BY <1>1, <1>6, GotoType, StepNames DEF Answer, EnrolmentTypeOK
<1>. QED  BY <1>7, QuietGoto, StepNames DEF Answer

-----------------------------------------------------------------------------
(* Tags. *)

LEMMA TagNodeKeeps ==
  ASSUME EnrolmentIInv, NEW h \in Handlers, TagNode(h)
  PROVE  EnrolmentIInv'
<1>1. PICK pc \in {"insert tag", "accept"} : Goto(h, pc)
  BY DEF TagNode
<1>2. EnrolmentTypeOK'
  BY <1>1, GotoType, FlagType, StepNames DEF TagNode, EnrolmentIInv, EnrolmentTypeOK
<1>. QED  BY <1>1, <1>2, QuietGoto, StepNames DEF TagNode, At, NamesRow

LEMMA DeleteTagKeeps ==
  ASSUME EnrolmentIInv, NEW h \in Handlers, DeleteTag(h)
  PROVE  EnrolmentIInv'
<1>1. Goto(h, "idle")
  BY DEF DeleteTag
<1>2. disturbed' \in BOOLEAN /\ tagged' \subseteq tagged
  BY DEF DeleteTag, Fails, Succeeds, EnrolmentIInv, EnrolmentTypeOK
<1>3. EnrolmentTypeOK'
  BY <1>1, <1>2, GotoType, StepNames DEF DeleteTag, EnrolmentIInv, EnrolmentTypeOK
<1>. QED  BY <1>1, <1>3, QuietGoto, StepNames DEF DeleteTag

LEMMA UntagNodeKeeps ==
  ASSUME EnrolmentIInv, NEW h \in Handlers, UntagNode(h)
  PROVE  EnrolmentIInv'
<1>1. EnrolmentTypeOK /\ handler[h] \in HandlerState
  BY DEF EnrolmentIInv, EnrolmentTypeOK
<1>2. CASE Goto(h, "idle")
  <2>1. EnrolmentTypeOK'
    BY <1>1, <1>2, GotoType, FlagType, StepNames DEF UntagNode, EnrolmentTypeOK
  <2>. QED  BY <1>2, <2>1, QuietGoto, StepNames DEF UntagNode
<1>3. CASE \E r \in tagged : handler' = [handler EXCEPT ![h].pc = "delete tag", ![h].by = {r[3]}]
  <2>1. PICK r \in tagged : handler' = [handler EXCEPT ![h].pc = "delete tag", ![h].by = {r[3]}]
    BY <1>3
  <2>2. {r[3]} \subseteq Handlers
    BY <1>1, <2>1 DEF EnrolmentTypeOK
  <2>3. [handler[h] EXCEPT !.pc = "delete tag", !.by = {r[3]}] \in HandlerState
    BY <1>1, <2>2, StepNames DEF HandlerState
  <2>4. handler' = [handler EXCEPT ![h] = [handler[h] EXCEPT !.pc = "delete tag", !.by = {r[3]}]]
    BY <1>1, <2>1 DEF EnrolmentTypeOK
  <2>5. EnrolmentTypeOK'
    BY <1>1, <2>3, <2>4, FlagType DEF UntagNode, EnrolmentTypeOK
  <2>6. /\ \A g \in Handlers \ {h} : handler'[g] = handler[g]
        /\ handler'[h].pc = "delete tag" /\ handler'[h].row = handler[h].row
    BY <1>1, <2>4 DEF EnrolmentTypeOK, HandlerState
  <2>7. \A g \in Handlers : Pending(g)' => g # h /\ Pending(g)
    BY <2>6 DEF Pending
  <2>8. RowsMade'
    BY <2>6 DEF UntagNode, EnrolmentIInv, RowsMade, NamesRow
  <2>. QED  BY <2>5, <2>6, <2>7, <2>8, Quiet DEF UntagNode
<1>. QED  BY <1>2, <1>3 DEF UntagNode

(* Steps that leave the handlers, the rows and the keys alone. *)
LEMMA ElsewhereKeeps ==
  ASSUME EnrolmentIInv, UNCHANGED <<nodes, made, minted, handler>>, EnrolmentTypeOK'
  PROVE  EnrolmentIInv'
<1>1. \A h \in Handlers : Pending(h)' = Pending(h)
  BY DEF Pending
<1>2. RowsMade'
  BY DEF EnrolmentIInv, RowsMade, NamesRow
<1>. QED  BY <1>1, <1>2, Quiet

LEMMA OperatorTagsKeep ==
  ASSUME EnrolmentIInv, NEW t \in Environments, NewTag(t) \/ RemoveTag(t)
  PROVE  EnrolmentIInv'
<1>1. asked' \in 0 .. MaxAsked
  BY AskedType DEF NewTag, RemoveTag, EnrolmentIInv
<1>2. UNCHANGED <<nodes, made, archive, tagged, handler, agent, minted, disturbed>>
  BY DEF NewTag, RemoveTag
<1>3. tags' \subseteq Environments
  BY DEF NewTag, RemoveTag, EnrolmentIInv, EnrolmentTypeOK
<1>4. EnrolmentTypeOK'
  BY <1>1, <1>2, <1>3 DEF EnrolmentIInv, EnrolmentTypeOK
<1>. QED  BY <1>2, <1>4, ElsewhereKeeps

-----------------------------------------------------------------------------
(* Requests of operators that a handler takes: it enrols nobody. *)

LEMMA OperatorStarts ==
  ASSUME EnrolmentIInv, NEW h \in Handlers, NEW op, Ask(op),
         NEW state \in HandlerState, state.row.key = 0,
         state.pc \in {"tag", "untag", "delete"}, state.id \in 1 .. made, Start(h, state),
         UNCHANGED <<nodes, made, tags, tagged, agent, minted>>,
         archive' \subseteq [key : Keys, trigger : {"exists", "delete"}]
  PROVE  EnrolmentIInv'
<1>1. EnrolmentTypeOK
  BY DEF EnrolmentIInv
<1>2. /\ handler' \in [Handlers -> HandlerState] /\ disturbed' \in BOOLEAN
      /\ handler' = [handler EXCEPT ![h] = state]
  BY <1>1, StartType
<1>3. asked' \in 0 .. MaxAsked
  BY <1>1, AskedType
<1>4. EnrolmentTypeOK'
  BY <1>1, <1>2, <1>3 DEF EnrolmentTypeOK
<1>5. /\ \A g \in Handlers \ {h} : handler'[g] = handler[g]
      /\ handler'[h] = state
  BY <1>1, <1>2 DEF EnrolmentTypeOK
<1>6. \A g \in Handlers : Pending(g)' => g # h /\ Pending(g)
  BY <1>5 DEF Pending
<1>7. \A g \in Handlers : handler'[g].row.key \in {0, handler[g].row.key}
  BY <1>5
<1>8. \A g \in Handlers :
        Pending(g)' => Pending(g) /\ handler'[g].row.key = handler[g].row.key
  BY <1>5, <1>6
<1>9. RowsMade'
  BY <1>5 DEF EnrolmentIInv, RowsMade, NamesRow
<1>. QED  BY <1>4, <1>7, <1>8, <1>9, Quiet

LEMMA TagNodesKeeps ==
  ASSUME EnrolmentIInv, NEW h \in Handlers, NEW n \in Nodes, NEW t \in Environments,
         TagNodes(h, n, t)
  PROVE  EnrolmentIInv'
<1>1. PICK i \in GetByUUID(n), pc \in {"tag", "untag"} :
        Ask(pc) /\ Start(h, [Resting EXCEPT !.pc = pc, !.id = i, !.tag = t])
  BY DEF TagNodes
<1>. DEFINE state == [Resting EXCEPT !.pc = pc, !.id = i, !.tag = t]
<1>2. EnrolmentTypeOK
  BY DEF EnrolmentIInv
<1>3. i \in 0 .. MaxRows /\ i \in 1 .. made
  BY <1>2, FoundRows, EnrolmentAssumption DEF EnrolmentTypeOK
<1>4. pc \in Steps
  BY StepNames
<1>5. state \in HandlerState /\ state.row.key = 0 /\ state.pc = pc /\ state.id = i
  BY <1>3, <1>4, RestingType DEF HandlerState
<1>6. archive' \subseteq [key : Keys, trigger : {"exists", "delete"}]
      /\ UNCHANGED <<nodes, made, tags, tagged, agent, minted>>
  BY <1>2 DEF TagNodes, EnrolmentTypeOK
<1>7. Start(h, state)
  BY <1>1
<1>. HIDE DEF state
<1>. QED  BY <1>1, <1>3, <1>5, <1>6, <1>7, OperatorStarts

LEMMA ArchiveDeleteKeeps ==
  ASSUME EnrolmentIInv, NEW h \in Handlers, NEW n \in Nodes, ArchiveDelete(h, n)
  PROVE  EnrolmentIInv'
<1>1. PICK i \in GetByUUID(n) :
        /\ Start(h, [Resting EXCEPT !.pc = "delete", !.id = i])
        /\ archive' = archive \cup {[key |-> nodes[i].key, trigger |-> "delete"]}
  BY DEF ArchiveDelete
<1>. DEFINE state == [Resting EXCEPT !.pc = "delete", !.id = i]
<1>2. EnrolmentTypeOK
  BY DEF EnrolmentIInv
<1>3. i \in 0 .. MaxRows /\ i \in 1 .. made
  BY <1>2, FoundRows, EnrolmentAssumption DEF EnrolmentTypeOK
<1>4. state \in HandlerState /\ state.row.key = 0 /\ state.pc = "delete" /\ state.id = i
  BY <1>3, StepNames, RestingType DEF HandlerState
<1>5. archive' \subseteq [key : Keys, trigger : {"exists", "delete"}]
  <2>1. [key |-> nodes[i].key, trigger |-> "delete"]
          \in [key : Keys, trigger : {"exists", "delete"}]
    BY <1>2, FoundRows, ArchivedType
  <2>. QED  BY <1>1, <1>2, <2>1 DEF EnrolmentTypeOK
<1>6. Ask("delete") /\ UNCHANGED <<nodes, made, tags, tagged, agent, minted>>
  BY DEF ArchiveDelete
<1>7. Start(h, state)
  BY <1>1
<1>. HIDE DEF state
<1>. QED  BY <1>3, <1>4, <1>5, <1>6, <1>7, OperatorStarts

-----------------------------------------------------------------------------
LEMMA InsertTagKeeps ==
  ASSUME EnrolmentIInv, NEW h \in Handlers, InsertTag(h)
  PROVE  EnrolmentIInv'
<1>1. Goto(h, "accept")
  BY DEF InsertTag
<1>2. handler[h].id \in 1 .. made /\ handler[h].tag \in Environments
  BY DEF InsertTag, At, EnrolmentIInv, EnrolmentTypeOK, HandlerState, RowsMade, NamesRow
<1>3. disturbed' \in BOOLEAN
  BY DEF InsertTag, Fails, Succeeds, EnrolmentIInv, EnrolmentTypeOK
<1>4. tagged' \subseteq Environments \X (1 .. made) \X Handlers
  <2>. DEFINE rowIds == 1 .. made
  <2>1. handler[h].id \in rowIds /\ tagged \subseteq Environments \X rowIds \X Handlers
    BY <1>2 DEF EnrolmentIInv, EnrolmentTypeOK
  <2>2. tagged' \subseteq tagged \cup {<<handler[h].tag, handler[h].id, h>>}
    BY DEF InsertTag
  <2>. HIDE DEF rowIds
  <2>3. tagged' \subseteq Environments \X rowIds \X Handlers
    BY <1>2, <2>1, <2>2
  <2>. QED  BY <2>3 DEF rowIds
<1>5. EnrolmentTypeOK'
  BY <1>1, <1>3, <1>4, GotoType, StepNames DEF InsertTag, EnrolmentIInv, EnrolmentTypeOK
<1>. QED  BY <1>1, <1>5, QuietGoto, StepNames DEF InsertTag

-----------------------------------------------------------------------------
(* Rows go, and handlers. *)

LEMMA DeleteKeeps ==
  ASSUME EnrolmentIInv, NEW h \in Handlers, Delete(h)
  PROVE  EnrolmentIInv'
<1>1. EnrolmentTypeOK /\ Goto(h, "idle")
  BY DEF Delete, EnrolmentIInv
<1>2. /\ UNCHANGED <<asked, made, archive, tags, tagged, agent, minted>>
      /\ disturbed' \in BOOLEAN
  BY DEF Delete, Fails, Succeeds, EnrolmentIInv, EnrolmentTypeOK
<1>3. /\ DOMAIN nodes' \subseteq DOMAIN nodes
      /\ \A i \in DOMAIN nodes' : nodes'[i] = nodes[i]
  BY DEF Delete
<1>4. EnrolmentTypeOK'
  BY <1>1, <1>2, <1>3, GotoType, StepNames DEF EnrolmentTypeOK
<1>5. /\ \A g \in Handlers \ {h} : handler'[g] = handler[g]
      /\ handler'[h].pc = "idle"
      /\ handler'[h].row.key \in {0, handler[h].row.key}
  BY <1>1, GotoHandler, StepNames
<1>6. \A g \in Handlers : Pending(g)' => g # h /\ Pending(g) /\ handler'[g] = handler[g]
  BY <1>5 DEF Pending
<1>7. KeysMinted'
  BY <1>1, <1>2, <1>3, <1>5, EnrolmentAssumption DEF EnrolmentIInv, KeysMinted, EnrolmentTypeOK, Keys
<1>8. PendingUnused'
  BY <1>3, <1>6 DEF EnrolmentIInv, PendingUnused
<1>9. PendingDistinct'
  BY <1>6 DEF EnrolmentIInv, PendingDistinct
<1>10. KeyNamesOneRow'
  BY <1>3 DEF EnrolmentIInv, KeyNamesOneRow
<1>11. RowsMade'
  BY <1>2, <1>5 DEF EnrolmentIInv, RowsMade, NamesRow
<1>. QED  BY <1>4, <1>7, <1>8, <1>9, <1>10, <1>11 DEF EnrolmentIInv

LEMMA RestartKeeps ==
  ASSUME EnrolmentIInv, Restart
  PROVE  EnrolmentIInv'
<1>1. EnrolmentTypeOK
  BY DEF EnrolmentIInv
<1>2. \A h \in Handlers : handler'[h] \in {Resting, handler[h]}
  BY DEF Restart
<1>3. handler' \in [Handlers -> HandlerState]
  BY <1>1, RestingType DEF Restart, EnrolmentTypeOK
<1>4. agent' \in [Nodes -> AgentState]
  <2>1. \A n \in Nodes : [agent[n] EXCEPT !.waits = {}] \in AgentState
    BY <1>1 DEF EnrolmentTypeOK, AgentState
  <2>. QED  BY <2>1 DEF Restart
<1>5. UNCHANGED <<asked, nodes, made, archive, tags, tagged, minted>> /\ disturbed' \in BOOLEAN
  BY DEF Restart
<1>6. EnrolmentTypeOK'
  BY <1>1, <1>3, <1>4, <1>5 DEF EnrolmentTypeOK
<1>7. \A h \in Handlers : handler'[h].row.key \in {0, handler[h].row.key}
  BY <1>2, RestingType
<1>8. \A h \in Handlers :
        Pending(h)' => Pending(h) /\ handler'[h].row.key = handler[h].row.key
  BY <1>2, RestingType DEF Pending
<1>9. RowsMade'
  BY <1>2, <1>5, RestingType DEF EnrolmentIInv, RowsMade, NamesRow
<1>. QED  BY <1>5, <1>6, <1>7, <1>8, <1>9, Quiet

-----------------------------------------------------------------------------
(* osqueryd. *)

(* A new key is greater than all there are. *)
LEMMA EnrollKeeps ==
  ASSUME EnrolmentIInv, NEW n \in Nodes, NEW h \in Handlers, Enroll(n, h)
  PROVE  EnrolmentIInv'
<1>. DEFINE row == [uuid |-> n, env |-> agent[n].env, key |-> minted + 1]
            state == [Resting EXCEPT !.pc = "check", !.tag = agent[n].env, !.row = row]
<1>1. EnrolmentTypeOK /\ agent[n] \in AgentState
  BY DEF EnrolmentIInv, EnrolmentTypeOK
<1>2. minted \in Nat /\ minted + 1 \in Keys
  BY <1>1, EnrolmentAssumption DEF Enroll, EnrolmentTypeOK, Keys
<1>3. row \in NodeRow /\ row.key = minted + 1 /\ agent[n].env \in Environments
  BY <1>1, <1>2 DEF NodeRow, AgentState
<1>. HIDE DEF row
<1>4. state \in HandlerState /\ state.pc = "check" /\ state.row = row
  BY <1>3, RestingType, StepNames DEF HandlerState
<1>5. /\ handler' \in [Handlers -> HandlerState] /\ disturbed' \in BOOLEAN
      /\ handler' = [handler EXCEPT ![h] = state]
  <2>1. Start(h, state)
    BY DEF Enroll, row
  <2>. HIDE DEF state
  <2>. QED  BY <1>1, <1>4, <2>1, StartType
<1>. HIDE DEF state
<1>6. agent' \in [Nodes -> AgentState]
  <2>1. [agent[n] EXCEPT !.waits = {h}] \in AgentState
    BY <1>1 DEF AgentState
  <2>2. agent' = [agent EXCEPT ![n] = [agent[n] EXCEPT !.waits = {h}]]
    BY <1>1 DEF Enroll, EnrolmentTypeOK
  <2>. QED  BY <1>1, <2>1, <2>2 DEF EnrolmentTypeOK
<1>7. UNCHANGED <<asked, nodes, made, archive, tags, tagged>> /\ minted' = minted + 1
  BY DEF Enroll
<1>8. EnrolmentTypeOK'
  BY <1>1, <1>2, <1>5, <1>6, <1>7 DEF EnrolmentTypeOK
<1>9. /\ \A g \in Handlers \ {h} : handler'[g] = handler[g]
      /\ handler'[h] = state
  BY <1>1, <1>5 DEF EnrolmentTypeOK
<1>10. /\ \A i \in DOMAIN nodes : nodes[i].key \in Nat /\ nodes[i].key <= minted
       /\ \A g \in Handlers : handler[g].row.key \in Nat /\ handler[g].row.key <= minted
  BY <1>1 DEF EnrolmentIInv, KeysMinted, EnrolmentTypeOK, HandlerState, NodeRow, Keys
<1>11. \A g \in Handlers \ {h} : Pending(g)' = Pending(g)
  BY <1>9 DEF Pending
<1>12. KeysMinted'
  BY <1>2, <1>3, <1>4, <1>7, <1>9, <1>10 DEF KeysMinted
<1>13. PendingUnused'
  BY <1>2, <1>3, <1>4, <1>7, <1>9, <1>10, <1>11 DEF EnrolmentIInv, PendingUnused
<1>14. PendingDistinct'
  BY <1>2, <1>3, <1>4, <1>9, <1>10, <1>11 DEF EnrolmentIInv, PendingDistinct
<1>15. KeyNamesOneRow'
  BY <1>7 DEF EnrolmentIInv, KeyNamesOneRow
<1>16. RowsMade'
  BY <1>4, <1>7, <1>9 DEF EnrolmentIInv, RowsMade, NamesRow
<1>. QED  BY <1>8, <1>12, <1>13, <1>14, <1>15, <1>16 DEF EnrolmentIInv

LEMMA AgentKeeps ==
  ASSUME EnrolmentIInv, NEW n \in Nodes,
         Refused(n) \/ \E e \in Environments : Reinstall(n, e)
  PROVE  EnrolmentIInv'
<1>1. EnrolmentTypeOK /\ agent[n] \in AgentState /\ 0 \in Keys
  BY EnrolmentAssumption DEF EnrolmentIInv, EnrolmentTypeOK, Keys
<1>2. PICK a \in AgentState : agent' = [agent EXCEPT ![n] = a]
  <2>1. CASE Refused(n)
    <3>1. [agent[n] EXCEPT !.key = 0] \in AgentState
      BY <1>1 DEF AgentState
    <3>2. agent' = [agent EXCEPT ![n] = [agent[n] EXCEPT !.key = 0]]
      BY <1>1, <2>1 DEF Refused, EnrolmentTypeOK
    <3>. QED  BY <3>1, <3>2
  <2>2. CASE \E e \in Environments : Reinstall(n, e)
    <3>1. PICK e \in Environments : Reinstall(n, e)
      BY <2>2
    <3>2. [env |-> e, key |-> 0, moved |-> TRUE, waits |-> {}] \in AgentState
      BY <1>1 DEF AgentState
    <3>. QED  BY <3>1, <3>2 DEF Reinstall
  <2>. QED  BY <2>1, <2>2
<1>3. asked' \in 0 .. MaxAsked
  BY <1>1, AskedType DEF Refused, Reinstall, EnrolmentTypeOK
<1>4. UNCHANGED <<nodes, made, archive, tags, tagged, handler, minted>> /\ disturbed' \in BOOLEAN
  BY <1>1, FlagType DEF Refused, Reinstall, EnrolmentTypeOK
<1>5. EnrolmentTypeOK'
  BY <1>1, <1>2, <1>3, <1>4 DEF EnrolmentTypeOK
<1>. QED  BY <1>4, <1>5, ElsewhereKeeps

-----------------------------------------------------------------------------
LEMMA EnrolmentStarts == EnrolmentInit => EnrolmentIInv
<1>. SUFFICES ASSUME EnrolmentInit PROVE EnrolmentIInv
  OBVIOUS
<1>1. /\ made = 0 /\ archive = {} /\ tagged = {} /\ minted = 0 /\ asked = 0
      /\ tags = Environments /\ disturbed = FALSE
  BY DEF EnrolmentInit
<1>2. DOMAIN nodes = {}
  BY DEF EnrolmentInit
<1>3. handler \in [Handlers -> HandlerState] /\ \A h \in Handlers : handler[h] = Resting
  BY RestingType DEF EnrolmentInit
<1>4. agent \in [Nodes -> AgentState]
  <2>1. PICK env \in [Nodes -> Environments] :
          agent = [n \in Nodes |-> [env |-> env[n], key |-> 0, moved |-> FALSE, waits |-> {}]]
    BY DEF EnrolmentInit
  <2>2. 0 \in Keys
    BY EnrolmentAssumption DEF Keys
  <2>3. \A n \in Nodes :
          [env |-> env[n], key |-> 0, moved |-> FALSE, waits |-> {}] \in AgentState
    BY <2>2 DEF AgentState
  <2>. QED  BY <2>1, <2>3
<1>5. EnrolmentTypeOK
  <2>1. 0 \in 0 .. MaxRows /\ 0 \in Keys /\ 0 \in 0 .. MaxAsked
    BY EnrolmentAssumption DEF Keys
  <2>. QED  BY <1>1, <1>2, <1>3, <1>4, <2>1 DEF EnrolmentTypeOK
<1>6. \A h \in Handlers : ~Pending(h) /\ ~NamesRow(h) /\ handler[h].row.key = 0
  BY <1>3, RestingType DEF Pending, NamesRow
<1>. QED
  BY <1>1, <1>2, <1>5, <1>6
  DEF EnrolmentIInv, RowsMade, KeysMinted, PendingUnused, PendingDistinct, KeyNamesOneRow

LEMMA EnrolmentStepKeeps ==
  EnrolmentIInv /\ [EnrolmentNext]_enrolmentVars => EnrolmentIInv'
<1>. SUFFICES ASSUME EnrolmentIInv, [EnrolmentNext]_enrolmentVars PROVE EnrolmentIInv'
  OBVIOUS
<1>1. CASE UNCHANGED enrolmentVars
  BY <1>1
  DEF enrolmentVars, EnrolmentIInv, EnrolmentTypeOK, RowsMade, NamesRow, KeysMinted,
      PendingUnused, PendingDistinct, Pending, KeyNamesOneRow
<1>2. CASE EnrolmentNext
  <2>1. ASSUME NEW h \in Handlers,
               \/ EnrollCheck(h) \/ Archive(h) \/ UpdateByUUID(h) \/ Create(h)
               \/ History(h) \/ Answer(h)
        PROVE  EnrolmentIInv'
    BY <2>1, EnrollCheckKeeps, ArchiveKeeps, UpdateByUUIDKeeps, CreateKeeps, HistoryKeeps,
       AnswerKeeps
  <2>2. ASSUME NEW h \in Handlers,
               \/ TagNode(h) \/ InsertTag(h) \/ UntagNode(h) \/ DeleteTag(h) \/ Delete(h)
        PROVE  EnrolmentIInv'
    BY <2>2, TagNodeKeeps, InsertTagKeeps, UntagNodeKeeps, DeleteTagKeeps, DeleteKeeps
  <2>3. ASSUME NEW h \in Handlers, NEW n \in Nodes, Enroll(n, h) \/ ArchiveDelete(h, n)
        PROVE  EnrolmentIInv'
    BY <2>3, EnrollKeeps, ArchiveDeleteKeeps
  <2>4. ASSUME NEW h \in Handlers, NEW n \in Nodes, NEW t \in Environments, TagNodes(h, n, t)
        PROVE  EnrolmentIInv'
    BY <2>4, TagNodesKeeps
  <2>5. ASSUME NEW n \in Nodes, Refused(n) \/ \E e \in Environments : Reinstall(n, e)
        PROVE  EnrolmentIInv'
    BY <2>5, AgentKeeps
  <2>6. ASSUME NEW t \in Environments, NewTag(t) \/ RemoveTag(t)
        PROVE  EnrolmentIInv'
    BY <2>6, OperatorTagsKeep
  <2>. QED  BY <1>2, <2>1, <2>2, <2>3, <2>4, <2>5, <2>6, RestartKeeps DEF EnrolmentNext
<1>. QED  BY <1>1, <1>2

(* The inductive invariant holds of every behaviour of enrolments,         *)
(* deletions and tags, with lost answers, failures and restarts.           *)
THEOREM EnrolmentInvariantHolds == EnrolmentSpec => []EnrolmentIInv
BY EnrolmentStarts, EnrolmentStepKeeps, PTL DEF EnrolmentSpec

(* The rows, archive, tags, handlers and hosts keep their types; in        *)
(* particular TagNode is never given the id of a row that was not made.    *)
THEOREM EnrolmentTypeCorrect == EnrolmentSpec => []EnrolmentTypeOK
<1>1. EnrolmentIInv => EnrolmentTypeOK
  BY DEF EnrolmentIInv
<1>. QED  BY <1>1, EnrolmentInvariantHolds, PTL

(* Whatever handlers overlap, fail or are lost, GetByKey finds one row: no *)
(* two rows of the nodes table have the same key.                          *)
THEOREM KeysSound == EnrolmentSpec => []KeyNamesOneRow
<1>1. EnrolmentIInv => KeyNamesOneRow
  BY DEF EnrolmentIInv
<1>. QED  BY <1>1, EnrolmentInvariantHolds, PTL

-----------------------------------------------------------------------------
(* As long as handlers do not overlap and nothing fails, what a handler    *)
(* found in an earlier statement is still so when it writes.               *)

EnrolSteps == {"check", "archive", "update", "create", "history", "tag", "insert tag",
               "accept", "refuse"}

Awaited ==
  \A n \in Nodes, h \in Handlers : h \in agent[n].waits =>
    handler[h].pc \in EnrolSteps /\ handler[h].row.uuid = n

AtHome ==
  \A n \in Nodes : ~agent[n].moved =>
    /\ \A i \in DOMAIN nodes : nodes[i].uuid = n => nodes[i].env = agent[n].env
    /\ \A h \in Handlers :
         Pending(h) /\ handler[h].row.uuid = n => handler[h].row.env = agent[n].env

Stored(row) == \E i \in DOMAIN nodes : nodes[i] = row

ArchivedKeys == {a.key : a \in archive}

Deleted(k) == [key |-> k, trigger |-> "delete"] \in archive

InHand(h) ==
  /\ Pending(h) => agent[handler[h].row.uuid].key = 0
  /\ At(h, "update") =>
       \A i \in GetByUUID(handler[h].row.uuid) : nodes[i].key \in ArchivedKeys
  /\ At(h, "create") => ~CheckByUUIDEnv(handler[h].row.uuid, handler[h].row.env)
  /\ handler[h].pc \in {"history", "tag", "insert tag", "accept"} /\ handler[h].row.key # 0 =>
       Stored(handler[h].row)
  /\ At(h, "insert tag") => ~IsTagged(handler[h].tag, handler[h].id)
  /\ At(h, "delete") /\ handler[h].id \in DOMAIN nodes => Deleted(nodes[handler[h].id].key)

KeyKnown(n) ==
  \/ agent[n].key = 0 \/ Deleted(agent[n].key)
  \/ \E i \in DOMAIN nodes : nodes[i].uuid = n /\ nodes[i].key = agent[n].key

OneRow(n) ==
  agent[n].moved \/ \A i, j \in DOMAIN nodes : nodes[i].uuid = n /\ nodes[j].uuid = n => i = j

TaggedOnce == \A r, s \in tagged : r[1] = s[1] /\ r[2] = s[2] => r = s

Calm ==
  /\ \A g, h \in Running : g = h
  /\ \A h \in Handlers : InHand(h)
  /\ \A n \in Nodes : KeyKnown(n) /\ OneRow(n)
  /\ TaggedOnce

CalmIInv == Awaited /\ AtHome /\ (~disturbed => Calm)

(* What a handler that starts alone, or goes on alone, may rely on. *)
LEMMA StartsAlone ==
  ASSUME EnrolmentTypeOK, CalmIInv, NEW h \in Handlers, NEW state, Start(h, state)
  PROVE  /\ handler'[h] = state /\ \A g \in Handlers \ {h} : handler'[g] = handler[g]
         /\ \A n \in Nodes : h \notin agent[n].waits
         /\ ~disturbed' => /\ ~disturbed /\ Calm
                           /\ \A g \in Handlers \ {h} : handler'[g].pc = "idle"
<1>1. handler \in [Handlers -> HandlerState] /\ handler[h].pc = "idle"
  BY DEF EnrolmentTypeOK, Start
<1>2. handler' = [handler EXCEPT ![h] = state]
  BY DEF Start
<1>3. \A n \in Nodes : h \notin agent[n].waits
  BY <1>1 DEF CalmIInv, Awaited, EnrolSteps
<1>4. ~disturbed' => ~disturbed /\ Running = {}
  BY DEF Start
<1>5. Running = {} => \A g \in Handlers : handler[g].pc = "idle"
  BY DEF Running
<1>. QED  BY <1>1, <1>2, <1>3, <1>4, <1>5 DEF CalmIInv

LEMMA GoesOn ==
  ASSUME EnrolmentTypeOK, CalmIInv, NEW h \in Handlers, handler[h].pc # "idle",
         NEW pc \in Steps, Goto(h, pc)
  PROVE  /\ \A g \in Handlers \ {h} : handler'[g] = handler[g]
         /\ handler'[h].pc = pc
         /\ pc # "idle" => /\ handler'[h].row = handler[h].row /\ handler'[h].id = handler[h].id
                           /\ handler'[h].tag = handler[h].tag
         /\ ~disturbed => Calm /\ \A g \in Handlers \ {h} : handler'[g].pc = "idle"
<1>1. handler \in [Handlers -> HandlerState] /\ handler[h] \in HandlerState
  BY DEF EnrolmentTypeOK
<1>2. /\ \A g \in Handlers \ {h} : handler'[g] = handler[g] /\ handler'[h].pc = pc
      /\ pc # "idle" => handler'[h] = [handler[h] EXCEPT !.pc = pc]
  <2>1. pc # "idle" => handler' = [handler EXCEPT ![h] = [handler[h] EXCEPT !.pc = pc]]
    BY DEF Goto
  <2>. QED  BY <1>1, <2>1, GotoHandler
<1>3. handler'[h].pc = pc
  BY GotoHandler
<1>4. pc # "idle" => /\ handler'[h].row = handler[h].row /\ handler'[h].id = handler[h].id
                     /\ handler'[h].tag = handler[h].tag
  BY <1>1, <1>2 DEF HandlerState
<1>5. ~disturbed => \A g \in Handlers \ {h} : handler[g].pc = "idle"
  BY DEF CalmIInv, Calm, Running
<1>. QED  BY <1>2, <1>3, <1>4, <1>5 DEF CalmIInv

LEMMA CalmAfter ==
  ASSUME NEW h \in Handlers, \A g \in Handlers \ {h} : handler'[g].pc = "idle",
         InHand(h)', \A n \in Nodes : KeyKnown(n)' /\ OneRow(n)', TaggedOnce'
  PROVE  Calm'
<1>1. \A f, g \in Running' : f = g
  BY DEF Running
<1>2. \A g \in Handlers : InHand(g)'
  BY DEF InHand, Pending, At
<1>. QED  BY <1>1, <1>2 DEF Calm

(* What holds whether or not handlers overlap, when no row is written. *)
LEMMA HomeKept ==
  ASSUME CalmIInv, UNCHANGED <<nodes, agent>>, NEW h \in Handlers,
         \A g \in Handlers \ {h} : handler'[g] = handler[g],
         handler[h].pc \in EnrolSteps =>
           handler'[h].pc \in EnrolSteps /\ handler'[h].row = handler[h].row,
         Pending(h)' => Pending(h)
  PROVE  Awaited' /\ AtHome'
<1>1. Awaited'
  BY DEF CalmIInv, Awaited
<1>2. \A g \in Handlers :
        Pending(g)' => Pending(g) /\ handler'[g].row = handler[g].row
  <2>1. Pending(h)' => Pending(h) /\ handler'[h].row = handler[h].row
    BY DEF Pending, EnrolSteps
  <2>. QED  BY <2>1 DEF Pending
<1>3. AtHome'
  BY <1>2 DEF CalmIInv, AtHome
<1>. QED  BY <1>1, <1>3

LEMMA KnownKept ==
  ASSUME Calm, UNCHANGED <<nodes, agent>>, archive \subseteq archive'
  PROVE  \A n \in Nodes : KeyKnown(n)' /\ OneRow(n)'
  BY DEF Calm, KeyKnown, OneRow, Deleted

LEMMA CheckCalm ==
  ASSUME EnrolmentIInv, CalmIInv, NEW h \in Handlers,
         EnrollCheck(h) \/ Archive(h) \/ History(h) \/ TagNode(h)
  PROVE  CalmIInv'
<1>0. EnrolmentTypeOK
  BY DEF EnrolmentIInv
<1>1. PICK pc \in {"archive", "create", "update", "tag", "refuse", "insert tag", "accept"} :
        Goto(h, pc)
  BY DEF EnrollCheck, Archive, History, TagNode
<1>2. /\ pc \in Steps /\ pc # "idle" /\ pc \in EnrolSteps
      /\ handler[h].pc \in {"check", "archive", "history", "tag"}
      /\ handler[h].pc \in {"history", "tag"} => pc \in {"tag", "refuse", "insert tag", "accept"}
      /\ handler[h].pc \in {"check", "archive"} => pc \in {"archive", "create", "update"}
      /\ UNCHANGED <<nodes, agent, tagged>> /\ archive \subseteq archive'
  <2>1. handler'[h].pc = pc
    BY <1>0, <1>1, StepNames, GotoHandler
  <2>2. handler \in [Handlers -> HandlerState]
    BY <1>0 DEF EnrolmentTypeOK
  <2>3. handler[h].pc \in {"history", "tag"} =>
          \E p \in {"tag", "refuse", "insert tag", "accept"} : Goto(h, p)
    BY DEF EnrollCheck, Archive, History, TagNode, At
  <2>4. \A p \in {"archive", "create", "update", "tag", "refuse", "insert tag", "accept"} :
          Goto(h, p) => handler'[h].pc = p
    BY <1>0, StepNames, GotoHandler
  <2>5. handler[h].pc \in {"check", "archive"} =>
          \E p \in {"archive", "create", "update"} : Goto(h, p)
    BY DEF EnrollCheck, Archive, History, TagNode, At
  <2>. QED
    BY <1>1, <2>1, <2>3, <2>4, <2>5, StepNames
    DEF EnrollCheck, Archive, History, TagNode, At, EnrolSteps
<1>3. /\ \A g \in Handlers \ {h} : handler'[g] = handler[g]
      /\ handler'[h].pc = pc /\ handler'[h].row = handler[h].row
      /\ handler'[h].id = handler[h].id /\ handler'[h].tag = handler[h].tag
      /\ ~disturbed => Calm /\ \A g \in Handlers \ {h} : handler'[g].pc = "idle"
  BY <1>0, <1>1, <1>2, GoesOn
<1>4. Awaited' /\ AtHome'
  BY <1>2, <1>3, HomeKept DEF Pending
<1>5. ASSUME ~disturbed' PROVE Calm'
  <2>0. ~disturbed
    BY <1>5 DEF EnrollCheck, Archive, History, TagNode, Fails, Succeeds
  <2>1. Calm /\ InHand(h)
    BY <1>3, <2>0 DEF Calm
  <2>2. Pending(h)' => agent'[handler'[h].row.uuid].key = 0
    BY <1>2, <1>3, <2>1 DEF InHand, Pending
  <2>3. At(h, "update")' =>
          \A i \in GetByUUID(handler[h].row.uuid)' : nodes'[i].key \in ArchivedKeys'
    <3>1. ASSUME At(h, "update")'
          PROVE  \A i \in GetByUUID(handler[h].row.uuid) :
                   [key |-> nodes[i].key, trigger |-> "exists"] \in archive'
      <4>1. Archive(h)
        BY <1>1, <1>2, <1>3, <3>1, <1>0, StepNames, GotoHandler
        DEF EnrollCheck, History, TagNode, At
      <4>. QED  BY <1>5, <4>1 DEF Archive, Fails
    <3>2. \A k : [key |-> k, trigger |-> "exists"] \in archive' => k \in ArchivedKeys'
      <4>1. \A k : [key |-> k, trigger |-> "exists"].key = k
        OBVIOUS
      <4>. QED  BY <4>1 DEF ArchivedKeys
    <3>3. GetByUUID(handler[h].row.uuid)' = GetByUUID(handler[h].row.uuid)
      BY <1>2, <1>3 DEF GetByUUID
    <3>. QED  BY <1>2, <3>1, <3>2, <3>3
  <2>4. At(h, "create")' => ~CheckByUUIDEnv(handler[h].row.uuid, handler[h].row.env)'
    <3>1. ASSUME At(h, "create")'
          PROVE  ~CheckByUUIDEnv(handler[h].row.uuid, handler[h].row.env)
      BY <1>0, <1>3, <1>5, <3>1, StepNames, GotoHandler
      DEF Fails, EnrollCheck, Archive, History, TagNode, At
    <3>. QED  BY <1>2, <1>3, <3>1 DEF CheckByUUIDEnv
  <2>5. handler'[h].pc \in {"history", "tag", "insert tag", "accept"}
        /\ handler'[h].row.key # 0 => Stored(handler[h].row)'
    BY <1>2, <1>3, <2>1 DEF InHand, Stored
  <2>6. At(h, "insert tag")' => ~IsTagged(handler[h].tag, handler[h].id)'
    <3>1. ASSUME At(h, "insert tag")'
          PROVE  ~IsTagged(handler[h].tag, handler[h].id)
      BY <1>0, <1>3, <1>5, <3>1, StepNames, GotoHandler
      DEF Fails, EnrollCheck, Archive, History, TagNode, At
    <3>. QED  BY <1>2, <1>3, <3>1 DEF IsTagged
  <2>7. ~At(h, "delete")'
    BY <1>1, <1>3 DEF At
  <2>8. InHand(h)'
    BY <2>2, <2>3, <2>4, <2>5, <2>6, <2>7 DEF InHand
  <2>9. TaggedOnce'
    BY <1>2, <2>1 DEF Calm, TaggedOnce
  <2>10. \A n \in Nodes : KeyKnown(n)' /\ OneRow(n)'
    BY <1>2, <2>1, KnownKept
  <2>. QED  BY <1>3, <2>0, <2>8, <2>9, <2>10, CalmAfter
<1>. QED  BY <1>4, <1>5 DEF CalmIInv

(* Rows are written.  The row of a UUID that is replaced has a key that    *)
(* its host has forgotten, and was archived in the statement before.       *)
LEMMA UpdateCalm ==
  ASSUME EnrolmentIInv, CalmIInv, NEW h \in Handlers, UpdateByUUID(h)
  PROVE  CalmIInv'
<1>. DEFINE row == handler[h].row
<1>0. /\ EnrolmentTypeOK /\ Pending(h) /\ handler[h].pc = "update"
      /\ handler[h] \in HandlerState /\ agent \in [Nodes -> AgentState]
  BY DEF EnrolmentIInv, EnrolmentTypeOK, UpdateByUUID, At, Pending
<1>1. row \in NodeRow /\ row.uuid \in Nodes /\ UNCHANGED <<archive, tagged, agent>>
  BY <1>0 DEF UpdateByUUID, HandlerState, NodeRow
<1>2. PICK pc \in {"accept", "refuse"} : Goto(h, pc)
  BY DEF UpdateByUUID
<1>3. /\ \A g \in Handlers \ {h} : handler'[g] = handler[g]
      /\ handler'[h].pc = pc /\ handler'[h].row = row
      /\ ~disturbed => Calm /\ \A g \in Handlers \ {h} : handler'[g].pc = "idle"
  BY <1>0, <1>2, StepNames, GoesOn
<1>4. /\ DOMAIN nodes' = DOMAIN nodes
      /\ \A i \in DOMAIN nodes :
           nodes'[i] = nodes[i] \/ (i \in GetByUUID(row.uuid) /\ nodes'[i] = row)
  BY DEF UpdateByUUID
<1>5. \A i \in DOMAIN nodes : nodes'[i].uuid = nodes[i].uuid
  BY <1>4 DEF GetByUUID
<1>6. Awaited'
  <2>1. \A g \in Handlers :
          handler[g].pc \in EnrolSteps =>
            handler'[g].pc \in EnrolSteps /\ handler'[g].row = handler[g].row
    BY <1>3 DEF EnrolSteps
  <2>. QED  BY <1>1, <2>1 DEF CalmIInv, Awaited
<1>7. \A g \in Handlers : Pending(g)' => g # h /\ Pending(g)
  BY <1>3 DEF Pending
<1>8. AtHome'
  BY <1>0, <1>1, <1>3, <1>4, <1>5, <1>7 DEF CalmIInv, AtHome
<1>9. ASSUME ~disturbed' PROVE Calm'
  <2>0. ~disturbed
    BY <1>9 DEF UpdateByUUID, Fails, Succeeds
  <2>1. Calm /\ InHand(h) /\ agent[row.uuid].key = 0
    BY <1>0, <1>3, <2>0 DEF Calm, InHand
  <2>2. pc = "accept" /\ row.key # 0 => Stored(row)'
    <3>1. pc = "accept" => \E i \in GetByUUID(row.uuid) : nodes'[i] = row
      <4>1. Goto(h, "refuse") => handler'[h].pc = "refuse"
        BY <1>0, StepNames, GotoHandler
      <4>. QED  BY <1>3, <4>1 DEF UpdateByUUID, GetByUUID
    <3>2. \A i \in GetByUUID(row.uuid) : i \in DOMAIN nodes'
      BY <1>4 DEF GetByUUID
    <3>. QED  BY <1>3, <3>1, <3>2 DEF Stored
  <2>3. InHand(h)'
    BY <1>3, <2>2 DEF InHand, Pending, At
  <2>4. \A n \in Nodes : KeyKnown(n)' /\ OneRow(n)'
    <3>1. ASSUME NEW n \in Nodes PROVE KeyKnown(n)'
      <4>1. KeyKnown(n)
        BY <2>1 DEF Calm
      <4>2. ASSUME NEW i \in DOMAIN nodes, nodes[i].uuid = n, nodes[i].key = agent[n].key,
                   agent[n].key # 0
            PROVE  KeyKnown(n)'
        <5>1. nodes'[i] = nodes[i]
          BY <1>4, <2>1, <4>2 DEF GetByUUID
        <5>. QED  BY <1>1, <1>4, <4>2, <5>1 DEF KeyKnown
      <4>. QED  BY <1>1, <4>1, <4>2 DEF KeyKnown, Deleted
    <3>2. ASSUME NEW n \in Nodes PROVE OneRow(n)'
      BY <1>1, <1>4, <1>5, <2>1 DEF Calm, OneRow
    <3>. QED  BY <3>1, <3>2
  <2>5. TaggedOnce'
    BY <1>1, <2>1 DEF Calm, TaggedOnce
  <2>. QED  BY <1>3, <2>0, <2>3, <2>4, <2>5, CalmAfter
<1>. QED  BY <1>6, <1>8, <1>9 DEF CalmIInv

LEMMA CreateCalm ==
  ASSUME EnrolmentIInv, CalmIInv, NEW h \in Handlers, Create(h)
  PROVE  CalmIInv'
<1>. DEFINE row == handler[h].row
<1>0. /\ EnrolmentTypeOK /\ Pending(h) /\ handler[h].pc = "create"
      /\ handler[h] \in HandlerState /\ handler \in [Handlers -> HandlerState]
      /\ DOMAIN nodes \subseteq 1 .. made /\ made \in Nat
      /\ UNCHANGED <<archive, tagged, agent>>
  BY EnrolmentAssumption
  DEF EnrolmentIInv, EnrolmentTypeOK, Create, At, Pending
<1>1. row \in NodeRow /\ row.uuid \in Nodes
  BY <1>0 DEF HandlerState, NodeRow
<1>2. CASE Goto(h, "refuse") /\ UNCHANGED <<made, nodes>> /\ Fails
  <2>1. /\ \A g \in Handlers \ {h} : handler'[g] = handler[g]
        /\ handler'[h].pc = "refuse" /\ handler'[h].row = row
    BY <1>0, <1>2, StepNames, GoesOn
  <2>2. Awaited' /\ AtHome'
    BY <1>0, <1>2, <2>1, HomeKept DEF EnrolSteps, Pending
  <2>. QED  BY <1>2, <2>2 DEF CalmIInv, Fails
<1>3. CASE /\ made' = made + 1 /\ nodes' = Inserted(made + 1, row)
           /\ handler' = [handler EXCEPT ![h].pc = "history", ![h].id = made + 1]
           /\ Succeeds
  <2>1. /\ DOMAIN nodes' = DOMAIN nodes \cup {made + 1}
        /\ nodes'[made + 1] = row
        /\ \A i \in DOMAIN nodes : nodes'[i] = nodes[i]
    <3>1. made + 1 \notin DOMAIN nodes
      BY <1>0
    <3>. QED  BY <1>3, <3>1 DEF Inserted
  <2>2. /\ \A g \in Handlers \ {h} : handler'[g] = handler[g]
        /\ handler'[h].pc = "history" /\ handler'[h].row = row
    BY <1>0, <1>3 DEF HandlerState
  <2>3. Awaited'
    <3>1. \A g \in Handlers :
            handler[g].pc \in EnrolSteps =>
              handler'[g].pc \in EnrolSteps /\ handler'[g].row = handler[g].row
      BY <2>2 DEF EnrolSteps
    <3>. QED  BY <1>0, <3>1 DEF CalmIInv, Awaited
  <2>4. \A g \in Handlers : Pending(g)' => g # h /\ Pending(g)
    BY <2>2 DEF Pending
  <2>5. AtHome'
    BY <1>0, <1>1, <2>1, <2>2, <2>4 DEF CalmIInv, AtHome
  <2>6. ASSUME ~disturbed' PROVE Calm'
    <3>0. ~disturbed
      BY <1>3, <2>6 DEF Succeeds
    <3>1. /\ Calm /\ InHand(h) /\ \A g \in Handlers \ {h} : handler'[g].pc = "idle"
      BY <1>0, <2>2, <3>0 DEF Calm, CalmIInv, Running
    <3>2. InHand(h)'
      BY <2>1, <2>2 DEF InHand, Pending, At, Stored
    <3>3. \A n \in Nodes : KeyKnown(n)'
      BY <1>0, <2>1, <3>1 DEF Calm, KeyKnown, Deleted
    <3>4. ASSUME NEW n \in Nodes, ~agent[n].moved, NEW i \in DOMAIN nodes',
                 NEW j \in DOMAIN nodes', nodes'[i].uuid = n, nodes'[j].uuid = n
          PROVE  i = j
      <4>1. \A k \in DOMAIN nodes : nodes[k].uuid = n => row.uuid # n
        <5>1. ASSUME NEW k \in DOMAIN nodes, nodes[k].uuid = n, row.uuid = n PROVE FALSE
          <6>1. nodes[k].env = agent[n].env /\ row.env = agent[n].env
            BY <1>0, <3>4, <5>1 DEF CalmIInv, AtHome
          <6>. QED  BY <1>0, <3>1, <5>1, <6>1 DEF InHand, At, CheckByUUIDEnv
        <5>. QED  BY <5>1
      <4>. QED  BY <2>1, <3>1, <3>4, <4>1 DEF Calm, OneRow
    <3>5. \A n \in Nodes : OneRow(n)'
      BY <1>0, <3>4 DEF OneRow
    <3>6. TaggedOnce'
      BY <1>0, <3>1 DEF Calm, TaggedOnce
    <3>. QED  BY <3>1, <3>2, <3>3, <3>5, <3>6, CalmAfter
  <2>. QED  BY <2>3, <2>5, <2>6 DEF CalmIInv
<1>. QED  BY <1>2, <1>3 DEF Create

(* The answer: osqueryd gets a key that is stored, or none. *)
LEMMA AnswerCalm ==
  ASSUME EnrolmentIInv, CalmIInv, NEW h \in Handlers, Answer(h)
  PROVE  CalmIInv'
<1>0. /\ EnrolmentTypeOK /\ handler[h].pc \in {"accept", "refuse"} /\ Goto(h, "idle")
      /\ agent \in [Nodes -> AgentState]
      /\ UNCHANGED <<nodes, archive, tagged, disturbed>>
  BY DEF EnrolmentIInv, EnrolmentTypeOK, Answer
<1>1. /\ \A g \in Handlers \ {h} : handler'[g] = handler[g]
      /\ handler'[h].pc = "idle"
      /\ ~disturbed => Calm /\ \A g \in Handlers \ {h} : handler'[g].pc = "idle"
  BY <1>0, StepNames, GoesOn
<1>2. PICK answer \in {0, IF At(h, "accept") THEN handler[h].row.key ELSE 0} :
        agent' = [n \in Nodes |->
          IF h \in agent[n].waits THEN [agent[n] EXCEPT !.waits = {}, !.key = answer]
                                   ELSE agent[n]]
  BY DEF Answer
<1>3. ASSUME NEW n \in Nodes
      PROVE  /\ agent'[n].env = agent[n].env /\ agent'[n].moved = agent[n].moved
             /\ h \notin agent'[n].waits /\ agent'[n].waits \subseteq agent[n].waits
             /\ IF h \in agent[n].waits THEN agent'[n].key = answer
                                        ELSE agent'[n].key = agent[n].key
  <2>1. agent[n] \in AgentState
    BY <1>0
  <2>. QED  BY <1>2, <2>1 DEF AgentState
<1>4. Awaited'
  BY <1>1, <1>3 DEF CalmIInv, Awaited
<1>5. AtHome'
  <2>1. \A g \in Handlers : Pending(g)' => g # h /\ Pending(g)
    BY <1>1 DEF Pending
  <2>. QED  BY <1>0, <1>1, <1>3, <2>1 DEF CalmIInv, AtHome
<1>6. ASSUME ~disturbed' PROVE Calm'
  <2>1. Calm /\ InHand(h) /\ \A g \in Handlers \ {h} : handler'[g].pc = "idle"
    BY <1>0, <1>1, <1>6 DEF Calm
  <2>2. InHand(h)'
    BY <1>1 DEF InHand, Pending, At
  <2>3. \A n \in Nodes : OneRow(n)'
    BY <1>0, <1>3, <2>1 DEF Calm, OneRow
  <2>4. ASSUME NEW n \in Nodes PROVE KeyKnown(n)'
    <3>1. CASE h \notin agent[n].waits
      BY <1>0, <1>3, <2>1, <3>1 DEF Calm, KeyKnown, Deleted
    <3>2. CASE h \in agent[n].waits
      <4>1. handler[h].row.uuid = n
        BY <3>2 DEF CalmIInv, Awaited
      <4>2. CASE answer = 0
        BY <1>3, <3>2, <4>2 DEF KeyKnown
      <4>3. CASE answer # 0
        <5>1. At(h, "accept") /\ answer = handler[h].row.key
          BY <1>2, <4>3
        <5>2. Stored(handler[h].row)
          BY <2>1, <4>3, <5>1 DEF InHand, At
        <5>. QED  BY <1>0, <1>3, <3>2, <4>1, <5>1, <5>2 DEF Stored, KeyKnown
      <4>. QED  BY <4>2, <4>3
    <3>. QED  BY <3>1, <3>2
  <2>5. TaggedOnce'
    BY <1>0, <2>1 DEF Calm, TaggedOnce
  <2>. QED  BY <2>1, <2>2, <2>3, <2>4, <2>5, CalmAfter
<1>. QED  BY <1>4, <1>5, <1>6 DEF CalmIInv

-----------------------------------------------------------------------------
(* Tags and deletions. *)

LEMMA InsertTagCalm ==
  ASSUME EnrolmentIInv, CalmIInv, NEW h \in Handlers, InsertTag(h)
  PROVE  CalmIInv'
<1>0. /\ EnrolmentTypeOK /\ handler[h].pc = "insert tag" /\ Goto(h, "accept")
      /\ UNCHANGED <<nodes, agent, archive>>
  BY DEF EnrolmentIInv, InsertTag, At
<1>1. /\ \A g \in Handlers \ {h} : handler'[g] = handler[g]
      /\ handler'[h].pc = "accept" /\ handler'[h].row = handler[h].row
      /\ ~disturbed => Calm /\ \A g \in Handlers \ {h} : handler'[g].pc = "idle"
  BY <1>0, StepNames, GoesOn
<1>2. Awaited' /\ AtHome'
  BY <1>0, <1>1, HomeKept DEF EnrolSteps, Pending
<1>3. ASSUME ~disturbed' PROVE Calm'
  <2>0. /\ ~disturbed
        /\ tagged' = tagged \cup {<<handler[h].tag, handler[h].id, h>>}
    <3>1. disturbed' # TRUE
      BY <1>3
    <3>2. Succeeds /\ tagged' = tagged \cup {<<handler[h].tag, handler[h].id, h>>}
      BY <3>1 DEF InsertTag, Fails
    <3>. QED  BY <1>3, <3>2 DEF Succeeds
  <2>1. Calm /\ InHand(h)
    BY <1>1, <2>0 DEF Calm
  <2>2. InHand(h)'
    BY <1>0, <1>1, <2>1 DEF InHand, Pending, At, Stored
  <2>3. \A n \in Nodes : KeyKnown(n)' /\ OneRow(n)'
    BY <1>0, <2>1, KnownKept
  <2>4. ~IsTagged(handler[h].tag, handler[h].id)
    BY <1>0, <2>1 DEF InHand, At
  <2>5. TaggedOnce'
    <3>. DEFINE new == <<handler[h].tag, handler[h].id, h>>
    <3>1. new[1] = handler[h].tag /\ new[2] = handler[h].id /\ tagged' = tagged \cup {new}
      BY <2>0
    <3>. HIDE DEF new
    <3>. QED  BY <2>1, <2>4, <3>1 DEF Calm, TaggedOnce, IsTagged
  <2>. QED  BY <1>1, <2>0, <2>2, <2>3, <2>5, CalmAfter
<1>. QED  BY <1>2, <1>3 DEF CalmIInv

LEMMA UntagCalm ==
  ASSUME EnrolmentIInv, CalmIInv, NEW h \in Handlers, UntagNode(h) \/ DeleteTag(h)
  PROVE  CalmIInv'
<1>0. /\ EnrolmentTypeOK /\ handler[h].pc \in {"untag", "delete tag"}
      /\ handler[h] \in HandlerState /\ handler \in [Handlers -> HandlerState]
      /\ UNCHANGED <<nodes, agent, archive>> /\ tagged' \subseteq tagged
  BY DEF EnrolmentIInv, EnrolmentTypeOK, UntagNode, DeleteTag, At
<1>1. /\ \A g \in Handlers \ {h} : handler'[g] = handler[g]
      /\ handler'[h].pc \in {"idle", "delete tag"}
  <2>1. CASE Goto(h, "idle")
    BY <1>0, <2>1, StepNames, GotoHandler
  <2>2. CASE \E s : handler' = [handler EXCEPT ![h].pc = "delete tag", ![h].by = s]
    BY <1>0, <2>2 DEF HandlerState
  <2>. QED  BY <2>1, <2>2 DEF UntagNode, DeleteTag
<1>2. Awaited' /\ AtHome'
  BY <1>0, <1>1, HomeKept DEF EnrolSteps, Pending
<1>3. ASSUME ~disturbed' PROVE Calm'
  <2>0. ~disturbed
    BY <1>3 DEF UntagNode, DeleteTag, Fails, Succeeds
  <2>1. Calm /\ \A g \in Handlers \ {h} : handler'[g].pc = "idle"
    BY <1>0, <1>1, <2>0 DEF CalmIInv, Calm, Running
  <2>2. InHand(h)'
    BY <1>1 DEF InHand, Pending, At
  <2>3. \A n \in Nodes : KeyKnown(n)' /\ OneRow(n)'
    BY <1>0, <2>1, KnownKept
  <2>4. TaggedOnce'
    BY <1>0, <2>1 DEF Calm, TaggedOnce
  <2>. QED  BY <2>1, <2>2, <2>3, <2>4, CalmAfter
<1>. QED  BY <1>2, <1>3 DEF CalmIInv

LEMMA DeleteCalm ==
  ASSUME EnrolmentIInv, CalmIInv, NEW h \in Handlers, Delete(h)
  PROVE  CalmIInv'
<1>0. /\ EnrolmentTypeOK /\ handler[h].pc = "delete" /\ Goto(h, "idle")
      /\ UNCHANGED <<agent, archive, tagged>>
      /\ DOMAIN nodes' \subseteq DOMAIN nodes /\ \A i \in DOMAIN nodes' : nodes'[i] = nodes[i]
      /\ DOMAIN nodes \ {handler[h].id} \subseteq DOMAIN nodes'
  BY DEF EnrolmentIInv, Delete, At
<1>1. /\ \A g \in Handlers \ {h} : handler'[g] = handler[g]
      /\ handler'[h].pc = "idle"
      /\ ~disturbed => Calm /\ \A g \in Handlers \ {h} : handler'[g].pc = "idle"
  BY <1>0, StepNames, GoesOn
<1>2. \A g \in Handlers : Pending(g)' => g # h /\ Pending(g)
  BY <1>1 DEF Pending
<1>3. Awaited'
  <2>1. \A n \in Nodes : h \notin agent[n].waits
    BY <1>0 DEF CalmIInv, Awaited, EnrolSteps
  <2>. QED  BY <1>0, <1>1, <2>1 DEF CalmIInv, Awaited
<1>4. AtHome'
  BY <1>0, <1>1, <1>2 DEF CalmIInv, AtHome
<1>5. ASSUME ~disturbed' PROVE Calm'
  <2>0. ~disturbed
    BY <1>5 DEF Delete, Fails, Succeeds
  <2>1. Calm /\ InHand(h)
    BY <1>1, <2>0 DEF Calm
  <2>2. InHand(h)'
    BY <1>1 DEF InHand, Pending, At
  <2>3. ASSUME NEW n \in Nodes PROVE KeyKnown(n)'
    <3>1. KeyKnown(n)
      BY <2>1 DEF Calm
    <3>2. handler[h].id \in DOMAIN nodes => Deleted(nodes[handler[h].id].key)
      BY <1>0, <2>1 DEF InHand, At
    <3>. QED  BY <1>0, <3>1, <3>2 DEF KeyKnown, Deleted
  <2>4. \A n \in Nodes : OneRow(n)'
    BY <1>0, <2>1 DEF Calm, OneRow
  <2>5. TaggedOnce'
    BY <1>0, <2>1 DEF Calm, TaggedOnce
  <2>. QED  BY <1>1, <2>0, <2>2, <2>3, <2>4, <2>5, CalmAfter
<1>. QED  BY <1>3, <1>4, <1>5 DEF CalmIInv

-----------------------------------------------------------------------------
(* Handlers start. *)

LEMMA EnrollCalm ==
  ASSUME EnrolmentIInv, CalmIInv, NEW n \in Nodes, NEW h \in Handlers, Enroll(n, h)
  PROVE  CalmIInv'
<1>. DEFINE row == [uuid |-> n, env |-> agent[n].env, key |-> minted + 1]
            state == [Resting EXCEPT !.pc = "check", !.tag = agent[n].env, !.row = row]
<1>0. /\ EnrolmentTypeOK /\ agent \in [Nodes -> AgentState] /\ agent[n].key = 0
      /\ UNCHANGED <<nodes, archive, tagged>>
  BY DEF EnrolmentIInv, EnrolmentTypeOK, Enroll
<1>1. state.pc = "check" /\ state.row = row /\ row.uuid = n /\ row.env = agent[n].env
  <2>1. row.uuid = n /\ row.env = agent[n].env
    OBVIOUS
  <2>. HIDE DEF row
  <2>. QED  BY <2>1, RestingType DEF HandlerState
<1>2. Start(h, state)
  BY DEF Enroll
<1>. HIDE DEF row, state
<1>3. /\ handler'[h] = state /\ \A g \in Handlers \ {h} : handler'[g] = handler[g]
      /\ \A m \in Nodes : h \notin agent[m].waits
      /\ ~disturbed' => /\ ~disturbed /\ Calm
                        /\ \A g \in Handlers \ {h} : handler'[g].pc = "idle"
  BY <1>0, <1>2, StartsAlone
<1>4. ASSUME NEW m \in Nodes
      PROVE  /\ agent'[m].env = agent[m].env /\ agent'[m].moved = agent[m].moved
             /\ agent'[m].key = agent[m].key
             /\ agent'[m].waits = IF m = n THEN {h} ELSE agent[m].waits
  <2>1. agent[m] \in AgentState /\ agent' = [agent EXCEPT ![n].waits = {h}]
    BY <1>0 DEF Enroll
  <2>. QED  BY <1>0, <2>1 DEF AgentState
<1>5. Awaited'
  <2>1. ASSUME NEW m \in Nodes, NEW g \in Handlers, g \in agent'[m].waits
        PROVE  handler'[g].pc \in EnrolSteps /\ handler'[g].row.uuid = m
    <3>1. CASE m = n
      <4>1. g = h
        BY <1>4, <2>1, <3>1
      <4>. QED  BY <1>1, <1>3, <3>1, <4>1 DEF EnrolSteps
    <3>2. CASE m # n
      BY <1>3, <1>4, <2>1, <3>2 DEF CalmIInv, Awaited
    <3>. QED  BY <3>1, <3>2
  <2>. QED  BY <2>1 DEF Awaited
<1>6. AtHome'
  <2>1. \A g \in Handlers \ {h} : Pending(g)' = Pending(g)
    BY <1>3 DEF Pending
  <2>. QED  BY <1>0, <1>1, <1>3, <1>4, <2>1 DEF CalmIInv, AtHome
<1>7. ASSUME ~disturbed' PROVE Calm'
  <2>1. InHand(h)'
    BY <1>0, <1>1, <1>3, <1>4 DEF InHand, Pending, At
  <2>2. \A m \in Nodes : KeyKnown(m)' /\ OneRow(m)'
    BY <1>0, <1>3, <1>4, <1>7 DEF Calm, KeyKnown, OneRow, Deleted
  <2>3. TaggedOnce'
    BY <1>0, <1>3, <1>7 DEF Calm, TaggedOnce
  <2>. QED  BY <1>3, <1>7, <2>1, <2>2, <2>3, CalmAfter
<1>. QED  BY <1>5, <1>6, <1>7 DEF CalmIInv

LEMMA OperatorStartsCalm ==
  ASSUME EnrolmentTypeOK, CalmIInv, NEW h \in Handlers, NEW state, Start(h, state),
         state.pc \in {"tag", "untag", "delete"}, state.row.key = 0,
         UNCHANGED <<nodes, agent, tagged>>, archive \subseteq archive',
         state.pc = "delete" => Deleted(nodes[state.id].key)'
  PROVE  CalmIInv'
<1>1. /\ handler'[h] = state /\ \A g \in Handlers \ {h} : handler'[g] = handler[g]
      /\ \A m \in Nodes : h \notin agent[m].waits
      /\ ~disturbed' => /\ ~disturbed /\ Calm
                        /\ \A g \in Handlers \ {h} : handler'[g].pc = "idle"
  BY StartsAlone
<1>2. Awaited'
  BY <1>1 DEF CalmIInv, Awaited
<1>3. AtHome'
  <2>1. \A g \in Handlers : Pending(g)' => g # h /\ Pending(g)
    BY <1>1 DEF Pending
  <2>. QED  BY <1>1, <2>1 DEF CalmIInv, AtHome
<1>4. ASSUME ~disturbed' PROVE Calm'
  <2>1. InHand(h)'
    BY <1>1 DEF InHand, Pending, At
  <2>2. \A m \in Nodes : KeyKnown(m)' /\ OneRow(m)'
    BY <1>1, <1>4, KnownKept
  <2>3. TaggedOnce'
    BY <1>1, <1>4 DEF Calm, TaggedOnce
  <2>. QED  BY <1>1, <1>4, <2>1, <2>2, <2>3, CalmAfter
<1>. QED  BY <1>2, <1>3, <1>4 DEF CalmIInv

LEMMA OperatorCalm ==
  ASSUME EnrolmentIInv, CalmIInv, NEW h \in Handlers, NEW n \in Nodes,
         ArchiveDelete(h, n) \/ \E t \in Environments : TagNodes(h, n, t)
  PROVE  CalmIInv'
<1>0. EnrolmentTypeOK
  BY DEF EnrolmentIInv
<1>1. CASE ArchiveDelete(h, n)
  <2>1. PICK i \in GetByUUID(n) :
          /\ Start(h, [Resting EXCEPT !.pc = "delete", !.id = i])
          /\ archive' = archive \cup {[key |-> nodes[i].key, trigger |-> "delete"]}
    BY <1>1 DEF ArchiveDelete
  <2>. DEFINE state == [Resting EXCEPT !.pc = "delete", !.id = i]
  <2>2. state.pc = "delete" /\ state.id = i /\ state.row.key = 0
    BY RestingType DEF HandlerState
  <2>3. UNCHANGED <<nodes, agent, tagged>>
    BY <1>1 DEF ArchiveDelete
  <2>4. Deleted(nodes[i].key)'
    BY <2>1, <2>3 DEF Deleted
  <2>5. Start(h, state) /\ archive \subseteq archive'
    BY <2>1
  <2>. HIDE DEF state
  <2>6. Deleted(nodes[state.id].key)'
    BY <2>2, <2>4
  <2>. QED  BY <1>0, <2>2, <2>3, <2>5, <2>6, OperatorStartsCalm
<1>2. CASE \E t \in Environments : TagNodes(h, n, t)
  <2>1. PICK t \in Environments : TagNodes(h, n, t)
    BY <1>2
  <2>2. PICK i \in GetByUUID(n), pc \in {"tag", "untag"} :
          Start(h, [Resting EXCEPT !.pc = pc, !.id = i, !.tag = t])
    BY <2>1 DEF TagNodes
  <2>. DEFINE state == [Resting EXCEPT !.pc = pc, !.id = i, !.tag = t]
  <2>3. state.pc \in {"tag", "untag"} /\ state.row.key = 0
    BY RestingType DEF HandlerState
  <2>4. Start(h, state) /\ UNCHANGED <<nodes, agent, tagged, archive>>
    BY <2>1, <2>2 DEF TagNodes
  <2>. HIDE DEF state
  <2>. QED  BY <1>0, <2>3, <2>4, OperatorStartsCalm
<1>. QED  BY <1>1, <1>2

(* Nothing is asked of a handler. *)
LEMMA ElsewhereCalm ==
  ASSUME EnrolmentIInv, CalmIInv,
         \/ \E n \in Nodes : Refused(n) \/ \E e \in Environments : Reinstall(n, e)
         \/ \E t \in Environments : NewTag(t) \/ RemoveTag(t)
  PROVE  CalmIInv'
<1>0. /\ agent \in [Nodes -> AgentState]
      /\ UNCHANGED <<nodes, handler, archive, tagged>> /\ (~disturbed' => ~disturbed)
  BY DEF EnrolmentIInv, EnrolmentTypeOK, Refused, Reinstall, NewTag, RemoveTag, Fails, Succeeds
<1>1. ASSUME NEW n \in Nodes
      PROVE  /\ agent'[n].key \in {0, agent[n].key}
             /\ agent'[n].waits \subseteq agent[n].waits
             /\ agent[n].moved => agent'[n].moved
             /\ ~agent'[n].moved => agent'[n].env = agent[n].env
  <2>0. agent[n] \in AgentState
    BY <1>0
  <2>1. ASSUME NEW m \in Nodes, Refused(m)
        PROVE  agent'[n] \in {agent[n], [agent[n] EXCEPT !.key = 0]}
    BY <1>0, <2>1 DEF Refused
  <2>2. ASSUME NEW m \in Nodes, NEW e \in Environments, Reinstall(m, e)
        PROVE  agent'[n] \in {agent[n], [env |-> e, key |-> 0, moved |-> TRUE, waits |-> {}]}
    BY <1>0, <2>2 DEF Reinstall
  <2>3. ASSUME NEW e, agent'[n] \in {agent[n], [agent[n] EXCEPT !.key = 0],
                                     [env |-> e, key |-> 0, moved |-> TRUE, waits |-> {}]}
        PROVE  /\ agent'[n].key \in {0, agent[n].key}
               /\ agent'[n].waits \subseteq agent[n].waits
               /\ agent[n].moved => agent'[n].moved
               /\ ~agent'[n].moved => agent'[n].env = agent[n].env
    BY <2>0, <2>3 DEF AgentState
  <2>4. CASE \E t \in Environments : NewTag(t) \/ RemoveTag(t)
    BY <2>4 DEF NewTag, RemoveTag
  <2>. QED  BY <2>1, <2>2, <2>3, <2>4
<1>2. Awaited'
  BY <1>0, <1>1 DEF CalmIInv, Awaited
<1>3. AtHome'
  BY <1>0, <1>1 DEF CalmIInv, AtHome, Pending
<1>4. ASSUME ~disturbed' PROVE Calm'
  <2>1. Calm
    BY <1>0, <1>4 DEF CalmIInv
  <2>2. ASSUME NEW h \in Handlers PROVE InHand(h)'
    <3>1. InHand(h) /\ (Pending(h) => handler[h].row.uuid \in Nodes)
      BY <2>1 DEF Calm, EnrolmentIInv, EnrolmentTypeOK, HandlerState, NodeRow
    <3>2. Pending(h)' => agent'[handler[h].row.uuid].key = 0
      BY <1>0, <1>1, <3>1 DEF InHand, Pending
    <3>. QED
      BY <1>0, <3>1, <3>2
      DEF InHand, Pending, At, GetByUUID, ArchivedKeys, CheckByUUIDEnv, Stored, IsTagged, Deleted
  <2>3. ASSUME NEW n \in Nodes PROVE KeyKnown(n)' /\ OneRow(n)'
    <3>1. KeyKnown(n) /\ OneRow(n)
      BY <2>1 DEF Calm
    <3>2. KeyKnown(n)'
      BY <1>0, <1>1, <3>1 DEF KeyKnown, Deleted
    <3>3. OneRow(n)'
      BY <1>0, <1>1, <3>1 DEF OneRow
    <3>. QED  BY <3>2, <3>3
  <2>4. TaggedOnce' /\ \A g, h \in Running' : g = h
    BY <1>0, <2>1 DEF Calm, TaggedOnce, Running
  <2>. QED  BY <2>2, <2>3, <2>4 DEF Calm
<1>. QED  BY <1>2, <1>3, <1>4 DEF CalmIInv

LEMMA RestartCalm ==
  ASSUME EnrolmentIInv, CalmIInv, Restart
  PROVE  CalmIInv'
<1>0. agent \in [Nodes -> AgentState] /\ disturbed' = TRUE /\ UNCHANGED nodes
  BY DEF EnrolmentIInv, EnrolmentTypeOK, Restart
<1>1. ASSUME NEW n \in Nodes
      PROVE  agent'[n].waits = {} /\ agent'[n].env = agent[n].env
             /\ agent'[n].moved = agent[n].moved
  <2>1. agent[n] \in AgentState /\ agent'[n] = [agent[n] EXCEPT !.waits = {}]
    BY <1>0 DEF Restart
  <2>. QED  BY <2>1 DEF AgentState
<1>2. \A h \in Handlers : Pending(h)' => Pending(h) /\ handler'[h] = handler[h]
  BY RestingType DEF Restart, Pending
<1>3. Awaited' /\ AtHome'
  BY <1>0, <1>1, <1>2 DEF CalmIInv, Awaited, AtHome
<1>. QED  BY <1>0, <1>3 DEF CalmIInv

-----------------------------------------------------------------------------
LEMMA CalmStarts == EnrolmentInit => CalmIInv
<1>. SUFFICES ASSUME EnrolmentInit PROVE CalmIInv
  OBVIOUS
<1>1. /\ DOMAIN nodes = {} /\ tagged = {}
      /\ \A h \in Handlers : handler[h].pc = "idle"
      /\ \A n \in Nodes : agent[n].key = 0 /\ agent[n].waits = {}
  BY RestingType DEF EnrolmentInit
<1>. QED
  BY <1>1
  DEF CalmIInv, Awaited, AtHome, Calm, Running, InHand, Pending, At, KeyKnown, OneRow, TaggedOnce

LEMMA CalmStepKeeps ==
  EnrolmentIInv /\ CalmIInv /\ [EnrolmentNext]_enrolmentVars => CalmIInv'
<1>. SUFFICES ASSUME EnrolmentIInv, CalmIInv, [EnrolmentNext]_enrolmentVars PROVE CalmIInv'
  OBVIOUS
<1>1. CASE UNCHANGED enrolmentVars
  <2>1. UNCHANGED <<nodes, archive, tagged, handler, agent, disturbed>>
    BY <1>1 DEF enrolmentVars
  <2>2. Awaited' /\ AtHome'
    BY <2>1 DEF CalmIInv, Awaited, AtHome, Pending
  <2>3. ASSUME ~disturbed PROVE Calm'
    <3>1. Calm
      BY <2>3 DEF CalmIInv
    <3>2. \A h \in Handlers : InHand(h)'
      BY <2>1, <3>1
      DEF Calm, InHand, Pending, At, GetByUUID, ArchivedKeys, CheckByUUIDEnv, Stored, IsTagged,
          Deleted
    <3>3. \A n \in Nodes : KeyKnown(n)' /\ OneRow(n)'
      BY <2>1, <3>1, KnownKept
    <3>4. TaggedOnce' /\ \A g, h \in Running' : g = h
      BY <2>1, <3>1 DEF Calm, TaggedOnce, Running
    <3>. QED  BY <3>2, <3>3, <3>4 DEF Calm
  <2>. QED  BY <2>1, <2>2, <2>3 DEF CalmIInv
<1>2. CASE EnrolmentNext
  <2>1. ASSUME NEW h \in Handlers,
               \/ EnrollCheck(h) \/ Archive(h) \/ UpdateByUUID(h) \/ Create(h)
               \/ History(h) \/ Answer(h)
        PROVE  CalmIInv'
    BY <2>1, CheckCalm, UpdateCalm, CreateCalm, AnswerCalm
  <2>2. ASSUME NEW h \in Handlers,
               \/ TagNode(h) \/ InsertTag(h) \/ UntagNode(h) \/ DeleteTag(h) \/ Delete(h)
        PROVE  CalmIInv'
    BY <2>2, CheckCalm, InsertTagCalm, UntagCalm, DeleteCalm
  <2>3. ASSUME NEW h \in Handlers, NEW n \in Nodes,
               \/ Enroll(n, h) \/ ArchiveDelete(h, n)
               \/ \E t \in Environments : TagNodes(h, n, t)
        PROVE  CalmIInv'
    BY <2>3, EnrollCalm, OperatorCalm
  <2>. QED  BY <1>2, <2>1, <2>2, <2>3, ElsewhereCalm, RestartCalm DEF EnrolmentNext
<1>. QED  BY <1>1, <1>2

(* What handlers find and hold while none overlaps another is an invariant *)
(* of every behaviour, until one does, or something fails.                 *)
THEOREM CalmHolds == EnrolmentSpec => []CalmIInv
BY CalmStarts, CalmStepKeeps, EnrolmentInvariantHolds, PTL DEF EnrolmentSpec

(* A host that asks with the key of its last answer is refused only after  *)
(* its row was deleted, while handlers do not overlap and nothing fails.   *)
THEOREM AnswersSound == EnrolmentSpec => []AnsweredKeyKnown
<1>1. CalmIInv => AnsweredKeyKnown
  BY DEF CalmIInv, Calm, KeyKnown, Deleted, AnsweredKeyKnown, StoredKeys
<1>. QED  BY <1>1, CalmHolds, PTL

(* A host that stays in its environment has one row, and a node a tag      *)
(* once, while handlers do not overlap and nothing fails.                  *)
THEOREM RowsSound == EnrolmentSpec => []NothingTwice
<1>1. CalmIInv => NothingTwice
  <2>. SUFFICES ASSUME Calm PROVE NothingTwice
    BY DEF CalmIInv, NothingTwice
  <2>1. ASSUME NEW n \in Nodes, ~agent[n].moved
        PROVE  Cardinality({i \in DOMAIN nodes : nodes[i].uuid = n}) <= 1
    <3>. DEFINE rows == {i \in DOMAIN nodes : nodes[i].uuid = n}
    <3>1. \A i, j \in rows : i = j
      BY <2>1 DEF Calm, OneRow
    <3>2. rows = {} \/ \E i : rows = {i}
      BY <3>1
    <3>. HIDE DEF rows
    <3>3. Cardinality(rows) = 0 \/ Cardinality(rows) = 1
      BY <3>2, FS_EmptySet, FS_Singleton
    <3>4. Cardinality(rows) <= 1
      BY <3>3
    <3>. QED  BY <3>4 DEF rows
  <2>. QED  BY <2>1 DEF NothingTwice, Calm, TaggedOnce
<1>. QED  BY <1>1, CalmHolds, PTL

(* A key that leaves the nodes table is in the archive: EnrollHandler      *)
(* replaces a row only after archiving it, and deletion archives first.    *)
THEOREM ArchiveSound == EnrolmentSpec => ReplacedKeysArchived
<1>. DEFINE Archived == \A k \in StoredKeys \ StoredKeys' :
       ~disturbed' => k \in {a.key : a \in archive'}
<1>1. EnrolmentIInv /\ CalmIInv /\ [EnrolmentNext]_enrolmentVars => [Archived]_enrolmentVars
  <2>. SUFFICES ASSUME EnrolmentIInv, CalmIInv, EnrolmentNext, NEW i \in DOMAIN nodes,
                       nodes[i].key \notin StoredKeys', ~disturbed'
                PROVE  nodes[i].key \in {a.key : a \in archive'}
    BY DEF StoredKeys
  <2>1. i \notin DOMAIN nodes' \/ nodes'[i] # nodes[i]
    BY DEF StoredKeys
  <2>2. ASSUME NEW h \in Handlers, UpdateByUUID(h)
        PROVE  nodes[i].key \in {a.key : a \in archive'}
    <3>1. i \in GetByUUID(handler[h].row.uuid) /\ UNCHANGED archive
      BY <2>1, <2>2 DEF UpdateByUUID
    <3>2. disturbed' # TRUE
      OBVIOUS
    <3>3. ~disturbed /\ At(h, "update")
      BY <2>2, <3>2 DEF UpdateByUUID, Fails, Succeeds
    <3>. QED  BY <3>1, <3>3 DEF CalmIInv, Calm, InHand, ArchivedKeys
  <2>3. ASSUME NEW h \in Handlers, Delete(h)
        PROVE  nodes[i].key \in {a.key : a \in archive'}
    <3>1. disturbed' # TRUE
      OBVIOUS
    <3>2. ~disturbed /\ At(h, "delete") /\ UNCHANGED archive
      BY <2>3, <3>1 DEF Delete, Fails, Succeeds
    <3>3. i = handler[h].id
      BY <2>1, <2>3 DEF Delete
    <3>4. [key |-> nodes[i].key, trigger |-> "delete"] \in archive'
      BY <3>2, <3>3 DEF CalmIInv, Calm, InHand, Deleted
    <3>5. \A k : [key |-> k, trigger |-> "delete"].key = k
      OBVIOUS
    <3>. QED  BY <3>4, <3>5
  <2>4. ASSUME NEW h \in Handlers, Create(h) PROVE FALSE
    <3>1. made + 1 \notin DOMAIN nodes
      BY EnrolmentAssumption DEF EnrolmentIInv, EnrolmentTypeOK
    <3>. QED  BY <2>1, <2>4, <3>1 DEF Create, Inserted
  <2>5. nodes' # nodes
    BY <2>1
  <2>. QED
    BY <2>2, <2>3, <2>4, <2>5
    DEF EnrolmentNext, EnrollCheck, Archive, History, Answer, TagNode, InsertTag, UntagNode,
        DeleteTag, Enroll, ArchiveDelete, TagNodes, Refused, Reinstall, NewTag, RemoveTag, Restart
<1>. QED
  BY <1>1, CalmHolds, EnrolmentInvariantHolds, PTL DEF EnrolmentSpec, ReplacedKeysArchived
=============================================================================

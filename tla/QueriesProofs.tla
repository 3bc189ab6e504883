---------------------------- MODULE QueriesProofs ----------------------------
(***************************************************************************)
(* Theorems about module Queries, for any fleet, any number of queries and *)
(* of goroutines, with and without failing database statements.            *)
(***************************************************************************)
EXTENDS QueriesOverlap, FiniteSetTheorems, TLAPS

-----------------------------------------------------------------------------
(* Typing: one lemma per kind of row, then one per actor. *)

LEMMA QueryRowType ==
  ASSUME NEW row \in QueryRow, NEW n \in Nat
  PROVE  /\ NoRow \in QueryRow
         /\ [row EXCEPT !.created = TRUE, !.active = TRUE] \in QueryRow
         /\ [row EXCEPT !.completed = TRUE, !.active = FALSE] \in QueryRow
         /\ [row EXCEPT !.completed = FALSE, !.active = TRUE] \in QueryRow
         /\ [row EXCEPT !.deleted = TRUE, !.active = FALSE] \in QueryRow
         /\ [row EXCEPT !.expected = n] \in QueryRow
<1>1. NoRow \in QueryRow
  BY DEF NoRow, QueryRow
<1>2. [row EXCEPT !.created = TRUE, !.active = TRUE] \in QueryRow
  BY DEF QueryRow
<1>3. [row EXCEPT !.completed = TRUE, !.active = FALSE] \in QueryRow
  BY DEF QueryRow
<1>4. [row EXCEPT !.completed = FALSE, !.active = TRUE] \in QueryRow
  BY DEF QueryRow
<1>5. [row EXCEPT !.deleted = TRUE, !.active = FALSE] \in QueryRow
  BY DEF QueryRow
<1>6. [row EXCEPT !.expected = n] \in QueryRow
  BY DEF QueryRow
<1>. QED  BY <1>1, <1>2, <1>3, <1>4, <1>5, <1>6

LEMMA RestingType ==
  ASSUME NEW pc \in {"idle", "lookup", "done"}
  PROVE  Resting(pc) \in WorkerState
BY DEF Resting, WorkerState, UUIDs

LEMMA InitTypeOK == Init => TypeOK
<1>. SUFFICES ASSUME Init PROVE TypeOK
  OBVIOUS
<1>1. query \in [Names -> QueryRow]
  <2>1. NoRow \in QueryRow
    BY DEF NoRow, QueryRow
  <2>. QED  BY <2>1 DEF Init
<1>2. run \in [Names -> RunState]
  BY DEF Init, RunState, RequestKinds
<1>3. node \in [Nodes -> NodeRow]
  <2>1. /\ [present |-> TRUE, key |-> 1, seen |-> TRUE] \in NodeRow
        /\ [present |-> TRUE, key |-> 1, seen |-> FALSE] \in NodeRow
        /\ [present |-> FALSE, key |-> 0, seen |-> FALSE] \in NodeRow
    BY DEF NodeRow
  <2>. QED  BY <2>1 DEF Init
<1>4. read \in [Nodes -> ReadState]
  BY DEF Init, ReadState
<1>5. worker \in [Workers -> WorkerState]
  BY RestingType DEF Init
<1>. QED  BY <1>1, <1>2, <1>3, <1>4, <1>5 DEF Init, TypeOK

LEMMA RequesterTypeOK ==
  ASSUME TypeOK, NEW q \in Names
  PROVE  /\ \A by \in RequestKinds : RunCreate(q, by) => TypeOK'
         /\ RunCount(q) => TypeOK'
         /\ RunSetExpected(q) => TypeOK'
         /\ RunAbort(q) => TypeOK'
         /\ \A t \in Targets : RunTarget(q, t) => TypeOK'
<1>0. /\ run \in [Names -> RunState] /\ run[q] \in RunState
      /\ query \in [Names -> QueryRow] /\ query[q] \in QueryRow
  BY DEF TypeOK
<1>1. ASSUME NEW by \in RequestKinds, RunCreate(q, by) PROVE TypeOK'
  <2>1. query' \in [Names -> QueryRow]
    <3>1. [query[q] EXCEPT !.created = TRUE, !.active = TRUE] \in QueryRow
      BY <1>0, QueryRowType
    <3>. QED  BY <1>0, <1>1, <3>1 DEF RunCreate
  <2>2. PICK T \in Choices : run' = [run EXCEPT ![q] =
          [pc |-> "target", by |-> by, todo |-> T, expected |-> {}]]
    BY <1>1 DEF RunCreate
  <2>3. [pc |-> "target", by |-> by, todo |-> T, expected |-> {}] \in RunState
    BY ConstantsAssumption DEF RunState
  <2>4. run' \in [Names -> RunState]
    BY <1>0, <2>2, <2>3
  <2>. QED  BY <1>1, <2>1, <2>4 DEF RunCreate, TypeOK
<1>2. ASSUME RunCount(q) PROVE TypeOK'
  <2>1. PICK t \in run[q].todo \cap targets[q] :
          run' = [run EXCEPT ![q] = [pc |-> "target", by |-> @.by, todo |-> @.todo \ {t},
                                     expected |-> @.expected \cup ExpectedOf(q, t)]]
    BY <1>2 DEF RunCount
  <2>2. t \in Targets
    BY <1>0, <2>1 DEF RunState
  <2>3. ExpectedOf(q, t) \subseteq Nodes \cup Targets
    BY <2>2, ConstantsAssumption DEF ExpectedOf, TargetTypes
  <2>4. [pc |-> "target", by |-> run[q].by, todo |-> run[q].todo \ {t},
         expected |-> run[q].expected \cup ExpectedOf(q, t)] \in RunState
    BY <1>0, <2>3 DEF RunState
  <2>5. run' \in [Names -> RunState]
    BY <1>0, <2>1, <2>4
  <2>. QED  BY <1>2, <2>5 DEF RunCount, rows, TypeOK
<1>3. ASSUME RunSetExpected(q) PROVE TypeOK'
  <2>1. run[q].expected \subseteq Nodes \cup Targets
    BY <1>0 DEF RunState
  <2>2. IsFiniteSet(Nodes \cup Targets)
    BY ConstantsAssumption, FS_Union
  <2>3. Cardinality(run[q].expected) \in Nat
    BY <2>1, <2>2, FS_Subset, FS_CardinalityType
  <2>4. [query[q] EXCEPT !.expected = Cardinality(run[q].expected)] \in QueryRow
    BY <1>0, <2>3, QueryRowType
  <2>5. query' \in [Names -> QueryRow]
    BY <1>0, <1>3, <2>4 DEF RunSetExpected
  <2>6. [run[q] EXCEPT !.pc = "done"] \in RunState
    BY <1>0 DEF RunState
  <2>7. run' \in [Names -> RunState]
    BY <1>0, <1>3, <2>6 DEF RunSetExpected
  <2>. QED  BY <1>3, <2>5, <2>7 DEF RunSetExpected, TypeOK
<1>4. ASSUME RunAbort(q) PROVE TypeOK'
  <2>1. [run[q] EXCEPT !.pc = "failed"] \in RunState
    BY <1>0 DEF RunState
  <2>2. run' \in [Names -> RunState]
    BY <1>0, <1>4, <2>1 DEF RunAbort
  <2>. QED  BY <1>4, <2>2 DEF RunAbort, rows, TypeOK
<1>5. ASSUME NEW t \in Targets, RunTarget(q, t) PROVE TypeOK'
  <2>1. /\ [run[q] EXCEPT !.pc = "count"] \in RunState
        /\ [run[q] EXCEPT !.todo = @ \ {t}] \in RunState
    BY <1>0 DEF RunState
  <2>2. run' \in [Names -> RunState]
    BY <1>0, <1>5, <2>1 DEF RunTarget
  <2>3. targets' \in [Names -> SUBSET Targets]
    BY <1>5 DEF RunTarget, TypeOK
  <2>. QED  BY <1>5, <2>2, <2>3 DEF RunTarget, TypeOK
<1>. QED  BY <1>1, <1>2, <1>3, <1>4, <1>5

LEMMA OperatorTypeOK ==
  ASSUME TypeOK, NEW q \in Names, Complete(q) \/ Activate(q) \/ Delete(q)
  PROVE  TypeOK'
<1>1. query \in [Names -> QueryRow] /\ query[q] \in QueryRow
  BY DEF TypeOK
<1>2. PICK row \in QueryRow : SetFlags(q, row)
  BY <1>1, QueryRowType DEF Complete, Activate, Delete
<1>3. query' \in [Names -> QueryRow]
  BY <1>1, <1>2 DEF SetFlags
<1>. QED  BY <1>2, <1>3 DEF SetFlags, TypeOK

LEMMA NodeTypeOK ==
  ASSUME TypeOK, NEW n \in Nodes, NodeStep(n)
  PROVE  TypeOK'
<1>0. /\ node \in [Nodes -> NodeRow] /\ node[n] \in NodeRow
      /\ read \in [Nodes -> ReadState] /\ read[n] \in ReadState
      /\ pending \in [Nodes -> SUBSET Names]
      /\ worker \in [Workers -> WorkerState]
  BY DEF TypeOK
<1>. USE DEF rows
<1>1. CASE Enroll(n)
  <2>1. node[n].key + 1 \in Nat
    BY <1>0 DEF NodeRow
  <2>2. [present |-> TRUE, key |-> node[n].key + 1, seen |-> TRUE] \in NodeRow
    BY <2>1 DEF NodeRow
  <2>3. node' \in [Nodes -> NodeRow]
    BY <1>0, <1>1, <2>2 DEF Enroll
  <2>. QED  BY <1>1, <2>3 DEF Enroll, TypeOK
<1>2. CASE RemoveNode(n)
  <2>1. [node[n] EXCEPT !.present = FALSE, !.seen = FALSE] \in NodeRow
    BY <1>0 DEF NodeRow
  <2>2. node' \in [Nodes -> NodeRow]
    BY <1>0, <1>2, <2>1 DEF RemoveNode
  <2>. QED  BY <1>2, <2>2 DEF RemoveNode, TypeOK
<1>3. CASE ReadBegin(n)
  <2>1. [node[n] EXCEPT !.seen = TRUE] \in NodeRow
    BY <1>0 DEF NodeRow
  <2>2. node' \in [Nodes -> NodeRow]
    BY <1>0, <1>3, <2>1 DEF ReadBegin
  <2>3. [busy |-> TRUE, found |-> {}, left |-> {q \in Names : query[q].active}]
          \in ReadState
    BY DEF ReadState
  <2>4. read' \in [Nodes -> ReadState]
    BY <1>0, <1>3, <2>3 DEF ReadBegin
  <2>. QED  BY <1>3, <2>2, <2>4 DEF ReadBegin, TypeOK
<1>4. CASE ReadReply(n)
  <2>1. [busy |-> FALSE, left |-> {}, found |-> {}] \in ReadState
    BY DEF ReadState
  <2>2. read' \in [Nodes -> ReadState]
    BY <1>0, <1>4, <2>1 DEF ReadReply
  <2>3. read[n].found \subseteq Names
    BY <1>0 DEF ReadState
  <2>4. pending' \in [Nodes -> SUBSET Names]
    BY <1>0, <1>4, <2>3 DEF ReadReply
  <2>. QED  BY <1>4, <2>2, <2>4 DEF ReadReply, TypeOK
<1>5. ASSUME NEW q \in Names, ReadCheck(n, q) PROVE TypeOK'
  <2>1. /\ [read[n] EXCEPT !.left = @ \ {q}, !.found = @ \cup {q}] \in ReadState
        /\ [read[n] EXCEPT !.left = @ \ {q}, !.found = @] \in ReadState
    BY <1>0 DEF ReadState
  <2>2. read' \in [Nodes -> ReadState]
    BY <1>0, <1>5, <2>1 DEF ReadCheck
  <2>. QED  BY <1>5, <2>2 DEF ReadCheck, TypeOK
<1>6. ASSUME NEW w \in Workers, Write(n, w) PROVE TypeOK'
  <2>1. PICK failed \in SUBSET pending[n] :
          worker' = [worker EXCEPT ![w] =
            [Resting("lookup") EXCEPT !.from = n, !.key = node[n].key,
                                      !.todo = pending[n], !.failed = failed]]
    BY <1>6 DEF Write
  <2>2. /\ node[n].key \in Nat /\ pending[n] \subseteq Names
        /\ failed \subseteq Names /\ n \in UUIDs
    BY <1>0 DEF NodeRow, UUIDs
  <2>3. [Resting("lookup") EXCEPT !.from = n, !.key = node[n].key,
           !.todo = pending[n], !.failed = failed] \in WorkerState
    BY <2>2, RestingType DEF WorkerState
  <2>4. worker' \in [Workers -> WorkerState]
    BY <1>0, <2>1, <2>3
  <2>5. pending' \in [Nodes -> SUBSET Names]
    BY <1>0, <1>6 DEF Write
  <2>. QED  BY <1>6, <2>4, <2>5 DEF Write, TypeOK
<1>. QED  BY <1>1, <1>2, <1>3, <1>4, <1>5, <1>6 DEF NodeStep

-----------------------------------------------------------------------------
(* The inductive invariant.  The bound on the counters is kept by an       *)
(* increment only because the value read before it was bounded as well     *)
(* (SeenBounded), and because a goroutine writes the increment of a result *)
(* once (CountedOnce), so that this write adds to the results counted.     *)

Handling == {"inc", "write", "track", "verify", "complete"}

HandlesAName ==
  \A w \in Workers :
    worker[w].pc \in Handling => worker[w].name \in Names \ worker[w].todo

CountedOnce ==
  \A a \in counted :
    /\ worker[a.by].pc \notin {"idle", "lookup"}
    /\ a.name \notin worker[a.by].todo
    /\ worker[a.by].pc \in {"inc", "write"} => a.name # worker[a.by].name

SeenBounded ==
  \A w \in Workers :
    worker[w].pc = "write" =>
      worker[w].seen <= Cardinality(CountedFor(worker[w].name, Current(w).result))

IInv ==
  /\ TypeOK /\ HandlesAName
  /\ IsFiniteSet(counted) /\ CountedOnce /\ SeenBounded
  /\ CountersNeverOverstate /\ VerdictNeverEarly

LEMMA CurrentType ==
  ASSUME TypeOK, NEW w \in Workers, worker[w].name \in Names
  PROVE  /\ Current(w) \in Answer
         /\ Current(w).name = worker[w].name /\ Current(w).by = w
         /\ Current(w).result \in Results
<1>1. worker[w] \in WorkerState
  BY DEF TypeOK
<1>2. worker[w].uuid \in UUIDs
  BY <1>1 DEF WorkerState
<1>. QED  BY <1>2 DEF Current, Answer, Results

(* The next state of goroutine w is one of its type. *)
LEMMA WorkerRowType ==
  ASSUME TypeOK, NEW w \in Workers, NEW state \in WorkerState,
         worker' = [worker EXCEPT ![w] = state]
  PROVE  /\ worker' \in [Workers -> WorkerState]
         /\ worker'[w] = state
         /\ \A v \in Workers : v # w => worker'[v] = worker[v]
BY DEF TypeOK

(* Proceed leaves a goroutine with nothing at hand. *)
LEMMA ProceedType ==
  ASSUME TypeOK, NEW w \in Workers, Proceed(w)
  PROVE  /\ worker' \in [Workers -> WorkerState]
         /\ worker'[w].pc \in {"next", "done"}
         /\ worker'[w].todo \subseteq worker[w].todo
         /\ \A v \in Workers : v # w => worker'[v] = worker[v]
<1>1. worker[w] \in WorkerState
  BY DEF TypeOK
<1>2. PICK state \in WorkerState :
        /\ worker' = [worker EXCEPT ![w] = state]
        /\ state.pc \in {"next", "done"} /\ state.todo \subseteq worker[w].todo
  <2>1. CASE worker[w].todo = {}
    <3>1. /\ Resting("done") \in WorkerState
          /\ Resting("done").pc = "done" /\ Resting("done").todo = {}
      BY RestingType DEF Resting
    <3>. QED  BY <2>1, <3>1 DEF Proceed
  <2>2. CASE worker[w].todo # {}
    <3>. DEFINE state == [worker[w] EXCEPT !.pc = "next", !.name = NoName,
                                           !.seen = 0, !.quota = 0]
    <3>1. state \in WorkerState /\ state.pc = "next" /\ state.todo = worker[w].todo
      BY <1>1 DEF WorkerState
    <3>2. worker' = [worker EXCEPT ![w] = state]
      BY <2>2 DEF Proceed
    <3>. QED  BY <3>1, <3>2
  <2>. QED  BY <2>1, <2>2
<1>. QED  BY <1>2, WorkerRowType

(* Typing of the goroutines' steps, with the name of the result at hand. *)
LEMMA WorkerTypeOK ==
  ASSUME TypeOK, HandlesAName, NEW w \in Workers, WorkerStep(w)
  PROVE  TypeOK' /\ HandlesAName'
<1>0. worker[w] \in WorkerState /\ worker \in [Workers -> WorkerState]
  BY DEF TypeOK
<1>. USE DEF rows
<1>1. ASSUME Goto(w, "track") \/ Goto(w, "verify"), worker[w].pc \in Handling
      PROVE  worker' \in [Workers -> WorkerState] /\ HandlesAName'
  <2>1. PICK pc \in {"track", "verify"} :
          worker' = [worker EXCEPT ![w] = [worker[w] EXCEPT !.pc = pc]]
    BY <1>1 DEF Goto
  <2>2. /\ [worker[w] EXCEPT !.pc = pc] \in WorkerState
        /\ [worker[w] EXCEPT !.pc = pc].name = worker[w].name
        /\ [worker[w] EXCEPT !.pc = pc].todo = worker[w].todo
    BY <1>0 DEF WorkerState
  <2>3. worker[w].name \in Names \ worker[w].todo
    BY <1>1 DEF HandlesAName
  <2>. QED  BY <2>1, <2>2, <2>3, WorkerRowType DEF HandlesAName
<1>2. ASSUME Proceed(w)
      PROVE  worker' \in [Workers -> WorkerState] /\ HandlesAName'
  BY <1>2, ProceedType DEF HandlesAName, Handling
<1>3. CASE Lookup(w)
  <2>1. PICK uuid \in UUIDs : worker' = [worker EXCEPT ![w] =
          [worker[w] EXCEPT !.pc = "next", !.uuid = uuid]]
    <3>1. worker[w].from \in UUIDs /\ NoUUID \in UUIDs
      BY <1>0 DEF WorkerState, UUIDs
    <3>. QED  BY <1>3, <3>1 DEF Lookup
  <2>2. /\ [worker[w] EXCEPT !.pc = "next", !.uuid = uuid] \in WorkerState
        /\ [worker[w] EXCEPT !.pc = "next", !.uuid = uuid].pc = "next"
    BY <1>0 DEF WorkerState
  <2>3. worker' \in [Workers -> WorkerState] /\ HandlesAName'
    BY <2>1, <2>2, WorkerRowType DEF HandlesAName, Handling
  <2>. QED  BY <1>3, <2>3 DEF Lookup, TypeOK
<1>4. CASE Take(w)
  <2>0. PICK q \in worker[w].todo :
          /\ worker' = [worker EXCEPT ![w].pc = "inc", ![w].name = q, ![w].todo = @ \ {q}]
          /\ dispatch' = dispatch \cup {[Current(w) EXCEPT !.name = q,
               !.result = IF q \in worker[w].failed THEN "error" ELSE "ok"]}
    BY <1>4, Zenon DEF Take
  <2>1. worker' = [worker EXCEPT ![w] =
          [worker[w] EXCEPT !.pc = "inc", !.name = q, !.todo = @ \ {q}]]
    BY <1>0, <2>0
  <2>2. q \in Names /\ worker[w].uuid \in UUIDs
    BY <1>0, <2>0 DEF WorkerState
  <2>3. /\ [worker[w] EXCEPT !.pc = "inc", !.name = q, !.todo = @ \ {q}] \in WorkerState
        /\ [worker[w] EXCEPT !.pc = "inc", !.name = q, !.todo = @ \ {q}].name = q
        /\ [worker[w] EXCEPT !.pc = "inc", !.name = q, !.todo = @ \ {q}].todo
             = worker[w].todo \ {q}
    BY <1>0, <2>2 DEF WorkerState
  <2>4. worker' \in [Workers -> WorkerState] /\ HandlesAName'
    BY <2>1, <2>2, <2>3, WorkerRowType DEF HandlesAName, Handling
  <2>5. dispatch' \subseteq Answer
    BY <2>0, <2>2 DEF TypeOK, Current, Answer, Results
  <2>. QED  BY <1>4, <2>4, <2>5 DEF Take, TypeOK
<1>5. CASE IncRead(w)
  <2>1. /\ worker[w].name \in Names \ worker[w].todo
        /\ Current(w).result \in Results
    BY <1>5, CurrentType DEF IncRead, HandlesAName, Handling
  <2>0. tally[worker[w].name][Current(w).result] \in Nat
    BY <2>1 DEF TypeOK
  <2>2. PICK n \in Nat : worker' = [worker EXCEPT ![w] =
          [worker[w] EXCEPT !.pc = "write", !.seen = n]]
    BY <1>5, <2>0 DEF IncRead
  <2>3. /\ [worker[w] EXCEPT !.pc = "write", !.seen = n] \in WorkerState
        /\ [worker[w] EXCEPT !.pc = "write", !.seen = n].name = worker[w].name
        /\ [worker[w] EXCEPT !.pc = "write", !.seen = n].todo = worker[w].todo
    BY <1>0 DEF WorkerState
  <2>4. worker' \in [Workers -> WorkerState] /\ HandlesAName'
    BY <2>1, <2>2, <2>3, WorkerRowType DEF HandlesAName
  <2>. QED  BY <1>5, <2>4 DEF IncRead, TypeOK
<1>6. CASE IncWrite(w)
  <2>1. worker[w].name \in Names /\ Current(w).result \in Results /\ Current(w) \in Answer
    BY <1>6, CurrentType DEF IncWrite, HandlesAName, Handling
  <2>2. worker[w].seen + 1 \in Nat
    BY <1>0 DEF WorkerState
  <2>3. tally' \in [Names -> [Results -> Nat]]
    BY <1>6, <2>1, <2>2 DEF IncWrite, TypeOK
  <2>4. worker' \in [Workers -> WorkerState] /\ HandlesAName'
    BY <1>1, <1>6 DEF IncWrite, Handling
  <2>. QED  BY <1>6, <2>1, <2>3, <2>4 DEF IncWrite, TypeOK
<1>7. CASE IncFail(w)
  <2>1. worker' \in [Workers -> WorkerState] /\ HandlesAName'
    BY <1>1, <1>7 DEF IncFail, Handling
  <2>. QED  BY <1>7, <2>1 DEF IncFail, TypeOK
<1>8. CASE TrackExecution(w)
  <2>1. Current(w) \in Answer
    BY <1>8, CurrentType DEF TrackExecution, HandlesAName, Handling
  <2>2. worker' \in [Workers -> WorkerState] /\ HandlesAName'
    BY <1>1, <1>8 DEF TrackExecution, Handling
  <2>3. execs' \subseteq Answer
    BY <1>8, <2>1 DEF TrackExecution, TypeOK
  <2>. QED  BY <1>8, <2>2, <2>3 DEF TrackExecution, TypeOK
<1>9. CASE Verify(w)
  <2>1. CASE Proceed(w)
    BY <1>2, <1>9, <2>1 DEF Verify, TypeOK
  <2>2. CASE worker' = [worker EXCEPT ![w].pc = "complete",
                          ![w].quota = query[worker[w].name].expected]
    <3>1. worker[w].name \in Names \ worker[w].todo
      BY <1>9 DEF Verify, HandlesAName, Handling
    <3>2. query[worker[w].name].expected \in Nat
      BY <3>1 DEF TypeOK, QueryRow
    <3>3. PICK n \in Nat : worker' = [worker EXCEPT ![w] =
            [worker[w] EXCEPT !.pc = "complete", !.quota = n]]
      BY <2>2, <3>2
    <3>4. /\ [worker[w] EXCEPT !.pc = "complete", !.quota = n] \in WorkerState
          /\ [worker[w] EXCEPT !.pc = "complete", !.quota = n].name = worker[w].name
          /\ [worker[w] EXCEPT !.pc = "complete", !.quota = n].todo = worker[w].todo
      BY <1>0 DEF WorkerState
    <3>5. worker' \in [Workers -> WorkerState] /\ HandlesAName'
      BY <3>1, <3>3, <3>4, WorkerRowType DEF HandlesAName
    <3>. QED  BY <1>9, <3>5 DEF Verify, TypeOK
  <2>. QED  BY <1>9, <2>1, <2>2 DEF Verify
<1>10. CASE VerifyComplete(w)
  <2>1. worker[w].name \in Names
    BY <1>10 DEF VerifyComplete, HandlesAName, Handling
  <2>2. [query[worker[w].name] EXCEPT !.completed = TRUE, !.active = FALSE] \in QueryRow
    BY <2>1, QueryRowType DEF TypeOK
  <2>3. query' \in [Names -> QueryRow]
    BY <1>10, <2>1, <2>2 DEF VerifyComplete, TypeOK
  <2>4. worker' \in [Workers -> WorkerState] /\ HandlesAName'
    BY <1>2, <1>10 DEF VerifyComplete
  <2>. QED  BY <1>10, <2>3, <2>4 DEF VerifyComplete, TypeOK
<1>. QED
  BY <1>3, <1>4, <1>5, <1>6, <1>7, <1>8, <1>9, <1>10 DEF WorkerStep

-----------------------------------------------------------------------------
(* Counting *)

LEMMA CountedForFinite ==
  ASSUME IsFiniteSet(counted), NEW q, NEW r
  PROVE  IsFiniteSet(CountedFor(q, r)) /\ Cardinality(CountedFor(q, r)) \in Nat
<1>1. CountedFor(q, r) \subseteq counted
  BY DEF CountedFor
<1>. QED  BY <1>1, FS_Subset, FS_CardinalityType

(* One more result counted adds one to its own count and to no other. *)
LEMMA CountedForGrows ==
  ASSUME IsFiniteSet(counted), NEW a, a \notin counted, counted' = counted \cup {a},
         NEW q, NEW r
  PROVE  Cardinality(CountedFor(q, r))' =
           Cardinality(CountedFor(q, r)) + (IF a.name = q /\ a.result = r THEN 1 ELSE 0)
<1>1. IsFiniteSet(CountedFor(q, r)) /\ Cardinality(CountedFor(q, r)) \in Nat
  BY CountedForFinite
<1>2. CASE a.name = q /\ a.result = r
  <2>1. CountedFor(q, r)' = CountedFor(q, r) \cup {a} /\ a \notin CountedFor(q, r)
    BY <1>2 DEF CountedFor
  <2>2. Cardinality(CountedFor(q, r)') = Cardinality(CountedFor(q, r)) + 1
    BY <1>1, <2>1, FS_AddElement
  <2>. QED  BY <1>2, <2>2
<1>3. CASE ~(a.name = q /\ a.result = r)
  <2>1. CountedFor(q, r)' = CountedFor(q, r)
    BY <1>3 DEF CountedFor
  <2>. QED  BY <1>1, <1>3, <2>1
<1>. QED  BY <1>2, <1>3

-----------------------------------------------------------------------------
(* The invariant holds *)

LEMMA InitIInv == Init => IInv
<1>. SUFFICES ASSUME Init PROVE IInv
  OBVIOUS
<1>1. TypeOK
  BY InitTypeOK
<1>2. IsFiniteSet(counted) /\ counted = {}
  BY FS_EmptySet DEF Init
<1>3. \A w \in Workers : worker[w].pc = "idle"
  BY DEF Init, Resting
<1>4. HandlesAName /\ CountedOnce /\ SeenBounded /\ VerdictNeverEarly
  BY <1>2, <1>3 DEF HandlesAName, Handling, CountedOnce, SeenBounded, VerdictNeverEarly
<1>5. CountersNeverOverstate
  <2>1. SUFFICES ASSUME NEW q \in Names, NEW r \in Results
                 PROVE  tally[q][r] <= Cardinality(CountedFor(q, r))
    BY DEF CountersNeverOverstate
  <2>2. Cardinality(CountedFor(q, r)) \in Nat
    BY <1>2, CountedForFinite
  <2>3. tally[q][r] = 0
    BY DEF Init
  <2>. QED  BY <2>2, <2>3
<1>. QED  BY <1>1, <1>2, <1>4, <1>5 DEF IInv

(* Steps that concern no goroutine. *)
LEMMA ElsewhereIInv ==
  ASSUME IInv, TypeOK', UNCHANGED <<counted, tally, worker>>
  PROVE  IInv'
<1>1. \A q, r : CountedFor(q, r)' = CountedFor(q, r)
  BY DEF CountedFor
<1>2. CountersNeverOverstate'
  BY <1>1 DEF IInv, CountersNeverOverstate
<1>3. CountedOnce' /\ HandlesAName'
  BY DEF IInv, CountedOnce, HandlesAName
<1>4. SeenBounded'
  BY <1>1 DEF IInv, SeenBounded, Current
<1>5. VerdictNeverEarly'
  BY <1>1 DEF IInv, VerdictNeverEarly, Answers
<1>. QED  BY <1>2, <1>3, <1>4, <1>5 DEF IInv

(* Steps of goroutine w that increment no counter: what has to be shown of *)
(* its next state is collected in the last three hypotheses.               *)
LEMMA GoroutineIInv ==
  ASSUME IInv, TypeOK', HandlesAName', UNCHANGED <<counted, tally>>,
         NEW w \in Workers,
         \A v \in Workers : v # w => worker'[v] = worker[v],
         \A a \in counted : a.by = w =>
           /\ worker'[w].pc \notin {"idle", "lookup"}
           /\ a.name \notin worker'[w].todo
           /\ worker'[w].pc \in {"inc", "write"} => a.name # worker'[w].name,
         worker'[w].pc = "write" =>
           worker'[w].seen <= Cardinality(CountedFor(worker'[w].name, Current(w)'.result)),
         worker'[w].pc = "complete" => worker'[w].quota <= Answers(worker'[w].name)
  PROVE  IInv'
<1>1. \A q, r : CountedFor(q, r)' = CountedFor(q, r)
  BY DEF CountedFor
<1>2. CountersNeverOverstate'
  BY <1>1 DEF IInv, CountersNeverOverstate
<1>3. CountedOnce'
  BY DEF IInv, CountedOnce, TypeOK, Answer
<1>4. \A v \in Workers : v # w => Current(v)' = Current(v)
  BY DEF Current
<1>5. SeenBounded'
  BY <1>1, <1>4 DEF IInv, SeenBounded
<1>6. VerdictNeverEarly'
  BY <1>1 DEF IInv, VerdictNeverEarly, Answers
<1>. QED  BY <1>2, <1>3, <1>5, <1>6 DEF IInv

(* A new goroutine has counted nothing yet. *)
LEMMA WriteIInv ==
  ASSUME IInv, TypeOK', NEW n \in Nodes, NEW w \in Workers, Write(n, w)
  PROVE  IInv'
<1>1. worker'[w].pc = "lookup" /\ (\A v \in Workers : v # w => worker'[v] = worker[v])
  BY DEF Write, Resting, IInv, TypeOK
<1>2. \A a \in counted : a.by # w
  BY DEF Write, IInv, CountedOnce
<1>3. HandlesAName'
  BY <1>1 DEF IInv, HandlesAName, Handling
<1>4. UNCHANGED <<counted, tally>>
  BY DEF Write, rows
<1>. QED  BY <1>1, <1>2, <1>3, <1>4, GoroutineIInv

(* The write of a counter: the value read before was bounded, and the      *)
(* result was not counted before.                                          *)
LEMMA IncWriteIInv ==
  ASSUME IInv, TypeOK', HandlesAName', NEW w \in Workers, IncWrite(w)
  PROVE  IInv'
<1>0. /\ worker[w].name \in Names /\ worker[w].name \notin worker[w].todo
      /\ Current(w) \in Answer /\ Current(w).result \in Results
      /\ Current(w).name = worker[w].name /\ Current(w).by = w
  BY CurrentType DEF IncWrite, IInv, HandlesAName, Handling
<1>1. PICK q \in Names, r \in Results :
        /\ q = worker[w].name /\ r = Current(w).result
        /\ Current(w).name = q /\ Current(w).by = w
  BY <1>0
<1>2. Current(w) \notin counted
  BY <1>1 DEF IInv, CountedOnce, IncWrite
<1>3. /\ counted' = counted \cup {Current(w)} /\ IsFiniteSet(counted)
      /\ tally' = [tally EXCEPT ![q][r] = worker[w].seen + 1]
      /\ worker' = [worker EXCEPT ![w].pc = "track"]
  BY <1>1 DEF IncWrite, Goto, IInv
<1>4. IsFiniteSet(counted')
  BY <1>3, FS_AddElement
<1>5. \A p, s : /\ Cardinality(CountedFor(p, s)) \in Nat
                /\ Cardinality(CountedFor(p, s))' >= Cardinality(CountedFor(p, s))
                /\ Cardinality(CountedFor(p, s))' \in Nat
  <2>1. SUFFICES ASSUME NEW p, NEW s
                 PROVE  /\ Cardinality(CountedFor(p, s)) \in Nat
                        /\ Cardinality(CountedFor(p, s))' >= Cardinality(CountedFor(p, s))
                        /\ Cardinality(CountedFor(p, s))' \in Nat
    OBVIOUS
  <2>2. Cardinality(CountedFor(p, s)) \in Nat
    BY <1>3, CountedForFinite
  <2>. QED  BY <1>2, <1>3, <2>2, CountedForGrows
<1>6. Cardinality(CountedFor(q, r))' = Cardinality(CountedFor(q, r)) + 1
  BY <1>1, <1>2, <1>3, CountedForGrows
<1>7. worker[w].seen <= Cardinality(CountedFor(q, r)) /\ worker[w].seen \in Nat
  BY <1>1 DEF IInv, SeenBounded, IncWrite, TypeOK, WorkerState
<1>8. CountersNeverOverstate'
  <2>1. SUFFICES ASSUME NEW p \in Names, NEW s \in Results
                 PROVE  tally'[p][s] <= Cardinality(CountedFor(p, s))'
    BY DEF CountersNeverOverstate
  <2>2. CASE p = q /\ s = r
    <3>1. tally'[p][s] = worker[w].seen + 1
      BY <1>1, <1>3, <2>2 DEF IInv, TypeOK
    <3>. QED  BY <1>5, <1>6, <1>7, <2>2, <3>1
  <2>3. CASE ~(p = q /\ s = r)
    <3>1. tally'[p][s] = tally[p][s] /\ tally[p][s] \in Nat
      BY <1>1, <1>3, <2>3 DEF IInv, TypeOK
    <3>2. tally[p][s] <= Cardinality(CountedFor(p, s))
      BY DEF IInv, CountersNeverOverstate
    <3>. QED  BY <1>5, <3>1, <3>2
  <2>. QED  BY <2>2, <2>3
<1>9. /\ worker'[w].pc = "track" /\ worker'[w].todo = worker[w].todo
      /\ worker'[w].name = q
      /\ \A v \in Workers : v # w => worker'[v] = worker[v] /\ Current(v)' = Current(v)
  BY <1>1, <1>3 DEF IInv, TypeOK, WorkerState, Current
<1>10. CountedOnce'
  <2>1. SUFFICES ASSUME NEW a \in counted'
                 PROVE  /\ worker'[a.by].pc \notin {"idle", "lookup"}
                        /\ a.name \notin worker'[a.by].todo
                        /\ worker'[a.by].pc \in {"inc", "write"} => a.name # worker'[a.by].name
    BY DEF CountedOnce
  <2>2. CASE a \in counted
    BY <1>9, <2>2 DEF IInv, CountedOnce, TypeOK, Answer
  <2>3. CASE a = Current(w)
    BY <1>0, <1>1, <1>9, <2>3
  <2>. QED  BY <1>3, <2>2, <2>3
<1>11. SeenBounded'
  <2>1. SUFFICES ASSUME NEW v \in Workers, worker'[v].pc = "write"
                 PROVE  (worker[v].seen
                           <= Cardinality(CountedFor(worker[v].name, Current(v).result)))'
    BY DEF SeenBounded
  <2>2. /\ worker'[v] = worker[v] /\ Current(v)' = Current(v)
        /\ worker[v].seen \in Nat
    BY <1>9, <2>1 DEF IInv, TypeOK, WorkerState
  <2>3. worker[v].seen <= Cardinality(CountedFor(worker[v].name, Current(v).result))
    BY <2>1, <2>2 DEF IInv, SeenBounded
  <2>. QED  BY <1>5, <2>2, <2>3
<1>12. VerdictNeverEarly'
  <2>1. SUFFICES ASSUME NEW v \in Workers, worker'[v].pc = "complete"
                 PROVE  (worker[v].quota <= Answers(worker[v].name))'
    BY DEF VerdictNeverEarly
  <2>2. worker'[v] = worker[v] /\ worker[v].quota \in Nat
    BY <1>9, <2>1 DEF IInv, TypeOK, WorkerState
  <2>3. worker[v].quota <= Answers(worker[v].name)
    BY <2>1, <2>2 DEF IInv, VerdictNeverEarly
  <2>. QED  BY <1>5, <2>2, <2>3 DEF Answers
<1>. QED  BY <1>4, <1>8, <1>10, <1>11, <1>12 DEF IInv

LEMMA WorkerIInv ==
  ASSUME IInv, TypeOK', HandlesAName', NEW w \in Workers, WorkerStep(w)
  PROVE  IInv'
<1>0. worker[w] \in WorkerState /\ worker \in [Workers -> WorkerState]
  BY DEF IInv, TypeOK
<1>. USE DEF rows
<1>1. ASSUME Proceed(w), worker[w].pc \in {"verify", "complete"},
             UNCHANGED <<counted, tally>>
      PROVE  IInv'
  <2>1. /\ worker'[w].pc \in {"next", "done"}
        /\ worker'[w].todo \subseteq worker[w].todo
        /\ \A v \in Workers : v # w => worker'[v] = worker[v]
    BY <1>1, ProceedType DEF IInv
  <2>2. \A a \in counted : a.by = w => a.name \notin worker[w].todo
    BY DEF IInv, CountedOnce
  <2>. QED  BY <1>1, <2>1, <2>2, GoroutineIInv
<1>2. ASSUME NEW pc \in {"track", "verify"}, Goto(w, pc), worker[w].pc \in Handling,
             UNCHANGED <<counted, tally>>
      PROVE  IInv'
  <2>1. /\ worker'[w].pc = pc /\ worker'[w].todo = worker[w].todo
        /\ \A v \in Workers : v # w => worker'[v] = worker[v]
    BY <1>0, <1>2 DEF Goto, WorkerState
  <2>2. \A a \in counted : a.by = w => a.name \notin worker[w].todo
    BY DEF IInv, CountedOnce
  <2>. QED  BY <1>2, <2>1, <2>2, GoroutineIInv
<1>3. CASE Lookup(w)
  <2>1. /\ worker'[w].pc = "next" /\ worker'[w].todo = worker[w].todo
        /\ \A v \in Workers : v # w => worker'[v] = worker[v]
    BY <1>0, <1>3 DEF Lookup, WorkerState
  <2>2. \A a \in counted : a.by # w
    BY <1>3 DEF Lookup, IInv, CountedOnce
  <2>. QED  BY <1>3, <2>1, <2>2, GoroutineIInv DEF Lookup
<1>4. CASE Take(w)
  <2>1. PICK q \in worker[w].todo :
          worker' = [worker EXCEPT ![w].pc = "inc", ![w].name = q, ![w].todo = @ \ {q}]
    BY <1>4, Zenon DEF Take
  <2>2. /\ worker'[w].pc = "inc" /\ worker'[w].name = q
        /\ worker'[w].todo = worker[w].todo \ {q}
        /\ \A v \in Workers : v # w => worker'[v] = worker[v]
    BY <1>0, <2>1 DEF WorkerState
  <2>3. \A a \in counted : a.by = w => a.name \notin worker[w].todo
    BY DEF IInv, CountedOnce
  <2>4. \A a \in counted : a.by = w =>
          /\ worker'[w].pc \notin {"idle", "lookup"}
          /\ a.name \notin worker'[w].todo
          /\ worker'[w].pc \in {"inc", "write"} => a.name # worker'[w].name
    BY <2>1, <2>2, <2>3
  <2>5. UNCHANGED <<counted, tally>>
    BY <1>4 DEF Take
  <2>6. worker'[w].pc # "write" /\ worker'[w].pc # "complete"
    BY <2>2
  <2>. QED  BY <2>2, <2>4, <2>5, <2>6, GoroutineIInv
<1>5. CASE IncRead(w)
  <2>1. /\ worker[w].name \in Names /\ Current(w).result \in Results
    BY <1>5, CurrentType DEF IncRead, IInv, HandlesAName, Handling
  <2>2. /\ worker'[w].pc = "write" /\ worker'[w].name = worker[w].name
        /\ worker'[w].todo = worker[w].todo
        /\ worker'[w].failed = worker[w].failed
        /\ worker'[w].seen = tally[worker[w].name][Current(w).result]
        /\ \A v \in Workers : v # w => worker'[v] = worker[v]
    BY <1>0, <1>5 DEF IncRead, WorkerState
  <2>3. Current(w)'.result = Current(w).result
    BY <2>2 DEF Current
  <2>4. worker'[w].seen <= Cardinality(CountedFor(worker'[w].name, Current(w)'.result))
    BY <2>1, <2>2, <2>3 DEF IInv, CountersNeverOverstate
  <2>5. \A a \in counted : a.by = w =>
          a.name \notin worker[w].todo /\ a.name # worker[w].name
    BY <1>5 DEF IInv, CountedOnce, IncRead
  <2>6. \A a \in counted : a.by = w =>
          /\ worker'[w].pc \notin {"idle", "lookup"}
          /\ a.name \notin worker'[w].todo
          /\ worker'[w].pc \in {"inc", "write"} => a.name # worker'[w].name
    BY <2>2, <2>5
  <2>7. UNCHANGED <<counted, tally>>
    BY <1>5 DEF IncRead
  <2>8. worker'[w].pc # "complete"
    BY <2>2
  <2>. QED  BY <2>2, <2>4, <2>6, <2>7, <2>8, GoroutineIInv
<1>6. CASE IncWrite(w)
  BY <1>6, IncWriteIInv
<1>7. CASE IncFail(w)
  BY <1>2, <1>7 DEF IncFail, Handling
<1>8. CASE TrackExecution(w)
  BY <1>2, <1>8 DEF TrackExecution, Handling
<1>9. CASE Verify(w)
  <2>1. CASE Proceed(w)
    BY <1>1, <1>9, <2>1 DEF Verify
  <2>2. CASE /\ Enough(worker[w].name)
             /\ worker' = [worker EXCEPT ![w].pc = "complete",
                              ![w].quota = query[worker[w].name].expected]
    <3>. DEFINE q == worker[w].name
    <3>1. q \in Names
      BY <1>9 DEF Verify, IInv, HandlesAName, Handling
    <3>2. /\ worker'[w].pc = "complete" /\ worker'[w].name = q
          /\ worker'[w].todo = worker[w].todo
          /\ worker'[w].quota = query[q].expected
          /\ \A v \in Workers : v # w => worker'[v] = worker[v]
      BY <1>0, <2>2 DEF WorkerState
    <3>3. /\ tally[q]["ok"] <= Cardinality(CountedFor(q, "ok"))
          /\ tally[q]["error"] <= Cardinality(CountedFor(q, "error"))
      BY <3>1 DEF IInv, CountersNeverOverstate, Results
    <3>4. /\ tally[q]["ok"] \in Nat /\ tally[q]["error"] \in Nat
          /\ query[q].expected \in Nat
      BY <3>1 DEF IInv, TypeOK, Results, QueryRow
    <3>5. /\ Cardinality(CountedFor(q, "ok")) \in Nat
          /\ Cardinality(CountedFor(q, "error")) \in Nat
      BY CountedForFinite DEF IInv
    <3>6. query[q].expected <= Answers(q)
      BY <2>2, <3>3, <3>4, <3>5 DEF Enough, Answers
    <3>7. \A a \in counted : a.by = w => a.name \notin worker[w].todo
      BY DEF IInv, CountedOnce
    <3>. QED  BY <1>9, <3>2, <3>6, <3>7, GoroutineIInv DEF Verify
  <2>. QED  BY <1>9, <2>1, <2>2 DEF Verify
<1>10. CASE VerifyComplete(w)
  BY <1>1, <1>10 DEF VerifyComplete
<1>. QED
  BY <1>3, <1>4, <1>5, <1>6, <1>7, <1>8, <1>9, <1>10 DEF WorkerStep

LEMMA NextIInv == IInv /\ [Next]_vars => IInv'
<1>. SUFFICES ASSUME IInv, [Next]_vars PROVE IInv'
  OBVIOUS
<1>. USE DEF rows
<1>0. TypeOK /\ HandlesAName
  BY DEF IInv
<1>1. ASSUME NEW q \in Names,
             \/ \E by \in RequestKinds : RunCreate(q, by)
             \/ RunCount(q) \/ RunSetExpected(q) \/ RunAbort(q)
             \/ \E t \in Targets : RunTarget(q, t)
      PROVE  IInv'
  <2>1. TypeOK'
    BY <1>0, <1>1, RequesterTypeOK
  <2>2. UNCHANGED <<counted, tally, worker>>
    BY <1>1 DEF RunCreate, RunCount, RunSetExpected, RunAbort, RunTarget
  <2>. QED  BY <2>1, <2>2, ElsewhereIInv
<1>2. ASSUME NEW q \in Names, Complete(q) \/ Activate(q) \/ Delete(q) PROVE IInv'
  <2>1. UNCHANGED <<counted, tally, worker>>
    BY <1>2 DEF Complete, Activate, Delete, SetFlags
  <2>. QED  BY <1>0, <1>2, <2>1, OperatorTypeOK, ElsewhereIInv
<1>3. ASSUME NEW n \in Nodes, NodeStep(n) PROVE IInv'
  <2>1. TypeOK'
    BY <1>0, <1>3, NodeTypeOK
  <2>2. CASE \E w \in Workers : Write(n, w)
    BY <2>1, <2>2, WriteIInv
  <2>3. CASE \/ Enroll(n) \/ RemoveNode(n) \/ ReadBegin(n) \/ ReadReply(n)
             \/ \E q \in Names : ReadCheck(n, q)
    <3>1. UNCHANGED <<counted, tally, worker>>
      BY <2>3 DEF Enroll, RemoveNode, ReadBegin, ReadReply, ReadCheck
    <3>. QED  BY <2>1, <3>1, ElsewhereIInv
  <2>. QED  BY <1>3, <2>2, <2>3 DEF NodeStep
<1>4. ASSUME NEW w \in Workers, WorkerStep(w) PROVE IInv'
  BY <1>0, <1>4, WorkerTypeOK, WorkerIInv
<1>5. ASSUME NEW a \in dispatch, DispatchQueries(a) PROVE IInv'
  <2>1. TypeOK'
    BY <1>0, <1>5 DEF DispatchQueries, TypeOK
  <2>2. UNCHANGED <<counted, tally, worker>>
    BY <1>5 DEF DispatchQueries
  <2>. QED  BY <2>1, <2>2, ElsewhereIInv
<1>6. CASE UNCHANGED vars
  <2>1. TypeOK'
    BY <1>0, <1>6 DEF vars, TypeOK
  <2>. QED  BY <1>6, <2>1, ElsewhereIInv DEF vars
<1>. QED
  BY <1>1, <1>2, <1>3, <1>4, <1>5, <1>6
     DEF Next, Requester, Operator, QueryRunPOSTHandler, CarvesRunPOSTHandler,
         apiQueriesRunHandler, RequestKinds

(* The inductive invariant holds in every reachable state. *)
THEOREM InvariantHolds == Spec => []IInv
BY InitIInv, NextIInv, PTL DEF Spec

(* The rows, requests and goroutines keep their types. *)
THEOREM TypeCorrect == Spec => []TypeOK
<1>1. IInv => TypeOK
  BY DEF IInv
<1>. QED  BY <1>1, InvariantHolds, PTL

(* However IncExecution and IncError of any number of goroutines interleave *)
(* or fail, no counter ever shows more results than were accounted for.     *)
THEOREM CountersSound == Spec => []CountersNeverOverstate
<1>1. IInv => CountersNeverOverstate
  BY DEF IInv
<1>. QED  BY <1>1, InvariantHolds, PTL

(* VerifyComplete never decides on completion before as many results came   *)
(* in as the row it read expects.                                           *)
THEOREM VerdictSound == Spec => []VerdictNeverEarly
<1>1. IInv => VerdictNeverEarly
  BY DEF IInv
<1>. QED  BY <1>1, InvariantHolds, PTL

-----------------------------------------------------------------------------
(* The queries implement module QueryLifecycle.  That asks for more than   *)
(* IInv: whatever is read, delivered or accounted for is a query that was  *)
(* created, and its quota is not announced before its request ends.        *)

Created == {q \in Names : query[q].created}

Announced == \A q \in Names :
  /\ query[q].created <=> run[q].pc # "none"
  /\ query[q].expected # 0 => run[q].pc = "done"
  /\ query[q].active => query[q].created

OnlyCreated ==
  /\ \A n \in Nodes : read[n].left \cup read[n].found \cup pending[n] \subseteq Created
  /\ \A w \in Workers :
       /\ worker[w].todo \subseteq Created
       /\ worker[w].pc \in Handling => worker[w].name \in Created

LIInv == Announced /\ OnlyCreated

LEMMA InitLIInv == Init => LIInv
<1>. SUFFICES ASSUME Init PROVE LIInv
  OBVIOUS
<1>1. Announced
  BY DEF Init, NoRow, Announced
<1>2. OnlyCreated
  BY DEF Init, OnlyCreated, Resting, Handling
<1>. QED  BY <1>1, <1>2 DEF LIInv

(* Queries do not cease to be created, so that what nobody changes stays   *)
(* among them.                                                             *)
LEMMA OnlyCreatedStays ==
  ASSUME OnlyCreated, Created \subseteq Created', UNCHANGED <<read, pending, worker>>
  PROVE  OnlyCreated'
BY DEF OnlyCreated

LEMMA CreatedStays ==
  ASSUME UNCHANGED query
  PROVE  Created' = Created
BY DEF Created

LEMMA RequesterLIInv ==
  ASSUME TypeOK, LIInv, NEW q \in Names,
         \/ \E by \in RequestKinds : RunCreate(q, by)
         \/ RunCount(q) \/ RunSetExpected(q) \/ RunAbort(q)
         \/ \E t \in Targets : RunTarget(q, t)
  PROVE  LIInv'
<1>0. query \in [Names -> QueryRow] /\ run \in [Names -> RunState]
  BY DEF TypeOK
<1>. USE DEF rows
<1>1. UNCHANGED <<read, pending, worker>>
  BY DEF RunCreate, RunCount, RunSetExpected, RunAbort, RunTarget
<1>2. CASE \E by \in RequestKinds : RunCreate(q, by)
  <2>1. /\ query'[q].created = TRUE /\ query'[q].expected = query[q].expected
        /\ run[q].pc = "none" /\ run'[q].pc = "target"
        /\ \A p \in Names \ {q} : query'[p] = query[p] /\ run'[p] = run[p]
    BY <1>0, <1>2 DEF RunCreate, QueryRow
  <2>2. Announced'
    BY <2>1 DEF LIInv, Announced
  <2>3. Created \subseteq Created'
    BY <2>1 DEF Created
  <2>. QED  BY <1>1, <2>2, <2>3, OnlyCreatedStays DEF LIInv
<1>3. CASE RunSetExpected(q)
  <2>1. /\ query'[q].created = query[q].created /\ query'[q].active = query[q].active
        /\ run[q].pc = "target" /\ run'[q].pc = "done"
        /\ \A p \in Names \ {q} : query'[p] = query[p] /\ run'[p] = run[p]
    BY <1>0, <1>3 DEF RunSetExpected, QueryRow, RunState
  <2>2. Announced'
    BY <2>1 DEF LIInv, Announced
  <2>3. Created \subseteq Created'
    BY <2>1 DEF Created
  <2>. QED  BY <1>1, <2>2, <2>3, OnlyCreatedStays DEF LIInv
<1>4. CASE RunCount(q) \/ RunAbort(q) \/ \E t \in Targets : RunTarget(q, t)
  <2>1. /\ UNCHANGED query
        /\ run[q].pc \in {"target", "count"} /\ run'[q].pc # "none"
        /\ \A p \in Names \ {q} : run'[p] = run[p]
    <3>1. CASE RunCount(q)
      BY <1>0, <3>1 DEF RunCount
    <3>2. CASE RunAbort(q)
      BY <1>0, <3>2 DEF RunAbort, RunState
    <3>3. ASSUME NEW t \in Targets, RunTarget(q, t)
          PROVE  /\ UNCHANGED query
                 /\ run[q].pc \in {"target", "count"} /\ run'[q].pc # "none"
                 /\ \A p \in Names \ {q} : run'[p] = run[p]
      BY <1>0, <3>3 DEF RunTarget, NextTarget, RunState
    <3>. QED  BY <1>4, <3>1, <3>2, <3>3
  <2>2. Announced'
    BY <2>1 DEF LIInv, Announced
  <2>. QED  BY <1>1, <2>1, <2>2, CreatedStays, OnlyCreatedStays DEF LIInv
<1>. QED  BY <1>2, <1>3, <1>4

(* Only queries that were created change their flags. *)
LEMMA FlagsLIInv ==
  ASSUME TypeOK, LIInv, NEW q \in Created, NEW row \in QueryRow,
         query' = [query EXCEPT ![q] = row],
         row.created = query[q].created, row.expected = query[q].expected,
         UNCHANGED run
  PROVE  Announced' /\ Created' = Created
<1>1. /\ query'[q] = row /\ row.created
      /\ \A p \in Names \ {q} : query'[p] = query[p]
  BY DEF TypeOK, Created
<1>. QED  BY <1>1 DEF LIInv, Announced, Created

LEMMA OperatorLIInv ==
  ASSUME TypeOK, LIInv, NEW q \in Names, Complete(q) \/ Activate(q) \/ Delete(q)
  PROVE  LIInv'
<1>1. q \in Created /\ query[q] \in QueryRow
  BY DEF Complete, Activate, Delete, SetFlags, Created, TypeOK
<1>2. PICK row \in QueryRow :
        /\ query' = [query EXCEPT ![q] = row]
        /\ row.created = query[q].created /\ row.expected = query[q].expected
  <2>1. CASE Complete(q)
    <3>. DEFINE row == [query[q] EXCEPT !.completed = TRUE, !.active = FALSE]
    <3>1. row \in QueryRow /\ row.created = query[q].created /\ row.expected = query[q].expected
      BY <1>1 DEF QueryRow
    <3>. QED  BY <2>1, <3>1 DEF Complete, SetFlags
  <2>2. CASE Activate(q)
    <3>. DEFINE row == [query[q] EXCEPT !.completed = FALSE, !.active = TRUE]
    <3>1. row \in QueryRow /\ row.created = query[q].created /\ row.expected = query[q].expected
      BY <1>1 DEF QueryRow
    <3>. QED  BY <2>2, <3>1 DEF Activate, SetFlags
  <2>3. CASE Delete(q)
    <3>. DEFINE row == [query[q] EXCEPT !.deleted = TRUE, !.active = FALSE]
    <3>1. row \in QueryRow /\ row.created = query[q].created /\ row.expected = query[q].expected
      BY <1>1 DEF QueryRow
    <3>. QED  BY <2>3, <3>1 DEF Delete, SetFlags
  <2>. QED  BY <2>1, <2>2, <2>3
<1>3. UNCHANGED <<run, read, pending, worker>>
  BY DEF Complete, Activate, Delete, SetFlags
<1>4. Announced' /\ Created' = Created
  BY <1>1, <1>2, <1>3, FlagsLIInv
<1>. QED  BY <1>3, <1>4, OnlyCreatedStays DEF LIInv

LEMMA NodeLIInv ==
  ASSUME TypeOK, LIInv, NEW n \in Nodes, NodeStep(n)
  PROVE  LIInv'
<1>. USE DEF rows
<1>0. /\ read \in [Nodes -> ReadState] /\ pending \in [Nodes -> SUBSET Names]
      /\ worker \in [Workers -> WorkerState]
  BY DEF TypeOK
<1>1. UNCHANGED <<query, run>>
  BY DEF NodeStep, Enroll, RemoveNode, ReadBegin, ReadReply, ReadCheck, Write
<1>2. Announced' /\ Created' = Created
  BY <1>1 DEF LIInv, Announced, Created
<1>3. /\ \A m \in Nodes : read[m].left \cup read[m].found \cup pending[m] \subseteq Created
      /\ \A w \in Workers :
           /\ worker[w].todo \subseteq Created
           /\ worker[w].pc \in Handling => worker[w].name \in Created
  BY DEF LIInv, OnlyCreated
<1>4. CASE Enroll(n) \/ RemoveNode(n)
  BY <1>2, <1>4, OnlyCreatedStays DEF Enroll, RemoveNode, LIInv
<1>5. CASE ReadBegin(n)
  <2>1. /\ read'[n].left = {q \in Names : query[q].active} /\ read'[n].found = {}
        /\ \A m \in Nodes \ {n} : read'[m] = read[m]
        /\ UNCHANGED <<pending, worker>>
    BY <1>0, <1>5 DEF ReadBegin
  <2>2. read'[n].left \subseteq Created
    BY <2>1 DEF LIInv, Announced, Created
  <2>. QED  BY <1>2, <1>3, <2>1, <2>2 DEF LIInv, OnlyCreated
<1>6. ASSUME NEW q \in Names, ReadCheck(n, q) PROVE LIInv'
  <2>1. /\ read'[n].left \subseteq read[n].left
        /\ read'[n].found \subseteq read[n].found \cup {q} /\ q \in read[n].left
        /\ \A m \in Nodes \ {n} : read'[m] = read[m]
        /\ UNCHANGED <<pending, worker>>
    BY <1>0, <1>6 DEF ReadCheck, ReadState
  <2>. QED  BY <1>2, <1>3, <2>1 DEF LIInv, OnlyCreated
<1>7. CASE ReadReply(n)
  <2>1. /\ read'[n].left = {} /\ read'[n].found = {}
        /\ \A m \in Nodes \ {n} : read'[m] = read[m] /\ pending'[m] = pending[m]
        /\ pending'[n] \subseteq pending[n] \cup read[n].found
        /\ UNCHANGED worker
    BY <1>0, <1>7 DEF ReadReply
  <2>. QED  BY <1>2, <1>3, <2>1 DEF LIInv, OnlyCreated
<1>8. ASSUME NEW w \in Workers, Write(n, w) PROVE LIInv'
  <2>1. /\ worker'[w].pc = "lookup" /\ worker'[w].todo = pending[n]
        /\ \A v \in Workers \ {w} : worker'[v] = worker[v]
        /\ pending'[n] \subseteq pending[n]
        /\ \A m \in Nodes \ {n} : pending'[m] = pending[m]
        /\ UNCHANGED read
    BY <1>0, <1>8 DEF Write, Resting
  <2>. QED  BY <1>2, <1>3, <2>1 DEF LIInv, OnlyCreated, Handling
<1>. QED  BY <1>4, <1>5, <1>6, <1>7, <1>8 DEF NodeStep

LEMMA WorkerLIInv ==
  ASSUME TypeOK, HandlesAName, LIInv, NEW w \in Workers, WorkerStep(w)
  PROVE  LIInv'
<1>. USE DEF rows
<1>0. worker[w] \in WorkerState /\ worker \in [Workers -> WorkerState]
  BY DEF TypeOK
<1>1. /\ worker'[w].todo \subseteq worker[w].todo
      /\ \A v \in Workers \ {w} : worker'[v] = worker[v]
      /\ worker'[w].pc \in Handling =>
           \/ worker'[w].name \in worker[w].todo
           \/ worker'[w].name = worker[w].name /\ worker[w].pc \in Handling
  <2>1. CASE Lookup(w)
    BY <1>0, <2>1 DEF Lookup, WorkerState, Handling
  <2>2. CASE Take(w)
    <3>1. PICK q \in worker[w].todo :
            worker' = [worker EXCEPT ![w].pc = "inc", ![w].name = q, ![w].todo = @ \ {q}]
      BY <2>2, Zenon DEF Take
    <3>. QED  BY <1>0, <3>1 DEF WorkerState
  <2>3. CASE IncRead(w)
    BY <1>0, <2>3 DEF IncRead, WorkerState, Handling
  <2>4. CASE IncWrite(w) \/ IncFail(w) \/ TrackExecution(w)
    BY <1>0, <2>4 DEF IncWrite, IncFail, TrackExecution, Goto, WorkerState, Handling
  <2>5. ASSUME Proceed(w)
        PROVE  /\ worker'[w].todo \subseteq worker[w].todo /\ worker'[w].pc \notin Handling
               /\ \A v \in Workers \ {w} : worker'[v] = worker[v]
    BY <2>5, ProceedType DEF Handling
  <2>6. CASE Verify(w)
    <3>1. CASE worker' = [worker EXCEPT ![w].pc = "complete",
                                        ![w].quota = query[worker[w].name].expected]
      BY <1>0, <2>6, <3>1 DEF Verify, WorkerState, Handling
    <3>. QED  BY <2>5, <2>6, <3>1 DEF Verify
  <2>7. CASE VerifyComplete(w)
    BY <2>5, <2>7 DEF VerifyComplete
  <2>. QED  BY <2>1, <2>2, <2>3, <2>4, <2>6, <2>7 DEF WorkerStep
<1>2. Announced' /\ Created' = Created
  <2>1. CASE UNCHANGED <<query, run>>
    BY <2>1 DEF LIInv, Announced, Created
  <2>2. CASE VerifyComplete(w)
    <3>. DEFINE q == worker[w].name
                row == [query[q] EXCEPT !.completed = TRUE, !.active = FALSE]
    <3>1. q \in Created /\ q \in Names
      BY <2>2 DEF VerifyComplete, LIInv, OnlyCreated, Handling, Created
    <3>2. row \in QueryRow /\ row.created = query[q].created /\ row.expected = query[q].expected
      <4>1. PICK old \in QueryRow : old = query[q]
        BY <3>1 DEF TypeOK
      <4>. QED  BY <4>1 DEF QueryRow
    <3>3. query' = [query EXCEPT ![q] = row] \/ UNCHANGED query
      BY <2>2 DEF VerifyComplete
    <3>4. UNCHANGED run
      BY <2>2 DEF VerifyComplete
    <3>. QED  BY <2>1, <3>1, <3>2, <3>3, <3>4, FlagsLIInv
  <2>. QED
    BY <2>1, <2>2 DEF WorkerStep, Lookup, Take, IncRead, IncWrite, IncFail, TrackExecution, Verify
<1>3. UNCHANGED <<read, pending>>
  BY DEF WorkerStep, Lookup, Take, IncRead, IncWrite, IncFail, TrackExecution, Verify, VerifyComplete
<1>. QED  BY <1>1, <1>2, <1>3 DEF LIInv, OnlyCreated

LEMMA NextLIInv == IInv /\ LIInv /\ [Next]_vars => LIInv'
<1>. SUFFICES ASSUME IInv, LIInv, [Next]_vars PROVE LIInv'
  OBVIOUS
<1>0. TypeOK /\ HandlesAName
  BY DEF IInv
<1>1. ASSUME NEW a \in dispatch, DispatchQueries(a) PROVE LIInv'
  BY <1>1 DEF DispatchQueries, LIInv, Announced, OnlyCreated, Created
<1>2. CASE UNCHANGED vars
  BY <1>2 DEF vars, LIInv, Announced, OnlyCreated, Created
<1>. QED
  BY <1>0, <1>1, <1>2, RequesterLIInv, OperatorLIInv, NodeLIInv, WorkerLIInv
     DEF Next, Requester, Operator, QueryRunPOSTHandler, CarvesRunPOSTHandler,
         apiQueriesRunHandler, RequestKinds

-----------------------------------------------------------------------------
(* The steps, seen from QueryLifecycle. *)

LEMMA AnswersStay ==
  ASSUME UNCHANGED counted
  PROVE  UNCHANGED AnswersIn
BY DEF AnswersIn, Answers, CountedFor

(* A goroutine that is between the statements of VerifyComplete neither    *)
(* before nor after a step.                                                *)
LEMMA VerdictsStay ==
  ASSUME NEW w \in Workers, \A v \in Workers \ {w} : worker'[v] = worker[v],
         worker[w].pc # "complete", worker'[w].pc # "complete"
  PROVE  UNCHANGED Verdicts
BY DEF Verdicts

LEMMA RequesterRefines ==
  ASSUME TypeOK, LIInv, NEW q \in Names,
         \/ \E by \in RequestKinds : RunCreate(q, by)
         \/ RunCount(q) \/ RunSetExpected(q) \/ RunAbort(q)
         \/ \E t \in Targets : RunTarget(q, t)
  PROVE  Contract!LifecycleNext \/ UNCHANGED Contract!absVars
<1>. USE DEF rows
<1>1. UNCHANGED <<AnswersIn, Verdicts>>
  <2>1. UNCHANGED <<counted, worker>>
    BY DEF RunCreate, RunCount, RunSetExpected, RunAbort, RunTarget
  <2>. QED  BY <2>1, AnswersStay DEF Verdicts
<1>2. CASE \E by \in RequestKinds : RunCreate(q, by)
  <2>1. ~query[q].created
    BY <1>2 DEF RunCreate, LIInv, Announced
  <2>2. Contract!Publish(q)
    BY <1>1, <1>2, <2>1 DEF RunCreate, Contract!Publish
  <2>. QED  BY <2>2 DEF Contract!LifecycleNext
<1>3. CASE RunSetExpected(q)
  <2>. DEFINE quota == Cardinality(run[q].expected)
  <2>1. query[q].created /\ query[q].expected = 0
    BY <1>3 DEF RunSetExpected, LIInv, Announced
  <2>2. quota \in 0 .. Cardinality(Nodes) + Cardinality(Targets)
    <3>1. run[q].expected \in SUBSET (Nodes \cup Targets)
      BY DEF TypeOK, RunState
    <3>2. /\ IsFiniteSet(Nodes \cup Targets)
          /\ Cardinality(Nodes \cup Targets) =
               Cardinality(Nodes) + Cardinality(Targets) - Cardinality(Nodes \cap Targets)
      BY ConstantsAssumption, FS_Union
    <3>3. Cardinality(Nodes \cap Targets) = 0
      BY ConstantsAssumption, FS_EmptySet
    <3>4. Cardinality(Nodes) \in Nat /\ Cardinality(Targets) \in Nat
      BY ConstantsAssumption, FS_CardinalityType
    <3>5. quota \in Nat /\ quota <= Cardinality(Nodes \cup Targets)
      BY <3>1, <3>2, FS_Subset, FS_CardinalityType
    <3>. QED  BY <3>2, <3>3, <3>4, <3>5
  <2>3. Contract!Announce(q, quota)
    BY <1>1, <1>3, <2>1 DEF RunSetExpected, Contract!Announce
  <2>. QED  BY <2>2, <2>3 DEF Contract!LifecycleNext
<1>4. CASE RunCount(q) \/ RunAbort(q) \/ \E t \in Targets : RunTarget(q, t)
  BY <1>1, <1>4 DEF RunCount, RunAbort, RunTarget, Contract!absVars
<1>. QED  BY <1>2, <1>3, <1>4

LEMMA OperatorRefines ==
  ASSUME TypeOK, NEW q \in Names, Complete(q) \/ Activate(q) \/ Delete(q)
  PROVE  Contract!LifecycleNext
<1>1. UNCHANGED <<AnswersIn, Verdicts>>
  <2>1. UNCHANGED <<counted, worker>>
    BY DEF Complete, Activate, Delete, SetFlags
  <2>. QED  BY <2>1, AnswersStay DEF Verdicts
<1>2. /\ query[q].created /\ q \in DOMAIN query
      /\ \/ query' = [query EXCEPT ![q] = [query[q] EXCEPT !.completed = TRUE, !.active = FALSE]]
         \/ query' = [query EXCEPT ![q] = [query[q] EXCEPT !.completed = FALSE, !.active = TRUE]]
         \/ query' = [query EXCEPT ![q] = [query[q] EXCEPT !.deleted = TRUE, !.active = FALSE]]
  BY DEF Complete, Activate, Delete, SetFlags, TypeOK
<1>3. Contract!Operate(q)
  BY <1>1, <1>2 DEF Contract!Operate
<1>. QED  BY <1>3 DEF Contract!LifecycleNext

LEMMA IncWriteRefines ==
  ASSUME IInv, LIInv, NEW w \in Workers, IncWrite(w)
  PROVE  Contract!LifecycleNext
<1>. DEFINE q == worker[w].name
            r == Current(w).result
<1>0. worker[w] \in WorkerState /\ worker \in [Workers -> WorkerState] /\ TypeOK
  BY DEF IInv, TypeOK
<1>1. /\ q \in Names /\ query[q].created
      /\ Current(w).name = q /\ Current(w).by = w /\ r \in Results
  BY <1>0, CurrentType DEF IncWrite, LIInv, OnlyCreated, Created, Handling
<1>2. Current(w) \notin counted
  BY <1>1 DEF IInv, CountedOnce, IncWrite
<1>3. /\ counted' = counted \cup {Current(w)} /\ IsFiniteSet(counted) /\ UNCHANGED query
      /\ worker' = [worker EXCEPT ![w].pc = "track"]
  BY DEF IncWrite, Goto, IInv
<1>4. UNCHANGED Verdicts
  <2>1. /\ worker'[w].pc = "track" /\ worker[w].pc = "write"
        /\ \A v \in Workers \ {w} : worker'[v] = worker[v]
    BY <1>0, <1>3 DEF IncWrite
  <2>. QED  BY <2>1, VerdictsStay
<1>5. \A p, s : /\ Cardinality(CountedFor(p, s)) \in Nat
                /\ Cardinality(CountedFor(p, s))' =
                     Cardinality(CountedFor(p, s)) + (IF q = p /\ r = s THEN 1 ELSE 0)
  BY <1>1, <1>2, <1>3, CountedForFinite, CountedForGrows
<1>6. \A p \in Names : Answers(p)' = IF p = q THEN Answers(p) + 1 ELSE Answers(p)
  BY <1>1, <1>5 DEF Answers, Results
<1>7. AnswersIn' = [AnswersIn EXCEPT ![q] = AnswersIn[q] + 1]
  BY <1>1, <1>6 DEF AnswersIn
<1>8. Contract!AnswerIn(q)
  BY <1>1, <1>3, <1>4, <1>7 DEF Contract!AnswerIn
<1>. QED  BY <1>1, <1>8 DEF Contract!LifecycleNext

LEMMA VerifyRefines ==
  ASSUME IInv, NEW w \in Workers, Verify(w)
  PROVE  Contract!LifecycleNext \/ UNCHANGED Contract!absVars
<1>. DEFINE q == worker[w].name
<1>0. worker[w] \in WorkerState /\ worker \in [Workers -> WorkerState] /\ TypeOK
  BY DEF IInv, TypeOK
<1>1. UNCHANGED <<query, AnswersIn>> /\ q \in Names
  BY AnswersStay DEF Verify, rows, IInv, HandlesAName, Handling
<1>2. CASE Proceed(w)
  <2>1. UNCHANGED Verdicts
    BY <1>0, <1>2, ProceedType, VerdictsStay DEF Verify
  <2>. QED  BY <1>1, <2>1 DEF Contract!absVars
<1>3. CASE /\ Enough(q)
           /\ worker' = [worker EXCEPT ![w].pc = "complete", ![w].quota = query[q].expected]
  <2>1. /\ worker'[w].pc = "complete" /\ worker'[w].name = q /\ worker[w].pc = "verify"
        /\ \A v \in Workers \ {w} : worker'[v] = worker[v]
    BY <1>0, <1>3 DEF WorkerState, Verify
  <2>2. Verdicts' = Verdicts \cup {q}
    BY <2>1 DEF Verdicts
  <2>3. /\ tally[q]["ok"] <= Cardinality(CountedFor(q, "ok"))
        /\ tally[q]["error"] <= Cardinality(CountedFor(q, "error"))
    BY <1>1 DEF IInv, CountersNeverOverstate, Results
  <2>4. /\ tally[q]["ok"] \in Nat /\ tally[q]["error"] \in Nat /\ query[q].expected \in Nat
    BY <1>0, <1>1 DEF TypeOK, Results, QueryRow
  <2>5. /\ Cardinality(CountedFor(q, "ok")) \in Nat
        /\ Cardinality(CountedFor(q, "error")) \in Nat
    BY CountedForFinite DEF IInv
  <2>6. AnswersIn[q] >= query[q].expected
    BY <1>1, <1>3, <2>3, <2>4, <2>5 DEF AnswersIn, Answers, Enough
  <2>7. Contract!Judge(q)
    BY <1>1, <2>2, <2>6 DEF Contract!Judge
  <2>. QED  BY <1>1, <2>7 DEF Contract!LifecycleNext
<1>. QED  BY <1>2, <1>3 DEF Verify

LEMMA VerifyCompleteRefines ==
  ASSUME IInv, NEW w \in Workers, VerifyComplete(w)
  PROVE  Contract!LifecycleNext \/ UNCHANGED Contract!absVars
<1>. DEFINE q == worker[w].name
<1>0. worker[w] \in WorkerState /\ worker \in [Workers -> WorkerState] /\ TypeOK
  BY DEF IInv, TypeOK
<1>1. UNCHANGED AnswersIn /\ q \in Names /\ q \in Verdicts
  BY AnswersStay DEF VerifyComplete, IInv, HandlesAName, Handling, Verdicts
<1>2. /\ worker'[w].pc # "complete" /\ worker[w].pc = "complete"
      /\ \A v \in Workers \ {w} : worker'[v] = worker[v]
  BY <1>0, ProceedType DEF VerifyComplete
<1>3. Verdicts' \in {Verdicts, Verdicts \ {q}}
  <2>1. CASE \E v \in Workers \ {w} : worker[v].pc = "complete" /\ worker[v].name = q
    <3>1. Verdicts' = Verdicts
      BY <1>2, <2>1 DEF Verdicts
    <3>. QED  BY <3>1
  <2>2. CASE ~ \E v \in Workers \ {w} : worker[v].pc = "complete" /\ worker[v].name = q
    <3>1. Verdicts' = Verdicts \ {q}
      BY <1>2, <2>2 DEF Verdicts
    <3>. QED  BY <3>1
  <2>. QED  BY <2>1, <2>2
<1>4. CASE query' = [query EXCEPT ![q].completed = TRUE, ![q].active = FALSE]
  <2>1. Contract!Close(q)
    BY <1>1, <1>3, <1>4 DEF Contract!Close
  <2>. QED  BY <1>1, <2>1 DEF Contract!LifecycleNext
<1>5. CASE UNCHANGED query
  <2>1. CASE Verdicts' = Verdicts \ {q}
    <3>1. Contract!Overrule(q)
      BY <1>1, <1>5, <2>1 DEF Contract!Overrule
    <3>. QED  BY <1>1, <3>1 DEF Contract!LifecycleNext
  <2>2. CASE Verdicts' = Verdicts
    BY <1>1, <1>5, <2>2 DEF Contract!absVars
  <2>. QED  BY <1>3, <2>1, <2>2
<1>. QED  BY <1>4, <1>5 DEF VerifyComplete

(* The handlers, goroutines and counters implement module QueryLifecycle   *)
(* for any fleet and however many goroutines interleave, fail or repeat:   *)
(* only a verdict that the answers justify lets the service complete a     *)
(* query, and only the operator makes one active again.                    *)
THEOREM LifecycleImplemented == Spec => ImplementsLifecycle
<1>1. Init => Contract!LifecycleInit
  <2>. SUFFICES ASSUME Init PROVE Contract!LifecycleInit
    OBVIOUS
  <2>1. Verdicts = {}
    BY DEF Init, Resting, Verdicts
  <2>2. \A q, r : CountedFor(q, r) = {}
    BY DEF Init, CountedFor
  <2>3. AnswersIn = [q \in Names |-> 0]
    BY <2>2, FS_EmptySet DEF AnswersIn, Answers
  <2>. QED  BY <2>1, <2>3 DEF Init, NoRow, Contract!LifecycleInit
<1>2. IInv /\ LIInv /\ [Next]_vars => [Contract!LifecycleNext]_(Contract!absVars)
  <2>. SUFFICES ASSUME IInv, LIInv, [Next]_vars
                PROVE  Contract!LifecycleNext \/ UNCHANGED Contract!absVars
    OBVIOUS
  <2>. USE DEF rows
  <2>0. TypeOK /\ worker \in [Workers -> WorkerState]
    BY DEF IInv, TypeOK
  <2>1. ASSUME NEW w \in Workers, UNCHANGED <<query, counted>>,
               \A v \in Workers \ {w} : worker'[v] = worker[v],
               worker[w].pc # "complete", worker'[w].pc # "complete"
        PROVE  UNCHANGED Contract!absVars
    BY <2>1, AnswersStay, VerdictsStay DEF Contract!absVars
  <2>2. ASSUME NEW n \in Nodes, NodeStep(n) PROVE UNCHANGED Contract!absVars
    <3>1. CASE UNCHANGED <<query, counted, worker>>
      BY <3>1, AnswersStay DEF Contract!absVars, Verdicts
    <3>2. ASSUME NEW w \in Workers, Write(n, w) PROVE UNCHANGED Contract!absVars
      <4>1. /\ worker[w].pc = "idle" /\ worker'[w].pc = "lookup"
            /\ \A v \in Workers \ {w} : worker'[v] = worker[v]
            /\ UNCHANGED <<query, counted>>
        BY <2>0, <3>2 DEF Write, Resting
      <4>. QED  BY <2>1, <4>1
    <3>. QED
      BY <2>2, <3>1, <3>2 DEF NodeStep, Enroll, RemoveNode, ReadBegin, ReadReply, ReadCheck
  <2>3. ASSUME NEW w \in Workers, WorkerStep(w)
        PROVE  Contract!LifecycleNext \/ UNCHANGED Contract!absVars
    <3>1. CASE IncWrite(w)
      BY <3>1, IncWriteRefines
    <3>2. CASE Verify(w)
      BY <3>2, VerifyRefines
    <3>3. CASE VerifyComplete(w)
      BY <3>3, VerifyCompleteRefines
    <3>4. CASE Lookup(w) \/ Take(w) \/ IncRead(w) \/ IncFail(w) \/ TrackExecution(w)
      <4>1. UNCHANGED <<query, counted>>
        BY <3>4 DEF Lookup, Take, IncRead, IncFail, TrackExecution
      <4>2. /\ worker[w].pc # "complete" /\ worker'[w].pc # "complete"
            /\ \A v \in Workers \ {w} : worker'[v] = worker[v]
        <5>1. CASE Take(w)
          <6>1. PICK q \in worker[w].todo :
                  worker' = [worker EXCEPT ![w].pc = "inc", ![w].name = q, ![w].todo = @ \ {q}]
            BY <5>1, Zenon DEF Take
          <6>. QED  BY <2>0, <5>1, <6>1 DEF Take
        <5>2. CASE Lookup(w)
          BY <2>0, <5>2 DEF Lookup
        <5>3. CASE IncRead(w)
          BY <2>0, <5>3 DEF IncRead
        <5>4. CASE IncFail(w) \/ TrackExecution(w)
          <6>1. PICK pc \in {"track", "verify"} : worker' = [worker EXCEPT ![w].pc = pc]
            BY <5>4 DEF IncFail, TrackExecution, Goto
          <6>2. worker[w].pc \in {"inc", "write", "track"}
            BY <5>4 DEF IncFail, TrackExecution
          <6>. QED  BY <2>0, <6>1, <6>2 DEF WorkerState
        <5>. QED  BY <3>4, <5>1, <5>2, <5>3, <5>4
      <4>. QED  BY <2>1, <4>1, <4>2
    <3>. QED  BY <2>3, <3>1, <3>2, <3>3, <3>4 DEF WorkerStep
  <2>4. ASSUME NEW a \in dispatch, DispatchQueries(a) PROVE UNCHANGED Contract!absVars
    BY <2>4, AnswersStay DEF DispatchQueries, Contract!absVars, Verdicts
  <2>5. CASE UNCHANGED vars
    BY <2>5, AnswersStay DEF vars, Contract!absVars, Verdicts
  <2>. QED
    BY <2>0, <2>2, <2>3, <2>4, <2>5, RequesterRefines, OperatorRefines
       DEF Next, Requester, Operator, QueryRunPOSTHandler, CarvesRunPOSTHandler,
           apiQueriesRunHandler, RequestKinds
<1>3. Spec => []LIInv
  BY InitLIInv, NextLIInv, InvariantHolds, PTL DEF Spec
<1>. QED
  BY <1>1, <1>2, <1>3, InvariantHolds, PTL DEF Spec, ImplementsLifecycle, Contract!Lifecycle
-----------------------------------------------------------------------------
(* Who is given a query is a target of it, and what is booked to a node is *)
(* of its own requests.                                                    *)

MayBook(u, q) == u \in Nodes => IsQueryTarget(u, q)

GivenToTargets ==
  \A n \in Nodes : \A q \in read[n].found \cup pending[n] : IsQueryTarget(n, q)

HandledForTargets ==
  \A w \in Workers :
    /\ worker[w].uuid \in {worker[w].from, NoUUID}
    /\ \A q \in worker[w].todo : MayBook(worker[w].from, q)
    /\ worker[w].pc \in Handling => MayBook(worker[w].from, worker[w].name)

BookedToTargets == \A e \in dispatch \cup execs \cup logs : MayBook(e.uuid, e.name)

Addressed == GivenToTargets /\ HandledForTargets /\ BookedToTargets

TargetsStay == \A q \in Names : targets[q] \subseteq targets'[q]

LEMMA InitAddressed == Init => Addressed
  BY DEF Init, Resting, Addressed, GivenToTargets, HandledForTargets, BookedToTargets, Handling

(* A target once written stays, so that what nobody changes remains good.  *)
LEMMA GivenStay ==
  ASSUME TypeOK, GivenToTargets, TargetsStay, UNCHANGED <<read, pending>>
  PROVE  GivenToTargets'
<1>1. read \in [Nodes -> ReadState] /\ pending \in [Nodes -> SUBSET Names]
  BY DEF TypeOK
<1>. QED  BY <1>1 DEF GivenToTargets, TargetsStay, IsQueryTarget, ReadState

LEMMA HandledStay ==
  ASSUME TypeOK, HandlesAName, HandledForTargets, TargetsStay, UNCHANGED worker
  PROVE  HandledForTargets'
<1>1. worker \in [Workers -> WorkerState]
  BY DEF TypeOK
<1>2. \A w \in Workers : worker[w].pc \in Handling => worker[w].name \in Names
  BY DEF HandlesAName
<1>. QED
  BY <1>1, <1>2 DEF HandledForTargets, TargetsStay, MayBook, IsQueryTarget, WorkerState

LEMMA BookedStay ==
  ASSUME TypeOK, BookedToTargets, TargetsStay, UNCHANGED <<dispatch, execs, logs>>
  PROVE  BookedToTargets'
<1>1. dispatch \subseteq Answer /\ execs \subseteq Answer /\ logs \subseteq Answer
  BY DEF TypeOK
<1>. QED  BY <1>1 DEF BookedToTargets, TargetsStay, MayBook, IsQueryTarget, Answer

LEMMA RequesterAddressed ==
  ASSUME TypeOK, HandlesAName, Addressed, NEW q \in Names,
         \/ \E by \in RequestKinds : RunCreate(q, by)
         \/ RunCount(q) \/ RunSetExpected(q) \/ RunAbort(q)
         \/ \E t \in Targets : RunTarget(q, t)
         \/ Complete(q) \/ Activate(q) \/ Delete(q)
  PROVE  Addressed'
<1>. USE DEF rows
<1>1. UNCHANGED <<read, pending, worker, dispatch, execs, logs>>
  BY DEF RunCreate, RunCount, RunSetExpected, RunAbort, RunTarget, Complete, Activate, Delete,
         SetFlags
<1>2. TargetsStay
  <2>1. ASSUME NEW t \in Targets, RunTarget(q, t) PROVE TargetsStay
    BY <2>1 DEF RunTarget, TypeOK, TargetsStay
  <2>2. CASE UNCHANGED targets
    BY <2>2 DEF TargetsStay
  <2>. QED
    BY <2>1, <2>2 DEF RunCreate, RunCount, RunSetExpected, RunAbort, Complete, Activate, Delete,
                      SetFlags
<1>. QED  BY <1>1, <1>2, GivenStay, HandledStay, BookedStay DEF Addressed

LEMMA NodeAddressed ==
  ASSUME TypeOK, HandlesAName, Addressed, NEW n \in Nodes, NodeStep(n)
  PROVE  Addressed'
<1>. USE DEF rows
<1>0. /\ read \in [Nodes -> ReadState] /\ pending \in [Nodes -> SUBSET Names]
      /\ worker \in [Workers -> WorkerState]
  BY DEF TypeOK
<1>1. UNCHANGED <<targets, dispatch, execs, logs>>
  BY DEF NodeStep, Enroll, RemoveNode, ReadBegin, ReadReply, ReadCheck, Write
<1>2. TargetsStay /\ BookedToTargets'
  BY <1>1, BookedStay DEF Addressed, TargetsStay
<1>3. CASE UNCHANGED worker
  <2>1. HandledForTargets'
    BY <1>2, <1>3, HandledStay DEF Addressed
  <2>2. CASE Enroll(n) \/ RemoveNode(n)
    BY <1>2, <2>1, <2>2, GivenStay DEF Enroll, RemoveNode, Addressed
  <2>3. CASE ReadBegin(n)
    <3>1. /\ read'[n].found = {} /\ UNCHANGED pending
          /\ \A m \in Nodes \ {n} : read'[m] = read[m]
      BY <1>0, <2>3 DEF ReadBegin
    <3>2. GivenToTargets'
      BY <1>1, <3>1 DEF Addressed, GivenToTargets, IsQueryTarget
    <3>. QED  BY <1>2, <2>1, <3>2 DEF Addressed
  <2>4. ASSUME NEW q \in Names, ReadCheck(n, q) PROVE Addressed'
    <3>1. /\ \A p \in read'[n].found : p \in read[n].found \/ (p = q /\ IsQueryTarget(n, q))
          /\ \A m \in Nodes \ {n} : read'[m] = read[m]
          /\ UNCHANGED pending
      BY <1>0, <2>4 DEF ReadCheck, ReadState
    <3>2. GivenToTargets'
      BY <1>1, <3>1 DEF Addressed, GivenToTargets, IsQueryTarget
    <3>. QED  BY <1>2, <2>1, <3>2 DEF Addressed
  <2>5. CASE ReadReply(n)
    <3>1. /\ read'[n].found = {}
          /\ \A m \in Nodes \ {n} : read'[m] = read[m] /\ pending'[m] = pending[m]
          /\ pending'[n] \subseteq pending[n] \cup read[n].found
      BY <1>0, <2>5 DEF ReadReply
    <3>2. GivenToTargets'
      BY <1>1, <3>1 DEF Addressed, GivenToTargets, IsQueryTarget
    <3>. QED  BY <1>2, <2>1, <3>2 DEF Addressed
  <2>6. ASSUME NEW w \in Workers, Write(n, w) PROVE FALSE
    <3>1. worker'[w].pc = "lookup" /\ worker[w].pc = "idle"
      BY <1>0, <2>6 DEF Write, Resting
    <3>. QED  BY <1>3, <3>1
  <2>. QED  BY <2>2, <2>3, <2>4, <2>5, <2>6 DEF NodeStep
<1>4. ASSUME NEW w \in Workers, Write(n, w) PROVE Addressed'
  <2>1. /\ worker'[w].pc = "lookup" /\ worker'[w].todo = pending[n]
        /\ worker'[w].from = n /\ worker'[w].uuid = NoUUID
        /\ \A v \in Workers \ {w} : worker'[v] = worker[v]
        /\ pending'[n] \subseteq pending[n]
        /\ \A m \in Nodes \ {n} : pending'[m] = pending[m]
        /\ UNCHANGED read
    BY <1>0, <1>4 DEF Write, Resting
  <2>2. GivenToTargets'
    BY <1>1, <2>1 DEF Addressed, GivenToTargets, IsQueryTarget
  <2>3. HandledForTargets'
    BY <1>1, <2>1 DEF Addressed, GivenToTargets, HandledForTargets, MayBook, IsQueryTarget, Handling
  <2>. QED  BY <1>2, <2>2, <2>3 DEF Addressed
<1>5. (\E w \in Workers : Write(n, w)) \/ UNCHANGED worker
  BY DEF NodeStep, Enroll, RemoveNode, ReadBegin, ReadReply, ReadCheck
<1>. QED  BY <1>3, <1>4, <1>5

LEMMA WorkerAddressed ==
  ASSUME TypeOK, HandlesAName, Addressed, NEW w \in Workers, WorkerStep(w)
  PROVE  Addressed'
<1>. USE DEF rows
<1>0. worker[w] \in WorkerState /\ worker \in [Workers -> WorkerState]
  BY DEF TypeOK
<1>1. /\ UNCHANGED <<targets, read, pending, logs>>
      /\ dispatch' = dispatch \/ Take(w)
      /\ execs' = execs \/ (worker[w].pc = "track" /\ execs' = execs \cup {Current(w)})
  BY DEF WorkerStep, Lookup, Take, IncRead, IncWrite, IncFail, TrackExecution, Verify, VerifyComplete
<1>2. TargetsStay /\ GivenToTargets'
  BY <1>1, GivenStay DEF Addressed, TargetsStay
<1>3. /\ worker'[w].todo \subseteq worker[w].todo
      /\ \A v \in Workers \ {w} : worker'[v] = worker[v]
      /\ worker'[w].pc \in Handling =>
           \/ worker'[w].name \in worker[w].todo
           \/ worker'[w].name = worker[w].name /\ worker[w].pc \in Handling
      /\ \/ worker'[w].from = worker[w].from /\ worker'[w].uuid \in {worker[w].from, worker[w].uuid, NoUUID}
         \/ worker'[w] = Resting("done")
  <2>1. CASE Lookup(w)
    BY <1>0, <2>1 DEF Lookup, WorkerState, Handling
  <2>2. CASE Take(w)
    <3>1. PICK q \in worker[w].todo :
            worker' = [worker EXCEPT ![w].pc = "inc", ![w].name = q, ![w].todo = @ \ {q}]
      BY <2>2, Zenon DEF Take
    <3>. QED  BY <1>0, <3>1 DEF WorkerState
  <2>3. CASE IncRead(w)
    BY <1>0, <2>3 DEF IncRead, WorkerState, Handling
  <2>4. CASE IncWrite(w) \/ IncFail(w) \/ TrackExecution(w)
    BY <1>0, <2>4 DEF IncWrite, IncFail, TrackExecution, Goto, WorkerState, Handling
  <2>5. ASSUME Proceed(w)
        PROVE  /\ worker'[w].todo \subseteq worker[w].todo /\ worker'[w].pc \notin Handling
               /\ \A v \in Workers \ {w} : worker'[v] = worker[v]
               /\ \/ worker'[w].from = worker[w].from /\ worker'[w].uuid = worker[w].uuid
                  \/ worker'[w] = Resting("done")
    <3>1. CASE worker[w].todo = {}
      BY <1>0, <2>5, <3>1 DEF Proceed, Resting, Handling
    <3>2. CASE worker[w].todo # {}
      BY <1>0, <2>5, <3>2 DEF Proceed, WorkerState, Handling
    <3>. QED  BY <3>1, <3>2
  <2>6. CASE Verify(w)
    <3>1. CASE worker' = [worker EXCEPT ![w].pc = "complete",
                                        ![w].quota = query[worker[w].name].expected]
      BY <1>0, <2>6, <3>1 DEF Verify, WorkerState, Handling
    <3>. QED  BY <2>5, <2>6, <3>1 DEF Verify
  <2>7. CASE VerifyComplete(w)
    BY <2>5, <2>7 DEF VerifyComplete
  <2>. QED  BY <2>1, <2>2, <2>3, <2>4, <2>6, <2>7 DEF WorkerStep
<1>4. HandledForTargets'
  <2>. SUFFICES ASSUME NEW v \in Workers
       PROVE  /\ worker'[v].uuid \in {worker'[v].from, NoUUID}
              /\ \A q \in worker'[v].todo : MayBook(worker[v].from, q)
              /\ worker'[v].pc \in Handling => MayBook(worker[v].from, worker'[v].name)
              /\ worker'[v].from = worker[v].from \/ worker'[v] = Resting("done")
    BY <1>1 DEF HandledForTargets, MayBook, IsQueryTarget, Resting, Handling
  <2>1. CASE v # w
    BY <1>3, <2>1 DEF Addressed, HandledForTargets
  <2>2. CASE v = w
    BY <1>3, <2>2 DEF Addressed, HandledForTargets, Resting
  <2>. QED  BY <2>1, <2>2
<1>5. MayBook(worker[w].uuid, worker[w].name) \/ worker[w].pc \notin Handling
  BY ConstantsAssumption DEF Addressed, HandledForTargets, MayBook
<1>6. BookedToTargets'
  <2>1. \A e \in execs' : e \in execs \/ MayBook(e.uuid, e.name)
    BY <1>1, <1>5 DEF Current, Handling
  <2>2. \A e \in dispatch' : e \in dispatch \/ MayBook(e.uuid, e.name)
    <3>1. ASSUME NEW q \in worker[w].todo
          PROVE  MayBook(worker[w].uuid, q)
      BY ConstantsAssumption DEF Addressed, HandledForTargets, MayBook
    <3>. QED  BY <1>1, <3>1 DEF Take, Current
  <2>. QED  BY <1>1, <2>1, <2>2 DEF Addressed, BookedToTargets, MayBook, IsQueryTarget
<1>. QED  BY <1>2, <1>4, <1>6 DEF Addressed

LEMMA NextAddressed == IInv /\ Addressed /\ [Next]_vars => Addressed'
<1>. SUFFICES ASSUME IInv, Addressed, [Next]_vars PROVE Addressed'
  OBVIOUS
<1>0. TypeOK /\ HandlesAName
  BY DEF IInv
<1>1. ASSUME NEW a \in dispatch, DispatchQueries(a) PROVE Addressed'
  <2>1. /\ UNCHANGED <<targets, read, pending, worker, execs>>
        /\ dispatch' \cup logs' \subseteq dispatch \cup logs
    BY <1>1 DEF DispatchQueries
  <2>2. TargetsStay
    BY <2>1 DEF TargetsStay
  <2>3. BookedToTargets'
    BY <2>1 DEF Addressed, BookedToTargets, MayBook, IsQueryTarget
  <2>. QED  BY <1>0, <2>1, <2>2, <2>3, GivenStay, HandledStay DEF Addressed
<1>2. CASE UNCHANGED vars
  <2>1. UNCHANGED <<targets, read, pending, worker, dispatch, execs, logs>>
    BY <1>2 DEF vars
  <2>2. TargetsStay
    BY <2>1 DEF TargetsStay
  <2>. QED  BY <1>0, <2>1, <2>2, GivenStay, HandledStay, BookedStay DEF Addressed
<1>. QED
  BY <1>0, <1>1, <1>2, RequesterAddressed, NodeAddressed, WorkerAddressed
     DEF Next, Requester, Operator, QueryRunPOSTHandler, CarvesRunPOSTHandler,
         apiQueriesRunHandler, RequestKinds

(* However keys are replaced, nodes removed and statements fail between a  *)
(* read, a write and its accounting, no result is booked to a node that    *)
(* the query does not target.                                              *)
THEOREM TrackedSound == Spec => []OnlyTargetedNodesTracked
<1>1. Addressed => OnlyTargetedNodesTracked
  BY DEF Addressed, BookedToTargets, MayBook, IsQueryTarget, OnlyTargetedNodesTracked
<1>2. IInv /\ Addressed /\ [Next]_vars => Addressed'
  BY NextAddressed
<1>. QED  BY <1>1, <1>2, InitAddressed, InvariantHolds, PTL DEF Spec

-----------------------------------------------------------------------------
(* Goroutines that overlap, with the history of module QueriesOverlap.     *)
(* What one of them read of a counter is what the counter shows, unless    *)
(* another one had read it too; so the counters show every result, and a   *)
(* query that has the results it expects is completed, or a goroutine that *)
(* counted one of them has yet to look at it.                              *)

SeenExact ==
  \A w \in Workers : worker[w].pc = "write" /\ worker[w].name \notin raced =>
    worker[w].seen = tally[worker[w].name][Current(w).result]

CountingAlone ==
  \A q \in Names \ raced, r \in Results, v \in Workers, w \in Workers :
    Counting(v, q, r) /\ Counting(w, q, r) => v = w

JudgedBy(w, q) == worker[w].pc \in {"track", "verify", "complete"} /\ worker[w].name = q

Judged(q) ==
  \/ Closed(q) \/ Answers(q) = 0 \/ Answers(q) < query[q].expected
  \/ \E w \in Workers : JudgedBy(w, q)

CountedCreated == \A a \in counted : a.name \in Created

(* The parts that each actor has to keep; CountingAlone is kept by Record. *)
Balanced ==
  /\ QueryCountersExact /\ SeenExact /\ CountedCreated
  /\ \A q \in Names \ Spoiled : Judged(q)

OverlapIInv == Balanced /\ CountingAlone

HistoryGrows == raced \subseteq raced' /\ reopened \subseteq reopened' /\ unjudged \subseteq unjudged'

LEMMA AnswersType ==
  ASSUME IsFiniteSet(counted), NEW q
  PROVE  /\ Answers(q) \in Nat
         /\ Cardinality(CountedFor(q, "ok")) \in Nat /\ Cardinality(CountedFor(q, "error")) \in Nat
BY CountedForFinite DEF Answers

LEMMA NoAnswers ==
  ASSUME NEW q, \A a \in counted : a.name # q
  PROVE  Answers(q) = 0
<1>1. CountedFor(q, "ok") = {} /\ CountedFor(q, "error") = {}
  BY DEF CountedFor
<1>. QED  BY <1>1, FS_EmptySet DEF Answers

LEMMA InitOverlapIInv == OverlapInit => OverlapIInv
<1>. SUFFICES ASSUME OverlapInit PROVE OverlapIInv
  OBVIOUS
<1>1. counted = {} /\ \A w \in Workers : worker[w].pc = "idle"
  BY DEF OverlapInit, Init, Resting
<1>2. \A q, r : CountedFor(q, r) = {}
  BY <1>1 DEF CountedFor
<1>3. \A q \in Names : Judged(q)
  BY <1>1, NoAnswers DEF Judged
<1>4. QueryCountersExact
  BY <1>2, FS_EmptySet DEF QueryCountersExact, OverlapInit, Init
<1>. QED
  BY <1>1, <1>3, <1>4 DEF OverlapIInv, Balanced, SeenExact, CountedCreated, CountingAlone, Counting

(* Steps that concern no goroutine. *)
LEMMA ElsewhereBalanced ==
  ASSUME Balanced, HistoryGrows, IsFiniteSet(counted), UNCHANGED <<counted, tally, worker>>,
         Created \subseteq Created',
         \A q \in Names \ reopened' : Closed(q) => Closed(q)' \/ Answers(q) = 0,
         \A q \in Names : query'[q].expected = query[q].expected \/ query[q].expected = 0
  PROVE  Balanced'
<1>1. CountedCreated'
  BY DEF Balanced, CountedCreated
<1>2. \A q, r : CountedFor(q, r)' = CountedFor(q, r)
  BY DEF CountedFor
<1>3. QueryCountersExact' /\ SeenExact'
  BY <1>2 DEF Balanced, QueryCountersExact, SeenExact, Current, HistoryGrows
<1>4. ASSUME NEW q \in Names, q \notin Spoiled' PROVE Judged(q)'
  <2>0. q \notin Spoiled /\ q \notin reopened'
    BY <1>4 DEF Spoiled, HistoryGrows
  <2>1. Answers(q)' = Answers(q)
    BY <1>2 DEF Answers
  <2>2. Answers(q) \in Nat
    BY AnswersType
  <2>3. CASE Answers(q) < query[q].expected
    <3>1. query[q].expected # 0
      BY <2>2, <2>3
    <3>. QED  BY <2>1, <2>3, <3>1 DEF Judged
  <2>4. CASE \E w \in Workers : JudgedBy(w, q)
    BY <2>4 DEF Judged, JudgedBy
  <2>. QED  BY <2>0, <2>1, <2>3, <2>4 DEF Balanced, Judged
<1>. QED  BY <1>1, <1>3, <1>4 DEF Balanced

LEMMA RequesterBalanced ==
  ASSUME IInv, LIInv, Balanced, HistoryGrows, NEW q \in Names,
         \/ \E by \in RequestKinds : RunCreate(q, by)
         \/ RunCount(q) \/ RunSetExpected(q) \/ RunAbort(q)
         \/ \E t \in Targets : RunTarget(q, t)
  PROVE  Balanced'
<1>. USE DEF rows
<1>0. query \in [Names -> QueryRow] /\ IsFiniteSet(counted)
  BY DEF IInv, TypeOK
<1>1. CASE \E by \in RequestKinds : RunCreate(q, by)
  <2>1. /\ query' = [query EXCEPT ![q].created = TRUE, ![q].active = TRUE] /\ run[q].pc = "none"
        /\ UNCHANGED <<counted, tally, worker>>
    BY <1>1 DEF RunCreate
  <2>2. q \notin Created
    BY <2>1 DEF LIInv, Announced, Created
  <2>3. Answers(q) = 0
    BY <2>2, NoAnswers DEF Balanced, CountedCreated
  <2>4. /\ \A p \in Names : query'[p].expected = query[p].expected
        /\ \A p \in Names \ {q} : query'[p] = query[p]
        /\ query'[q].created
    BY <1>0, <2>1 DEF QueryRow
  <2>5. Created \subseteq Created'
    BY <2>4 DEF Created
  <2>. QED  BY <1>0, <2>1, <2>3, <2>4, <2>5, ElsewhereBalanced DEF Closed
<1>2. CASE RunSetExpected(q)
  <2>1. query[q].expected = 0
    BY <1>2 DEF RunSetExpected, LIInv, Announced
  <2>2. PICK n : query' = [query EXCEPT ![q].expected = n] /\ UNCHANGED <<counted, tally, worker>>
    BY <1>2 DEF RunSetExpected
  <2>3. /\ \A p \in Names \ {q} : query'[p] = query[p]
        /\ query'[q].created = query[q].created /\ query'[q].completed = query[q].completed
        /\ query'[q].active = query[q].active
    BY <1>0, <2>2 DEF QueryRow
  <2>4. Created \subseteq Created'
    BY <2>3 DEF Created
  <2>. QED  BY <1>0, <2>1, <2>2, <2>3, <2>4, ElsewhereBalanced DEF Closed
<1>3. CASE RunCount(q) \/ RunAbort(q) \/ \E t \in Targets : RunTarget(q, t)
  <2>1. UNCHANGED <<query, counted, tally, worker>>
    BY <1>3 DEF RunCount, RunAbort, RunTarget
  <2>. QED  BY <1>0, <2>1, ElsewhereBalanced DEF Closed, Created
<1>. QED  BY <1>1, <1>2, <1>3

LEMMA FlagsOfRow ==
  ASSUME NEW row \in QueryRow
  PROVE  /\ [row EXCEPT !.completed = TRUE, !.active = FALSE].created = row.created
         /\ [row EXCEPT !.completed = TRUE, !.active = FALSE].expected = row.expected
         /\ [row EXCEPT !.completed = TRUE, !.active = FALSE].completed
         /\ ~[row EXCEPT !.completed = TRUE, !.active = FALSE].active
         /\ [row EXCEPT !.deleted = TRUE, !.active = FALSE].created = row.created
         /\ [row EXCEPT !.deleted = TRUE, !.active = FALSE].expected = row.expected
         /\ [row EXCEPT !.deleted = TRUE, !.active = FALSE].completed = row.completed
         /\ ~[row EXCEPT !.deleted = TRUE, !.active = FALSE].active
         /\ [row EXCEPT !.completed = FALSE, !.active = TRUE].created = row.created
         /\ [row EXCEPT !.completed = FALSE, !.active = TRUE].expected = row.expected
         /\ [row EXCEPT !.completed = FALSE, !.active = TRUE].active
BY DEF QueryRow

(* Only Activate opens a query that is closed, and then that is recorded. *)
LEMMA OperatorBalanced ==
  ASSUME IInv, Balanced, HistoryGrows, Reopens \subseteq reopened', NEW q \in Names,
         Complete(q) \/ Activate(q) \/ Delete(q)
  PROVE  Balanced'
<1>0. query \in [Names -> QueryRow] /\ query[q] \in QueryRow /\ IsFiniteSet(counted)
  BY DEF IInv, TypeOK
<1>1. PICK row : /\ SetFlags(q, row)
                 /\ row.created = query[q].created /\ row.expected = query[q].expected
                 /\ row.active \/ (~row.active /\ (query[q].completed => row.completed))
  <2>1. CASE Complete(q)
    BY <1>0, <2>1, FlagsOfRow DEF Complete
  <2>2. CASE Delete(q)
    BY <1>0, <2>2, FlagsOfRow DEF Delete
  <2>3. CASE Activate(q)
    BY <1>0, <2>3, FlagsOfRow DEF Activate
  <2>. QED  BY <2>1, <2>2, <2>3
<1>2. /\ \A p \in Names \ {q} : query'[p] = query[p]
      /\ query'[q] = row /\ query[q].created /\ UNCHANGED <<counted, tally, worker>>
  BY <1>0, <1>1 DEF SetFlags
<1>3. Created \subseteq Created'
  BY <1>1, <1>2 DEF Created
<1>4. Closed(q) /\ row.active => q \in reopened'
  BY <1>2 DEF Closed, Reopens
<1>5. \A p \in Names \ reopened' : Closed(p) => Closed(p)'
  BY <1>1, <1>2, <1>4 DEF Closed
<1>. QED  BY <1>0, <1>1, <1>2, <1>3, <1>5, ElsewhereBalanced

(* Steps of a goroutine, but for the increment. *)
LEMMA GoroutineBalanced ==
  ASSUME Balanced, HistoryGrows, UNCHANGED <<counted, tally>>, NEW w \in Workers,
         \A v \in Workers : v # w => worker'[v] = worker[v],
         worker'[w].pc = "write" => worker'[w].seen = tally[worker'[w].name][Current(w)'.result],
         Created \subseteq Created',
         \A q \in Names : Closed(q) => Closed(q)', \A q \in Names : query'[q].expected = query[q].expected,
         \A q \in Names \ Spoiled' : JudgedBy(w, q) =>
            Closed(q)' \/ Answers(q) < query[q].expected \/ JudgedBy(w, q)'
  PROVE  Balanced'
<1>1. CountedCreated'
  BY DEF Balanced, CountedCreated
<1>2. \A q, r : CountedFor(q, r)' = CountedFor(q, r)
  BY DEF CountedFor
<1>3. QueryCountersExact' /\ SeenExact'
  BY <1>2 DEF Balanced, QueryCountersExact, SeenExact, Current, HistoryGrows
<1>4. ASSUME NEW q \in Names, q \notin Spoiled' PROVE Judged(q)'
  <2>0. q \notin Spoiled
    BY <1>4 DEF Spoiled, HistoryGrows
  <2>1. Answers(q)' = Answers(q)
    BY <1>2 DEF Answers
  <2>2. CASE JudgedBy(w, q)
    BY <1>4, <2>1, <2>2 DEF Judged
  <2>3. ASSUME NEW v \in Workers, v # w, JudgedBy(v, q) PROVE Judged(q)'
    BY <2>3 DEF Judged, JudgedBy
  <2>. QED  BY <2>0, <2>1, <2>2, <2>3 DEF Balanced, Judged
<1>. QED  BY <1>1, <1>3, <1>4 DEF Balanced

LEMMA WriteBalanced ==
  ASSUME IInv, Balanced, HistoryGrows, NEW n \in Nodes, NEW w \in Workers, Write(n, w)
  PROVE  Balanced'
<1>1. /\ worker[w].pc = "idle" /\ worker'[w].pc = "lookup"
      /\ \A v \in Workers : v # w => worker'[v] = worker[v]
      /\ UNCHANGED <<query, counted, tally>>
  BY DEF Write, Resting, IInv, TypeOK, rows
<1>. QED  BY <1>1, GoroutineBalanced DEF Created, Closed, JudgedBy

(* The counter is what it was when it was read, unless that is recorded. *)
LEMMA IncWriteBalanced ==
  ASSUME IInv, LIInv, OverlapIInv, HistoryGrows, NEW w \in Workers, IncWrite(w)
  PROVE  Balanced'
<1>0. worker[w] \in WorkerState /\ worker \in [Workers -> WorkerState] /\ TypeOK
  BY DEF IInv, TypeOK
<1>1. PICK q \in Names, r \in Results :
        /\ q = worker[w].name /\ r = Current(w).result /\ query[q].created
        /\ Current(w).name = q /\ Current(w).by = w
  BY <1>0, CurrentType DEF IncWrite, LIInv, OnlyCreated, Created, Handling
<1>2. Current(w) \notin counted
  BY <1>1 DEF IInv, CountedOnce, IncWrite
<1>3. /\ counted' = counted \cup {Current(w)} /\ IsFiniteSet(counted) /\ UNCHANGED query
      /\ tally' = [tally EXCEPT ![q][r] = worker[w].seen + 1]
      /\ worker' = [worker EXCEPT ![w].pc = "track"]
  BY <1>1 DEF IncWrite, Goto, IInv
<1>4. /\ worker'[w].pc = "track" /\ worker'[w].name = q
      /\ \A v \in Workers : v # w => worker'[v] = worker[v]
  BY <1>0, <1>1, <1>3 DEF WorkerState
<1>5. Counting(w, q, r)
  BY <1>1 DEF Counting, IncWrite
<1>6. CountedCreated'
  BY <1>1, <1>3 DEF OverlapIInv, Balanced, CountedCreated, Created
<1>7. \A p, s : /\ Cardinality(CountedFor(p, s)) \in Nat
                /\ Cardinality(CountedFor(p, s))' =
                     Cardinality(CountedFor(p, s)) + (IF q = p /\ r = s THEN 1 ELSE 0)
  BY <1>1, <1>2, <1>3, CountedForFinite, CountedForGrows
<1>8. QueryCountersExact'
  <2>1. q \notin raced' => worker[w].seen = tally[q][r]
    BY <1>1 DEF OverlapIInv, Balanced, SeenExact, IncWrite, HistoryGrows
  <2>2. ASSUME NEW p \in Names \ raced', NEW s \in Results
        PROVE  tally'[p][s] = Cardinality(CountedFor(p, s))'
    <3>1. tally[p][s] = Cardinality(CountedFor(p, s))
      BY DEF OverlapIInv, Balanced, QueryCountersExact, HistoryGrows
    <3>2. CASE q = p /\ r = s
      <4>1. tally'[p][s] = worker[w].seen + 1
        BY <1>0, <1>3, <3>2 DEF TypeOK
      <4>. QED  BY <1>7, <2>1, <3>1, <3>2, <4>1
    <3>3. CASE ~(q = p /\ r = s)
      <4>1. tally'[p][s] = tally[p][s]
        BY <1>0, <1>3, <3>3 DEF TypeOK
      <4>2. Cardinality(CountedFor(p, s))' = Cardinality(CountedFor(p, s))
        BY <1>7, <3>3
      <4>. QED  BY <3>1, <4>1, <4>2
    <3>. QED  BY <3>2, <3>3
  <2>. QED  BY <2>2 DEF QueryCountersExact
<1>9. SeenExact'
  <2>. SUFFICES ASSUME NEW v \in Workers, worker'[v].pc = "write", worker'[v].name \notin raced'
                PROVE  worker'[v].seen = tally'[worker'[v].name][Current(v)'.result]
    BY DEF SeenExact
  <2>1. v # w /\ worker'[v] = worker[v]
    BY <1>4
  <2>2. PICK p \in Names, s \in Results : p = worker[v].name /\ s = Current(v).result
    BY <1>0, <2>1, CurrentType DEF IInv, HandlesAName, Handling
  <2>3. Current(v)'.result = s
    BY <2>1, <2>2 DEF Current
  <2>4. p \notin raced /\ Counting(v, p, s)
    BY <2>1, <2>2 DEF HistoryGrows, Counting
  <2>5. ~(q = p /\ r = s)
    BY <1>5, <2>1, <2>4 DEF OverlapIInv, CountingAlone
  <2>6. tally'[p][s] = tally[p][s]
    BY <1>0, <1>3, <2>5 DEF TypeOK
  <2>7. worker[v].seen = tally[p][s]
    BY <2>1, <2>2, <2>4 DEF OverlapIInv, Balanced, SeenExact
  <2>. QED  BY <2>1, <2>2, <2>3, <2>6, <2>7
<1>10. ASSUME NEW p \in Names, p \notin Spoiled' PROVE Judged(p)'
  <2>1. CASE p = q
    BY <1>4, <2>1 DEF Judged, JudgedBy
  <2>2. CASE p # q
    <3>1. Answers(p)' = Answers(p)
      BY <1>7, <2>2 DEF Answers
    <3>2. \A v \in Workers : JudgedBy(v, p) => JudgedBy(v, p)'
      BY <1>1, <1>4, <2>2 DEF JudgedBy
    <3>3. Judged(p)
      BY <1>10 DEF OverlapIInv, Balanced, Spoiled, HistoryGrows
    <3>. QED  BY <1>3, <3>1, <3>2, <3>3 DEF Judged, Closed
  <2>. QED  BY <2>1, <2>2
<1>. QED  BY <1>6, <1>8, <1>9, <1>10 DEF Balanced

(* A goroutine that goes on without having completed a query that has its  *)
(* results has met a failing statement.                                    *)
LEMMA VerifyBalanced ==
  ASSUME IInv, Balanced, HistoryGrows, {q \in Names : Unjudged(q)} \subseteq unjudged',
         NEW w \in Workers, Verify(w)
  PROVE  Balanced'
<1>. USE DEF rows
<1>0. /\ worker[w] \in WorkerState /\ worker \in [Workers -> WorkerState]
      /\ query \in [Names -> QueryRow] /\ IsFiniteSet(counted) /\ TypeOK
  BY DEF IInv, TypeOK
<1>1. UNCHANGED <<query, counted, tally>> /\ worker[w].pc = "verify"
  BY DEF Verify
<1>2. PICK q \in Names : q = worker[w].name
  BY <1>1 DEF IInv, HandlesAName, Handling
<1>3. CASE worker' = [worker EXCEPT ![w].pc = "complete", ![w].quota = query[worker[w].name].expected]
  <2>1. /\ worker'[w].pc = "complete" /\ worker'[w].name = worker[w].name
        /\ \A v \in Workers : v # w => worker'[v] = worker[v]
    BY <1>0, <1>3 DEF WorkerState
  <2>. QED  BY <1>1, <2>1, GoroutineBalanced DEF Created, Closed, JudgedBy
<1>4. CASE Proceed(w)
  <2>1. /\ worker'[w].pc \in {"next", "done"}
        /\ \A v \in Workers : v # w => worker'[v] = worker[v]
    BY <1>0, <1>4, ProceedType
  <2>2. ASSUME q \notin Spoiled' PROVE Answers(q) < query[q].expected
    <3>1. ~Enough(q)
      <4>1. Enough(q) => Unjudged(q)
        BY <1>1, <1>2, <2>1 DEF Unjudged
      <4>. QED  BY <2>2, <4>1 DEF Spoiled
    <3>2. /\ tally[q]["ok"] = Cardinality(CountedFor(q, "ok"))
          /\ tally[q]["error"] = Cardinality(CountedFor(q, "error"))
      BY <2>2 DEF Balanced, QueryCountersExact, Results, Spoiled, HistoryGrows
    <3>3. query[q].expected \in Nat
      BY <1>0 DEF QueryRow
    <3>4. ~(Answers(q) >= query[q].expected)
      BY <3>1, <3>2 DEF Enough, Answers
    <3>. QED  BY <1>0, <3>3, <3>4, AnswersType
  <2>. QED  BY <1>1, <1>2, <2>1, <2>2, GoroutineBalanced DEF Created, Closed, JudgedBy
<1>. QED  BY <1>3, <1>4 DEF Verify

LEMMA VerifyCompleteBalanced ==
  ASSUME IInv, Balanced, HistoryGrows, {q \in Names : Unjudged(q)} \subseteq unjudged',
         NEW w \in Workers, VerifyComplete(w)
  PROVE  Balanced'
<1>. USE DEF rows
<1>0. /\ worker[w] \in WorkerState /\ worker \in [Workers -> WorkerState]
      /\ query \in [Names -> QueryRow] /\ IsFiniteSet(counted) /\ TypeOK
  BY DEF IInv, TypeOK
<1>1. /\ UNCHANGED <<counted, tally>> /\ worker[w].pc = "complete" /\ Proceed(w)
      /\ \/ query' = [query EXCEPT ![worker[w].name].completed = TRUE, ![worker[w].name].active = FALSE]
         \/ UNCHANGED query
  BY DEF VerifyComplete
<1>2. PICK q \in Names : q = worker[w].name
  BY <1>1 DEF IInv, HandlesAName, Handling
<1>3. /\ worker'[w].pc \in {"next", "done"}
      /\ \A v \in Workers : v # w => worker'[v] = worker[v]
  BY <1>0, <1>1, ProceedType
<1>4. CASE UNCHANGED query
  <2>1. q \notin Spoiled' => Closed(q)'
    <3>1. ~Closed(q)' => Unjudged(q)
      BY <1>1, <1>2, <1>3 DEF Unjudged
    <3>. QED  BY <3>1 DEF Spoiled
  <2>. QED  BY <1>1, <1>2, <1>3, <1>4, <2>1, GoroutineBalanced DEF Created, Closed, JudgedBy
<1>5. CASE query' = [query EXCEPT ![worker[w].name].completed = TRUE, ![worker[w].name].active = FALSE]
  <2>1. /\ query'[q].completed /\ ~query'[q].active
        /\ query'[q].created = query[q].created /\ query'[q].expected = query[q].expected
        /\ \A p \in Names \ {q} : query'[p] = query[p]
    <3>1. PICK row \in QueryRow : row = query[q]
      BY <1>0
    <3>2. PICK new : new = [row EXCEPT !.completed = TRUE, !.active = FALSE]
      OBVIOUS
    <3>3. query' = [query EXCEPT ![q] = new]
      BY <1>2, <1>5, <3>1, <3>2
    <3>. QED  BY <1>0, <3>1, <3>2, <3>3, FlagsOfRow
  <2>2. Created \subseteq Created'
    BY <2>1 DEF Created
  <2>. QED  BY <1>1, <1>2, <1>3, <2>1, <2>2, GoroutineBalanced DEF Closed, JudgedBy
<1>. QED  BY <1>1, <1>4, <1>5

LEMMA WorkerBalanced ==
  ASSUME IInv, LIInv, OverlapIInv, HistoryGrows, {q \in Names : Unjudged(q)} \subseteq unjudged',
         NEW w \in Workers, WorkerStep(w)
  PROVE  Balanced'
<1>. USE DEF rows
<1>0. /\ worker[w] \in WorkerState /\ worker \in [Workers -> WorkerState] /\ Balanced
  BY DEF IInv, TypeOK, OverlapIInv
<1>1. CASE Lookup(w) \/ Take(w)
  <2>1. /\ UNCHANGED <<query, counted, tally>> /\ worker[w].pc \in {"lookup", "next"}
        /\ \E u : \/ worker' = [worker EXCEPT ![w].pc = "next", ![w].uuid = u]
                 \/ worker' = [worker EXCEPT ![w].pc = "inc", ![w].name = u, ![w].todo = @ \ {u}]
    BY <1>1 DEF Lookup, Take
  <2>2. /\ worker'[w].pc \in {"next", "inc"}
        /\ \A v \in Workers : v # w => worker'[v] = worker[v]
    BY <1>0, <2>1 DEF WorkerState
  <2>. QED  BY <1>0, <2>1, <2>2, GoroutineBalanced DEF Created, Closed, JudgedBy
<1>2. CASE IncRead(w)
  <2>1. PICK seen : /\ worker' = [worker EXCEPT ![w].pc = "write", ![w].seen = seen]
                    /\ seen = tally[worker[w].name][Current(w).result]
    BY <1>2 DEF IncRead
  <2>2. /\ UNCHANGED <<query, counted, tally>> /\ worker[w].pc = "inc"
        /\ \A v \in Workers : v # w => worker'[v] = worker[v]
        /\ worker'[w].seen = seen /\ worker'[w].name = worker[w].name
        /\ worker'[w].failed = worker[w].failed
    BY <1>0, <1>2, <2>1 DEF IncRead, WorkerState
  <2>3. Current(w)'.result = Current(w).result
    BY <2>2 DEF Current
  <2>. QED  BY <1>0, <2>1, <2>2, <2>3, GoroutineBalanced DEF Created, Closed, JudgedBy
<1>3. CASE TrackExecution(w) \/ IncFail(w)
  <2>1. PICK pc \in {"track", "verify"} : worker' = [worker EXCEPT ![w].pc = pc]
    BY <1>3 DEF IncFail, TrackExecution, Goto
  <2>2. /\ UNCHANGED <<query, counted, tally>> /\ worker'[w].pc = pc
        /\ \A v \in Workers : v # w => worker'[v] = worker[v]
        /\ worker'[w].name = worker[w].name
    BY <1>0, <1>3, <2>1 DEF TrackExecution, IncFail, WorkerState
  <2>. QED  BY <1>0, <2>2, GoroutineBalanced DEF Created, Closed, JudgedBy
<1>4. CASE IncWrite(w)
  BY <1>4, IncWriteBalanced
<1>5. CASE Verify(w)
  BY <1>0, <1>5, VerifyBalanced
<1>6. CASE VerifyComplete(w)
  BY <1>0, <1>6, VerifyCompleteBalanced
<1>. QED  BY <1>1, <1>2, <1>3, <1>4, <1>5, <1>6 DEF WorkerStep

LEMMA NextOverlapIInv ==
  IInv /\ LIInv /\ OverlapIInv /\ [OverlapNext]_overlapVars => OverlapIInv'
<1>. SUFFICES ASSUME IInv, LIInv, OverlapIInv, [OverlapNext]_overlapVars PROVE OverlapIInv'
  OBVIOUS
<1>. USE DEF rows
<1>1. IsFiniteSet(counted) /\ Balanced
  BY DEF IInv, OverlapIInv
<1>2. ASSUME OverlapNext PROVE CountingAlone'
  BY <1>2 DEF OverlapNext, Record, Contested, CountingAlone
<1>3. ASSUME OverlapNext PROVE Balanced'
  <2>1. /\ HistoryGrows /\ Reopens \subseteq reopened'
        /\ {q \in Names : Unjudged(q)} \subseteq unjudged'
    BY <1>3 DEF OverlapNext, Record, HistoryGrows
  <2>2. CASE UNCHANGED <<query, counted, tally, worker>>
    BY <1>1, <2>1, <2>2, ElsewhereBalanced DEF Closed, Created
  <2>3. ASSUME NEW n \in Nodes, NodeStep(n) PROVE Balanced'
    <3>1. CASE \E w \in Workers : Write(n, w)
      BY <1>1, <2>1, <3>1, WriteBalanced
    <3>2. CASE ~ \E w \in Workers : Write(n, w)
      BY <2>2, <2>3, <3>2 DEF NodeStep, Enroll, RemoveNode, ReadBegin, ReadReply, ReadCheck
    <3>. QED  BY <3>1, <3>2
  <2>4. CASE \E a \in dispatch : DispatchQueries(a)
    BY <2>2, <2>4 DEF DispatchQueries
  <2>5. CASE \E q \in Names : Complete(q) \/ Activate(q) \/ Delete(q)
    BY <1>1, <2>1, <2>5, OperatorBalanced
  <2>6. CASE \E w \in Workers : WorkerStep(w)
    BY <2>1, <2>6, WorkerBalanced
  <2>7. CASE Requester
    BY <1>1, <2>1, <2>7, RequesterBalanced
       DEF Requester, QueryRunPOSTHandler, CarvesRunPOSTHandler, apiQueriesRunHandler, RequestKinds
  <2>. QED  BY <1>3, <2>3, <2>4, <2>5, <2>6, <2>7 DEF OverlapNext, Next, Operator
<1>4. CASE UNCHANGED overlapVars
  <2>1. UNCHANGED <<query, counted, tally, worker, raced, reopened, unjudged>>
    BY <1>4 DEF overlapVars, vars
  <2>2. Balanced'
    BY <1>1, <2>1, ElsewhereBalanced DEF Closed, Created, HistoryGrows
  <2>3. CountingAlone'
    BY <2>1 DEF OverlapIInv, CountingAlone, Counting, Current
  <2>. QED  BY <2>2, <2>3 DEF OverlapIInv
<1>. QED  BY <1>2, <1>3, <1>4 DEF OverlapIInv

LEMMA OverlapRefines == OverlapSpec => Spec
<1>1. OverlapInit => Init
  BY DEF OverlapInit
<1>2. [OverlapNext]_overlapVars => [Next]_vars
  BY DEF OverlapNext, overlapVars
<1>. QED  BY <1>1, <1>2, PTL DEF OverlapSpec, Spec

(* The inductive invariant of goroutines that overlap.                     *)
THEOREM OverlapInvariantHolds == OverlapSpec => []OverlapIInv
<1>1. Spec => []LIInv
  BY InitLIInv, NextLIInv, InvariantHolds, PTL DEF Spec
<1>. QED  BY <1>1, InitOverlapIInv, NextOverlapIInv, InvariantHolds, OverlapRefines, PTL DEF OverlapSpec

(* "IncExecution to increase the execution count for this query" is true   *)
(* of any number of goroutines, whatever fails, of every query of which no *)
(* two were between the read and the write of the same counter at once:    *)
(* that is the only way to lose an increment.                              *)
THEOREM QueryCountersSound == OverlapSpec => []QueryCountersExact
<1>1. OverlapIInv => QueryCountersExact
  BY DEF OverlapIInv, Balanced
<1>. QED  BY <1>1, OverlapInvariantHolds, PTL

(* However many goroutines overlap, and however the request that creates a *)
(* query, nodes, operators and failures come between: a query that has the *)
(* results it expects is completed once nothing is under way, unless an    *)
(* increment can have been lost, VerifyComplete failed or an operator      *)
(* activated the query again.                                              *)
THEOREM CompletionSound == OverlapSpec => []CompletedWhenAnswered
<1>1. IInv /\ OverlapIInv => CompletedWhenAnswered
  <2>. SUFFICES ASSUME IInv, OverlapIInv, NEW q \in Names \ Spoiled, Settled,
                       Answers(q) > 0, Answers(q) >= query[q].expected
                PROVE  Closed(q)
    BY DEF CompletedWhenAnswered
  <2>1. \A w \in Workers : ~JudgedBy(w, q)
    BY DEF Settled, Running, JudgedBy
  <2>2. Answers(q) \in Nat /\ query[q].expected \in Nat
    BY AnswersType DEF IInv, TypeOK, QueryRow
  <2>. QED  BY <2>1, <2>2 DEF OverlapIInv, Balanced, Judged
<1>. QED  BY <1>1, OverlapInvariantHolds, OverlapRefines, InvariantHolds, PTL
=============================================================================

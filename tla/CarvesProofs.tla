---------------------------- MODULE CarvesProofs ----------------------------
(***************************************************************************)
(* Theorems about module Carves, for any number of uploads, blocks and     *)
(* goroutines.                                                             *)
(***************************************************************************)
EXTENDS CarvesProps, FiniteSetTheorems, TLAPS

-----------------------------------------------------------------------------
(* The inductive invariant. *)

(* A session in use is that of a carve for good. *)
Opened ==
  /\ \A s \in Sessions :
       IF file[s].state = "none" THEN file[s].status = "INITIALIZED"
                                 ELSE file[s].carve \in Carvings
  /\ \A w \in Workers :
       worker[w].pc # "idle" =>
         worker[w].session \in Sessions /\ file[worker[w].session].state # "none"

ClientOpened ==
  \A c \in Carvings : client[c].pc = "sending" => client[c].session \in Sessions

CountBounded ==
  /\ IsFiniteSet(counted)
  /\ \A s \in Sessions : file[s].completed <= Cardinality(CountedFor(s))

(* A counter that was read stays a lower bound until it is written back. *)
ReadBounded ==
  \A w \in Workers :
    worker[w].pc = "write" => worker[w].seen <= Cardinality(CountedFor(worker[w].session))

CountedOnce ==
  \A d \in counted : worker[d.by].pc \notin {"idle", "store", "read", "write"}

CarvesIInv ==
  /\ CarvesTypeOK /\ Opened /\ ClientOpened
  /\ CountBounded /\ ReadBounded /\ CountedOnce
  /\ FinishNeverEarly

(* While every block is sent once and every statement succeeds. *)
Sending(c, s) == client[c].pc = "sending" /\ client[c].session = s

OneClientPerSession ==
  \A c \in Carvings : client[c].pc = "sending" =>
    /\ client[c].session \in Sessions
    /\ file[client[c].session].state # "none"
    /\ file[client[c].session].carve = c

EachBlockOnce ==
  \A w \in Workers : worker[w].pc # "idle" =>
    /\ worker[w].block < Total[file[worker[w].session].carve]
    /\ \A c \in Carvings : Sending(c, worker[w].session) => worker[w].block < client[c].next
    /\ \A v \in Workers :
         /\ worker[v].pc # "idle" /\ worker[v].session = worker[w].session
         /\ worker[v].block = worker[w].block
         => v = w

StoredBeforeCounted ==
  /\ counted \subseteq blocks
  /\ \A d \in blocks : worker[d.by].pc # "idle" /\ d = Current(d.by)
  /\ \A w \in Workers : worker[w].pc \in {"read", "write"} => Current(w) \in blocks

ExactlyOnce == OneClientPerSession /\ EachBlockOnce /\ StoredBeforeCounted

-----------------------------------------------------------------------------
(* Typing *)

PCs == {"idle", "store", "read", "write", "check", "progress", "finish", "stamp", "done"}

LEMMA GotoMoves ==
  ASSUME CarvesTypeOK, NEW w \in Workers, NEW pc \in PCs, Goto(w, pc)
  PROVE  /\ worker' \in [Workers -> WorkerState]
         /\ worker'[w].pc = pc /\ worker'[w].session = worker[w].session
         /\ worker'[w].block = worker[w].block /\ worker'[w].seen = worker[w].seen
         /\ \A v \in Workers : v # w => worker'[v] = worker[v]
<1>1. worker \in [Workers -> WorkerState] /\ worker[w] \in WorkerState
  BY DEF CarvesTypeOK
<1>2. worker' = [worker EXCEPT ![w] = [worker[w] EXCEPT !.pc = pc]]
  BY DEF Goto
<1>3. [worker[w] EXCEPT !.pc = pc] \in WorkerState
  BY <1>1 DEF WorkerState, PCs
<1>4. worker' \in [Workers -> WorkerState]
  BY <1>1, <1>2, <1>3
<1>. QED  BY <1>1, <1>2, <1>4 DEF WorkerState

LEMMA UpdateType ==
  ASSUME CarvesTypeOK, NEW s \in Sessions, NEW row \in FileRow, Update(s, row)
  PROVE  /\ file' \in [Sessions -> FileRow]
         /\ file'[s] = IF Present(s) THEN row ELSE file[s]
         /\ \A t \in Sessions : t # s => file'[t] = file[t]
BY DEF Update, CarvesTypeOK

LEMMA FileRowType ==
  ASSUME NEW row \in FileRow, NEW n \in Nat, NEW status \in Statuses
  PROVE  /\ [row EXCEPT !.completed = n] \in FileRow
         /\ [row EXCEPT !.status = status] \in FileRow
         /\ [row EXCEPT !.state = "deleted"] \in FileRow
BY DEF FileRow

LEMMA ClientType ==
  ASSUME CarvesTypeOK, ClientOpened, NEW c \in Carvings,
         \/ Retry(c) \/ Advance(c) \/ GiveUp(c)
         \/ \E s \in Sessions :
              client' = [client EXCEPT ![c].pc = "sending", ![c].session = s]
  PROVE  client' \in [Carvings -> ClientState] /\ ClientOpened'
<1>1. client \in [Carvings -> ClientState] /\ client[c] \in ClientState
  BY DEF CarvesTypeOK
<1>2. PICK row \in ClientState :
        /\ client' = [client EXCEPT ![c] = row]
        /\ row.pc = "sending" => row.session \in Sessions
  <2>1. CASE Retry(c)
    <3>1. /\ [client[c] EXCEPT !.resends = @ + 1] \in ClientState
          /\ [client[c] EXCEPT !.resends = @ + 1].pc = client[c].pc
          /\ [client[c] EXCEPT !.resends = @ + 1].session = client[c].session
      BY <1>1 DEF ClientState
    <3>. QED  BY <2>1, <3>1 DEF Retry, ClientOpened
  <2>2. CASE Advance(c)
    <3>1. /\ [client[c] EXCEPT !.next = @ + 1] \in ClientState
          /\ [client[c] EXCEPT !.next = @ + 1].pc = client[c].pc
          /\ [client[c] EXCEPT !.next = @ + 1].session = client[c].session
      BY <1>1 DEF ClientState
    <3>. QED  BY <2>2, <3>1 DEF Advance, ClientOpened
  <2>3. CASE GiveUp(c)
    <3>1. /\ [client[c] EXCEPT !.pc = "over"] \in ClientState
          /\ [client[c] EXCEPT !.pc = "over"].pc = "over"
      BY <1>1 DEF ClientState
    <3>. QED  BY <2>3, <3>1 DEF GiveUp
  <2>4. ASSUME NEW s \in Sessions,
               client' = [client EXCEPT ![c].pc = "sending", ![c].session = s]
        PROVE  \E row \in ClientState :
                 /\ client' = [client EXCEPT ![c] = row]
                 /\ row.pc = "sending" => row.session \in Sessions
    <3>1. /\ [client[c] EXCEPT !.pc = "sending", !.session = s] \in ClientState
          /\ [client[c] EXCEPT !.pc = "sending", !.session = s].session = s
      BY <1>1 DEF ClientState
    <3>2. client' = [client EXCEPT ![c] = [client[c] EXCEPT !.pc = "sending", !.session = s]]
      BY <1>1, <2>4
    <3>. QED  BY <3>1, <3>2
  <2>. QED  BY <2>1, <2>2, <2>3, <2>4
<1>. QED  BY <1>1, <1>2 DEF ClientOpened

-----------------------------------------------------------------------------
(* Counting *)

LEMMA CountedForFinite ==
  ASSUME IsFiniteSet(counted), NEW s
  PROVE  IsFiniteSet(CountedFor(s)) /\ Cardinality(CountedFor(s)) \in Nat
<1>1. CountedFor(s) \subseteq counted
  BY DEF CountedFor
<1>. QED  BY <1>1, FS_Subset, FS_CardinalityType

(* One more block counted adds one to its own session and to no other. *)
LEMMA CountedForGrows ==
  ASSUME IsFiniteSet(counted), NEW d, d \notin counted, counted' = counted \cup {d}, NEW s
  PROVE  Cardinality(CountedFor(s))' =
           Cardinality(CountedFor(s)) + (IF d.session = s THEN 1 ELSE 0)
<1>1. IsFiniteSet(CountedFor(s)) /\ Cardinality(CountedFor(s)) \in Nat
  BY CountedForFinite
<1>2. CASE d.session = s
  <2>1. CountedFor(s)' = CountedFor(s) \cup {d} /\ d \notin CountedFor(s)
    BY <1>2 DEF CountedFor
  <2>2. Cardinality(CountedFor(s)') = Cardinality(CountedFor(s)) + 1
    BY <1>1, <2>1, FS_AddElement
  <2>. QED  BY <1>2, <2>2
<1>3. CASE d.session # s
  <2>1. CountedFor(s)' = CountedFor(s)
    BY <1>3 DEF CountedFor
  <2>. QED  BY <1>1, <1>3, <2>1
<1>. QED  BY <1>2, <1>3

-----------------------------------------------------------------------------
(* The invariant holds *)

LEMMA InitCarvesIInv == CarvesInit => CarvesIInv
<1>. SUFFICES ASSUME CarvesInit PROVE CarvesIInv
  OBVIOUS
<1>1. CarvesTypeOK
  BY DEF CarvesInit, CarvesTypeOK, FileRow, Statuses, ClientState, WorkerState
<1>2. IsFiniteSet(counted) /\ counted = {}
  BY FS_EmptySet DEF CarvesInit
<1>3. /\ \A w \in Workers : worker[w].pc = "idle"
      /\ \A s \in Sessions : /\ file[s].status = "INITIALIZED" /\ file[s].completed = 0
                             /\ file[s].state = "none"
  BY DEF CarvesInit
<1>4. \A s \in Sessions : Cardinality(CountedFor(s)) \in Nat
  BY <1>2, CountedForFinite
<1>5. CountBounded
  BY <1>2, <1>3, <1>4 DEF CountBounded
<1>6. Opened /\ ClientOpened /\ ReadBounded /\ CountedOnce /\ FinishNeverEarly
  BY <1>2, <1>3 DEF CarvesInit, Opened, ClientOpened, ReadBounded, CountedOnce, FinishNeverEarly
<1>. QED  BY <1>1, <1>5, <1>6 DEF CarvesIInv

(* How a goroutine moves in a step that counts no block. *)
Moves(w) ==
  \/ worker'[w] = worker[w]
  \/ worker[w].pc = "idle" /\ worker'[w].pc = "store"
  \/ /\ worker[w].pc # "idle" /\ worker'[w].session = worker[w].session
     /\ \/ worker'[w].pc \in {"check", "progress", "done"}
        \/ worker[w].pc = "store" /\ worker'[w].pc = "read"
        \/ /\ worker'[w].pc = "write"
           /\ worker[w].pc = "read"
           /\ worker'[w].seen = file[worker[w].session].completed
        \/ worker'[w].pc = "finish" /\ Completed(worker[w].session)
        \/ worker[w].pc = "finish" /\ worker'[w].pc = "stamp"

(* How a row changes in a step that counts no block. *)
RowKept(s) ==
  /\ file[s].state # "none" => file'[s].state # "none" /\ file'[s].carve = file[s].carve
  /\ file'[s].completed \in {0, file[s].completed}
  /\ file'[s].status = "COMPLETED" =>
       \/ file[s].status = "COMPLETED"
       \/ \E w \in Workers : worker[w].pc = "finish" /\ worker[w].session = s

LEMMA UncountedIInv ==
  ASSUME CarvesIInv, CarvesTypeOK', Opened', ClientOpened', UNCHANGED counted,
         \A w \in Workers : Moves(w),
         \A s \in Sessions : RowKept(s)
  PROVE  CarvesIInv'
<1>0. /\ CarvesTypeOK /\ Opened /\ CountBounded /\ ReadBounded /\ CountedOnce
      /\ FinishNeverEarly
  BY DEF CarvesIInv
<1>1. \A s : CountedFor(s)' = CountedFor(s) /\ Cardinality(CountedFor(s)) \in Nat
  BY <1>0, CountedForFinite DEF CountedFor, CountBounded
<1>2. CountBounded'
  <2>1. SUFFICES ASSUME NEW s \in Sessions
                 PROVE  file'[s].completed <= Cardinality(CountedFor(s)')
    BY <1>0 DEF CountBounded
  <2>2. file'[s].completed \in {0, file[s].completed}
    BY DEF RowKept
  <2>3. file[s].completed <= Cardinality(CountedFor(s))
    BY <1>0 DEF CountBounded
  <2>. QED  BY <1>1, <2>2, <2>3
<1>3. ReadBounded'
  <2>1. SUFFICES ASSUME NEW w \in Workers, worker'[w].pc = "write"
                 PROVE  worker'[w].seen <= Cardinality(CountedFor(worker'[w].session))
    BY DEF ReadBounded, CountedFor
  <2>2. CASE worker'[w] = worker[w]
    BY <1>0, <1>1, <2>1, <2>2 DEF ReadBounded
  <2>3. CASE worker'[w] # worker[w]
    <3>1. /\ worker[w].pc = "read" /\ worker'[w].session = worker[w].session
          /\ worker'[w].seen = file[worker[w].session].completed
      BY <2>1, <2>3 DEF Moves
    <3>2. file[worker[w].session].completed <= Cardinality(CountedFor(worker[w].session))
      BY <1>0, <3>1 DEF Opened, CountBounded
    <3>. QED  BY <1>1, <3>1, <3>2
  <2>. QED  BY <2>2, <2>3
<1>4. CountedOnce'
  <2>1. SUFFICES ASSUME NEW d \in counted
                 PROVE  worker'[d.by].pc \notin {"idle", "store", "read", "write"}
    BY DEF CountedOnce
  <2>2. d.by \in Workers /\ worker[d.by].pc \notin {"idle", "store", "read", "write"}
    BY <1>0 DEF CarvesTypeOK, Delivery, CountedOnce
  <2>. QED  BY <2>2 DEF Moves
<1>5. \A s \in Sessions : file[s].state # "none" => file'[s].carve = file[s].carve
  BY DEF RowKept
<1>6. ASSUME NEW w \in Workers, worker[w].pc \in {"finish", "stamp"}
      PROVE  /\ worker[w].session \in Sessions
             /\ Cardinality(CountedFor(worker[w].session)) >=
                  Total[file'[worker[w].session].carve]
  <2>1. worker[w].session \in Sessions /\ file[worker[w].session].state # "none"
    BY <1>0, <1>6 DEF Opened
  <2>2. Cardinality(CountedFor(worker[w].session)) >= Total[file[worker[w].session].carve]
    BY <1>0, <1>6 DEF FinishNeverEarly
  <2>. QED  BY <1>1, <1>5, <2>1, <2>2
<1>7. ASSUME NEW s \in Sessions, file'[s].status = "COMPLETED"
      PROVE  Cardinality(CountedFor(s)) >= Total[file'[s].carve]
  <2>1. CASE file[s].status = "COMPLETED"
    <3>1. file[s].state # "none"
      BY <1>0, <2>1 DEF Opened
    <3>2. Cardinality(CountedFor(s)) >= Total[file[s].carve]
      BY <1>0, <2>1 DEF FinishNeverEarly
    <3>. QED  BY <1>1, <1>5, <3>1, <3>2
  <2>2. ASSUME NEW w \in Workers, worker[w].pc = "finish", worker[w].session = s
        PROVE  Cardinality(CountedFor(s)) >= Total[file'[s].carve]
    BY <1>6, <2>2
  <2>. QED  BY <1>7, <2>1, <2>2 DEF RowKept
<1>8. ASSUME NEW w \in Workers, worker'[w].pc \in {"finish", "stamp"}
      PROVE  Cardinality(CountedFor(worker'[w].session)) >=
               Total[file'[worker'[w].session].carve]
  <2>1. CASE worker'[w] = worker[w]
    BY <1>6, <1>8, <2>1
  <2>2. CASE worker'[w] # worker[w] /\ worker'[w].pc = "stamp"
    BY <1>6, <2>2 DEF Moves
  <2>3. CASE worker'[w] # worker[w] /\ worker'[w].pc = "finish"
    <3>1. /\ worker[w].pc # "idle" /\ worker'[w].session = worker[w].session
          /\ Completed(worker[w].session)
      BY <2>3 DEF Moves
    <3>2. PICK s \in Sessions : s = worker[w].session /\ file[s].state # "none"
      BY <1>0, <3>1 DEF Opened
    <3>3. file[s].completed = Total[file[s].carve]
      BY <3>1, <3>2 DEF Completed
    <3>4. file[s].completed <= Cardinality(CountedFor(s)) /\ file[s].completed \in Nat
      BY <1>0 DEF CountBounded, CarvesTypeOK, FileRow
    <3>5. Cardinality(CountedFor(s)) >= Total[file[s].carve]
      BY <1>1, <3>3, <3>4
    <3>. QED  BY <1>1, <1>5, <3>1, <3>2, <3>5
  <2>. QED  BY <1>8, <2>1, <2>2, <2>3
<1>9. FinishNeverEarly'
  BY <1>7, <1>8 DEF FinishNeverEarly, CountedFor
<1>. QED  BY <1>2, <1>3, <1>4, <1>9 DEF CarvesIInv

LEMMA OpenedKept ==
  ASSUME Opened,
         \A s \in Sessions :
           /\ file[s].state # "none" => file'[s].state # "none"
           /\ file'[s] # file[s] =>
                file'[s].state # "none" /\ file'[s].carve \in Carvings,
         \A w \in Workers :
           \/ worker'[w].pc = "idle"
           \/ worker[w].pc # "idle" /\ worker'[w].session = worker[w].session
           \/ worker'[w].session \in Sessions /\ file[worker'[w].session].state # "none"
  PROVE  Opened'
BY DEF Opened

(* The requests of a node. *)
LEMMA NodeCarvesIInv ==
  ASSUME CarvesIInv, NEW c \in Carvings,
         \/ CarveInitRefused(c) \/ BlockRefused(c)
         \/ \E s \in Sessions : CarveInitHandler(c, s)
         \/ \E w \in Workers : CarveBlockHandler(c, w)
  PROVE  CarvesIInv'
<1>0. CarvesTypeOK /\ Opened /\ ClientOpened
  BY DEF CarvesIInv
<1>1. CASE CarveInitRefused(c) \/ BlockRefused(c)
  <2>1. client' \in [Carvings -> ClientState] /\ ClientOpened'
    BY <1>0, <1>1, ClientType DEF CarveInitRefused, BlockRefused
  <2>2. UNCHANGED <<file, stamped, blocks, worker, counted>>
    BY <1>1 DEF CarveInitRefused, BlockRefused
  <2>3. CarvesTypeOK' /\ Opened'
    BY <1>0, <2>1, <2>2 DEF CarvesTypeOK, Opened
  <2>. QED  BY <2>1, <2>2, <2>3, UncountedIInv DEF Moves, RowKept
<1>2. ASSUME NEW s \in Sessions, CarveInitHandler(c, s)
      PROVE  CarvesIInv'
  <2>1. client' \in [Carvings -> ClientState] /\ ClientOpened'
    BY <1>0, <1>2, ClientType DEF CarveInitHandler
  <2>2. /\ UNCHANGED <<stamped, blocks, worker, counted>> /\ file[s].state = "none"
        /\ file' = [file EXCEPT ![s] = [state |-> "present", carve |-> c,
                                        completed |-> 0, status |-> "INITIALIZED"]]
    BY <1>2 DEF CarveInitHandler
  <2>3. [state |-> "present", carve |-> c, completed |-> 0, status |-> "INITIALIZED"]
          \in FileRow
    BY DEF FileRow, Statuses
  <2>4. CarvesTypeOK'
    BY <1>0, <2>1, <2>2, <2>3 DEF CarvesTypeOK
  <2>5. /\ file'[s].state = "present" /\ file'[s].carve = c
        /\ file'[s].completed = 0 /\ file'[s].status = "INITIALIZED"
        /\ \A t \in Sessions : t # s => file'[t] = file[t]
    BY <1>0, <2>2 DEF CarvesTypeOK
  <2>6. Opened'
    BY <1>0, <2>2, <2>5, OpenedKept DEF Opened
  <2>. QED  BY <2>1, <2>2, <2>4, <2>5, <2>6, UncountedIInv DEF Moves, RowKept
<1>3. ASSUME NEW w \in Workers, CarveBlockHandler(c, w)
      PROVE  CarvesIInv'
  <2>1. client' \in [Carvings -> ClientState] /\ ClientOpened'
    BY <1>0, <1>3, ClientType DEF CarveBlockHandler
  <2>2. /\ UNCHANGED <<file, stamped, blocks, counted>>
        /\ worker[w].pc = "idle" /\ Present(client[c].session)
        /\ worker' = [worker EXCEPT ![w] =
             [pc |-> "store", session |-> client[c].session,
              block |-> client[c].next, seen |-> 0]]
    BY <1>3 DEF CarveBlockHandler
  <2>3. client[c].session \in Sessions \cup {NoSession} /\ client[c].next \in Nat
    BY <1>0 DEF CarvesTypeOK, ClientState
  <2>4. [pc |-> "store", session |-> client[c].session,
         block |-> client[c].next, seen |-> 0] \in WorkerState
    BY <2>3 DEF WorkerState
  <2>5. CarvesTypeOK'
    BY <1>0, <2>1, <2>2, <2>4 DEF CarvesTypeOK
  <2>6. /\ worker'[w].pc = "store" /\ worker'[w].session = client[c].session
        /\ \A v \in Workers : v # w => worker'[v] = worker[v]
    BY <1>0, <2>2 DEF CarvesTypeOK
  <2>7. client[c].session \in Sessions /\ file[client[c].session].state # "none"
    BY <1>0, <1>3, <2>2 DEF CarveBlockHandler, More, ClientOpened, Present
  <2>8. Opened'
    BY <1>0, <2>2, <2>6, <2>7, OpenedKept DEF Opened
  <2>. QED  BY <2>1, <2>2, <2>5, <2>6, <2>8, UncountedIInv DEF Moves, RowKept
<1>. QED  BY <1>1, <1>2, <1>3

(* The statements of a goroutine that count no block. *)
LEMMA GoroutineCarvesIInv ==
  ASSUME CarvesIInv, NEW w \in Workers,
         \/ CreateBlock(w) \/ CompleteBlockRead(w) \/ Check(w)
         \/ Progress(w) \/ Finish(w) \/ Stamp(w)
  PROVE  CarvesIInv'
<1>0. CarvesTypeOK /\ Opened /\ ClientOpened
  BY DEF CarvesIInv
<1>1. worker[w] \in WorkerState /\ worker[w].pc # "idle" /\ UNCHANGED <<client, counted>>
  BY <1>0 DEF CarvesTypeOK, CreateBlock, CompleteBlockRead, Check, Progress, Finish, Stamp
<1>2. PICK s \in Sessions : s = worker[w].session /\ file[s].state # "none"
  BY <1>0, <1>1 DEF Opened
<1>3. file[s] \in FileRow /\ ClientOpened'
  BY <1>0, <1>1 DEF CarvesTypeOK, ClientOpened
<1>4. Current(w) \in Delivery
  BY <1>1, <1>2 DEF Current, Delivery, WorkerState
<1>5. ASSUME NEW pc \in {"read", "check", "progress", "done"}, Goto(w, pc),
             pc = "read" => worker[w].pc = "store",
             UNCHANGED <<file, stamped>>, blocks' \subseteq Delivery
      PROVE  CarvesIInv'
  <2>1. /\ worker' \in [Workers -> WorkerState] /\ worker'[w].pc = pc
        /\ worker'[w].session = worker[w].session
        /\ \A v \in Workers : v # w => worker'[v] = worker[v]
    BY <1>0, <1>5, GotoMoves DEF PCs
  <2>2. CarvesTypeOK'
    BY <1>0, <1>1, <1>5, <2>1 DEF CarvesTypeOK
  <2>3. Opened'
    BY <1>0, <1>1, <1>5, <2>1, OpenedKept DEF Opened
  <2>. QED  BY <1>1, <1>3, <1>5, <2>1, <2>2, <2>3, UncountedIInv DEF Moves, RowKept
<1>6. CASE CreateBlock(w)
  <2>1. blocks' \subseteq Delivery
    BY <1>0, <1>4, <1>6 DEF CreateBlock, CarvesTypeOK
  <2>. QED  BY <1>5, <1>6, <2>1 DEF CreateBlock
<1>7. CASE CompleteBlockRead(w)
  <2>1. CASE Goto(w, "check")
    BY <1>0, <1>5, <1>7, <2>1 DEF CompleteBlockRead, CarvesTypeOK
  <2>2. CASE worker' = [worker EXCEPT ![w].pc = "write", ![w].seen = file[s].completed]
    <3>1. PICK n \in Nat : /\ n = file[s].completed
                           /\ worker' = [worker EXCEPT ![w].pc = "write", ![w].seen = n]
      BY <1>3, <2>2 DEF FileRow
    <3>2. /\ [worker[w] EXCEPT !.pc = "write", !.seen = n] \in WorkerState
          /\ [worker[w] EXCEPT !.pc = "write", !.seen = n].pc = "write"
          /\ [worker[w] EXCEPT !.pc = "write", !.seen = n].seen = n
          /\ [worker[w] EXCEPT !.pc = "write", !.seen = n].session = worker[w].session
      BY <1>1 DEF WorkerState
    <3>3. worker' = [worker EXCEPT ![w] = [worker[w] EXCEPT !.pc = "write", !.seen = n]]
      BY <3>1
    <3>4. /\ worker' \in [Workers -> WorkerState] /\ worker'[w].pc = "write"
          /\ worker'[w].session = worker[w].session /\ worker'[w].seen = n
          /\ \A v \in Workers : v # w => worker'[v] = worker[v]
      BY <1>0, <3>2, <3>3 DEF CarvesTypeOK
    <3>5. UNCHANGED <<file, stamped, blocks>> /\ worker[w].pc = "read"
      BY <1>7 DEF CompleteBlockRead
    <3>6. CarvesTypeOK'
      BY <1>0, <1>1, <3>4, <3>5 DEF CarvesTypeOK
    <3>7. Opened'
      BY <1>0, <1>1, <3>4, <3>5, OpenedKept DEF Opened
    <3>. QED
      BY <1>1, <1>2, <1>3, <3>1, <3>4, <3>5, <3>6, <3>7, UncountedIInv DEF Moves, RowKept
  <2>. QED  BY <1>2, <1>7, <2>1, <2>2 DEF CompleteBlockRead
<1>8. CASE Check(w)
  <2>1. CASE Goto(w, "progress")
    BY <1>0, <1>5, <1>8, <2>1 DEF Check, CarvesTypeOK
  <2>2. CASE Completed(worker[w].session) /\ Goto(w, "finish")
    <3>1. /\ worker' \in [Workers -> WorkerState] /\ worker'[w].pc = "finish"
          /\ worker'[w].session = worker[w].session
          /\ \A v \in Workers : v # w => worker'[v] = worker[v]
      BY <1>0, <2>2, GotoMoves DEF PCs
    <3>2. UNCHANGED <<file, stamped, blocks>>
      BY <1>8 DEF Check
    <3>3. CarvesTypeOK'
      BY <1>0, <1>1, <3>1, <3>2 DEF CarvesTypeOK
    <3>4. Opened'
      BY <1>0, <1>1, <3>1, <3>2, OpenedKept DEF Opened
    <3>. QED
      BY <1>1, <1>3, <2>2, <3>1, <3>2, <3>3, <3>4, UncountedIInv DEF Moves, RowKept
  <2>. QED  BY <1>8, <2>1, <2>2 DEF Check
<1>9. CASE Stamp(w)
  <2>1. /\ worker' \in [Workers -> WorkerState] /\ worker'[w].pc = "done"
        /\ worker'[w].session = worker[w].session
        /\ \A v \in Workers : v # w => worker'[v] = worker[v]
    BY <1>0, <1>9, GotoMoves DEF PCs, Stamp
  <2>2. UNCHANGED <<file, blocks>> /\ stamped' \subseteq Sessions
    BY <1>0, <1>2, <1>9 DEF Stamp, CarvesTypeOK
  <2>3. CarvesTypeOK'
    BY <1>0, <1>1, <2>1, <2>2 DEF CarvesTypeOK
  <2>4. Opened'
    BY <1>0, <1>1, <2>1, <2>2, OpenedKept DEF Opened
  <2>. QED  BY <1>1, <1>3, <2>1, <2>2, <2>3, <2>4, UncountedIInv DEF Moves, RowKept
<1>10. ASSUME NEW pc \in {"stamp", "done"}, Goto(w, pc),
              pc = "stamp" => worker[w].pc = "finish",
              UNCHANGED <<stamped, blocks>>,
              NEW status \in Statuses, status = "COMPLETED" => worker[w].pc = "finish",
              Update(s, [file[s] EXCEPT !.status = status])
       PROVE  CarvesIInv'
  <2>1. /\ worker' \in [Workers -> WorkerState] /\ worker'[w].pc = pc
        /\ worker'[w].session = worker[w].session
        /\ \A v \in Workers : v # w => worker'[v] = worker[v]
    BY <1>0, <1>10, GotoMoves DEF PCs
  <2>2. /\ [file[s] EXCEPT !.status = status] \in FileRow
        /\ [file[s] EXCEPT !.status = status].status = status
        /\ [file[s] EXCEPT !.status = status].completed = file[s].completed
        /\ [file[s] EXCEPT !.status = status].state = file[s].state
        /\ [file[s] EXCEPT !.status = status].carve = file[s].carve
    BY <1>3 DEF FileRow
  <2>3. /\ file' \in [Sessions -> FileRow]
        /\ file'[s] \in {[file[s] EXCEPT !.status = status], file[s]}
        /\ \A t \in Sessions : t # s => file'[t] = file[t]
    BY <1>0, <1>10, <2>2, UpdateType
  <2>4. CarvesTypeOK'
    BY <1>0, <1>1, <1>10, <2>1, <2>3 DEF CarvesTypeOK
  <2>5. Opened'
    <3>1. /\ file'[s].state = file[s].state /\ file'[s].carve = file[s].carve
          /\ file[s].carve \in Carvings
      BY <1>0, <1>2, <2>2, <2>3 DEF Opened
    <3>2. \A t \in Sessions : /\ file[t].state # "none" => file'[t].state # "none"
                              /\ file'[t] # file[t] =>
                                   file'[t].state # "none" /\ file'[t].carve \in Carvings
      BY <1>2, <2>3, <3>1
    <3>3. \A v \in Workers : worker'[v].pc # "idle" =>
            worker[v].pc # "idle" /\ worker'[v].session = worker[v].session
      BY <1>1, <2>1
    <3>. QED  BY <1>0, <3>2, <3>3, OpenedKept
  <2>6. \A v \in Workers : Moves(v)
    BY <1>1, <1>10, <2>1 DEF Moves
  <2>7. \A t \in Sessions : RowKept(t)
    BY <1>2, <1>10, <2>2, <2>3 DEF RowKept
  <2>. QED  BY <1>1, <1>3, <2>4, <2>5, <2>6, <2>7, UncountedIInv
<1>11. CASE Progress(w)
  <2>1. CASE Update(s, [file[s] EXCEPT !.status = "IN PROGRESS"])
    BY <1>10, <1>11, <2>1 DEF Progress, Statuses
  <2>2. CASE UNCHANGED file
    BY <1>0, <1>5, <1>11, <2>2 DEF Progress, CarvesTypeOK
  <2>. QED  BY <1>2, <1>11, <2>1, <2>2 DEF Progress
<1>12. CASE Finish(w)
  <2>1. CASE Update(s, [file[s] EXCEPT !.status = "COMPLETED"]) /\ Goto(w, "stamp")
    BY <1>10, <1>12, <2>1 DEF Finish, Statuses
  <2>2. CASE UNCHANGED file /\ Goto(w, "done")
    BY <1>0, <1>5, <1>12, <2>2 DEF Finish, CarvesTypeOK
  <2>. QED  BY <1>2, <1>12, <2>1, <2>2 DEF Finish
<1>. QED  BY <1>6, <1>7, <1>8, <1>9, <1>11, <1>12

(* The write of completed_blocks: the value read before was bounded, and   *)
(* the block was not counted before.                                       *)
LEMMA CompleteBlockIInv ==
  ASSUME CarvesIInv, NEW w \in Workers, CompleteBlock(w)
  PROVE  CarvesIInv'
<1>0. /\ CarvesTypeOK /\ Opened /\ ClientOpened /\ CountBounded /\ ReadBounded
      /\ CountedOnce /\ FinishNeverEarly
  BY DEF CarvesIInv
<1>1. /\ worker[w] \in WorkerState /\ worker[w].pc = "write"
      /\ UNCHANGED <<stamped, blocks, client>>
  BY <1>0 DEF CarvesTypeOK, CompleteBlock
<1>2. PICK s \in Sessions : s = worker[w].session /\ file[s].state # "none"
  BY <1>0, <1>1 DEF Opened
<1>3. file[s] \in FileRow /\ worker[w].seen + 1 \in Nat /\ ClientOpened'
  BY <1>0, <1>1 DEF CarvesTypeOK, WorkerState, ClientOpened
<1>4. /\ worker' \in [Workers -> WorkerState] /\ worker'[w].pc = "check"
      /\ worker'[w].session = worker[w].session
      /\ \A v \in Workers : v # w => worker'[v] = worker[v]
  BY <1>0, GotoMoves DEF PCs, CompleteBlock
<1>5. CASE UNCHANGED <<file, counted>>
  <2>1. CarvesTypeOK'
    BY <1>0, <1>1, <1>4, <1>5 DEF CarvesTypeOK
  <2>2. Opened'
    BY <1>0, <1>1, <1>4, <1>5, OpenedKept DEF Opened
  <2>. QED  BY <1>1, <1>3, <1>4, <1>5, <2>1, <2>2, UncountedIInv DEF Moves, RowKept
<1>6. CASE /\ Update(s, [file[s] EXCEPT !.completed = worker[w].seen + 1])
           /\ counted' = counted \cup {Current(w)}
  <2>1. PICK n \in Nat : n = worker[w].seen + 1
    BY <1>3
  <2>2. /\ [file[s] EXCEPT !.completed = n] \in FileRow
        /\ [file[s] EXCEPT !.completed = n].completed = n
        /\ [file[s] EXCEPT !.completed = n].status = file[s].status
        /\ [file[s] EXCEPT !.completed = n].state = file[s].state
        /\ [file[s] EXCEPT !.completed = n].carve = file[s].carve
    BY <1>3 DEF FileRow
  <2>3. /\ file' \in [Sessions -> FileRow]
        /\ file'[s] \in {[file[s] EXCEPT !.completed = n], file[s]}
        /\ \A t \in Sessions : t # s => file'[t] = file[t]
    BY <1>0, <1>6, <2>1, <2>2, UpdateType
  <2>4. /\ \A t \in Sessions : /\ file'[t].state = file[t].state
                               /\ file'[t].carve = file[t].carve
                               /\ file'[t].status = file[t].status
        /\ \A t \in Sessions : t # s => file'[t].completed = file[t].completed
        /\ file'[s].completed \in {n, file[s].completed}
    BY <2>2, <2>3
  <2>5. /\ Current(w) \in Delivery /\ Current(w) \notin counted
        /\ Current(w).session = s /\ Current(w).by = w
    BY <1>0, <1>1, <1>2 DEF Current, Delivery, WorkerState, CountedOnce
  <2>6. CarvesTypeOK'
    BY <1>0, <1>1, <1>4, <1>6, <2>3, <2>5 DEF CarvesTypeOK
  <2>7. Opened'
    BY <1>0, <1>1, <1>4, <2>4 DEF Opened
  <2>8. IsFiniteSet(counted) /\ IsFiniteSet(counted')
    BY <1>0, <1>6, FS_AddElement DEF CountBounded
  <2>9. \A t : /\ Cardinality(CountedFor(t)) \in Nat
               /\ Cardinality(CountedFor(t))' \in Nat
               /\ Cardinality(CountedFor(t))' >= Cardinality(CountedFor(t))
    <3>1. SUFFICES ASSUME NEW t
                   PROVE  /\ Cardinality(CountedFor(t)) \in Nat
                          /\ Cardinality(CountedFor(t))' \in Nat
                          /\ Cardinality(CountedFor(t))' >= Cardinality(CountedFor(t))
      OBVIOUS
    <3>2. Cardinality(CountedFor(t)) \in Nat
      BY <2>8, CountedForFinite
    <3>. QED  BY <1>6, <2>5, <2>8, <3>2, CountedForGrows
  <2>10. Cardinality(CountedFor(s))' = Cardinality(CountedFor(s)) + 1
    BY <1>6, <2>5, <2>8, CountedForGrows
  <2>11. CountBounded'
    <3>1. SUFFICES ASSUME NEW t \in Sessions
                   PROVE  (file[t].completed <= Cardinality(CountedFor(t)))'
      BY <2>8 DEF CountBounded
    <3>2. /\ file[t].completed <= Cardinality(CountedFor(t))
          /\ file[t].completed \in Nat
      BY <1>0 DEF CountBounded, CarvesTypeOK, FileRow
    <3>3. worker[w].seen <= Cardinality(CountedFor(s)) /\ worker[w].seen \in Nat
      BY <1>0, <1>1, <1>2 DEF ReadBounded, WorkerState
    <3>4. CASE t = s
      BY <2>1, <2>4, <2>9, <2>10, <3>2, <3>3, <3>4
    <3>5. CASE t # s
      BY <2>4, <2>9, <3>2, <3>5
    <3>. QED  BY <3>4, <3>5
  <2>12. ReadBounded'
    <3>1. SUFFICES ASSUME NEW v \in Workers, worker'[v].pc = "write"
                   PROVE  (worker[v].seen <= Cardinality(CountedFor(worker[v].session)))'
      BY DEF ReadBounded
    <3>2. worker'[v] = worker[v] /\ worker[v].seen \in Nat
      BY <1>0, <1>4, <3>1 DEF CarvesTypeOK, WorkerState
    <3>3. worker[v].seen <= Cardinality(CountedFor(worker[v].session))
      BY <1>0, <3>1, <3>2 DEF ReadBounded
    <3>. QED  BY <2>9, <3>2, <3>3
  <2>13. CountedOnce'
    <3>1. SUFFICES ASSUME NEW d \in counted'
                   PROVE  worker'[d.by].pc \notin {"idle", "store", "read", "write"}
      BY DEF CountedOnce
    <3>2. CASE d \in counted
      BY <1>0, <1>4, <3>2 DEF CountedOnce, CarvesTypeOK, Delivery
    <3>3. CASE d = Current(w)
      BY <1>4, <2>5, <3>3
    <3>. QED  BY <1>6, <3>2, <3>3
  <2>14. FinishNeverEarly'
    <3>1. \A t \in Sessions : file[t].state # "none" => Total[file[t].carve] \in Nat
      BY <1>0, CarvesAssumption DEF Opened
    <3>2. ASSUME NEW t \in Sessions, file'[t].status = "COMPLETED"
          PROVE  (Cardinality(CountedFor(t)) >= Total[file[t].carve])'
      <4>1. file[t].status = "COMPLETED" /\ file[t].state # "none"
        BY <1>0, <2>4, <3>2 DEF Opened
      <4>2. Cardinality(CountedFor(t)) >= Total[file[t].carve]
        BY <1>0, <4>1 DEF FinishNeverEarly
      <4>. QED  BY <2>4, <2>9, <3>1, <4>1, <4>2
    <3>3. ASSUME NEW v \in Workers, worker'[v].pc \in {"finish", "stamp"}
          PROVE  (Cardinality(CountedFor(worker[v].session)) >=
                    Total[file[worker[v].session].carve])'
      <4>1. worker'[v] = worker[v] /\ worker[v].pc \in {"finish", "stamp"}
        BY <1>4, <3>3
      <4>2. PICK t \in Sessions : t = worker[v].session /\ file[t].state # "none"
        BY <1>0, <4>1 DEF Opened
      <4>3. Cardinality(CountedFor(t)) >= Total[file[t].carve]
        BY <1>0, <4>1, <4>2 DEF FinishNeverEarly
      <4>. QED  BY <2>4, <2>9, <3>1, <4>1, <4>2, <4>3
    <3>. QED  BY <3>2, <3>3 DEF FinishNeverEarly
  <2>. QED
    BY <1>3, <2>6, <2>7, <2>11, <2>12, <2>13, <2>14 DEF CarvesIInv
<1>. QED  BY <1>2, <1>5, <1>6 DEF CompleteBlock

LEMMA DeleteCarvesIInv ==
  ASSUME CarvesIInv, NEW s \in Sessions, Delete(s)
  PROVE  CarvesIInv'
<1>0. CarvesTypeOK /\ Opened /\ ClientOpened
  BY DEF CarvesIInv
<1>1. /\ file' = [file EXCEPT ![s] = [file[s] EXCEPT !.state = "deleted"]]
      /\ UNCHANGED <<stamped, blocks, client, worker, counted>>
      /\ file[s].state = "present"
  BY DEF Delete, Present
<1>2. file[s] \in FileRow
  BY <1>0 DEF CarvesTypeOK
<1>3. /\ [file[s] EXCEPT !.state = "deleted"] \in FileRow
      /\ [file[s] EXCEPT !.state = "deleted"].state = "deleted"
      /\ [file[s] EXCEPT !.state = "deleted"].carve = file[s].carve
      /\ [file[s] EXCEPT !.state = "deleted"].status = file[s].status
      /\ [file[s] EXCEPT !.state = "deleted"].completed = file[s].completed
  BY <1>2 DEF FileRow
<1>4. /\ file' \in [Sessions -> FileRow]
      /\ file'[s] = [file[s] EXCEPT !.state = "deleted"]
      /\ \A t \in Sessions : t # s => file'[t] = file[t]
  BY <1>0, <1>1, <1>3 DEF CarvesTypeOK
<1>5. CarvesTypeOK' /\ ClientOpened'
  BY <1>0, <1>1, <1>4 DEF CarvesTypeOK, ClientOpened
<1>6. /\ file'[s].state = "deleted" /\ file'[s].carve = file[s].carve
      /\ file'[s].status = file[s].status /\ file'[s].completed = file[s].completed
  BY <1>3, <1>4
<1>7. Opened'
  BY <1>0, <1>1, <1>4, <1>6 DEF Opened
<1>8. \A t \in Sessions : RowKept(t)
  BY <1>4, <1>6 DEF RowKept
<1>. QED  BY <1>1, <1>5, <1>7, <1>8, UncountedIInv DEF Moves

LEMMA RestartCarvesIInv ==
  ASSUME CarvesIInv, Restart
  PROVE  CarvesIInv'
<1>0. CarvesTypeOK /\ Opened /\ ClientOpened
  BY DEF CarvesIInv
<1>1. /\ worker' = [w \in Workers |->
           IF w \in Running THEN [worker[w] EXCEPT !.pc = "done"] ELSE worker[w]]
      /\ UNCHANGED <<file, stamped, blocks, client, counted>>
  BY DEF Restart
<1>2. ASSUME NEW w \in Workers
      PROVE  /\ worker'[w] \in WorkerState
             /\ worker'[w] # worker[w] =>
                  /\ worker[w].pc # "idle" /\ worker'[w].pc = "done"
                  /\ worker'[w].session = worker[w].session
  <2>1. worker[w] \in WorkerState
    BY <1>0 DEF CarvesTypeOK
  <2>2. /\ [worker[w] EXCEPT !.pc = "done"] \in WorkerState
        /\ [worker[w] EXCEPT !.pc = "done"].pc = "done"
        /\ [worker[w] EXCEPT !.pc = "done"].session = worker[w].session
    BY <2>1 DEF WorkerState
  <2>3. worker'[w] = IF w \in Running THEN [worker[w] EXCEPT !.pc = "done"] ELSE worker[w]
    BY <1>1
  <2>. QED  BY <2>1, <2>2, <2>3 DEF Running
<1>3. CarvesTypeOK' /\ ClientOpened'
  <2>1. worker' \in [Workers -> WorkerState]
    BY <1>1, <1>2
  <2>. QED  BY <1>0, <1>1, <2>1 DEF CarvesTypeOK, ClientOpened
<1>4. Opened'
  BY <1>0, <1>1, <1>2 DEF Opened
<1>. QED  BY <1>1, <1>2, <1>3, <1>4, UncountedIInv DEF Moves, RowKept

LEMMA NextCarvesIInv == CarvesIInv /\ [CarvesNext]_carveVars => CarvesIInv'
<1>. SUFFICES ASSUME CarvesIInv, [CarvesNext]_carveVars PROVE CarvesIInv'
  OBVIOUS
<1>1. ASSUME NEW w \in Workers, BlockStep(w) PROVE CarvesIInv'
  BY <1>1, GoroutineCarvesIInv, CompleteBlockIInv DEF BlockStep
<1>2. CASE CarvesNext
  BY <1>1, <1>2, NodeCarvesIInv, DeleteCarvesIInv, RestartCarvesIInv DEF CarvesNext
<1>3. CASE UNCHANGED carveVars
  <2>1. CarvesTypeOK' /\ Opened' /\ ClientOpened'
    BY <1>3 DEF CarvesIInv, CarvesTypeOK, Opened, ClientOpened, carveVars
  <2>. QED  BY <1>3, <2>1, UncountedIInv DEF Moves, RowKept, carveVars
<1>. QED  BY <1>2, <1>3

-----------------------------------------------------------------------------
(* Files, blocks, nodes and goroutines keep their types, and a counter     *)
(* never shows more blocks than were accounted for.                        *)
THEOREM CarvesInvariantHolds == CarvesSpec => []CarvesIInv
BY InitCarvesIInv, NextCarvesIInv, PTL DEF CarvesSpec

(* The state of the uploads keeps its type. *)
THEOREM CarvesTypeCorrect == CarvesSpec => []CarvesTypeOK
<1>1. CarvesIInv => CarvesTypeOK
  BY DEF CarvesIInv
<1>. QED  BY <1>1, CarvesInvariantHolds, PTL

(* Whatever fails, is repeated, reordered, lost or restarted, a carve is    *)
(* judged and marked COMPLETED only after as many blocks were accounted    *)
(* for as the node announced.                                              *)
THEOREM FinishSound == CarvesSpec => []FinishNeverEarly
<1>1. CarvesIInv => FinishNeverEarly
  BY DEF CarvesIInv
<1>. QED  BY <1>1, CarvesInvariantHolds, PTL

-----------------------------------------------------------------------------
(* Exactly-once delivery *)

(* A step of the service alone: sessions and blocks under way stay the same. *)
UploadsKept ==
  /\ UNCHANGED client
  /\ \A s \in Sessions : file[s].state # "none" =>
       file'[s].state # "none" /\ file'[s].carve = file[s].carve
  /\ \A w \in Workers :
       /\ worker'[w].session = worker[w].session /\ worker'[w].block = worker[w].block
       /\ worker'[w].pc = "idle" <=> worker[w].pc = "idle"

LEMMA UploadsKeptExactlyOnce ==
  ASSUME Opened, ExactlyOnce, UploadsKept, StoredBeforeCounted'
  PROVE  ExactlyOnce'
<1>1. OneClientPerSession'
  BY DEF ExactlyOnce, OneClientPerSession, UploadsKept
<1>2. EachBlockOnce'
  <2>1. SUFFICES ASSUME NEW w \in Workers, worker'[w].pc # "idle"
                 PROVE  (/\ worker[w].block < Total[file[worker[w].session].carve]
                         /\ \A c \in Carvings :
                              Sending(c, worker[w].session) => worker[w].block < client[c].next
                         /\ \A v \in Workers :
                              /\ worker[v].pc # "idle" /\ worker[v].session = worker[w].session
                              /\ worker[v].block = worker[w].block
                              => v = w)'
    BY DEF EachBlockOnce
  <2>2. /\ worker[w].pc # "idle" /\ worker'[w].session = worker[w].session
        /\ worker'[w].block = worker[w].block /\ client' = client
    BY <2>1 DEF UploadsKept
  <2>3. file'[worker[w].session].carve = file[worker[w].session].carve
    BY <2>2 DEF Opened, UploadsKept
  <2>4. worker'[w].block < Total[file'[worker'[w].session].carve]
    BY <2>2, <2>3 DEF ExactlyOnce, EachBlockOnce
  <2>5. \A c \in Carvings :
          client'[c].pc = "sending" /\ client'[c].session = worker'[w].session
            => worker'[w].block < client'[c].next
    BY <2>2 DEF ExactlyOnce, EachBlockOnce, Sending
  <2>6. \A v \in Workers :
          /\ worker'[v].pc # "idle" /\ worker'[v].session = worker'[w].session
          /\ worker'[v].block = worker'[w].block
          => v = w
    BY <2>2 DEF ExactlyOnce, EachBlockOnce, UploadsKept
  <2>. QED  BY <2>4, <2>5, <2>6 DEF Sending
<1>. QED  BY <1>1, <1>2 DEF ExactlyOnce

(* A step that stores and counts nothing. *)
LEMMA NothingStored ==
  ASSUME CarvesTypeOK, StoredBeforeCounted, UNCHANGED <<blocks, counted>>,
         \A w \in Workers :
           /\ worker[w].pc # "idle" =>
                /\ worker'[w].pc # "idle"
                /\ worker'[w].session = worker[w].session
                /\ worker'[w].block = worker[w].block
           /\ worker'[w].pc \in {"read", "write"} => worker[w].pc \in {"read", "write"}
  PROVE  StoredBeforeCounted'
<1>1. \A d \in blocks : d.by \in Workers
  BY DEF CarvesTypeOK, Delivery
<1>. QED  BY <1>1 DEF StoredBeforeCounted, Current

LEMMA ServiceExactlyOnce ==
  ASSUME DBErrors = FALSE, CarvesIInv, ExactlyOnce,
         \/ \E w \in Workers : BlockStep(w)
         \/ \E s \in Sessions : Delete(s)
         \/ Restart
  PROVE  ExactlyOnce'
<1>0. CarvesTypeOK /\ Opened /\ StoredBeforeCounted
  BY DEF CarvesIInv, ExactlyOnce
<1>1. ASSUME NEW s \in Sessions, Delete(s) PROVE ExactlyOnce'
  <2>1. /\ UNCHANGED <<blocks, client, worker, counted>>
        /\ file' = [file EXCEPT ![s].state = "deleted"]
    BY <1>1 DEF Delete
  <2>2. \A t \in Sessions : file[t].state # "none" =>
          file'[t].state # "none" /\ file'[t].carve = file[t].carve
    BY <1>0, <2>1 DEF CarvesTypeOK, FileRow
  <2>3. StoredBeforeCounted'
    BY <1>0, <2>1, NothingStored
  <2>. QED  BY <1>0, <2>1, <2>2, <2>3, UploadsKeptExactlyOnce DEF UploadsKept
<1>2. CASE Restart
  <2>1. /\ UNCHANGED <<file, blocks, client, counted>>
        /\ worker' = [w \in Workers |->
             IF w \in Running THEN [worker[w] EXCEPT !.pc = "done"] ELSE worker[w]]
    BY <1>2 DEF Restart
  <2>2. ASSUME NEW w \in Workers
        PROVE  /\ worker'[w].session = worker[w].session
               /\ worker'[w].block = worker[w].block
               /\ worker'[w].pc \in {worker[w].pc, "done"}
               /\ worker'[w].pc = "idle" <=> worker[w].pc = "idle"
    <3>1. worker[w] \in WorkerState
      BY <1>0 DEF CarvesTypeOK
    <3>2. worker'[w] = IF w \in Running THEN [worker[w] EXCEPT !.pc = "done"] ELSE worker[w]
      BY <2>1
    <3>. QED  BY <3>1, <3>2 DEF WorkerState, Running
  <2>3. StoredBeforeCounted'
    BY <1>0, <2>1, <2>2, NothingStored
  <2>. QED  BY <1>0, <2>1, <2>2, <2>3, UploadsKeptExactlyOnce DEF UploadsKept
<1>3. ASSUME NEW w \in Workers, BlockStep(w) PROVE ExactlyOnce'
  <2>1. worker[w] \in WorkerState /\ worker[w].pc # "idle" /\ UNCHANGED client
    BY <1>0, <1>3 DEF CarvesTypeOK, BlockStep, CreateBlock, CompleteBlockRead,
         CompleteBlock, Check, Progress, Finish, Stamp
  <2>2. PICK s \in Sessions : s = worker[w].session
    BY <1>0, <2>1 DEF Opened
  <2>3. \A t \in Sessions : file'[t].state = file[t].state /\ file'[t].carve = file[t].carve
    <3>1. file[s] \in FileRow
      BY <1>0 DEF CarvesTypeOK
    <3>2. ASSUME NEW row, row.state = file[s].state, row.carve = file[s].carve,
                 Update(s, row)
          PROVE  \A t \in Sessions : file'[t].state = file[t].state
                                     /\ file'[t].carve = file[t].carve
      BY <1>0, <3>2 DEF Update, CarvesTypeOK
    <3>3. \A status : /\ [file[s] EXCEPT !.status = status].state = file[s].state
                      /\ [file[s] EXCEPT !.status = status].carve = file[s].carve
                      /\ [file[s] EXCEPT !.completed = status].state = file[s].state
                      /\ [file[s] EXCEPT !.completed = status].carve = file[s].carve
      BY <3>1 DEF FileRow
    <3>4. CASE file' = file
      BY <3>4
    <3>5. CASE CompleteBlock(w)
      BY <2>2, <3>2, <3>3, <3>4, <3>5 DEF CompleteBlock
    <3>6. CASE Progress(w)
      BY <2>2, <3>2, <3>3, <3>4, <3>6 DEF Progress
    <3>7. CASE Finish(w)
      BY <2>2, <3>2, <3>3, <3>4, <3>7 DEF Finish
    <3>. QED  BY <1>3, <3>4, <3>5, <3>6, <3>7 DEF BlockStep, CreateBlock,
                CompleteBlockRead, Check, Stamp
  <2>4. /\ worker'[w].session = worker[w].session /\ worker'[w].block = worker[w].block
        /\ worker'[w].pc # "idle"
        /\ worker'[w].pc = "read" => worker[w].pc = "store" /\ CreateBlock(w)
        /\ worker'[w].pc = "write" => worker[w].pc = "read"
        /\ \A v \in Workers : v # w => worker'[v] = worker[v]
    <3>1. ASSUME NEW pc \in PCs, Goto(w, pc)
          PROVE  /\ worker'[w].pc = pc /\ worker'[w].session = worker[w].session
                 /\ worker'[w].block = worker[w].block
                 /\ \A v \in Workers : v # w => worker'[v] = worker[v]
      BY <1>0, <3>1, GotoMoves
    <3>2. ASSUME NEW n,
                 worker' = [worker EXCEPT ![w].pc = "write", ![w].seen = n]
          PROVE  /\ worker'[w].pc = "write" /\ worker'[w].session = worker[w].session
                 /\ worker'[w].block = worker[w].block
                 /\ \A v \in Workers : v # w => worker'[v] = worker[v]
      BY <1>0, <2>1, <3>2 DEF CarvesTypeOK, WorkerState
    <3>3. CASE CompleteBlockRead(w)
      BY <3>1, <3>2, <3>3 DEF CompleteBlockRead, PCs
    <3>4. CASE CreateBlock(w)
      BY <3>1, <3>4 DEF CreateBlock, PCs
    <3>5. CASE CompleteBlock(w) \/ Check(w) \/ Progress(w) \/ Finish(w) \/ Stamp(w)
      BY <3>1, <3>5 DEF CompleteBlock, Check, Progress, Finish, Stamp, PCs
    <3>. QED  BY <1>3, <3>3, <3>4, <3>5 DEF BlockStep
  <2>5. UploadsKept
    BY <2>1, <2>3, <2>4 DEF UploadsKept
  <2>6. StoredBeforeCounted'
    <3>1. CASE CreateBlock(w)
      <4>1. blocks' = blocks \cup {Current(w)} /\ UNCHANGED counted
        BY <3>1 DEF CreateBlock
      <4>2. \A v \in Workers : Current(v)' = Current(v)
        BY <2>4 DEF Current
      <4>3. \A d \in blocks : d.by \in Workers
        BY <1>0 DEF CarvesTypeOK, Delivery
      <4>4. Current(w).by = w
        BY DEF Current
      <4>5. \A d \in blocks' : worker'[d.by].pc # "idle" /\ d = Current(d.by)'
        BY <1>0, <2>4, <4>1, <4>2, <4>3, <4>4 DEF StoredBeforeCounted
      <4>6. \A v \in Workers : worker'[v].pc \in {"read", "write"} => Current(v)' \in blocks'
        BY <1>0, <2>4, <4>1, <4>2 DEF StoredBeforeCounted
      <4>. QED  BY <1>0, <4>1, <4>5, <4>6 DEF StoredBeforeCounted
    <3>2. CASE CompleteBlock(w)
      <4>1. /\ counted' \subseteq counted \cup {Current(w)} /\ UNCHANGED blocks
            /\ worker[w].pc = "write"
        BY <3>2 DEF CompleteBlock
      <4>2. \A v \in Workers : Current(v)' = Current(v)
        BY <2>4 DEF Current
      <4>3. \A d \in blocks : d.by \in Workers
        BY <1>0 DEF CarvesTypeOK, Delivery
      <4>4. counted' \subseteq blocks
        BY <1>0, <4>1 DEF StoredBeforeCounted
      <4>5. worker'[w].pc = "check"
        BY <1>0, <3>2, GotoMoves DEF CompleteBlock, PCs
      <4>6. \A d \in blocks' : worker'[d.by].pc # "idle" /\ d = Current(d.by)'
        BY <1>0, <2>4, <4>1, <4>2, <4>3 DEF StoredBeforeCounted
      <4>7. \A v \in Workers : worker'[v].pc \in {"read", "write"} => Current(v)' \in blocks'
        BY <1>0, <2>4, <4>1, <4>2, <4>5 DEF StoredBeforeCounted
      <4>. QED  BY <4>1, <4>4, <4>6, <4>7 DEF StoredBeforeCounted
    <3>3. CASE CompleteBlockRead(w) \/ Check(w) \/ Progress(w) \/ Finish(w) \/ Stamp(w)
      <4>1. UNCHANGED <<blocks, counted>>
        BY <3>3 DEF CompleteBlockRead, Check, Progress, Finish, Stamp
      <4>2. ~CreateBlock(w)
        BY <3>3 DEF CreateBlock, CompleteBlockRead, Check, Progress, Finish, Stamp
      <4>. QED  BY <1>0, <2>4, <4>1, <4>2, NothingStored
    <3>. QED  BY <1>3, <3>1, <3>2, <3>3 DEF BlockStep
  <2>. QED  BY <1>0, <2>5, <2>6, UploadsKeptExactlyOnce
<1>. QED  BY <1>1, <1>2, <1>3

LEMMA NodeExactlyOnce ==
  ASSUME Resends = 0, CarvesIInv, ExactlyOnce, NEW c \in Carvings,
         \/ CarveInitRefused(c) \/ BlockRefused(c)
         \/ \E s \in Sessions : CarveInitHandler(c, s)
         \/ \E w \in Workers : CarveBlockHandler(c, w)
  PROVE  ExactlyOnce'
<1>0. /\ CarvesTypeOK /\ Opened
      /\ OneClientPerSession /\ EachBlockOnce /\ StoredBeforeCounted
  BY DEF CarvesIInv, ExactlyOnce
<1>1. /\ client \in [Carvings -> ClientState] /\ client[c] \in ClientState
      /\ client[c].next \in Nat /\ ~Retry(c)
      /\ \A w \in Workers : worker[w].block \in Nat
  BY <1>0 DEF CarvesTypeOK, ClientState, WorkerState, Retry
<1>2. ASSUME Advance(c)
      PROVE  /\ client'[c].pc = client[c].pc /\ client'[c].session = client[c].session
             /\ client'[c].next = client[c].next + 1
             /\ \A d \in Carvings : d # c => client'[d] = client[d]
  BY <1>1, <1>2 DEF Advance, ClientState
<1>3. ASSUME GiveUp(c)
      PROVE  /\ client'[c].pc = "over"
             /\ \A d \in Carvings : d # c => client'[d] = client[d]
  BY <1>1, <1>3 DEF GiveUp, ClientState
<1>4. CASE CarveInitRefused(c)
  <2>1. UNCHANGED <<file, blocks, worker, counted>> /\ GiveUp(c)
    BY <1>4 DEF CarveInitRefused
  <2>2. OneClientPerSession'
    BY <1>0, <1>3, <2>1 DEF OneClientPerSession
  <2>3. EachBlockOnce'
    BY <1>0, <1>3, <2>1 DEF EachBlockOnce, Sending
  <2>4. StoredBeforeCounted'
    BY <1>0, <2>1, NothingStored
  <2>. QED  BY <2>2, <2>3, <2>4 DEF ExactlyOnce
<1>5. CASE BlockRefused(c)
  <2>1. UNCHANGED <<file, blocks, worker, counted>> /\ Advance(c)
    BY <1>5 DEF BlockRefused
  <2>2. OneClientPerSession'
    BY <1>0, <1>2, <2>1 DEF OneClientPerSession
  <2>3. \A w \in Workers, d \in Carvings :
          worker[w].pc # "idle" /\ client'[d].pc = "sending"
          /\ client'[d].session = worker[w].session
            => worker[w].block < client'[d].next
    BY <1>0, <1>1, <1>2, <2>1 DEF EachBlockOnce, Sending
  <2>4. EachBlockOnce'
    BY <1>0, <2>1, <2>3 DEF EachBlockOnce, Sending
  <2>5. StoredBeforeCounted'
    BY <1>0, <2>1, NothingStored
  <2>. QED  BY <2>2, <2>4, <2>5 DEF ExactlyOnce
<1>6. ASSUME NEW s \in Sessions, CarveInitHandler(c, s) PROVE ExactlyOnce'
  <2>1. /\ UNCHANGED <<blocks, worker, counted>> /\ file[s].state = "none"
        /\ file' = [file EXCEPT ![s] = [state |-> "present", carve |-> c,
                                        completed |-> 0, status |-> "INITIALIZED"]]
    BY <1>6 DEF CarveInitHandler
  <2>2. /\ file'[s].state = "present" /\ file'[s].carve = c
        /\ \A t \in Sessions : t # s => file'[t] = file[t]
    BY <1>0, <2>1 DEF CarvesTypeOK
  <2>3. /\ client'[c].pc = "sending" => client'[c].session = s
        /\ \A d \in Carvings : d # c => client'[d] = client[d]
    <3>1. CASE client' = [client EXCEPT ![c].pc = "sending", ![c].session = s]
      BY <1>1, <3>1 DEF ClientState
    <3>2. CASE GiveUp(c)
      BY <1>3, <3>2
    <3>. QED  BY <1>1, <1>6, <3>1, <3>2 DEF CarveInitHandler
  <2>4. \A w \in Workers : worker[w].pc # "idle" => worker[w].session # s
    BY <1>0, <2>1 DEF Opened
  <2>5. OneClientPerSession'
    <3>1. SUFFICES ASSUME NEW d \in Carvings, client'[d].pc = "sending"
                   PROVE  /\ client'[d].session \in Sessions
                          /\ file'[client'[d].session].state # "none"
                          /\ file'[client'[d].session].carve = d
      BY DEF OneClientPerSession
    <3>2. CASE d = c
      BY <2>2, <2>3, <3>1, <3>2
    <3>3. CASE d # c
      BY <1>0, <2>1, <2>2, <2>3, <3>1, <3>3 DEF OneClientPerSession
    <3>. QED  BY <3>2, <3>3
  <2>6. \A w \in Workers : worker[w].pc # "idle" =>
          /\ file'[worker[w].session] = file[worker[w].session]
          /\ \A d \in Carvings :
               client'[d].pc = "sending" /\ client'[d].session = worker[w].session
                 => d # c /\ client'[d] = client[d]
    BY <1>0, <2>2, <2>3, <2>4 DEF Opened
  <2>7. EachBlockOnce'
    BY <1>0, <2>1, <2>6 DEF EachBlockOnce, Sending
  <2>8. StoredBeforeCounted'
    BY <1>0, <2>1, NothingStored
  <2>. QED  BY <2>5, <2>7, <2>8 DEF ExactlyOnce
<1>7. ASSUME NEW w \in Workers, CarveBlockHandler(c, w) PROVE ExactlyOnce'
  <2>1. /\ UNCHANGED <<file, blocks, counted>> /\ Advance(c)
        /\ worker[w].pc = "idle" /\ client[c].pc = "sending"
        /\ client[c].next < Total[c]
        /\ worker' = [worker EXCEPT ![w] =
             [pc |-> "store", session |-> client[c].session,
              block |-> client[c].next, seen |-> 0]]
    BY <1>1, <1>7 DEF CarveBlockHandler, More
  <2>2. /\ worker'[w].pc = "store" /\ worker'[w].session = client[c].session
        /\ worker'[w].block = client[c].next
        /\ \A v \in Workers : v # w => worker'[v] = worker[v]
    BY <1>0, <2>1 DEF CarvesTypeOK
  <2>3. file[client[c].session].carve = c
    BY <1>0, <2>1 DEF OneClientPerSession
  <2>4. OneClientPerSession'
    BY <1>0, <1>2, <2>1 DEF OneClientPerSession
  <2>5. \A v \in Workers :
          v # w /\ worker[v].pc # "idle" /\ worker[v].session = client[c].session
            => worker[v].block < client[c].next
    BY <1>0, <2>1 DEF EachBlockOnce, Sending
  <2>6. ASSUME NEW v \in Workers, worker'[v].pc # "idle"
        PROVE  /\ worker'[v].block < Total[file'[worker'[v].session].carve]
               /\ \A d \in Carvings :
                    client'[d].pc = "sending" /\ client'[d].session = worker'[v].session
                      => worker'[v].block < client'[d].next
               /\ \A u \in Workers :
                    /\ worker'[u].pc # "idle" /\ worker'[u].session = worker'[v].session
                    /\ worker'[u].block = worker'[v].block
                    => u = v
    <3>1. CASE v = w
      <4>1. worker'[v].block < Total[file'[worker'[v].session].carve]
        BY <2>1, <2>2, <2>3, <3>1
      <4>2. ASSUME NEW d \in Carvings, client'[d].pc = "sending",
                   client'[d].session = worker'[v].session
            PROVE  worker'[v].block < client'[d].next
        <5>1. d = c
          BY <1>0, <1>2, <2>1, <2>2, <2>3, <3>1, <4>2 DEF OneClientPerSession
        <5>. QED  BY <1>1, <1>2, <2>1, <2>2, <3>1, <5>1
      <4>3. ASSUME NEW u \in Workers, worker'[u].pc # "idle",
                   worker'[u].session = worker'[v].session,
                   worker'[u].block = worker'[v].block, u # v
            PROVE  FALSE
        BY <1>1, <2>2, <2>5, <3>1, <4>3
      <4>. QED  BY <4>1, <4>2, <4>3
    <3>2. CASE v # w
      <4>1. worker'[v] = worker[v] /\ worker[v].pc # "idle"
        BY <2>2, <2>6, <3>2
      <4>2. worker'[v].block < Total[file'[worker'[v].session].carve]
        BY <1>0, <2>1, <4>1 DEF EachBlockOnce
      <4>3. ASSUME NEW d \in Carvings, client'[d].pc = "sending",
                   client'[d].session = worker'[v].session
            PROVE  worker'[v].block < client'[d].next
        <5>1. worker[v].block < client[d].next
          BY <1>0, <1>2, <2>1, <4>1, <4>3 DEF EachBlockOnce, Sending
        <5>2. client[d].next \in Nat /\ client'[d].next \in {client[d].next, client[d].next + 1}
          BY <1>1, <1>2, <2>1 DEF ClientState
        <5>. QED  BY <1>1, <4>1, <5>1, <5>2
      <4>4. ASSUME NEW u \in Workers, worker'[u].pc # "idle",
                   worker'[u].session = worker'[v].session,
                   worker'[u].block = worker'[v].block
            PROVE  u = v
        <5>1. CASE u = w
          BY <1>1, <2>2, <2>5, <3>2, <4>1, <4>4, <5>1
        <5>2. CASE u # w
          BY <1>0, <2>2, <4>1, <4>4, <5>2 DEF EachBlockOnce
        <5>. QED  BY <5>1, <5>2
      <4>. QED  BY <4>2, <4>3, <4>4
    <3>. QED  BY <3>1, <3>2
  <2>7. EachBlockOnce'
    BY <2>6 DEF EachBlockOnce, Sending
  <2>8. StoredBeforeCounted'
    BY <1>0, <2>1, <2>2, NothingStored
  <2>. QED  BY <2>4, <2>7, <2>8 DEF ExactlyOnce
<1>. QED  BY <1>4, <1>5, <1>6, <1>7

(* Distinct deliveries of one session are distinct blocks of its file, so  *)
(* that as many as the file has blocks are all of them.                    *)
LEMMA CountedDistinct ==
  ASSUME CarvesIInv, ExactlyOnce, NEW s \in Sessions, file[s].state # "none"
  PROVE  /\ Total[file[s].carve] \in Nat /\ Cardinality(CountedFor(s)) \in Nat
         /\ Cardinality(CountedFor(s)) <= Total[file[s].carve]
         /\ \A d \in blocks : d.session = s => d.block \in 0 .. Total[file[s].carve] - 1
         /\ Cardinality(CountedFor(s)) >= Total[file[s].carve] =>
              \A b \in 0 .. Total[file[s].carve] - 1 : \E d \in CountedFor(s) : d.block = b
<1>0. /\ CarvesTypeOK /\ Opened /\ CountBounded
      /\ EachBlockOnce /\ StoredBeforeCounted
  BY DEF CarvesIInv, ExactlyOnce
<1>1. PICK n \in Nat : n = Total[file[s].carve]
  <2>1. file[s].carve \in Carvings
    BY <1>0 DEF Opened
  <2>. QED  BY <2>1, CarvesAssumption
<1>2. \A d \in blocks : d.session = s => d.block \in 0 .. n - 1
  <2>1. SUFFICES ASSUME NEW d \in blocks, d.session = s PROVE d.block \in 0 .. n - 1
    OBVIOUS
  <2>2. d.by \in Workers /\ worker[d.by].pc # "idle" /\ d = Current(d.by)
    BY <1>0 DEF CarvesTypeOK, Delivery, StoredBeforeCounted
  <2>3. worker[d.by].session = s /\ worker[d.by].block = d.block
    BY <2>1, <2>2 DEF Current
  <2>4. d.block < n /\ d.block \in Nat
    BY <1>0, <1>1, <2>2, <2>3 DEF EachBlockOnce, CarvesTypeOK, WorkerState
  <2>. QED  BY <2>4
<1>3. IsFiniteSet(0 .. n - 1) /\ Cardinality(0 .. n - 1) = n
  BY FS_Interval
<1>4. IsFiniteSet(CountedFor(s)) /\ Cardinality(CountedFor(s)) \in Nat
  BY <1>0, <1>1, CountedForFinite DEF CountBounded
<1>. DEFINE f == [d \in CountedFor(s) |-> d.block]
<1>5. f \in Injection(CountedFor(s), 0 .. n - 1)
  <2>1. \A d \in CountedFor(s) : d \in blocks /\ d.session = s
    BY <1>0 DEF CountedFor, StoredBeforeCounted
  <2>2. f \in [CountedFor(s) -> 0 .. n - 1]
    BY <1>2, <2>1
  <2>3. ASSUME NEW d \in CountedFor(s), NEW e \in CountedFor(s), f[d] = f[e]
        PROVE  d = e
    <3>1. d \in blocks /\ e \in blocks /\ d.session = s /\ e.session = s /\ d.block = e.block
      BY <2>1, <2>3
    <3>2. /\ d.by \in Workers /\ worker[d.by].pc # "idle" /\ d = Current(d.by)
          /\ e.by \in Workers /\ worker[e.by].pc # "idle" /\ e = Current(e.by)
      BY <1>0, <3>1 DEF CarvesTypeOK, Delivery, StoredBeforeCounted
    <3>3. /\ worker[d.by].session = worker[e.by].session
          /\ worker[d.by].block = worker[e.by].block
      BY <3>1, <3>2 DEF Current
    <3>4. d.by = e.by
      BY <1>0, <3>2, <3>3 DEF EachBlockOnce
    <3>. QED  BY <3>2, <3>4
  <2>. QED  BY <2>2, <2>3 DEF Injection, IsInjective
<1>6. /\ Cardinality(CountedFor(s)) <= n
      /\ Cardinality(CountedFor(s)) = n => f \in Surjection(CountedFor(s), 0 .. n - 1)
  BY <1>3, <1>5, FS_Injection
<1>7. Cardinality(CountedFor(s)) >= n =>
        \A b \in 0 .. n - 1 : \E d \in CountedFor(s) : d.block = b
  <2>1. SUFFICES ASSUME Cardinality(CountedFor(s)) >= n
                 PROVE  f \in Surjection(CountedFor(s), 0 .. n - 1)
    BY DEF Surjection
  <2>2. Cardinality(CountedFor(s)) = n
    <3>. HIDE DEF f
    <3>. QED  BY <1>1, <1>4, <1>6, <2>1
  <2>. QED  BY <1>6, <2>2
<1>. QED  BY <1>1, <1>2, <1>4, <1>6, <1>7

LEMMA EnoughIsWhole ==
  ASSUME CarvesIInv, ExactlyOnce, NEW s \in Sessions, file[s].state # "none",
         Cardinality(CountedFor(s)) >= Total[file[s].carve]
  PROVE  Whole(s)
<1>1. /\ \A d \in blocks : d.session = s => d.block \in 0 .. Total[file[s].carve] - 1
      /\ \A b \in 0 .. Total[file[s].carve] - 1 : \E d \in CountedFor(s) : d.block = b
  BY CountedDistinct
<1>2. CountedFor(s) \subseteq {e \in blocks : e.session = s}
  BY DEF ExactlyOnce, StoredBeforeCounted, CountedFor
<1>. QED  BY <1>1, <1>2 DEF StoredFor, Whole

LEMMA ExactlyOnceHolds ==
  ASSUME Resends = 0, DBErrors = FALSE
  PROVE  CarvesSpec => []ExactlyOnce
<1>1. CarvesInit => ExactlyOnce
  BY DEF CarvesInit, ExactlyOnce, OneClientPerSession, EachBlockOnce, StoredBeforeCounted
<1>2. CarvesIInv /\ ExactlyOnce /\ [CarvesNext]_carveVars => ExactlyOnce'
  <2>1. SUFFICES ASSUME CarvesIInv, ExactlyOnce, [CarvesNext]_carveVars
                 PROVE  ExactlyOnce'
    OBVIOUS
  <2>2. CASE CarvesNext
    BY <2>1, <2>2, NodeExactlyOnce, ServiceExactlyOnce DEF CarvesNext
  <2>3. CASE UNCHANGED carveVars
    BY <2>1, <2>3 DEF ExactlyOnce, OneClientPerSession, EachBlockOnce,
       StoredBeforeCounted, Sending, Current, carveVars
  <2>. QED  BY <2>1, <2>2, <2>3
<1>. QED  BY <1>1, <1>2, CarvesInvariantHolds, PTL DEF CarvesSpec

(* While every block is sent once and every statement succeeds, a carve    *)
(* that is marked COMPLETED has all its blocks in the table, however the   *)
(* goroutines overlap and wherever the service is restarted.               *)
THEOREM CompletedSound ==
  ASSUME Resends = 0, DBErrors = FALSE
  PROVE  CarvesSpec => []CompletedFilesWhole
<1>1. CarvesIInv /\ ExactlyOnce => CompletedFilesWhole
  <2>1. SUFFICES ASSUME CarvesIInv, ExactlyOnce,
                        NEW s \in Sessions, file[s].status = "COMPLETED"
                 PROVE  Whole(s)
    BY DEF CompletedFilesWhole
  <2>2. file[s].state # "none" /\ Cardinality(CountedFor(s)) >= Total[file[s].carve]
    BY <2>1 DEF CarvesIInv, Opened, FinishNeverEarly
  <2>. QED  BY <2>1, <2>2, EnoughIsWhole
<1>. QED  BY <1>1, ExactlyOnceHolds, CarvesInvariantHolds, PTL

-----------------------------------------------------------------------------
(* The uploads implement their abstract specification. *)

LEMMA AbstractFrame ==
  ASSUME \A s \in Sessions :
           file'[s].state = file[s].state /\ file'[s].status = file[s].status
           /\ file'[s].carve = file[s].carve
  PROVE  UNCHANGED <<UploadStatus, UploadSize>>
BY DEF UploadStatus, UploadSize, Present

(* A new status of one row is a new status of that upload alone. *)
LEMMA AbstractSet ==
  ASSUME CarvesTypeOK, NEW s \in Sessions, Present(s), NEW row \in FileRow,
         file' = [file EXCEPT ![s] = row],
         row.carve = file[s].carve, row.state # "none",
         NEW new, new = IF row.state = "present" THEN row.status ELSE row.state,
         UNCHANGED blocks
  PROVE  Promise!Set(s, new)
<1>1. /\ file'[s] = row /\ \A t \in Sessions : t # s => file'[t] = file[t]
  BY DEF CarvesTypeOK
<1>2. file[s].status \notin {"none", "deleted"}
  BY DEF CarvesTypeOK, FileRow, Statuses
<1>3. UploadStatus[s] \notin {"none", "deleted"}
  BY <1>2 DEF UploadStatus
<1>4. UploadStatus' = [UploadStatus EXCEPT ![s] = new]
  <2>1. new = IF file'[s].state = "present" THEN file'[s].status ELSE file'[s].state
    BY <1>1
  <2>2. UploadStatus' = [t \in Sessions |-> IF t = s THEN new ELSE UploadStatus[t]]
    BY <1>1, <2>1 DEF UploadStatus, Present
  <2>. QED  BY <2>2 DEF UploadStatus
<1>5. UNCHANGED UploadSize
  BY <1>1 DEF UploadSize, Present
<1>6. UNCHANGED UploadBlocks
  BY DEF UploadBlocks, StoredFor
<1>. QED  BY <1>3, <1>4, <1>5, <1>6 DEF Promise!Set

LEMMA BlockStepRefines ==
  ASSUME DBErrors = FALSE, CarvesIInv, ExactlyOnce, NEW w \in Workers, BlockStep(w)
  PROVE  Promise!TransferNext \/ UNCHANGED Promise!transferVars
<1>0. /\ CarvesTypeOK /\ Opened /\ FinishNeverEarly
      /\ EachBlockOnce /\ StoredBeforeCounted
  BY DEF CarvesIInv, ExactlyOnce
<1>1. worker[w] \in WorkerState /\ worker[w].pc # "idle"
  BY <1>0 DEF CarvesTypeOK, BlockStep, CreateBlock, CompleteBlockRead,
       CompleteBlock, Check, Progress, Finish, Stamp
<1>2. PICK s \in Sessions : s = worker[w].session /\ file[s].state # "none"
  BY <1>0, <1>1 DEF Opened
<1>3. file[s] \in FileRow /\ file \in [Sessions -> FileRow]
  BY <1>0 DEF CarvesTypeOK
<1>4. CASE CreateBlock(w)
  <2>1. blocks' = blocks \cup {Current(w)} /\ UNCHANGED file
    BY <1>4 DEF CreateBlock
  <2>2. Current(w).session = s /\ Current(w).block = worker[w].block
    BY <1>2 DEF Current
  <2>3. UNCHANGED <<UploadStatus, UploadSize>>
    BY <2>1, AbstractFrame
  <2>4. \A t \in Sessions :
          StoredFor(t)' = IF t = s THEN StoredFor(t) \cup {worker[w].block} ELSE StoredFor(t)
    BY <2>1, <2>2 DEF StoredFor
  <2>5. UploadBlocks' = [UploadBlocks EXCEPT ![s] = @ \cup {worker[w].block}]
    BY <2>4 DEF UploadBlocks
  <2>6. UploadStatus[s] # "none"
    BY <1>2, <1>3 DEF UploadStatus, FileRow, Statuses
  <2>7. worker[w].block \in 0 .. UploadSize[s] - 1
    <3>1. file[s].carve \in Carvings
      BY <1>0, <1>2 DEF Opened
    <3>2. UploadSize[s] = Total[file[s].carve] /\ Total[file[s].carve] \in Nat
      BY <1>2, <3>1, CarvesAssumption DEF UploadSize
    <3>3. worker[w].block < Total[file[s].carve] /\ worker[w].block \in Nat
      BY <1>0, <1>1, <1>2 DEF EachBlockOnce, WorkerState
    <3>. QED  BY <3>2, <3>3
  <2>8. Promise!Receive(s)
    BY <2>3, <2>5, <2>6, <2>7 DEF Promise!Receive
  <2>. QED  BY <2>8 DEF Promise!TransferNext
<1>5. CASE CompleteBlockRead(w) \/ Check(w) \/ Stamp(w)
  <2>1. UNCHANGED <<file, blocks>>
    BY <1>5 DEF CompleteBlockRead, Check, Stamp
  <2>2. UNCHANGED <<UploadStatus, UploadSize>>
    BY <2>1, AbstractFrame
  <2>. QED  BY <2>1, <2>2 DEF Promise!transferVars, UploadBlocks, StoredFor
<1>6. CASE CompleteBlock(w)
  <2>1. PICK n \in Nat : Update(s, [file[s] EXCEPT !.completed = n])
    <3>1. worker[w].seen + 1 \in Nat
      BY <1>1 DEF WorkerState
    <3>. QED  BY <1>2, <1>6, <3>1 DEF CompleteBlock
  <2>2. /\ [file[s] EXCEPT !.completed = n] \in FileRow
        /\ [file[s] EXCEPT !.completed = n].status = file[s].status
        /\ [file[s] EXCEPT !.completed = n].state = file[s].state
        /\ [file[s] EXCEPT !.completed = n].carve = file[s].carve
    BY <1>3 DEF FileRow
  <2>3. /\ file'[s] \in {[file[s] EXCEPT !.completed = n], file[s]}
        /\ \A t \in Sessions : t # s => file'[t] = file[t]
    BY <1>0, <2>1, <2>2, UpdateType
  <2>4. UNCHANGED <<UploadStatus, UploadSize>>
    BY <2>2, <2>3, AbstractFrame
  <2>5. UNCHANGED blocks
    BY <1>6 DEF CompleteBlock
  <2>. QED  BY <2>4, <2>5 DEF Promise!transferVars, UploadBlocks, StoredFor
<1>7. ASSUME NEW status \in Statuses, UNCHANGED blocks,
             Update(s, [file[s] EXCEPT !.status = status])
      PROVE  /\ Present(s) => Promise!Set(s, status)
             /\ ~Present(s) => UNCHANGED Promise!transferVars
  <2>1. /\ [file[s] EXCEPT !.status = status] \in FileRow
        /\ [file[s] EXCEPT !.status = status].status = status
        /\ [file[s] EXCEPT !.status = status].state = file[s].state
        /\ [file[s] EXCEPT !.status = status].carve = file[s].carve
    BY <1>3 DEF FileRow
  <2>2. CASE Present(s)
    <3>1. file' = [file EXCEPT ![s] = [file[s] EXCEPT !.status = status]]
      BY <1>7, <2>2 DEF Update
    <3>. QED  BY <1>0, <1>7, <2>1, <2>2, <3>1, AbstractSet DEF Present
  <2>3. CASE ~Present(s)
    <3>1. \A t \in Sessions : file'[t] = file[t]
      BY <1>0, <1>7, <2>1, <2>3, UpdateType
    <3>2. UNCHANGED <<UploadStatus, UploadSize>>
      BY <3>1, AbstractFrame
    <3>. QED  BY <1>7, <2>3, <3>2 DEF Promise!transferVars, UploadBlocks, StoredFor
  <2>. QED  BY <2>2, <2>3
<1>8. CASE Progress(w)
  <2>1. /\ Update(s, [file[s] EXCEPT !.status = "IN PROGRESS"])
        /\ UNCHANGED blocks
    BY <1>2, <1>8 DEF Progress
  <2>2. Promise!Set(s, "IN PROGRESS") \/ UNCHANGED Promise!transferVars
    BY <1>7, <2>1 DEF Statuses
  <2>. QED  BY <2>2 DEF Promise!TransferNext
<1>9. CASE Finish(w)
  <2>1. CASE Update(s, [file[s] EXCEPT !.status = "COMPLETED"]) /\ Present(s)
    <3>1. Promise!Set(s, "COMPLETED")
      BY <1>7, <1>9, <2>1 DEF Statuses, Finish
    <3>2. Cardinality(CountedFor(s)) >= Total[file[s].carve]
      BY <1>0, <1>2, <1>9 DEF FinishNeverEarly, Finish
    <3>3. StoredFor(s) = 0 .. Total[file[s].carve] - 1
      BY <1>2, <3>2, EnoughIsWhole DEF Whole
    <3>4. UploadBlocks[s] = 0 .. UploadSize[s] - 1
      BY <1>2, <3>3 DEF UploadBlocks, UploadSize
    <3>. QED  BY <3>1, <3>4 DEF Promise!Finish, Promise!TransferNext
  <2>2. CASE UNCHANGED file
    <3>1. UNCHANGED <<UploadStatus, UploadSize>>
      BY <2>2, AbstractFrame
    <3>. QED  BY <1>9, <3>1 DEF Finish, Promise!transferVars, UploadBlocks, StoredFor
  <2>. QED  BY <1>2, <1>9, <2>1, <2>2 DEF Finish
<1>. QED  BY <1>4, <1>5, <1>6, <1>8, <1>9 DEF BlockStep

(* While every block is sent once and every statement succeeds, the         *)
(* handlers, goroutines and counters implement module CarveTransfer: the    *)
(* status becomes COMPLETED only in a state where all blocks are stored,   *)
(* and a deleted carve never returns.                                      *)
THEOREM TransferImplemented ==
  ASSUME Resends = 0, DBErrors = FALSE
  PROVE  CarvesSpec => ImplementsTransfer
<1>1. CarvesInit => Promise!TransferInit
  <2>1. SUFFICES ASSUME CarvesInit PROVE Promise!TransferInit
    OBVIOUS
  <2>2. UploadStatus = [s \in Sessions |-> "none"]
    BY <2>1 DEF CarvesInit, UploadStatus, Present
  <2>3. UploadSize = [s \in Sessions |-> 0]
    BY <2>1 DEF CarvesInit, UploadSize
  <2>4. UploadBlocks = [s \in Sessions |-> {}]
    BY <2>1 DEF CarvesInit, UploadBlocks, StoredFor
  <2>. QED  BY <2>2, <2>3, <2>4 DEF Promise!TransferInit
<1>2. CarvesIInv /\ ExactlyOnce /\ [CarvesNext]_carveVars
        => [Promise!TransferNext]_(Promise!transferVars)
  <2>1. SUFFICES ASSUME CarvesIInv, ExactlyOnce, [CarvesNext]_carveVars
                 PROVE  Promise!TransferNext \/ UNCHANGED Promise!transferVars
    OBVIOUS
  <2>2. CarvesTypeOK
    BY <2>1 DEF CarvesIInv
  <2>3. ASSUME UNCHANGED <<file, blocks>> PROVE UNCHANGED Promise!transferVars
    <3>1. UNCHANGED <<UploadStatus, UploadSize>>
      BY <2>3, AbstractFrame
    <3>. QED  BY <2>3, <3>1 DEF Promise!transferVars, UploadBlocks, StoredFor
  <2>4. ASSUME NEW c \in Carvings, NEW s \in Sessions, CarveInitHandler(c, s)
        PROVE  Promise!Open(s)
    <3>1. /\ file[s].state = "none" /\ UNCHANGED blocks
          /\ file' = [file EXCEPT ![s] = [state |-> "present", carve |-> c,
                                          completed |-> 0, status |-> "INITIALIZED"]]
      BY <2>4 DEF CarveInitHandler
    <3>2. /\ file'[s].state = "present" /\ file'[s].carve = c
          /\ file'[s].status = "INITIALIZED"
          /\ \A t \in Sessions : t # s => file'[t] = file[t]
      BY <2>2, <3>1 DEF CarvesTypeOK
    <3>3. UploadStatus[s] = "none"
      BY <3>1 DEF UploadStatus, Present
    <3>4. UploadStatus' = [UploadStatus EXCEPT ![s] = "INITIALIZED"]
      BY <3>2 DEF UploadStatus, Present
    <3>5. UploadSize' = [UploadSize EXCEPT ![s] = Total[c]]
      BY <3>2 DEF UploadSize
    <3>6. UNCHANGED UploadBlocks
      BY <3>1 DEF UploadBlocks, StoredFor
    <3>. QED  BY <3>3, <3>4, <3>5, <3>6 DEF Promise!Open
  <2>5. ASSUME NEW s \in Sessions, Delete(s) PROVE Promise!Set(s, "deleted")
    <3>1. /\ file' = [file EXCEPT ![s] = [file[s] EXCEPT !.state = "deleted"]]
          /\ UNCHANGED blocks /\ Present(s)
      BY <2>5 DEF Delete
    <3>2. file[s] \in FileRow
      BY <2>2 DEF CarvesTypeOK
    <3>3. /\ [file[s] EXCEPT !.state = "deleted"] \in FileRow
          /\ [file[s] EXCEPT !.state = "deleted"].state = "deleted"
          /\ [file[s] EXCEPT !.state = "deleted"].carve = file[s].carve
      BY <3>2 DEF FileRow
    <3>. QED  BY <2>2, <3>1, <3>3, AbstractSet
  <2>6. CASE Restart
    BY <2>3, <2>6 DEF Restart
  <2>7. ASSUME NEW c \in Carvings,
               \/ CarveInitRefused(c) \/ BlockRefused(c)
               \/ \E w \in Workers : CarveBlockHandler(c, w)
        PROVE  UNCHANGED Promise!transferVars
    BY <2>3, <2>7 DEF CarveInitRefused, BlockRefused, CarveBlockHandler
  <2>8. CASE UNCHANGED carveVars
    BY <2>3, <2>8 DEF carveVars
  <2>9. CASE CarvesNext
    BY <2>1, <2>4, <2>5, <2>6, <2>7, <2>9, BlockStepRefines
    DEF CarvesNext, Promise!TransferNext
  <2>. QED  BY <2>1, <2>8, <2>9
<1>. QED
  BY <1>1, <1>2, ExactlyOnceHolds, CarvesInvariantHolds, PTL
  DEF CarvesSpec, ImplementsTransfer, Promise!Transfer
=============================================================================

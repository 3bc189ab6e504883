------------------------------- MODULE Carves -------------------------------
(***************************************************************************)
(* The upload of carved files.  osqueryd (external, modelled from its       *)
(* requests) opens a session, then sends the blocks of the file one after   *)
(* the other.  CarveInitHandler creates the row of the file before it       *)
(* answers; CarveBlockHandler answers at once and leaves each block to a    *)
(* goroutine, so that the blocks of one file are stored, counted and judged *)
(* by goroutines that overlap.  Every action is one database statement, or  *)
(* several of which only one reads or writes what others can see or change. *)
(***************************************************************************)
EXTENDS Naturals, FiniteSets

CONSTANTS
  Carvings, \* carves of the nodes, named by carve_id
  Total,    \* [Carvings -> Nat], how many blocks each file has
  Sessions, \* session IDs, each generated at most once
  NoCarve,  \* no carve
  NoSession,\* no session
  Workers,  \* goroutines: at most this many blocks are accepted
  InFlight, \* how many of them may run at the same time
  Resends,  \* how often a node sends again a request whose answer was lost
  Deletes,  \* TRUE: the operator may delete carves
  Crashes,  \* TRUE: the TLS service may stop and restart
  DBErrors  \* TRUE: a database statement may fail

ASSUME CarvesAssumption ==
  /\ NoCarve \notin Carvings /\ NoSession \notin Sessions
  /\ Total \in [Carvings -> Nat]
  /\ IsFiniteSet(Workers)
  /\ InFlight \in Nat /\ Resends \in Nat
  /\ Deletes \in BOOLEAN /\ Crashes \in BOOLEAN /\ DBErrors \in BOOLEAN

VARIABLES
  file,    \* table carved_files, by session_id
  stamped, \* the sessions whose column completed_at was set
  blocks,  \* table carved_blocks
  client,  \* the carver of osqueryd, for each carve
  worker,  \* ProcessCarveBlock goroutines
  counted  \* history: the blocks whose increment of completed_blocks was written

carveVars == <<file, stamped, blocks, client, worker, counted>>

Statuses == {"INITIALIZED", "IN PROGRESS", "COMPLETED"}

(* A block as it was delivered; "by" tells rows apart like their id. *)
Delivery == [session : Sessions, block : Nat, by : Workers]

FileRow == [state : {"none", "present", "deleted"}, carve : Carvings \cup {NoCarve},
            completed : Nat, status : Statuses]

ClientState == [pc : {"init", "sending", "over"}, session : Sessions \cup {NoSession},
                next : Nat, resends : Nat]

WorkerState == [pc : {"idle", "store", "read", "write", "check", "progress",
                      "finish", "stamp", "done"},
                session : Sessions \cup {NoSession}, block : Nat, seen : Nat]

CarvesTypeOK ==
  /\ file \in [Sessions -> FileRow]
  /\ stamped \subseteq Sessions
  /\ blocks \subseteq Delivery /\ counted \subseteq Delivery
  /\ client \in [Carvings -> ClientState]
  /\ worker \in [Workers -> WorkerState]

-----------------------------------------------------------------------------
CarvesInit ==
  /\ file = [s \in Sessions |-> [state |-> "none", carve |-> NoCarve,
                                 completed |-> 0, status |-> "INITIALIZED"]]
  /\ stamped = {} /\ blocks = {} /\ counted = {}
  /\ client = [c \in Carvings |-> [pc |-> "init", session |-> NoSession,
                                   next |-> 0, resends |-> 0]]
  /\ worker = [w \in Workers |-> [pc |-> "idle", session |-> NoSession,
                                  block |-> 0, seen |-> 0]]

Present(s) == file[s].state = "present"

(* Column carve_id is unique. *)
Taken(c) == \E s \in Sessions : Present(s) /\ file[s].carve = c

(* A node whose answer is lost sends the same again, or goes on. *)
Retry(c) ==
  /\ client[c].resends < Resends
  /\ client' = [client EXCEPT ![c].resends = @ + 1]

Advance(c) == client' = [client EXCEPT ![c].next = @ + 1]

GiveUp(c) == client' = [client EXCEPT ![c].pc = "over"]

(* ProcessCarveInit creates the row; the answer tells the session, or is lost. *)
CarveInitHandler(c, s) ==
  /\ client[c].pc = "init" /\ file[s].state = "none" /\ ~Taken(c)
  /\ file' = [file EXCEPT ![s] = [state |-> "present", carve |-> c,
                                  completed |-> 0, status |-> "INITIALIZED"]]
  /\ \/ client' = [client EXCEPT ![c].pc = "sending", ![c].session = s]
     \/ Retry(c)
     \/ GiveUp(c)
  /\ UNCHANGED <<stamped, blocks, worker, counted>>

(* The node key is not known, carve_id is taken or a statement failed: the *)
(* answer has Success false, and osqueryd gives up.                        *)
CarveInitRefused(c) ==
  /\ client[c].pc = "init"
  /\ GiveUp(c)
  /\ UNCHANGED <<file, stamped, blocks, worker, counted>>

-----------------------------------------------------------------------------
Running == {w \in Workers : worker[w].pc \notin {"idle", "done"}}

More(c) == client[c].pc = "sending" /\ client[c].next < Total[c]

(* The session is known, so the answer has Success true, and a goroutine   *)
(* takes the block.                                                        *)
CarveBlockHandler(c, w) ==
  /\ More(c) /\ Present(client[c].session)
  /\ worker[w].pc = "idle" /\ Cardinality(Running) < InFlight
  /\ worker' = [worker EXCEPT ![w] =
       [pc |-> "store", session |-> client[c].session, block |-> client[c].next, seen |-> 0]]
  /\ Advance(c) \/ Retry(c)
  /\ UNCHANGED <<file, stamped, blocks, counted>>

(* CheckCarve does not find the session, or the request never arrives: the *)
(* carver logs it and goes on with the next block.                         *)
BlockRefused(c) ==
  /\ More(c)
  /\ Advance(c)
  /\ UNCHANGED <<file, stamped, blocks, worker, counted>>

-----------------------------------------------------------------------------
(* ProcessCarveBlock. *)

Goto(w, pc) == worker' = [worker EXCEPT ![w].pc = pc]

Current(w) == [session |-> worker[w].session, block |-> worker[w].block, by |-> w]

-----------------------------------------------------------------------------
(* Mutants.  Each repeats a definition that follows with a plausible bug;  *)
(* the properties are checked to tell the two apart.                       *)

StoredLater(w) ==
  /\ worker[w].pc = "store"
  /\ blocks' \in {blocks, blocks \cup {Current(w)}}
  /\ Goto(w, "read")
  /\ UNCHANGED <<file, stamped, client, counted>>

UpdateInserts(s, row) == file' = [file EXCEPT ![s] = [row EXCEPT !.state = "present"]]

CompletedOneEarly(s) == Present(s) /\ file[s].completed + 1 = Total[file[s].carve]

CompletedBeyond(s) == Present(s) /\ file[s].completed > Total[file[s].carve]

-----------------------------------------------------------------------------
(* A failure to store the block is logged, and the block counted all the same. *)
CreateBlock(w) ==
  /\ worker[w].pc = "store"
  /\ \/ blocks' = blocks \cup {Current(w)}
     \/ DBErrors /\ UNCHANGED blocks
  /\ Goto(w, "read")
  /\ UNCHANGED <<file, stamped, client, counted>>

(* CompleteBlock: the row is read, unless it is gone ... *)
CompleteBlockRead(w) ==
  /\ worker[w].pc = "read"
  /\ \/ /\ Present(worker[w].session)
        /\ worker' = [worker EXCEPT ![w].pc = "write",
                                    ![w].seen = file[worker[w].session].completed]
     \/ /\ DBErrors \/ ~Present(worker[w].session)
        /\ Goto(w, "check")
  /\ UNCHANGED <<file, stamped, blocks, client, counted>>

(* An update of one row by its id: without effect when the row is gone. *)
Update(s, row) == file' = [file EXCEPT ![s] = IF Present(s) THEN row ELSE @]

(* ... and written with one block more. *)
CompleteBlock(w) ==
  /\ worker[w].pc = "write"
  /\ \/ /\ Update(worker[w].session,
                  [file[worker[w].session] EXCEPT !.completed = worker[w].seen + 1])
        /\ counted' = counted \cup {Current(w)}
     \/ DBErrors /\ UNCHANGED <<file, counted>>
  /\ Goto(w, "check")
  /\ UNCHANGED <<stamped, blocks, client>>

Completed(s) == Present(s) /\ file[s].completed = Total[file[s].carve]

(* An error while reading counts as not completed. *)
Check(w) ==
  /\ worker[w].pc = "check"
  /\ \/ Completed(worker[w].session) /\ Goto(w, "finish")
     \/ (DBErrors \/ ~Completed(worker[w].session)) /\ Goto(w, "progress")
  /\ UNCHANGED <<file, stamped, blocks, client, counted>>

(* ChangeStatus(IN PROGRESS): the row is looked up again and updated. *)
Progress(w) ==
  /\ worker[w].pc = "progress"
  /\ LET s == worker[w].session
     IN  \/ Update(s, [file[s] EXCEPT !.status = "IN PROGRESS"])
         \/ DBErrors /\ UNCHANGED file
  /\ Goto(w, "done")
  /\ UNCHANGED <<stamped, blocks, client, counted>>

(* ChangeStatus(COMPLETED), and then completed_at in a second update. *)
Finish(w) ==
  /\ worker[w].pc = "finish"
  /\ LET s == worker[w].session
     IN  \/ /\ Present(s)
            /\ Update(s, [file[s] EXCEPT !.status = "COMPLETED"])
            /\ Goto(w, "stamp")
         \/ /\ DBErrors \/ ~Present(s)
            /\ Goto(w, "done") /\ UNCHANGED file
  /\ UNCHANGED <<stamped, blocks, client, counted>>

Stamp(w) ==
  /\ worker[w].pc = "stamp"
  /\ \/ stamped' = stamped \cup {worker[w].session}
     \/ (DBErrors \/ ~Present(worker[w].session)) /\ UNCHANGED stamped
  /\ Goto(w, "done")
  /\ UNCHANGED <<file, blocks, client, counted>>

-----------------------------------------------------------------------------
(* The operator deletes the row of the carve; its blocks stay. *)
Delete(s) ==
  /\ Deletes /\ Present(s)
  /\ file' = [file EXCEPT ![s].state = "deleted"]
  /\ UNCHANGED <<stamped, blocks, client, worker, counted>>

(* The goroutines end with the TLS service; the tables and osqueryd go on. *)
Restart ==
  /\ Crashes /\ Running # {}
  /\ worker' = [w \in Workers |->
       IF w \in Running THEN [worker[w] EXCEPT !.pc = "done"] ELSE worker[w]]
  /\ UNCHANGED <<file, stamped, blocks, client, counted>>

-----------------------------------------------------------------------------
BlockStep(w) ==
  \/ CreateBlock(w) \/ CompleteBlockRead(w) \/ CompleteBlock(w) \/ Check(w)
  \/ Progress(w) \/ Finish(w) \/ Stamp(w)

CarvesNext ==
  \/ \E c \in Carvings :
       \/ CarveInitRefused(c) \/ BlockRefused(c)
       \/ \E s \in Sessions : CarveInitHandler(c, s)
       \/ \E w \in Workers : CarveBlockHandler(c, w)
  \/ \E w \in Workers : BlockStep(w)
  \/ \E s \in Sessions : Delete(s)
  \/ Restart

CarvesSpec == CarvesInit /\ [][CarvesNext]_carveVars
=============================================================================

----------------------------- MODULE CarvesProps -----------------------------
(***************************************************************************)
(* What the uploads of module Carves promise.                              *)
(***************************************************************************)
EXTENDS Carves

CountedFor(s) == {d \in counted : d.session = s}

StoredFor(s) == {d.block : d \in {e \in blocks : e.session = s}}

Whole(s) == StoredFor(s) = 0 .. Total[file[s].carve] - 1

(* Goroutines count blocks without a lock (CompleteBlock) and judge on the *)
(* counter alone (Completed).  Whatever fails, is lost, repeated or        *)
(* restarted, a carve is found and marked COMPLETED only after as many     *)
(* blocks were accounted for as the node announced.                        *)
FinishNeverEarly ==
  /\ \A s \in Sessions :
       file[s].status = "COMPLETED" =>
         Cardinality(CountedFor(s)) >= Total[file[s].carve]
  /\ \A w \in Workers :
       worker[w].pc \in {"finish", "stamp"} =>
         LET s == worker[w].session
         IN  Cardinality(CountedFor(s)) >= Total[file[s].carve]

(* While every block is sent once and every statement succeeds, a carve    *)
(* that is marked COMPLETED, ready to be downloaded, has all its blocks in *)
(* the table, even when the service restarted or the carve was deleted     *)
(* meanwhile: ProcessCarveBlock stores a block before it counts it.        *)
CompletedFilesWhole ==
  \A s \in Sessions : file[s].status = "COMPLETED" => Whole(s)

(* Module CarveTransfer, seen from here. *)
UploadStatus ==
  [s \in Sessions |-> IF Present(s) THEN file[s].status ELSE file[s].state]

UploadSize ==
  [s \in Sessions |-> IF file[s].state = "none" THEN 0 ELSE Total[file[s].carve]]

UploadBlocks == [s \in Sessions |-> StoredFor(s)]

Promise == INSTANCE CarveTransfer WITH
  Sizes <- {Total[c] : c \in Carvings},
  status <- UploadStatus, size <- UploadSize, stored <- UploadBlocks

(* The same as a property of steps: the status becomes COMPLETED in a      *)
(* state where all blocks are stored, and a deleted carve is not brought    *)
(* back by the goroutines that still update it.                            *)
ImplementsTransfer == Promise!Transfer

-----------------------------------------------------------------------------
(* No block is being processed. *)
Settled == Running = {}

(* "If it is completed, set status": once nothing is under way, a carve    *)
(* that Completed reports has the status COMPLETED.                        *)
StatusTellsCompletion ==
  Settled => \A s \in Sessions : Completed(s) => file[s].status = "COMPLETED"
=============================================================================

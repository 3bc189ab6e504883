---------------------------- MODULE CarveTransfer ----------------------------
(***************************************************************************)
(* What the upload of a carved file promises, without goroutines and        *)
(* counters: the file is announced with its number of blocks, blocks come   *)
(* in, and its status becomes COMPLETED only when all of them are stored.   *)
(* The status may be taken back to IN PROGRESS; a deleted file never        *)
(* returns, though blocks that were under way may still be stored.          *)
(***************************************************************************)
EXTENDS Naturals

CONSTANTS
  Sessions, \* uploads
  Sizes     \* how many blocks a file may have

VARIABLES
  status, \* of each upload
  size,   \* announced number of blocks
  stored  \* blocks stored

transferVars == <<status, size, stored>>

TransferInit ==
  /\ status = [s \in Sessions |-> "none"]
  /\ size = [s \in Sessions |-> 0]
  /\ stored = [s \in Sessions |-> {}]

Open(s) ==
  /\ status[s] = "none"
  /\ status' = [status EXCEPT ![s] = "INITIALIZED"]
  /\ \E n \in Sizes : size' = [size EXCEPT ![s] = n]
  /\ UNCHANGED stored

Receive(s) ==
  /\ status[s] # "none"
  /\ \E b \in 0 .. size[s] - 1 : stored' = [stored EXCEPT ![s] = @ \cup {b}]
  /\ UNCHANGED <<status, size>>

Set(s, new) ==
  /\ status[s] \notin {"none", "deleted"}
  /\ status' = [status EXCEPT ![s] = new]
  /\ UNCHANGED <<size, stored>>

Finish(s) == stored[s] = 0 .. size[s] - 1 /\ Set(s, "COMPLETED")

TransferNext ==
  \E s \in Sessions :
    \/ Open(s) \/ Receive(s) \/ Finish(s)
    \/ Set(s, "IN PROGRESS") \/ Set(s, "deleted")

Transfer == TransferInit /\ [][TransferNext]_transferVars
=============================================================================

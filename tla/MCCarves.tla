------------------------------ MODULE MCCarves ------------------------------
(***************************************************************************)
(* Small uploads for TLC: all files have the same number of blocks.        *)
(***************************************************************************)
EXTENDS CarvesProps, TLC

CONSTANTS Blocks \* how many blocks each file has

SameTotal == [c \in Carvings |-> Blocks]

CarveWorkerSymmetry == Permutations(Workers)
=============================================================================

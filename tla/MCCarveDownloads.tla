-------------------------- MODULE MCCarveDownloads --------------------------
(***************************************************************************)
(* Small uploads and their downloads for TLC.                              *)
(***************************************************************************)
EXTENDS CarveDownloads, TLC

CONSTANTS Blocks \* how many blocks each file has

SameTotal == [c \in Carvings |-> Blocks]

CarveSymmetry == Permutations(Workers) \cup Permutations(Downloads)
=============================================================================

----------------------------- MODULE MCNodeRecords ----------------------------
(***************************************************************************)
(* One host and two handlers, for TLC.                                     *)
(***************************************************************************)
EXTENDS NodeRecords, TLC

HandlerSymmetry == Permutations(Handlers)
=============================================================================

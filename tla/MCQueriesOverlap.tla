-------------------------- MODULE MCQueriesOverlap --------------------------
(***************************************************************************)
(* The fleet of MCQueries, with the history of its goroutines.             *)
(***************************************************************************)
EXTENDS MCQueries, QueriesOverlap
=============================================================================

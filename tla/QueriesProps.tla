---------------------------- MODULE QueriesProps ----------------------------
(***************************************************************************)
(* What the on-demand queries of module Queries promise.                   *)
(***************************************************************************)
EXTENDS Queries

(* The results for q with the given status whose increment was written. *)
CountedFor(q, r) == {a \in counted : a.name = q /\ a.result = r}

Answers(q) == Cardinality(CountedFor(q, "ok")) + Cardinality(CountedFor(q, "error"))

(* Goroutines read a counter, and write it back plus one, without a lock   *)
(* (IncExecution, IncError): an increment can be lost, but a counter never *)
(* shows more results than were accounted for.                             *)
CountersNeverOverstate ==
  \A q \in Names, r \in Results :
    tally[q][r] <= Cardinality(CountedFor(q, r))

(* VerifyComplete decides on the two counters alone.  Whatever the other   *)
(* goroutines do to them, it never decides that a query is complete before *)
(* as many results as it then read in the column "expected" came in.       *)
VerdictNeverEarly ==
  \A w \in Workers :
    worker[w].pc = "complete" => worker[w].quota <= Answers(worker[w].name)

(* The executions table, which keeps a node from getting a query again     *)
(* (NotYetExecuted), names only nodes whose own write was accounted for,   *)
(* under their UUID, or under no UUID when the key changed meanwhile.      *)
(* Without it a query would silently never reach a targeted node.          *)
OnlyTargetedNodesTracked ==
  \A e \in execs \cup logs :
    e.uuid \in Nodes =>
      \E t \in targets[e.name] : e.uuid \in Covers[t]

(* A result that was accepted is stored, even when its query was completed *)
(* or deleted since, and in the end the node is not given the query again, *)
(* in spite of reads that overtake the accounting and of other goroutines. *)
AcceptedResultsLast ==
  \A w \in Workers, n \in Nodes, q \in Names :
    (worker[w].uuid = n /\ q \in worker[w].todo)
      ~> /\ \E a \in logs : a.by = w /\ a.name = q
         /\ [](q \notin read[n].found)

(* An operator who completes or deletes a query withdraws it: unless it is  *)
(* activated again, no node is given it for ever.  Checked where the       *)
(* operator does not activate; reads that started earlier may still give   *)
(* it, and late results may still complete it.                             *)
WithdrawnNotServed ==
  \A q \in Names :
    (query[q].completed \/ query[q].deleted)
      ~> [](\A n \in Nodes : q \notin read[n].found)

(* Module QueryLifecycle, seen from here: an answer is a written increment, *)
(* a verdict a goroutine between the two statements of VerifyComplete.      *)
AnswersIn == [q \in Names |-> Answers(q)]

Verdicts == {worker[w].name : w \in {v \in Workers : worker[v].pc = "complete"}}

Contract == INSTANCE QueryLifecycle WITH
  Quotas <- 0 .. Cardinality(Nodes) + Cardinality(Targets),
  answers <- AnswersIn, verdicts <- Verdicts

(* The handlers, goroutines and counters of the code implement the         *)
(* lifecycle: they complete a query by themselves only when its answers     *)
(* had reached its quota, and never reopen or undelete one.                 *)
ImplementsLifecycle == Contract!Lifecycle

-----------------------------------------------------------------------------
(* Nothing is under way on the server. *)
Settled ==
  /\ Running = {} /\ dispatch = {}
  /\ \A q \in Names : run[q].pc \in {"none", "done"}

(* "IncExecution to increase the execution count for this query": once     *)
(* nothing is under way, the counters show every result.                   *)
EveryResultCounted ==
  Settled => \A q \in Names : tally[q]["ok"] + tally[q]["error"] = Answers(q)

(* "VerifyComplete to mark query as completed if the expected executions   *)
(* are done".                                                              *)
CompletedOnlyWhenDone ==
  \A q \in Names :
    run[q].pc = "done" /\ query[q].completed => Answers(q) >= query[q].expected
=============================================================================

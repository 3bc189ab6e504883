--------------------------- MODULE QueriesOverlap ---------------------------
(***************************************************************************)
(* Module Queries with three history variables, which record what can make *)
(* its counters and its verdicts wrong, and change nothing else: nothing   *)
(* that the code does is left out of the behaviours.                       *)
(***************************************************************************)
EXTENDS QueriesProps

VARIABLES
  raced,    \* queries of which two goroutines had read the same counter and not yet written it
  reopened, \* queries an operator made active again
  unjudged  \* queries of which a statement of VerifyComplete failed

overlapVars == <<vars, raced, reopened, unjudged>>

Counting(w, q, r) == worker[w].pc = "write" /\ worker[w].name = q /\ Current(w).result = r

Contested ==
  {q \in Names : \E v, w \in Workers, r \in Results :
                   v # w /\ Counting(v, q, r) /\ Counting(w, q, r)}

Reopens == {q \in Names : query[q].created /\ ~query[q].active /\ query'[q].active}

Closed(q) == query[q].completed /\ ~query[q].active

(* A goroutine goes on from VerifyComplete, which had no effect. *)
Unjudged(q) ==
  \E w \in Workers :
    /\ worker[w].name = q
    /\ \/ worker[w].pc = "verify" /\ Enough(q) /\ worker'[w].pc \notin {"verify", "complete"}
       \/ worker[w].pc = "complete" /\ worker'[w].pc # "complete" /\ ~Closed(q)'

OverlapInit == Init /\ raced = {} /\ reopened = {} /\ unjudged = {}

Record ==
  /\ raced' = raced \cup Contested'
  /\ reopened' = reopened \cup Reopens
  /\ unjudged' = unjudged \cup {q \in Names : Unjudged(q)}

OverlapNext == Next /\ Record

OverlapSpec == OverlapInit /\ [][OverlapNext]_overlapVars

FairOverlapSpec == OverlapSpec /\ Fairness

-----------------------------------------------------------------------------
(* "IncExecution to increase the execution count for this query": the two  *)
(* counters show every result whose increment was written, at any time and *)
(* however many goroutines run, unless two of them were between the read   *)
(* and the write of the same counter at once (IncExecution and IncError    *)
(* take no lock).  That is the only way to lose an increment.              *)
QueryCountersExact ==
  \A q \in Names \ raced, r \in Results : tally[q][r] = Cardinality(CountedFor(q, r))

(* What can keep the counters or the flags of a query from being right. *)
Spoiled == raced \cup reopened \cup unjudged

(* A query that has all the results it expects ends up completed           *)
(* (VerifyComplete after each result), even when they came in before       *)
(* SetExpected or through goroutines that overlap: the last of them to     *)
(* count sees them all.  Exempt are queries of which an increment can have *)
(* been lost or a verdict failed, and those an operator opened again.      *)
CompletedWhenAnswered ==
  \A q \in Names \ Spoiled :
    Settled /\ Answers(q) > 0 /\ Answers(q) >= query[q].expected => Closed(q)
=============================================================================

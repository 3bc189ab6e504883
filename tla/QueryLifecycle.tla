--------------------------- MODULE QueryLifecycle ---------------------------
(***************************************************************************)
(* What the on-demand queries promise the operator, without the requests,  *)
(* goroutines and counters that bring it about: a query is published, and  *)
(* its quota announced, at most once; answers only come in; the service    *)
(* itself completes a query only on a verdict that it took when the        *)
(* answers reached the quota; and whatever else happens to the flags is an *)
(* operation of the operator, who alone can make a query active again.     *)
(***************************************************************************)
EXTENDS Naturals

CONSTANTS
  Names,  \* names of distributed queries
  Quotas  \* how many answers a query may expect

VARIABLES
  query,   \* flags and quota of each query
  answers, \* how many answers were accounted for
  verdicts \* the queries that are about to be completed by the service

absVars == <<query, answers, verdicts>>

LifecycleInit ==
  /\ query = [q \in Names |-> [created |-> FALSE, active |-> FALSE,
                completed |-> FALSE, deleted |-> FALSE, expected |-> 0]]
  /\ answers = [q \in Names |-> 0]
  /\ verdicts = {}

Publish(q) ==
  /\ ~query[q].created
  /\ query' = [query EXCEPT ![q].created = TRUE, ![q].active = TRUE]
  /\ UNCHANGED <<answers, verdicts>>

Announce(q, quota) ==
  /\ query[q].created /\ query[q].expected = 0
  /\ query' = [query EXCEPT ![q].expected = quota]
  /\ UNCHANGED <<answers, verdicts>>

AnswerIn(q) ==
  /\ query[q].created
  /\ answers' = [answers EXCEPT ![q] = @ + 1]
  /\ UNCHANGED <<query, verdicts>>

Judge(q) ==
  /\ answers[q] >= query[q].expected
  /\ verdicts' = verdicts \cup {q}
  /\ UNCHANGED <<query, answers>>

(* Another verdict on the same query may be under way, and stay so. *)
Close(q) ==
  /\ q \in verdicts
  /\ query' = [query EXCEPT ![q].completed = TRUE, ![q].active = FALSE]
  /\ verdicts' \in {verdicts, verdicts \ {q}}
  /\ UNCHANGED answers

Overrule(q) ==
  /\ verdicts' = verdicts \ {q}
  /\ UNCHANGED <<query, answers>>

Operate(q) ==
  /\ query[q].created
  /\ \/ query' = [query EXCEPT ![q].completed = TRUE, ![q].active = FALSE]
     \/ query' = [query EXCEPT ![q].completed = FALSE, ![q].active = TRUE]
     \/ query' = [query EXCEPT ![q].deleted = TRUE, ![q].active = FALSE]
  /\ UNCHANGED <<answers, verdicts>>

LifecycleNext ==
  \E q \in Names :
    \/ Publish(q) \/ AnswerIn(q) \/ Judge(q) \/ Close(q) \/ Overrule(q)
    \/ Operate(q) \/ \E quota \in Quotas : Announce(q, quota)

Lifecycle == LifecycleInit /\ [][LifecycleNext]_absVars
=============================================================================

-------------------------- MODULE EnvironmentsProps --------------------------
(***************************************************************************)
(* What concurrent edits of an environment leave of its links and flags.   *)
(***************************************************************************)
EXTENDS Environments

(* However the edits of whole rows overlap with each other and with        *)
(* expiration (RotateEnrollPath, RotateRemove, ExpireEnroll, ExpireRemove, *)
(* UpdateIntervals), no link gets the deadline of another one: it lives    *)
(* for the twenty-four hours since it was made, or less.                   *)
LinkKeepsDeadline ==
  \A i \in present, l \in Links :
    table[i][l[2]] = table[i][l[1]] \/ table[i][l[2]] \in passed

(* A row of the environment holds the link with path e, and its deadline is *)
(* not over: what checkValidEnrollSecretPath and checkValidRemoveSecretPath *)
(* ask of the row they find.                                               *)
Standing(l, e) ==
  \E i \in present : table[i][l[1]] = e /\ table[i][l[2]] \notin passed

(* The request has written what it had to. *)
Issued(e) == e = First \/ request[e].pc \notin {"idle", "get", "write", "insert"}

(* Request r writes back a row that others have changed since it read it. *)
StaleWrite(r) ==
  /\ request[r].pc = "write" /\ request'[r].pc # "write"
  /\ table[request[r].id] # request[r].seen

(* A link that was replaced or has expired, or whose environment was       *)
(* deleted, is never accepted again, unless a request writes back a row    *)
(* that has changed since it read it.                                      *)
RevokedForGood ==
  [][\A l \in Links, e \in Edits :
       Issued(e) /\ ~Standing(l, e) /\ Standing(l, e)' => \E r \in Requests : StaleWrite(r)
    ]_environmentVars

(* The flags that are installed on the nodes follow the intervals and the  *)
(* host name (IntervalsPOSTHandler, updateEnvironment, Create), as long as *)
(* edits do not overlap; only an environment that the command created      *)
(* while its tag was still there has none.                                 *)
FlagsUpToDate ==
  Running = {} /\ ~overlapped =>
    \A i \in present : table[i]["flags"] \in {Blank, Generated(table[i])}
=============================================================================

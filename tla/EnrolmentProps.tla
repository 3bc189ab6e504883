--------------------------- MODULE EnrolmentProps ---------------------------
(***************************************************************************)
(* What the nodes table, its archive and the tags promise.                 *)
(***************************************************************************)
EXTENDS Enrolment

StoredKeys == {nodes[i].key : i \in DOMAIN nodes}

(* Requests find their node by its key, the first row of it (GetByKey):    *)
(* whatever overlaps or fails, no two rows ever have the same key.         *)
KeyNamesOneRow ==
  \A i, j \in DOMAIN nodes : nodes[i].key = nodes[j].key => i = j

(* "Check if UUID exists already, if so archive node and enroll new node"  *)
(* (EnrollHandler): a key that is overwritten or deleted is archived, as   *)
(* long as handlers do not overlap and nothing fails.                      *)
ReplacedKeysArchived ==
  [][\A k \in StoredKeys \ StoredKeys' :
       ~disturbed' => k \in {a.key : a \in archive'}]_enrolmentVars

(* The key that osqueryd was given last is the key of a row until an       *)
(* operator deletes the row, as long as handlers do not overlap and        *)
(* nothing fails: EnrollHandler answers no key that it did not store, and  *)
(* another enrolment of the UUID never takes the row away.                 *)
AnsweredKeyKnown ==
  ~disturbed =>
    \A n \in Nodes :
      \/ agent[n].key \in {0} \cup StoredKeys
      \/ [key |-> agent[n].key, trigger |-> "delete"] \in archive

(* EnrollHandler and TagNode check before they insert: a node that never   *)
(* enrolled in another environment has one row, and every node a tag once, *)
(* so that untagging it once is enough, as long as handlers do not overlap *)
(* and nothing fails.                                                      *)
NothingTwice ==
  ~disturbed =>
    /\ \A n \in Nodes : ~agent[n].moved =>
         Cardinality({i \in DOMAIN nodes : nodes[i].uuid = n}) <= 1
    /\ \A r, s \in tagged : r[1] = s[1] /\ r[2] = s[2] => r = s
=============================================================================

----------------------------- MODULE NodeRecords -----------------------------
(***************************************************************************)
(* The tables of a node: its rows and keys, which its enrolments write,    *)
(* and the names and addresses its requests bring.  Each module has its    *)
(* own view of an enrolment and of a deletion, so a behaviour is of one of *)
(* them, and the other one stays as it starts.                             *)
(***************************************************************************)
EXTENDS EnrolmentProps, NodeMetadata

VARIABLE part \* "enrolment" or "metadata"

recordsVars == <<part, enrolmentVars, metadataVars>>

RecordsInit ==
  /\ part \in {"enrolment", "metadata"}
  /\ EnrolmentInit /\ MetadataInit

RecordsNext ==
  /\ UNCHANGED part
  /\ \/ part = "enrolment" /\ EnrolmentNext /\ UNCHANGED metadataVars
     \/ part = "metadata" /\ MetadataNext /\ UNCHANGED enrolmentVars

(* Rows, handlers and histories keep their types, whatever overlaps. *)
RecordsTypeOK == EnrolmentTypeOK /\ MetadataTypeOK

RecordsSpec == RecordsInit /\ [][RecordsNext]_recordsVars
=============================================================================

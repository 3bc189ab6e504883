--------------------------- MODULE MCAdministration --------------------------
(***************************************************************************)
(* One environment, two users and a browser, for TLC; osctrl-tls checks a  *)
(* setting of each kind, and osctrl-admin the one that the logger of       *)
(* osctrl-tls checks too.                                                  *)
(***************************************************************************)
EXTENDS Administration, TLC

RequestSymmetry == Permutations(Requests) \cup Permutations(Pages)

MCProgram ==
  [s \in {"tls", "admin"} |->
     IF s = "tls" THEN <<"json", "metrics", "link">> ELSE <<"link">>]
=============================================================================

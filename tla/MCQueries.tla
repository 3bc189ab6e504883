------------------------------ MODULE MCQueries ------------------------------
(***************************************************************************)
(* A small fleet for TLC: environment "env" holds every node, "uuid1" and  *)
(* "host1" name node n1, "host2" is the host name of n2 but the localname  *)
(* of none.                                                                *)
(***************************************************************************)
EXTENDS QueriesProps, TLC

CONSTANTS n1, n2, q1, q2, env, uuid1, host1, host2

FleetTargets == {env, uuid1, host1, host2}

FleetKind == (env :> "environment") @@ (uuid1 :> "uuid")
             @@ (host1 :> "localname") @@ (host2 :> "localname")

FleetListed == (env :> Nodes) @@ (uuid1 :> {n1}) @@ (host1 :> {n1})
               @@ (host2 :> {n2} \cap Nodes)

FleetCovers == [FleetListed EXCEPT ![host2] = {}]

OneEnvironment == {{env}}

UuidAndHost == {{uuid1, host1}}

EitherHost == {{host1}, {host2}}

WorkerSymmetry == Permutations(Workers)
=============================================================================

------------------------------ MODULE MCServices ------------------------------
(***************************************************************************)
(* A few of everything, for TLC; osctrl-tls checks two settings.           *)
(***************************************************************************)
EXTENDS Services

TlsProgram == "tls" :> <<"accelerate", "metrics">>
=============================================================================

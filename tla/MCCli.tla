------------------------------- MODULE MCCli -------------------------------
(***************************************************************************)
(* An instance of PatCli for TLC.                                          *)
(***************************************************************************)
EXTENDS PatCli, TLC

CONSTANTS k1, k2

CreateAndOther == k1 :> {"create"} @@ k2 :> {"list", "revoke"}

\* Somebody's link, and a mix-up with another issuer.
LinkAndMixUp ==
  {[state |-> None, iss |-> "proxy", says |-> "code"],
   [state |-> k1, iss |-> "other", says |-> "code"]}
=============================================================================

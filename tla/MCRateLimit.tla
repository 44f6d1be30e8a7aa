---------------------------- MODULE MCRateLimit -----------------------------
(* A user of the execution limiter and an address of the other one, whose  *)
(* window spans several sweeps.                                            *)
EXTENDS RateLimit, TLC

CONSTANTS user, ip

MCKeys == {user, ip}
MCWindow == user :> 2 @@ ip :> 4
MCMax == user :> 2 @@ ip :> 1
=============================================================================

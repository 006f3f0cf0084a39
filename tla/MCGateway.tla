----------------------------- MODULE MCGateway ------------------------------
(***************************************************************************)
(* The instance TLC checks; gateway.cfg gives the constants their values.  *)
(***************************************************************************)
EXTENDS Gateway
=============================================================================

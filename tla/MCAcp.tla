------------------------------- MODULE MCAcp -------------------------------
(***************************************************************************)
(* The instances TLC checks; the cfg files give the constants values.      *)
(***************************************************************************)
EXTENDS Acp
=============================================================================

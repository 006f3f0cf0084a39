------------------------------- MODULE MCMcp -------------------------------
(***************************************************************************)
(* The instances TLC checks.  A probe shares nothing with the pool, so     *)
(* that it is enough to let either the probes run, or the pool's users.    *)
(***************************************************************************)
EXTENDS Mcp

MCSpec ==
    /\ InitWith(Probes) \/ InitWith(Tasks \ Probes)
    /\ [][Next]_vars
    /\ Fairness
=============================================================================

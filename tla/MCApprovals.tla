---------------------------- MODULE MCApprovals ----------------------------
(***************************************************************************)
(* Approvals for TLC: a call with a timeout, one without, and one that     *)
(* auto_approve lets through.                                              *)
(***************************************************************************)
EXTENDS Approvals

CONSTANTS timed, untimed, auto

MCRequest == { timed, untimed, auto }
MCTimed == { timed }
MCAutoApproved == { auto }
=============================================================================

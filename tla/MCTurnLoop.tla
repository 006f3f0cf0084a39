----------------------------- MODULE MCTurnLoop -----------------------------
(***************************************************************************)
(* TurnLoop for TLC, with a claim of the source that the turn does not     *)
(* keep.                                                                   *)
(***************************************************************************)
EXTENDS TurnLoop

\* An arg-loop abort names a call that was made ArgLoopThreshold times in a row
\* (arg_loop_detector.py: "A single different call in the window resets the
\* streak").
ArgLoopIsInARow ==
    appended # <<>> /\ appended[Len(appended)].stop = "arg_loop" =>
        MadeInARow(Committed, ArgLoopThreshold)
=============================================================================

----------------------------- MODULE MCDispatch -----------------------------
(***************************************************************************)
(* Dispatch for TLC: three turns, one session, two agents.                 *)
(***************************************************************************)
EXTENDS Dispatch, TLC

CONSTANTS t1, t2, t3, a1, a2, s1

MCTurn == {t1, t2, t3}
MCAgent == {a1, a2}
MCSession == {s1}
MCInitialAgents == {a1}
MCSessionOf == [t \in MCTurn |-> s1]

\* The conversation (a1, s1) is reached in three ways: by the single-agent
\* fallback, by a pin and by config.yaml.
MCPin == [t \in MCTurn |-> IF t = t2 THEN a1 ELSE NoAgent]
MCRouting == [t \in MCTurn |-> IF t = t3 THEN a1 ELSE NoAgent]

\* The fallback alone.
NoPin == [t \in MCTurn |-> NoAgent]
=============================================================================

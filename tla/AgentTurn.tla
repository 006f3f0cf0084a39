------------------------------ MODULE AgentTurn ------------------------------
(***************************************************************************)
(* What an agent turn promises its caller (oxenclaw/pi/run/run.py,         *)
(* TurnResult; agents/pi_agent.py extends the session with the result):    *)
(* while the turn runs the transcript grows by whole rounds, a tool round  *)
(* being the assistant's calls together with their results; the turn is    *)
(* closed once, with one outcome, and never touched again.                 *)
(***************************************************************************)
EXTENDS Integers, Sequences

VARIABLES log, outcome

avars == << log, outcome >>

IsAssistant(e) == e.kind = "assistant"
Answers(r, a) == r.kind = "results" /\ r.calls = a.calls /\ a.calls # <<>>

\* The entries a step adds to the transcript.
Added == SubSeq(log', Len(log) + 1, Len(log'))

Extends == Len(log') >= Len(log) /\ SubSeq(log', 1, Len(log)) = log

AInit == log = <<>> /\ outcome = "running"

\* An empty reply that is re-asked: the reply and the nudge.
ReAsk ==
    /\ outcome = "running" /\ UNCHANGED outcome
    /\ Extends /\ Len(Added) = 2
    /\ IsAssistant(Added[1]) /\ Added[1].calls = <<>>
    /\ Added[2].kind = "nudge"

\* Calls and their results, with the tool list re-sent after them or not.
ToolRound ==
    /\ outcome = "running" /\ UNCHANGED outcome
    /\ Extends /\ Len(Added) \in { 2, 3 }
    /\ IsAssistant(Added[1]) /\ Answers(Added[2], Added[1])
    /\ Len(Added) = 3 => Added[3].kind = "nudge"

\* The turn ends: nothing more, a final message, or an aborted tool round.
Close ==
    /\ outcome = "running" /\ outcome' # "running"
    /\ Extends /\ Len(Added) \in { 0, 1, 3 }
    /\ Len(Added) = 1 => Added[1].kind \in { "assistant", "notice" }
    /\ Len(Added) = 3 => /\ IsAssistant(Added[1])
                         /\ Answers(Added[2], Added[1])
                         /\ Added[3].kind = "notice"

ANext == ReAsk \/ ToolRound \/ Close

Spec == AInit /\ [][ANext]_avars
=============================================================================

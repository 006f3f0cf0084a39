------------------------------ MODULE Dispatch ------------------------------
(***************************************************************************)
(* Inbound dispatch: oxenclaw/agents/dispatch.py (Dispatcher) over         *)
(* agents/lanes.py (LaneRegistry) and agents/registry.py, with the         *)
(* agents.create / agents.delete RPCs of gateway/agents_methods.py.        *)
(*                                                                         *)
(* Each turn is one dispatch_with_outcome call.  It picks a lane (agent,   *)
(* session) from what the registry says on arrival, takes a permit of the  *)
(* global semaphore if there is one, then the lane's lock, and resolves    *)
(* the agent again inside.  asyncio.Lock and asyncio.Semaphore are FIFO    *)
(* and never let a newcomer pass a waiter; a released lock stays free      *)
(* until the first waiter resumes.                                         *)
(*                                                                         *)
(* LaneState.abort_event is assigned nowhere, so signal_abort (policy      *)
(* "interrupt") changes nothing and has no action.                         *)
(***************************************************************************)
EXTENDS Integers, Sequences, FiniteSets

CONSTANTS
    Turn,          \* inbound envelopes
    Agent, Session,
    InitialAgents, \* the agents built from config.yaml at startup
    Unrouted,      \* the lane name "_unrouted"
    NoAgent,       \* None
    SessionOf,     \* [Turn -> Session]: session_key_for_envelope
    Pin,           \* [Turn -> Agent \cup {NoAgent}]: envelope.agent_id
    Routing,       \* [Turn -> Agent \cup {NoAgent, Unrouted}]: config.yaml's
                   \* verdict; Unrouted when allow_from excludes the sender
    GlobalConcurrency, \* 0: no global lane
    BusyPolicy,
    MaxRegistryChanges, \* bound: agents.create / agents.delete calls
    MaxOutbound         \* bound: messages one turn emits

Lanes == (Agent \cup {Unrouted}) \X Session

ASSUME DispatchConstants ==
    /\ IsFiniteSet(Turn)
    /\ InitialAgents \subseteq Agent
    /\ Unrouted \notin Agent /\ NoAgent \notin Agent /\ Unrouted # NoAgent
    /\ SessionOf \in [Turn -> Session]
    /\ Pin \in [Turn -> Agent \cup {NoAgent}]
    /\ Routing \in [Turn -> Agent \cup {NoAgent, Unrouted}]
    /\ GlobalConcurrency \in Nat
    /\ BusyPolicy \in {"block", "queue", "interrupt", "steer"}
    /\ MaxRegistryChanges \in Nat
    /\ MaxOutbound \in Nat

VARIABLES
    agents,    \* AgentRegistry._agents
    changes,   \* how often it was changed since the gateway started
    phase,     \* where each dispatch call is
    lane,      \* the lane it queued on
    ran,       \* the agent that ran it
    arrived,   \* the calls in the order they were made
    semQ,      \* waiters of the global semaphore
    lockQ,     \* waiters of each lane's lock
    queuedAt,  \* LaneState.queued_at is not None
    pending,   \* len(LaneState.pending_messages)
    inFlight,  \* LaneRegistry._in_flight_count
    history    \* AgentContext.history per (agent, session)

vars == << agents, changes, phase, lane, ran, arrived, semQ, lockQ, queuedAt, pending,
           inFlight, history >>

NoLane == << Unrouted, Unrouted >>

In(t) == << t, "in" >>
Out(t) == << t, "out" >>

\* _resolve_agent_id under the current registry.
ResolveAgentId(t) ==
    IF Pin[t] # NoAgent THEN (IF Pin[t] \in agents THEN Pin[t] ELSE NoAgent)
    ELSE IF Routing[t] = Unrouted THEN NoAgent
    ELSE IF Routing[t] # NoAgent THEN Routing[t]
    ELSE IF \E a \in agents : agents = {a} THEN CHOOSE a \in agents : TRUE
    ELSE NoAgent

\* Mutant of LaneFor: the lane is named after the pin, not the resolved agent.
LaneOfPin(t) == << IF Pin[t] = NoAgent THEN Unrouted ELSE Pin[t], SessionOf[t] >>

LaneFor(t) ==
    << IF ResolveAgentId(t) = NoAgent THEN Unrouted ELSE ResolveAgentId(t),
       SessionOf[t] >>

Running == { t \in Turn : phase[t] = "running" }
Locked(l) == \E t \in Running : lane[t] = l
PermitHolders == { t \in Turn : phase[t] \in {"lock", "running"} }
PermitFree ==
    GlobalConcurrency = 0 \/ Cardinality(PermitHolders) < GlobalConcurrency

\* deque.remove: the queue without its first t.
Without(q, t) ==
    IF \E i \in 1 .. Len(q) : q[i] = t
    THEN LET p == CHOOSE i \in 1 .. Len(q) : q[i] = t /\ \A k \in 1 .. i - 1 : q[k] # t
         IN  [i \in 1 .. Len(q) - 1 |-> IF i < p THEN q[i] ELSE q[i + 1]]
    ELSE q

-----------------------------------------------------------------------------
Init ==
    /\ agents = InitialAgents /\ changes = 0
    /\ phase = [t \in Turn |-> "idle"]
    /\ lane = [t \in Turn |-> NoLane]
    /\ ran = [t \in Turn |-> NoAgent]
    /\ arrived = <<>> /\ semQ = <<>>
    /\ lockQ = [l \in Lanes |-> <<>>]
    /\ queuedAt = [l \in Lanes |-> FALSE]
    /\ pending = [l \in Lanes |-> 0]
    /\ inFlight = 0
    /\ history = [c \in Agent \X Session |-> <<>>]

(***************************************************************************)
(* The body run under the lock, up to agent.handle's first await: either   *)
(* the turn is dropped on the spot and both lanes are released, or the     *)
(* envelope enters the conversation history.                               *)
(***************************************************************************)
DispatchLocked(t) ==
    LET a == ResolveAgentId(t)
    IN  \/ /\ a = NoAgent \/ a \notin agents
           /\ phase' = [phase EXCEPT ![t] = "dropped"]
           /\ UNCHANGED << ran, inFlight, history >>
        \/ /\ a # NoAgent /\ a \in agents
           /\ phase' = [phase EXCEPT ![t] = "running"]
           /\ ran' = [ran EXCEPT ![t] = a]
           /\ inFlight' = inFlight + 1
           /\ history' = [history EXCEPT ![<< a, SessionOf[t] >>] = Append(@, In(t))]

\* Mutants of AcquireLock: no lock at all; a newcomer passes the waiters.
AcquireNothing(t, l, q) ==
    /\ DispatchLocked(t)
    /\ queuedAt' = [queuedAt EXCEPT ![l] = FALSE]
    /\ UNCHANGED lockQ

AcquireBarging(t, l, q) ==
    \/ /\ ~Locked(l)
       /\ DispatchLocked(t)
       /\ queuedAt' = [queuedAt EXCEPT ![l] = FALSE]
       /\ UNCHANGED lockQ
    \/ /\ Locked(l)
       /\ phase' = [phase EXCEPT ![t] = "lock"]
       /\ lockQ' = [lockQ EXCEPT ![l] = Append(@, t)]
       /\ queuedAt' = [queuedAt EXCEPT ![l] = q]
       /\ UNCHANGED << ran, inFlight, history >>

\* async with state.lock, entered or joined; q is queued_at on the way in.
AcquireLock(t, l, q) ==
    \/ /\ ~Locked(l) /\ lockQ[l] = <<>>
       /\ DispatchLocked(t)
       /\ queuedAt' = [queuedAt EXCEPT ![l] = FALSE]
       /\ UNCHANGED lockQ
    \/ /\ Locked(l) \/ lockQ[l] # <<>>
       /\ phase' = [phase EXCEPT ![t] = "lock"]
       /\ lockQ' = [lockQ EXCEPT ![l] = Append(@, t)]
       /\ queuedAt' = [queuedAt EXCEPT ![l] = q]
       /\ UNCHANGED << ran, inFlight, history >>

StageMessage(l) ==
    pending' = IF Locked(l) /\ BusyPolicy \in {"queue", "steer"}
               THEN [pending EXCEPT ![l] = @ + 1] ELSE pending

\* dispatch_with_outcome, up to its first wait.
Arrive(t) ==
    /\ phase[t] = "idle"
    /\ LET l == LaneFor(t)
           q == queuedAt[l] \/ Locked(l)
       IN  /\ lane' = [lane EXCEPT ![t] = l]
           /\ StageMessage(l)
           /\ \/ /\ PermitFree /\ semQ = <<>>
                 /\ AcquireLock(t, l, q)
                 /\ UNCHANGED semQ
              \/ /\ ~(PermitFree /\ semQ = <<>>)
                 /\ phase' = [phase EXCEPT ![t] = "sem"]
                 /\ semQ' = Append(semQ, t)
                 /\ queuedAt' = [queuedAt EXCEPT ![l] = q]
                 /\ UNCHANGED << ran, inFlight, history, lockQ >>
    /\ arrived' = Append(arrived, t)
    /\ UNCHANGED << agents, changes >>

\* The first waiter of the semaphore resumes and goes on to the lane's lock.
GrantSem(t) ==
    /\ semQ # <<>> /\ t = Head(semQ) /\ PermitFree
    /\ semQ' = Tail(semQ)
    /\ AcquireLock(t, lane[t], queuedAt[lane[t]])
    /\ UNCHANGED << agents, changes, lane, arrived, pending >>

\* The first waiter of the lane's lock resumes.
GrantLock(t) ==
    /\ phase[t] = "lock" /\ lockQ[lane[t]] # <<>> /\ t = Head(lockQ[lane[t]])
    /\ ~Locked(lane[t])
    /\ lockQ' = [lockQ EXCEPT ![lane[t]] = Tail(@)]
    /\ queuedAt' = [queuedAt EXCEPT ![lane[t]] = FALSE]
    /\ DispatchLocked(t)
    /\ UNCHANGED << agents, changes, lane, arrived, semQ, pending >>

\* agent.handle yields an outbound message; _send delivers it or warns.
Emit(t) ==
    LET c == << ran[t], SessionOf[t] >>
        sent == Cardinality({ i \in DOMAIN history[c] : history[c][i] = Out(t) })
    IN  /\ t \in Running /\ sent < MaxOutbound
        /\ history' = [history EXCEPT ![c] = Append(@, Out(t))]
        /\ UNCHANGED << agents, changes, phase, lane, ran, arrived, semQ, lockQ,
                        queuedAt, pending, inFlight >>

\* The turn returns or raises; the locks are released either way.
Finish(t) ==
    /\ t \in Running
    /\ phase' = [phase EXCEPT ![t] = "done"]
    /\ inFlight' = inFlight - 1
    /\ UNCHANGED << agents, changes, lane, ran, arrived, semQ, lockQ, queuedAt,
                    pending, history >>

\* Mutants of Cancel: a waiter decrements the counter too; the counter is not
\* restored; the waiter keeps its place in the queues.
CancelCountsWaiters(t) ==
    /\ phase[t] \in {"sem", "lock", "running"}
    /\ phase' = [phase EXCEPT ![t] = "cancelled"]
    /\ semQ' = Without(semQ, t)
    /\ lockQ' = [lockQ EXCEPT ![lane[t]] = Without(@, t)]
    /\ inFlight' = inFlight - 1
    /\ UNCHANGED << agents, changes, lane, ran, arrived, queuedAt, pending,
                    history >>

CancelLeaksCount(t) ==
    /\ phase[t] \in {"sem", "lock", "running"}
    /\ phase' = [phase EXCEPT ![t] = "cancelled"]
    /\ semQ' = Without(semQ, t)
    /\ lockQ' = [lockQ EXCEPT ![lane[t]] = Without(@, t)]
    /\ UNCHANGED << agents, changes, lane, ran, arrived, queuedAt, pending,
                    inFlight, history >>

CancelKeepsPlace(t) ==
    /\ phase[t] \in {"sem", "lock", "running"}
    /\ phase' = [phase EXCEPT ![t] = "cancelled"]
    /\ inFlight' = IF t \in Running THEN inFlight - 1 ELSE inFlight
    /\ UNCHANGED << agents, changes, lane, ran, arrived, semQ, lockQ, queuedAt,
                    pending, history >>

\* The caller's task is cancelled while it waits or runs.
Cancel(t) ==
    /\ phase[t] \in {"sem", "lock", "running"}
    /\ phase' = [phase EXCEPT ![t] = "cancelled"]
    /\ semQ' = Without(semQ, t)
    /\ lockQ' = [lockQ EXCEPT ![lane[t]] = Without(@, t)]
    /\ inFlight' = IF t \in Running THEN inFlight - 1 ELSE inFlight
    /\ UNCHANGED << agents, changes, lane, ran, arrived, queuedAt, pending,
                    history >>

\* agents.create and agents.delete.
CreateAgent(a) ==
    /\ changes < MaxRegistryChanges /\ changes' = changes + 1
    /\ a \notin agents
    /\ agents' = agents \cup {a}
    /\ UNCHANGED << phase, lane, ran, arrived, semQ, lockQ, queuedAt, pending,
                    inFlight, history >>

DeleteAgent(a) ==
    /\ changes < MaxRegistryChanges /\ changes' = changes + 1
    /\ a \in agents
    /\ agents' = agents \ {a}
    /\ UNCHANGED << phase, lane, ran, arrived, semQ, lockQ, queuedAt, pending,
                    inFlight, history >>

Next ==
    \/ \E t \in Turn : \/ Arrive(t) \/ GrantSem(t) \/ GrantLock(t)
                       \/ Emit(t) \/ Finish(t) \/ Cancel(t)
    \/ \E a \in Agent : CreateAgent(a) \/ DeleteAgent(a)

Spec == Init /\ [][Next]_vars

\* The event loop resumes a woken waiter, and agent.handle ends.
Fairness ==
    \A t \in Turn : WF_vars(GrantSem(t)) /\ WF_vars(GrantLock(t))
                      /\ WF_vars(Finish(t))

FairSpec == Spec /\ Fairness

-----------------------------------------------------------------------------
(***************************************************************************)
(* Properties.                                                             *)
(***************************************************************************)
Ended == {"done", "dropped", "cancelled"}

\* The dispatcher's and the lane registry's fields hold their declared types.
TypeOK ==
    /\ agents \in SUBSET Agent /\ changes \in 0 .. MaxRegistryChanges
    /\ phase \in [Turn -> {"idle", "sem", "lock", "running"} \cup Ended]
    /\ lane \in [Turn -> Lanes \cup {NoLane}]
    /\ ran \in [Turn -> Agent \cup {NoAgent}]
    /\ arrived \in Seq(Turn) /\ semQ \in Seq(Turn)
    /\ lockQ \in [Lanes -> Seq(Turn)]
    /\ queuedAt \in [Lanes -> BOOLEAN]
    /\ pending \in [Lanes -> Nat]
    /\ inFlight \in Nat
    /\ history \in [Agent \X Session -> Seq(Turn \X {"in", "out"})]

\* A lane's lock admits one turn at a time.
LaneExclusion ==
    \A t, u \in Running : lane[t] = lane[u] => t = u

\* lanes.py: "at most one in-flight turn per (agent_id, session_key)", for the
\* agent that really runs the turn.
OneTurnPerSession ==
    \A t, u \in Running :
        ran[t] = ran[u] /\ SessionOf[t] = SessionOf[u] => t = u

\* The same while no agent was created or deleted: the lane chosen on arrival
\* is then the lane of the agent that runs the turn.
OneTurnPerStableSession == changes = 0 => OneTurnPerSession

\* A waiting call is in exactly the queue that will wake it, so no release and
\* no cancellation of another waiter can strand it.
NoLostWaiter ==
    \A t \in Turn :
        /\ phase[t] = "sem" <=> \E i \in DOMAIN semQ : semQ[i] = t
        /\ \A l \in Lanes :
              (phase[t] = "lock" /\ lane[t] = l)
                 <=> \E i \in DOMAIN lockQ[l] : lockQ[l][i] = t

\* _in_flight_count, read by stats(), is the number of running turns: no
\* cancellation, drop or exception leaks it.
CounterExact == inFlight = Cardinality(Running)

\* lanes.py: calls on one lane "run in arrival order", through both queues and
\* whichever waiters are cancelled.
ArrivalOrder ==
    \A i, j \in DOMAIN arrived :
        /\ i < j /\ lane[arrived[i]] = lane[arrived[j]]
        /\ phase[arrived[j]] \in {"running", "done", "dropped"}
        => phase[arrived[i]] \notin {"sem", "lock"}

\* While the registry is unchanged the entries of one turn are contiguous in its
\* conversation's history (dispatch.py: envelopes "don't interleave history
\* writes").
HistoryContiguous ==
    changes = 0 =>
    \A c \in Agent \X Session :
        \A i, j \in DOMAIN history[c] :
            i < j /\ history[c][i][1] = history[c][j][1] =>
                \A k \in i .. j : history[c][k][1] = history[c][i][1]

\* Every queued call is eventually run, dropped or cancelled.
EveryTurnEnds ==
    \A t \in Turn : phase[t] \in {"sem", "lock"} ~> phase[t] \in Ended
=============================================================================

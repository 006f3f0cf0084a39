------------------------------ MODULE Gateway -------------------------------
(***************************************************************************)
(* The gateway process around the scheduler: the RPC server of             *)
(* oxenclaw/gateway/server.py (GatewayServer) and router.py, the start and *)
(* the clean-up of cli/gateway_cmd.py (_run_gateway), signals, crashes and *)
(* restarts.                                                               *)
(*                                                                         *)
(* Each frame of a connection becomes a task; a task's RPC either edits    *)
(* the cron jobs, in one step, or is cron.fire, which awaits a dispatch.   *)
(* The other RPCs that await something behave as the second, those that    *)
(* do not as an edit without effect.  Events pushed to clients, HTTP       *)
(* routes and authentication are left out.                                 *)
(***************************************************************************)
EXTENDS Cron

CONSTANTS
    Clients,         \* connections; one that its client left is not opened again
    PerConnection,   \* DEFAULT_PER_CONN_CONCURRENCY
    MaxBoots         \* bound: starts of the process

ASSUME GatewayConstants ==
    /\ PerConnection \in Nat \ {0}
    /\ MaxBoots \in Nat

Tasks == Callers

VARIABLES
    phase,           \* where _run_gateway is
    shutting,        \* GatewayServer._shutting_down
    conns,           \* the open connections
    task,            \* the RPC tasks
    left,            \* connections that their client closed, or whose client
                     \* sent a frame after the shutdown was requested
    boots

serverVars == << phase, shutting, conns, task, left, boots >>
vars == << cronVars, serverVars >>

Phase == {"off", "serving", "draining", "closed", "stopping"}
Op == {"edit", "fire"}
Place == {"idle", "queued", "handling", "replying", "over", "unanswered"}

\* A task that does not exist yet, or no more.
Slot(place) == [client |-> None, op |-> "edit", at |-> place]

TypeOK ==
    /\ CronTypeOK
    /\ phase \in Phase /\ shutting \in BOOLEAN
    /\ conns \subseteq Clients /\ left \subseteq Clients
    /\ task \in [Tasks -> [client : Clients \cup {None}, op : Op, at : Place]]
    /\ boots \in 0 .. MaxBoots

Init ==
    /\ CronInit
    /\ phase = "off" /\ shutting = FALSE
    /\ conns = {} /\ left = {}
    /\ task = [t \in Tasks |-> Slot("idle")]
    /\ boots = 0

Up == phase # "off"

\* The listener and the connection handlers run until the server is closed.
Listening == phase \in {"serving", "draining"}

InFlight == {t \in Tasks : task[t].at \in {"queued", "handling", "replying"}}

Move(t, place) == task' = [task EXCEPT ![t].at = place]

\* The tasks are cancelled, and with them the runs they await.
Cancelled(ts) == [t \in Tasks |-> IF t \in ts THEN Slot("over") ELSE task[t]]

CutTasks(ts) ==
    /\ task' = Cancelled(ts)
    /\ Cut({x \in running : x.by \in ts})
    /\ UNCHANGED << jobStore, started, scheduled, submitted, log, savedLog, faults >>

-----------------------------------------------------------------------------
(* Connections and their frames.                                           *)

Connect(c) ==
    /\ Listening /\ c \notin conns \cup left
    /\ conns' = conns \cup {c}
    /\ UNCHANGED << cronVars, phase, shutting, task, left, boots >>

\* The tasks are all alike, so that any unused one will do.
Receive(c) ==
    LET fresh == {t \in Tasks : task[t].at = "idle"} IN
    /\ Listening /\ ~ shutting
    /\ c \in conns /\ fresh # {}
    /\ \E op \in Op :
         task' = [task EXCEPT ![CHOOSE t \in fresh : TRUE] =
                     [client |-> c, op |-> op, at |-> "queued"]]
    /\ UNCHANGED << cronVars, phase, shutting, conns, left, boots >>

\* A frame after the shutdown was requested ends the connection's handler.
ReceiveLate(c) ==
    /\ Listening /\ shutting
    /\ c \in conns
    /\ conns' = conns \ {c} /\ left' = left \cup {c}
    /\ UNCHANGED << cronVars, phase, shutting, task, boots >>

\* The client goes away.  Its tasks are cancelled, but not during a shutdown.
Disconnect(c) ==
    /\ Listening
    /\ c \in conns
    /\ conns' = conns \ {c} /\ left' = left \cup {c}
    /\ CutTasks(IF shutting THEN {} ELSE {t \in InFlight : task[t].client = c})
    /\ UNCHANGED << phase, shutting, boots >>

\* The semaphore of the connection lets the task in.
Admitted(t) ==
    /\ task[t].at = "queued"
    /\ Cardinality({u \in InFlight : task[u].client = task[t].client
                                     /\ task[u].at # "queued"}) < PerConnection

\* A handler that does not await runs to its answer in one step; one that
\* refuses its parameters, or raises, is answered too.
HandleEdit(t) ==
    /\ Listening /\ Admitted(t) /\ task[t].op = "edit"
    /\ \/ \E j \in Jobs : Add(j) \/ Remove(j) \/ Toggle(j) \/ Update(j)
       \/ UNCHANGED cronVars
    /\ Move(t, "replying")
    /\ UNCHANGED << phase, shutting, conns, left, boots >>

HandleFire(t) ==
    /\ Listening /\ Admitted(t) /\ task[t].op = "fire"
    /\ \E j \in Jobs :
         \/ /\ FireNow(j, t)
            /\ Move(t, IF running' # running THEN "handling" ELSE "replying")
         \/ /\ ~ Fireable(j)
            /\ Move(t, "replying")
            /\ UNCHANGED cronVars
    /\ UNCHANGED << phase, shutting, conns, left, boots >>

\* ConnectionClosed is suppressed.
Reply(t) ==
    /\ task[t].at = "replying"
    /\ \/ /\ task[t].client \in conns
          /\ task' = [task EXCEPT ![t] = Slot("over")]
       \/ /\ task[t].client \notin conns
          /\ Move(t, "unanswered")
    /\ UNCHANGED << cronVars, phase, shutting, conns, left, boots >>

-----------------------------------------------------------------------------
(* Turns.                                                                  *)

\* A dispatch that a fire awaits ends, by itself.
TurnEnds(x) ==
    /\ Up /\ x \in running
    /\ DispatchEnds(x)
    /\ IF x.by = Timer THEN UNCHANGED task ELSE Move(x.by, "replying")
    /\ UNCHANGED << phase, shutting, conns, left, boots >>

\* A turn of some agent, a channel's included, calls the cron tool.
CronTool(j) ==
    /\ Up
    /\ Add(j) \/ Remove(j) \/ Toggle(j)
    /\ UNCHANGED serverVars

Clock(j) ==
    /\ Up
    /\ Due(j) \/ TimerFires(j)
    /\ UNCHANGED serverVars

-----------------------------------------------------------------------------
(* The life of the process.                                                *)

Boot ==
    /\ phase = "off" /\ boots < MaxBoots
    /\ phase' = "serving" /\ boots' = boots + 1
    /\ Start
    /\ UNCHANGED << shutting, conns, task, left >>

\* SIGTERM or SIGINT: request_shutdown.
Signal ==
    /\ phase = "serving" /\ ~ shutting
    /\ shutting' = TRUE
    /\ UNCHANGED << cronVars, phase, conns, task, left, boots >>

\* Mutant of Drain: the connections are closed first.
DrainClosing ==
    /\ phase = "serving" /\ shutting
    /\ phase' = "draining"
    /\ conns' = {}
    /\ UNCHANGED << cronVars, shutting, task, left, boots >>

\* serve() wakes up.
Drain ==
    /\ phase = "serving" /\ shutting
    /\ phase' = "draining"
    /\ UNCHANGED << cronVars, shutting, conns, task, left, boots >>

\* Every task in flight is over: the server is closed.
Drained ==
    /\ phase = "draining" /\ InFlight = {}
    /\ phase' = "closed" /\ conns' = {}
    /\ UNCHANGED << cronVars, shutting, task, left, boots >>

\* Mutant of DrainTimeout: gather() is awaited without wait_for.
DrainUnbounded == FALSE /\ UNCHANGED vars

\* shutdown_drain_seconds have passed.
DrainTimeout ==
    /\ phase = "draining" /\ InFlight # {}
    /\ phase' = "closed" /\ conns' = {}
    /\ CutTasks(InFlight)
    /\ UNCHANGED << shutting, left, boots >>

\* serve() has returned; the other subsystems are closed after the scheduler.
StopCron ==
    /\ phase = "closed"
    /\ phase' = "stopping"
    /\ Stop
    /\ UNCHANGED << shutting, conns, task, left, boots >>

\* Nothing in memory is left.
ProcessEnds ==
    /\ phase' = "off" /\ shutting' = FALSE /\ conns' = {}
    /\ task' = Cancelled(InFlight)
    /\ Gone
    /\ UNCHANGED << left, boots >>

Exit == phase = "stopping" /\ ProcessEnds

\* The process dies, or a second signal stops the loop.
Crash == Up /\ ProcessEnds

Next ==
    \/ \E c \in Clients : Connect(c) \/ Receive(c) \/ ReceiveLate(c) \/ Disconnect(c)
    \/ \E t \in Tasks : HandleEdit(t) \/ HandleFire(t) \/ Reply(t)
    \/ \E x \in running : TurnEnds(x)
    \/ \E j \in Jobs : CronTool(j) \/ Clock(j)
    \/ Boot \/ Signal \/ Drain \/ Drained \/ DrainTimeout \/ StopCron \/ Exit \/ Crash

\* The loop runs, the drain's timer fires and the close of every subsystem
\* returns.  A turn need never end, nor a client take its answer.
Fairness ==
    WF_vars(Drain) /\ WF_vars(Drained) /\ WF_vars(DrainTimeout)
    /\ WF_vars(StopCron) /\ WF_vars(Exit)

Spec == Init /\ [][Next]_vars /\ Fairness

-----------------------------------------------------------------------------
(* Properties; the scheduler's own are in Cron.                            *)

\* The answer of a handler that ran to its end reaches its client, the shutdown
\* included, unless the client closed the connection or went on sending after
\* the shutdown was requested (GatewayServer.serve drains before it closes).
AnswersArrive ==
    \A t \in Tasks : task[t].at = "unanswered" => task[t].client \in left

\* A shutdown that was asked for comes to its end, whatever the turns and the
\* clients do (serve, _drain_in_flight, the finally of _run_gateway).
ShutdownEnds == shutting ~> phase = "off"
=============================================================================

-------------------------------- MODULE Acp --------------------------------
(***************************************************************************)
(* One ACP session from end to end.  The client is a SubprocessAcpRuntime  *)
(* (oxenclaw/acp/subprocess_runtime.py) behind an AcpSessionManager        *)
(* (manager.py); the child it spawns is an AcpServer (server.py) over a    *)
(* PiAgentAcpRuntime (pi_agent_runtime.py).  They exchange lines over two  *)
(* pipes: requests, answers and session/update notifications.              *)
(*                                                                         *)
(* The server runs every request as a task of its own, so that a cancel    *)
(* overtakes a running prompt.  The child may die and the client may meet  *)
(* a line that is not JSON, at any time.                                   *)
(***************************************************************************)
EXTENDS Integers, Sequences

CONSTANTS
    MaxTurns, MaxCancels, MaxSpawns, \* bounds: calls of the client's user
    MaxTools, MaxReplies,            \* bounds: tool events, replies of a turn
    MaxFaults                        \* bound: deaths and broken lines

ASSUME AcpConstants ==
    { MaxTurns, MaxCancels, MaxSpawns, MaxTools, MaxReplies, MaxFaults }
        \subseteq Nat

VARIABLES
    \* the client
    child,      \* the process: "none", "alive" or "dead"
    reader,     \* _reader_loop runs
    closed,     \* _closed: aclose() was called
    pc,         \* where the user's call of the runtime is suspended
    open,       \* the session is in the manager's and the runtime's tables
    fut,        \* the future of the request that is awaited
    queue,      \* the session's event queue; Sentinel is None
    turn,       \* turns started, the number of the current one
    yielded,    \* events this turn has yielded to the user
    outcome,    \* how the last turn ended
    spawns, cancels,
    \* the pipes
    up, down,
    faults,     \* deaths and broken lines so far
    \* the server
    srv,        \* what the prompt task is doing
    srvTurn,    \* the turn it runs
    tele,       \* tool events in the turn's telemetry queue
    tools, replies, \* tool events and replies of the turn so far
    sent,       \* updates sent for the turn
    cancelEvent, cancelled, \* _ServerSession.cancel_event, _PiSession.cancelled
    asked,      \* a cancel came since the last answer to a prompt
    ended       \* turns answered with "cancel"

client == << child, reader, closed, pc, open, fut, queue, turn, yielded, outcome,
             spawns, cancels >>
flags == << cancelEvent, cancelled, asked, ended >>
server == << srv, srvTurn, tele, tools, replies, sent, flags >>
vars == << client, up, down, faults, server >>

Sentinel == << 0, 0 >>
Message(kind, n, x) == [kind |-> kind, n |-> n, x |-> x]

Init ==
    /\ child = "none" /\ reader = FALSE /\ closed = FALSE /\ pc = "off" /\ open = FALSE
    /\ fut = "none" /\ queue = << >> /\ turn = 0 /\ yielded = << >> /\ outcome = "none"
    /\ spawns = 0 /\ cancels = 0
    /\ up = << >> /\ down = << >> /\ faults = 0
    /\ srv = "idle" /\ srvTurn = 0 /\ tele = 0 /\ tools = 0 /\ replies = 0 /\ sent = 0
    /\ cancelEvent = FALSE /\ cancelled = FALSE /\ asked = FALSE /\ ended = 0

(***************************************************************************)
(* The client: initialize_session, run_turn, cancel_session, close_session *)
(* and aclose.                                                             *)
(***************************************************************************)
\* The request goes out: its future is entered, then the line is written.  What is
\* written to a dead child is lost.
Ask(m, next) ==
    /\ up' = IF child = "alive" THEN Append(up, m) ELSE << >>
    /\ fut' = "waiting"
    /\ pc' = next

\* _ensure_spawned: a child that is not running is started; aclose() may come while
\* the process is being created.
Spawn ==
    /\ pc = "off" /\ ~ closed /\ child # "alive" /\ spawns < MaxSpawns
    /\ spawns' = spawns + 1
    /\ pc' = "spawning"
    /\ UNCHANGED << child, reader, closed, open, fut, queue, turn, yielded, outcome,
                    cancels, up, down, server >>

Spawned ==
    /\ pc = "spawning"
    /\ child' = "alive" /\ reader' = TRUE
    /\ up' = << Message("initialize", 0, "none") >> /\ down' = << >>
    /\ fut' = "waiting" /\ pc' = "handshake"
    /\ UNCHANGED << closed, open, queue, turn, yielded, outcome, spawns, cancels, server >>

\* The line may be written to a child whose end has not been noticed yet.
Writable == child = "alive" \/ (child = "dead" /\ reader)

\* A child that already runs is asked for a session at once.
NewSession ==
    /\ \/ pc = "off" /\ ~ closed /\ child = "alive"
       \/ pc = "handshake" /\ fut = "answered" /\ Writable
    /\ Ask(Message("new", 0, "none"), "opening")
    /\ UNCHANGED << child, reader, closed, open, queue, turn, yielded, outcome, spawns,
                    cancels, down, server >>

Opened ==
    /\ pc = "opening" /\ fut = "answered"
    /\ open' = TRUE /\ queue' = << >>
    /\ fut' = "none" /\ pc' = "ready"
    /\ UNCHANGED << child, reader, closed, turn, yielded, outcome, spawns, cancels, up,
                    down, server >>

OpenFails ==
    /\ \/ pc \in { "handshake", "opening" } /\ fut = "failed"
       \/ pc = "handshake" /\ fut = "answered" /\ ~ Writable
    /\ fut' = "none" /\ pc' = "off"
    /\ UNCHANGED << child, reader, closed, open, queue, turn, yielded, outcome, spawns,
                    cancels, up, down, server >>

\* _run_turn: what an earlier turn left in the queue is dropped, the prompt goes out.
Prompt ==
    /\ pc = "ready" /\ Writable /\ turn < MaxTurns
    /\ turn' = turn + 1
    /\ queue' = << >> /\ yielded' = << >> /\ outcome' = "none"
    /\ Ask(Message("prompt", turn + 1, "none"), "streaming")
    /\ UNCHANGED << child, reader, closed, open, spawns, cancels, down, server >>

EndTurn(how) ==
    /\ outcome' = how
    /\ pc' = IF open THEN "ready" ELSE "over"
    /\ fut' = "none"

\* The pipe is broken or gone: wire_send_failed.
PromptFails ==
    /\ pc = "ready" /\ child = "dead" /\ turn < MaxTurns
    /\ turn' = turn + 1
    /\ queue' = << >> /\ yielded' = << >>
    /\ EndTurn("error")
    /\ UNCHANGED << child, reader, closed, open, spawns, cancels, up, down, server >>

Answered == fut \notin { "none", "waiting" }

\* An event is taken from the queue and yielded.
YieldEvent ==
    /\ pc = "streaming" /\ queue # << >> /\ Head(queue) # Sentinel
    /\ yielded' = Append(yielded, Head(queue))
    /\ queue' = Tail(queue)
    /\ UNCHANGED << child, reader, closed, pc, open, fut, turn, outcome, spawns, cancels,
                    up, down, server >>

\* None: the child or the session was closed.  It ends the turn with child_closed,
\* unless the answer is in and the queue is being drained.
TakeSentinel ==
    /\ pc = "streaming" /\ queue # << >> /\ Head(queue) = Sentinel
    /\ queue' = Tail(queue)
    /\ \/ EndTurn("error")
       \/ Answered /\ UNCHANGED << pc, fut, outcome >>
    /\ UNCHANGED << child, reader, closed, open, turn, yielded, spawns, cancels, up, down,
                    server >>

\* A mutant: the answer ends the turn, whatever the queue still holds.
ReadyToFinishEarly == Answered

ReadyToFinish == Answered /\ queue = << >>

Finish ==
    /\ pc = "streaming" /\ ReadyToFinish
    /\ EndTurn(IF fut \in { "stop", "cancel" } THEN fut ELSE "error")
    /\ UNCHANGED << child, reader, closed, open, queue, turn, yielded, spawns, cancels, up,
                    down, server >>

\* cancel_session: a notification, during a turn or between two.
Cancel ==
    /\ open /\ child = "alive" /\ cancels < MaxCancels
    /\ cancels' = cancels + 1
    /\ up' = Append(up, Message("cancel", 0, "none"))
    /\ UNCHANGED << child, reader, closed, pc, open, fut, queue, turn, yielded, outcome,
                    spawns, down, server >>

\* close_session: both tables forget the session; a running turn is told.  The
\* server is not.
CloseSession ==
    /\ open
    /\ open' = FALSE
    /\ queue' = IF pc = "streaming" THEN Append(queue, Sentinel) ELSE << >>
    /\ pc' = IF pc = "ready" THEN "over" ELSE pc
    /\ UNCHANGED << child, reader, closed, fut, turn, yielded, outcome, spawns, cancels, up,
                    down, server >>

(***************************************************************************)
(* The reader task.                                                        *)
(***************************************************************************)
Resolve(st) == IF fut = "waiting" THEN st ELSE fut
Tell(q) == IF open THEN Append(q, Sentinel) ELSE q

\* _dispatch: an update goes to the queue of its session, an answer to the future of
\* its request.
ReadLine ==
    /\ reader /\ down # << >>
    /\ down' = Tail(down)
    /\ LET m == Head(down)
       IN  \/ /\ m.kind = "update"
              /\ queue' = IF open THEN Append(queue, m.x) ELSE queue
              /\ UNCHANGED fut
           \/ /\ m.kind = "answer"
              /\ fut' = IF m.n \in { 0, turn } THEN Resolve(m.x) ELSE fut
              /\ UNCHANGED queue
    /\ UNCHANGED << child, reader, closed, pc, open, turn, yielded, outcome, spawns, cancels,
                    up, server >>

\* A mutant: nobody is told that the child is gone.
ReaderEndsSilently ==
    /\ reader' = FALSE
    /\ UNCHANGED << fut, queue >>

\* The finally of _reader_loop.
ReaderEnds ==
    /\ reader' = FALSE
    /\ fut' = Resolve("failed")
    /\ queue' = Tell(queue)

\* The child's end of the pipe is closed and everything in it has been read.
EndOfFile ==
    /\ reader /\ child = "dead" /\ down = << >>
    /\ ReaderEnds
    /\ UNCHANGED << child, closed, pc, open, turn, yielded, outcome, spawns, cancels, up,
                    down, server >>

\* AcpFramingError: the reader gives up, the child lives on.
FramingError ==
    /\ reader /\ down # << >> /\ faults < MaxFaults
    /\ faults' = faults + 1
    /\ ReaderEnds
    /\ down' = << >>
    /\ UNCHANGED << child, closed, pc, open, turn, yielded, outcome, spawns, cancels, up,
                    server >>

(***************************************************************************)
(* The server.                                                             *)
(***************************************************************************)
Reset ==
    /\ srv' = "idle" /\ tele' = 0 /\ tools' = 0 /\ replies' = 0
    /\ cancelEvent' = FALSE /\ cancelled' = FALSE /\ asked' = FALSE
    /\ UNCHANGED << srvTurn, sent, ended >>

\* The answer to the prompt; lines is what the same step sent before it.
AnswerPrompt(n, lines, how) ==
    /\ down' = (down \o lines) \o << Message("answer", n, how) >>
    /\ srv' = "idle" /\ tele' = 0
    /\ asked' = FALSE
    /\ ended' = IF how = "cancel" THEN ended + 1 ELSE ended

AnswerHello ==
    /\ child = "alive" /\ up # << >> /\ Head(up).kind \in { "initialize", "new" }
    /\ up' = Tail(up)
    /\ down' = Append(down, Message("answer", 0, "answered"))
    /\ UNCHANGED << client, server >>

\* _handle_cancel.
ReceiveCancel ==
    /\ child = "alive" /\ up # << >> /\ Head(up).kind = "cancel"
    /\ up' = Tail(up)
    /\ cancelEvent' = TRUE /\ cancelled' = TRUE /\ asked' = TRUE
    /\ UNCHANGED << client, down, srv, srvTurn, tele, tools, replies, sent, ended >>

\* _handle_prompt up to the agent's first await.  A second prompt during the first
\* comes only from a client that has stopped reading, and is left in the pipe.
ReceivePrompt ==
    /\ child = "alive" /\ srv = "idle" /\ up # << >> /\ Head(up).kind = "prompt"
    /\ up' = Tail(up)
    /\ srvTurn' = Head(up).n
    /\ tools' = 0 /\ replies' = 0 /\ sent' = 0
    /\ cancelEvent' = FALSE
    /\ \/ /\ cancelled
          /\ cancelled' = FALSE
          /\ AnswerPrompt(Head(up).n, << >>, "cancel")
       \/ /\ ~ cancelled
          /\ srv' = "running" /\ tele' = 0
          /\ UNCHANGED << cancelled, asked, ended, down >>
    /\ UNCHANGED client

\* The hooks of a tool call put an event in the turn's telemetry queue.
ToolHook ==
    /\ child = "alive" /\ srv = "running" /\ tools < MaxTools
    /\ tele' = tele + 1 /\ tools' = tools + 1
    /\ UNCHANGED << client, up, down, srv, srvTurn, replies, sent, flags >>

\* handle() yields a reply, or ends; the telemetry is drained first.
HandleYields ==
    /\ child = "alive" /\ srv = "running"
    /\ \/ replies < MaxReplies /\ srv' = "reply" /\ replies' = replies + 1
       \/ srv' = "final" /\ UNCHANGED replies
    /\ UNCHANGED << client, up, down, srvTurn, tele, tools, sent, flags >>

HandleRaises ==
    /\ child = "alive" /\ srv = "running"
    /\ AnswerPrompt(srvTurn, << >>, "error")
    /\ UNCHANGED << client, up, srvTurn, tools, replies, sent, cancelEvent, cancelled >>

Update == << Message("update", srvTurn, << srvTurn, sent + 1 >>) >>

\* An update goes out; then the server looks at cancel_event, and leaves the
\* runtime's generator, and its flag, as they are.
SendUpdate(next) ==
    /\ sent' = sent + 1
    /\ \/ /\ cancelEvent
          /\ AnswerPrompt(srvTurn, Update, "cancel")
       \/ /\ ~ cancelEvent
          /\ down' = down \o Update
          /\ srv' = next
          /\ tele' = IF tele > 0 THEN tele - 1 ELSE 0
          /\ UNCHANGED << asked, ended >>
    /\ UNCHANGED << client, up, srvTurn, tools, replies, cancelEvent, cancelled >>

DrainTelemetry ==
    /\ child = "alive" /\ srv \in { "reply", "final" } /\ tele > 0
    /\ SendUpdate(srv)

\* A mutant: the flag is not looked at once the agent is done.
CancelSeenNever == FALSE

CancelSeen == cancelled

RuntimeCancels ==
    /\ child = "alive" /\ srv \in { "reply", "final" } /\ tele = 0 /\ CancelSeen
    /\ cancelled' = FALSE
    /\ AnswerPrompt(srvTurn, << >>, "cancel")
    /\ UNCHANGED << client, up, srvTurn, tools, replies, sent, cancelEvent >>

SendText ==
    /\ child = "alive" /\ srv = "reply" /\ tele = 0 /\ ~ CancelSeen
    /\ SendUpdate("running")

TurnDone ==
    /\ child = "alive" /\ srv = "final" /\ tele = 0 /\ ~ CancelSeen
    /\ AnswerPrompt(srvTurn, << >>, "stop")
    /\ UNCHANGED << client, up, srvTurn, tools, replies, sent, cancelEvent, cancelled >>

(***************************************************************************)
(* The end of the child: it dies, or aclose() kills it.                    *)
(***************************************************************************)
Die ==
    /\ child = "alive" /\ faults < MaxFaults
    /\ faults' = faults + 1
    /\ child' = "dead"
    /\ up' = << >>
    /\ Reset
    /\ UNCHANGED << reader, closed, pc, open, fut, queue, turn, yielded, outcome, spawns,
                    cancels, down >>

Aclose ==
    /\ ~ closed
    /\ closed' = TRUE
    /\ ReaderEnds
    /\ child' = IF child = "alive" THEN "dead" ELSE child
    /\ up' = << >> /\ down' = << >>
    /\ Reset
    /\ UNCHANGED << pc, open, turn, yielded, outcome, spawns, cancels >>

Call ==
    /\ \/ Spawn \/ Spawned \/ NewSession \/ Opened \/ OpenFails
       \/ Prompt \/ PromptFails \/ Cancel \/ CloseSession \/ Aclose
    /\ UNCHANGED faults

Consume == (YieldEvent \/ TakeSentinel \/ Finish) /\ UNCHANGED faults
Read == (ReadLine \/ EndOfFile) /\ UNCHANGED faults
Receive == (AnswerHello \/ ReceiveCancel \/ ReceivePrompt) /\ UNCHANGED faults

PromptTask ==
    /\ \/ ToolHook \/ HandleYields \/ HandleRaises \/ DrainTelemetry \/ RuntimeCancels
       \/ SendText \/ TurnDone
    /\ UNCHANGED faults

Next ==
    \/ Call \/ Consume \/ Read \/ Receive \/ PromptTask
    \/ FramingError \/ Die

(***************************************************************************)
(* Fairness: each process resumes a task that can go on, and the agent's   *)
(* turn ends.  Nothing makes the user call, the child die or a line break. *)
(***************************************************************************)
Fairness == WF_vars(Consume) /\ WF_vars(Read) /\ WF_vars(Receive) /\ WF_vars(PromptTask)

Spec == Init /\ [][Next]_vars /\ Fairness

(***************************************************************************)
(* Properties.                                                             *)
(***************************************************************************)
\* Every variable keeps the shape the code gives it.
TypeOK ==
    /\ child \in { "none", "alive", "dead" } /\ reader \in BOOLEAN /\ closed \in BOOLEAN
    /\ pc \in { "off", "spawning", "handshake", "opening", "ready", "streaming", "over" }
    /\ open \in BOOLEAN
    /\ fut \in { "none", "waiting", "answered", "stop", "cancel", "error", "failed" }
    /\ turn \in 0 .. MaxTurns /\ outcome \in { "none", "stop", "cancel", "error" }
    /\ srv \in { "idle", "running", "reply", "final" } /\ srvTurn \in 0 .. MaxTurns
    /\ tele \in 0 .. MaxTools /\ ended \in 0 .. MaxTurns

\* "Notifications first, then done": what a turn yields is what the server sent for
\* that turn, in order and without gaps, and a turn that ends with a stop reason has
\* yielded all of it, unless the session was closed under it.
TurnIsFaithful ==
    /\ \A i \in DOMAIN yielded : yielded[i] = << turn, i >>
    /\ open /\ outcome \in { "stop", "cancel" } => Len(yielded) = sent /\ srvTurn = turn

\* An answer that is written with "stop" was not cancelled since the last answer.
CancelNotLost ==
    [][ /\ Len(down') > Len(down)
        /\ down'[Len(down')].kind = "answer" /\ down'[Len(down')].x = "stop"
        => ~ asked ]_vars

\* A turn that starts while the reader runs ends: the child answers, or dies, or sends
\* a line that cannot be read, or the session or the runtime is closed.
TurnsEnd == (pc = "streaming" /\ reader) ~> pc # "streaming"

\* A cancel ends at most one turn: the flag is cleared "so the next turn starts fresh".
CancelOnce == ended <= cancels
=============================================================================

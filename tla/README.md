# oxenClaw: TLA+ models, checks and proofs

oxenClaw is a gateway that runs LLM agents for chat channels, a dashboard, cron
jobs and RPC clients. It is one asyncio process: everything below runs on one
event loop, so state changes between two `await`s are atomic, and whatever was
read before an `await` may be stale after it. The modules here model the path
an inbound message takes through that process, the process around it, and the
two protocols it speaks with other processes.

    channel / dashboard / cron
        -> Dispatcher (agents/dispatch.py) -> LaneRegistry (agents/lanes.py)
            -> PiAgent.handle (agents/pi_agent.py)
                -> run_agent_turn (pi/run/run.py)
                     -> provider stream (pi/run/attempt.py, pi/providers)
                     -> tools, some behind ApprovalManager (approvals/)
                     -> MCP servers (pi/mcp)
        <- outbound messages -> channel router

    gateway process (cli/gateway_cmd.py): RPC server (gateway/server.py), cron
    ACP client (acp/subprocess_runtime.py) <-> ACP server over PiAgent (acp/server.py)

## Inventory

| component | state | operations | interacts with | what is hard | what makes it correct |
|---|---|---|---|---|---|
| turn loop `pi/run/run.py` | iteration and retry counters, failover cursor, streaks, two message lists, abort event | one attempt, five ways to go on after an error, three after an empty reply, tool batch, four ways to close it | provider streams, tools, session (caller) | budgets that feed each other, abort at any await, parallel tools | bounded attempts, termination, lists in step, no dangling tool calls, no undetected loop |
| classifier and failover `error_classifier.py`, `failover.py` | none (the cursor is the turn's) | classify, should_failover, resolve_next_model | turn loop | arithmetic at the tail of the chain | the chain is walked a bounded number of times |
| recovery and loop detection `stop_recovery.py`, `arg_loop_detector.py` | streak and last key | observe, two predicates | turn loop | streaks across messages | a loop is found, and only a loop is reported |
| dispatch `agents/dispatch.py`, `lanes.py`, `registry.py` | registry, lane locks, global semaphore, in-flight counter, per-conversation history | dispatch, the agents.* RPCs | channels, agents, router | two FIFO queues, cancellation, routing that changes while a call waits | exclusion, order, no lost waiter, history not interleaved |
| approvals `approvals/`, `gateway/approval_methods.py` | pending table with futures, snapshot file | request, resolve, cancel, cancel_all, startup load | tool wrappers, operators | timeout racing a verdict, cancellation at each await, crash | a tool runs only when approved; list, waiters and snapshot agree |
| agent and session `agents/pi_agent.py`, `agents/history.py`, `pi/session.py` | session messages in memory, history file | handle, rehydrate, save, chat.clear | turn loop, context engine, memory | failure between turn and save, restart, turns that end in an unanswered tool call, four paths a reply takes | a delivered reply is stored, the model still knows it, a request keeps its rounds |
| context engine `pi/context_engine`, `pi/compaction.py` | none that outlives a turn | assemble, compact, after_turn | session | where the kept tail starts | tool_use/result pairs survive |
| credentials `pi/auth_pool.py` | keys with cooldowns | acquire, report_failure, rotate | turns of all sessions | shared by concurrent turns | no key used in cooldown while another is free |
| MCP `pi/mcp` | pending requests, reader task, connections | call, reader loop, close, pool connect | tools | reader failure, close racing connect | no request gets another's answer, every call and probe ends |
| ACP `acp/` | session handles, child process, queues | ensure, run_turn, cancel, close | external agents | spawn/close races, cancel lost | a turn shows its own events, all of them, and ends; a cancel ends one turn |
| local model server `pi/llamacpp_server` | child process | ensure, stop | provider | start racing stop | one server at most |
| channels `channels/`, `extensions/` | account health | send, probe | dispatcher | sticky errors | - |
| cron `cron/` | job table, run log, their files | add, remove, toggle, update, fire | dispatcher | firing beside removal, failing saves, crash in a run | a removed job does not fire, an acknowledged edit holds, the log tells how a run ended |
| gateway `gateway/`, `cli/gateway_cmd.py` | connections, RPC tasks, event queues | RPCs, events, shutdown | everything | slow clients, shutdown order | answers arrive, the shutdown ends |
| canvas, memory, wiki | stores | CRUD, search, background dreaming | tools | background writers | - |
| tools, skills, sandbox, browser, config, flows, CLI, backup, plugins, observability, desktop shell | mostly files and OS state | - | - | I/O | - |

The hazards found while reading are listed, each at its line, in
`PROJECT.json`; one without a property says why. A few more were met that no
document takes a side on: an input_delta before its start event
(`pi/run/attempt.py:189`), a yield through an alias (`run.py:455`), an abort in
mid-stream returned as `end_turn` (`_openai_shared.py:286`), and in
`agents/lanes.py` the messages that are staged and never taken (140), the event
`signal_abort` looks for and nobody assigns (145), the restarted busy clock
(177) and the calls that hold a permit without being counted (206).

## Modules

| module | models | state and actions |
|---|---|---|
| `TurnLoop` | `run_agent_turn`, `_run_tools` and their helpers | One variable per local variable of the function (named in the declaration). `pc` says where the coroutine is suspended: `top` of the outer loop, about to `send`, in the `stream`, in `tools`, `done`. The code between two awaits is one action: `SilentRetry`, `Failover`, `CompressThenRetryStep`, `TerminalError`, `PlainRetry` after an error, in the order the code tries them; `LengthRecovery`, `StopRecovery`, `FinalAnswer`, `StartTools` after a message; `ToolReturns` per tool; `ReinjectToolList`, `UnknownToolAbort`, `ArgLoopAbort`, `NextRound` after a batch. `SetAbort` is the owner of the abort event. |
| `AgentTurn` | what the caller of a turn relies on | the transcript and the outcome; `ReAsk`, `ToolRound`, `Close` |
| `MCTurnLoop` | - | instance for TLC, and the two claims of the source that a turn does not keep |
| `Dispatch` | `Dispatcher`, `LaneRegistry`, `AgentRegistry`, agents.create/delete | `phase` is where a `dispatch_with_outcome` call is: waiting for the semaphore (`sem`), for the lane (`lock`), `running`, or ended. `Arrive` is everything up to the first wait, `GrantSem`/`GrantLock` the wake-up of a waiter, `Emit`, `Finish`, `Cancel`, `CreateAgent`, `DeleteAgent`. |
| `MCDispatch` | - | instance for TLC |
| `Approvals` | `ApprovalManager`, `_GatedTool`, `_ConditionallyGatedTool`, the exec-approvals RPCs | `where` is where an `execute()` is: announcing its request, waiting, closing, executing the tool, ended. `Ask`, `Announced`, `Wake`, `Expire`, `Closed`, `ToolDone`; three cancellations, one per await; `Resolve` (also cancel), `CancelAll`; `Crash`, `Restart`. |
| `MCApprovals` | - | instance for TLC |
| `Session` | `PiAgent.handle` around a turn, compaction, `chat.clear` | `session` is the in-memory transcript the model is shown, `file` the history on disk, `hist` handle()'s own copy of it. `pc` is the await handle() is suspended at. `fresh` is what the call of the turn has appended so far. `Arrive`, `HookReplies`, `HookSwallows`, `EnsureEarly`, `Begin`, `Assemble`, `Round`, `TurnReturns`, `AutoFire` and its two endings, `Extend`, `Compacted`/`NotCompacted`, `RecordReply`, `RecordReplyBesideCalls`, `RecordCallsOnly`, `RecordTools`, `Placeholder`; `Raise`, `Cancel`, `ChatClear`, `Crash` |
| `Mcp` | `MCPClient`, `MCPClientPool`, the proxied tool, `mcp.test` | one record per client (`conn`), its futures (`fut`), what its server may still answer (`got`), the pool, and where each coroutine is suspended (`task`). Connecting, listing, calling, probing and closing are split at their awaits; `Dispatch` and `ReaderFails` are the reader task |
| `Acp` | `AcpSessionManager`, `SubprocessAcpRuntime`, `AcpServer`, `PiAgentAcpRuntime` | the client's future and event queue, two pipes (`up`, `down`), the server's prompt task (`srv`) and both cancel flags. Client calls, the reader task, the server's handlers; `Die`, `FramingError`, `Aclose` |
| `Cron` | `CronScheduler`, `CronJobStore`, `CronRunStore`, the cron RPCs | memory and file of both stores, what APScheduler holds, the fires that are submitted and that run. `Add`, `Remove`, `Toggle`, `Update`, `Due`, `TimerFires`, `FireNow`, `DispatchEnds`; `Start`, `Stop`, `Gone` are used by `Gateway` |
| `Gateway` | `GatewayServer`, `Router.dispatch`, `_run_gateway`, signals; EXTENDS `Cron` | the phase of the process, connections, RPC tasks. `Connect`, `Receive`, `ReceiveLate`, `Disconnect`, `HandleEdit`, `HandleFire`, `Reply`, `TurnEnds`, `CronTool`, `Clock`; `Boot`, `Signal`, `Drain`, `Drained`, `DrainTimeout`, `StopCron`, `Exit`, `Crash` |
| `MCSession` | - | instance for TLC, and the code's loops, which `Session`'s definitions by positions are compared with (`LoopsAgree`) |
| `MCMcp`, `MCAcp`, `MCGateway` | - | instances for TLC |
| `TurnLoopProofs`, `DispatchProofs`, `ApprovalsProofs`, `SessionProofs`, `McpProofs`, `AcpProofs`, `GatewayProofs` | - | theorems; `GatewayProofs` is about `Cron` and `Gateway` together |

Definitions marked as mutants sit before the definition they vary. They are not
part of the model; each shows that a property notices a plausible slip in the
definition that follows.

### Abstractions

* A message is its kind, its tool calls and its stop reason. Text is visible or
  not; a tool call is an opaque pair of name and argument digest.
* A provider attempt is what it can end in. With the abort event set before the
  request, the stream ends at its first chunk (`_openai_shared.py:286`,
  `ollama.py:540`), so the reply is empty or an error without text.
* The classifier's verdict is an input; what the loop does with it is modelled
  for every verdict. The UNKNOWN verdict of an unmatched 400 is kept apart
  (`bad_request`), since it alone asks for a fallback.
* `asyncio.Lock` and `asyncio.Semaphore` are FIFO queues whose released slot
  stays free until the first waiter runs; a newcomer never passes a waiter, and
  a cancelled waiter leaves the queue.
* A timer may fire although a verdict is already set on the future, as
  `asyncio.wait_for` behaves on Python 3.12: the verdict loses.
* In `Session` a message is its role, whether it has text and tool calls, and
  the turn it belongs to. What `run_agent_turn` returns is what `AgentTurn`
  allows: rounds, one step each (`Round`), then a closing. A closing may be a
  message whose calls stay unanswered, with text or without: calls that came with
  another stop reason than "tool_use" (a cut-off, a stream that just ended), or with
  a terminal error. How `handle()` records and delivers a reply depends on that
  (`RecordReply`, `RecordReplyBesideCalls`, `RecordCallsOnly`). The token threshold
  of a compaction is an input; image pruning and tool-result trimming change no role or
  pair. Merging and filtering are defined by positions rather than by a loop, since
  proofs need that form; `MCSession` compares them with the loops of the code over
  all lists of up to five messages of five kinds.
* `Mcp` tags each request, so that an answer can be told from the answer to
  another one. The send of a request and the wait for its answer are separate
  awaits, and only the wait has the timeout.
* In `Acp` the send of an update and the look at `cancel_event` after it are one
  step: the pipe takes the line at once. Lines already written survive the death
  of the child, and are read before the end of the file.
* In `Cron` files are replaced atomically; any save may raise. APScheduler is
  external: it submits a job that is due, at most one instance of each, and a
  job submitted may begin late. In `Gateway` an RPC is either one step or the
  wait for a turn (`cron.fire`).
* Left out: delays, usage counters, the length of tool output, the debounce of
  busy acks. `LaneState.abort_event` is assigned nowhere, so `signal_abort`
  does nothing and has no action.

## Runs

| run | expects | shows |
|---|---|---|
| `turn_budget` | pass | bounded attempts and termination with every error budget in play: a three-model chain that wraps and has an unregistered entry, one retry, two silent retries, one self-heal, one recovery of each kind, three iterations |
| `turn_tools` | pass | batches of up to two parallel calls over a working and a yielding tool (each may fail, or say it is not registered), aborts at any point: lists in step, calls answered, loops found, refinement of `AgentTurn` |
| `turn_arg_loop` | violation | an arg-loop abort for calls that were not made in a row |
| `dispatch` | pass | three calls that reach one conversation by fallback, by pin and by routing, two permits, two registry changes, cancellation anywhere |
| `dispatch_reroute` | violation | two turns of one agent in one session after the registry changed |
| `approvals` | pass | a timed, an untimed and an auto-approved call; verdicts with and without token, timeout, cancellation, failing writes, shutdown, one crash |
| `session` | pass | three messages of a conversation, with turns cut short in a tool call, one auto-fire, tails of two messages, a crash and a clear at any point: requests keep their rounds, delivered replies are recorded, nothing delivered is forgotten |
| `session_orphan` | violation | the message after a turn cut short in a tool call sends that call without a result |
| `mcp` | pass | two loaders, a call and a closer on one server with two pages of tools, or a probe: own answers only, usable clients only, probes that clean up; calls and probes end |
| `acp` | pass | two turns with two tool events and two replies each, two cancels, one respawn, one death or broken line: a turn yields exactly what was sent for it, a cancel is not lost, turns end |
| `acp_cancel` | violation | one cancel ends two turns |
| `gateway` | pass | two jobs under two schedules, two edits, two fires, one failing save, one client, two boots: acknowledged edits in force, no fire of a job stood down, the run log, answers, the end of a shutdown |

Why the bounds are enough. In `turn_budget` every counter reaches its limit in
some behaviour and the chain wraps as often as it may (as many times as it has
models: `should_failover` compares the wraps with the length of the chain,
though the comment on `failover_cycle` speaks of one; `AttemptBudget` counts
them all); the unregistered entry makes `resolve_next_model` skip. In
`turn_tools` two iterations fit two rounds, a re-sent tool list and the abort
after it (thresholds 1 and 3), and two calls per batch make completion orders
and in-batch repeats. In `dispatch` three calls are the least with a holder and
two waiters on the same lane, of which one may be cancelled, and two permits
let one call wait for the semaphore while another waits for the lock. In
`approvals` calls share only the pending table, the snapshot and the process;
two live requests interleave on all three. In `session` the third turn is the
first that can meet a compacted, a rehydrated and a torn earlier turn together;
a tail of two is the shortest that can fall on either side of a tool pair;
turns make rounds while fewer than four messages are in sight of the model
(`MaxLength`), so that the first may make two and a later one makes one when
the session is short, compacted or new; longer ones are covered by the proofs.
A crash and a clear may both happen, in either order and at any await.
`session_orphan` needs the turn that is cut short and the message after it. In
`mcp` one client's numbering is independent of another's, and a second client
comes from the reconnect after `close`; a probe shares nothing with the pool,
so `MCMcp` starts either the probe or the others. In `acp` the second turn
meets what the first left behind. In `gateway` two jobs let the save of one
carry the other to disk, and two fires of one job make `prune` drop one
(`MaxPerJob` is 1); the second boot reads what the first one left. One RPC task
at a time is in flight there, so the connection's semaphore never makes a task
wait; with two tasks and one schedule the same properties were checked apart
from the kept runs. `MaxRegistryChanges`, `MaxOutbound`, `MaxCrashes`,
`MaxClears`, `MaxEdits`, `MaxFaults`, `MaxRuns`, `MaxBoots` and the like cap
inputs the code does not limit.

The type invariants of `Session`, `Mcp`, `Acp` and `Gateway` (with `Cron`) are
proved (`TypeCorrect`) and kept out of the configurations, which are spent on what
can go wrong.

Deadlock checking is off in all runs: a finished turn, an idle dispatcher and a
manager without requests really stop, and so do a closed session, a pool nobody
uses and a process that has exited.

Fairness. `TurnLoop` assumes that the turn is scheduled: an attempt has
`timeout_seconds`, a sleep ends, and tools return (a tool that hangs hangs the
turn). `Dispatch` assumes that the event loop resumes a woken waiter and that
`agent.handle` ends, which `turn_budget` is about. `Approvals` assumes that ready
tasks run, timers fire and event sinks and tools return; it assumes nothing of
operators, so a call without a timeout may wait for ever, and `AnsweredCallsEnd`
speaks only of timed and answered calls. `Mcp` assumes that a coroutine that can
go on is resumed, timers expire, a send returns and a transport closes; nothing of
the server. A loader has no timeout on `tools/list`, so nothing is claimed of it.
`Acp` assumes that both event loops run and that the agent's turn ends; nothing
makes the user call or the child die. `TurnsEnd` asks that the reader still runs
when the turn starts: after a broken line the child lives on unread, and a later
turn waits for ever. `Gateway` is fair to the shutdown's own steps and the drain's
timer only: no turn need end and no client read. `Session` has no liveness
property.

## What the violations say

1. The branch that re-sends the tool list leaves the iteration before
   `arg_loop.observe`. A different call made in that round does not reset the
   streak, against the detector's docstring. Until the list was re-sent the
   detector misses no loop (`NoUndetectedLoop`, proved).
2. A call waits on the lane of the agent it was routed to on arrival and then
   runs the agent it is routed to after the wait. Replacing the only agent in
   between lets two turns of one conversation overlap. With an unchanged registry
   this cannot happen (`OneTurnPerStableSession`, proved).
3. An ACP cancel sets a flag in the server and one in the agent's runtime. While
   tool events are sent, the server sees its own flag first and leaves the turn;
   the other stays set and the next prompt is answered "cancel" too. The runtime
   says it clears the flag "so the next turn starts fresh". What does hold is
   `CancelNotLost` (proved).
4. A turn may end with a message whose tool calls were not run. `handle()` puts it
   into the live session; `_ensure_session` repairs a transcript only when it builds
   one, so the next message is sent after a call without a result.
   `incomplete_turn.py` names this state as one a provider refuses, and says that
   the repair runs before any new user message. `RequestAcceptable` states that.
   What does hold is `RequestKeepsRounds` (proved): such a call is the last word of
   its turn and is followed by the message of a later one, whatever is merged,
   compacted, auto-fired or rebuilt, and no other call lacks its results.

## Proofs

Every safety property a passing run checks is also a theorem, and so is the
refinement of `AgentTurn`. All theorems hold for every value of the constants that
satisfies the `ASSUME`s of the modules: budgets are natural numbers, thresholds and
the chain length are at least one, the set of turns is finite, model values are
distinct. Two assumptions name what a run gets for free from its model values:
`CronMarkers` (the marks "never edited" and "reported an error" are no jobs) and
`McpConstants` (the kinds of coroutine are disjoint, there is a server).

Each component has one inductive invariant. What it adds to the properties, and
why they are not inductive without it:

* `TurnLoopProofs`. `TypeInv` adds to `TypeOK` that the unknown-tool streak is
  below its threshold while the turn runs and that a running batch is the last
  entry's calls; without the first the streak's bound is not inductive, without
  the second `ToolResults(batch)` could answer the wrong message.
  `CallsAreAnswered` strengthens `NoDanglingCalls` by cases on `pc`: all calls are
  answered, or all but the last entry's. `AttemptsAreBounded` rests on
  `BudgetInv`: attempts so far are at most the finished iterations' shares plus
  this iteration's retries plus the distance walked along the chain,
  `cycles * ChainLength + cursor`, which every failover increases
  (`FailoverAdvances`). `AbortHolds` proves that a turn that saw the abort
  between attempts stays `WindingDown`.
  `TurnImplements` is the refinement: the transcript of the abstract turn is
  `Committed`, the list without the entry whose tools still run, so that
  `StartTools` and the tools are stutters, `NextRound` is one `ToolRound`, a
  recovery is a `ReAsk` and every ending a `Close` (`RefinesStep`, one step per
  action). `LoopsAreDetected` follows the detector: `Watched` says that its streak
  is the length of the run that the last call ends, `NewRun` what the run of the
  j-th call of a new batch is, and `RowIsInRun` that calls in a row lie in the run
  of the last of them. Calls are ordered by message and position, so that nothing
  is flattened.
* `DispatchProofs`. `Inv` says that both queues are free of duplicates and hold
  exactly the waiters (of that lane), that waiters' lanes are known, and that
  running turns have a registered agent. The lemmas on `Append`, `Tail` and
  `Without` say what each does to a queue without duplicates.
  `StableSessionsExclude` adds that, while nothing changed, a call's lane is the
  lane of the agent that runs it. For `ArrivalHolds` both queues are sorted by
  arrival (`QueuesSorted`), nobody has passed a call that waits for the semaphore
  (`SemFirst`), and nobody of its lane one that waits for the lock (`LockFirst`):
  the order survives because the hand-over from one queue to the next is first
  come, first served at both ends. For `HistoriesHold` only turns that started
  have spoken (`Told`), and the last entry of a running turn's conversation is its
  own (`Latest`), which is where exclusion enters.
* `ApprovalsProofs`. `IInv` follows a verdict along its way: acknowledged to the
  operator, set on the future, returned by `request()`, acted on by the tool; a
  process that is down holds no entries. `WaitersHold` and `SnapshotHolds` follow
  from what is in the table at each await.
* `SessionProofs`. The session is a `Chronicle` wherever `handle()` may be
  suspended: calls are followed by their results or by a message (`Paired`),
  what follows calls without results is of a later turn (`Resumed`), and no
  call is dated ahead of the current turn (`Dated`). The last two make the
  exception in `RequestKeepsRounds` survive the next turns. What a turn has
  appended so far (`fresh`) alternates, is all of that turn and ends before the
  model speaks, so that a rerun begins where the first run stopped; only the
  last message of a finished turn may hold calls without results. While a turn
  runs, the user has the last word in the session (`Asking`). A reply that
  stands beside calls is recorded by the entries of the tool calls, which is
  why `AppendedOK` says that its message is the last one appended. `Grounds`
  says what a turn that holds a session can count on after any other task's
  step: its copy of the history records what was delivered and is remembered.
  For `MemoryHolds` the turns of the model are those of the session, the
  summary and the hook replies (`Known`). The merge is described by heads of
  runs (`Joins`, `Heads`, `RunOf`); `SessionProofs` proves what it keeps
  (results after calls, the turns in order) and what it makes (alternation).
* `McpProofs`. A number is used once (`Numbered`), so what the server received
  under a number is what the future with it asked (`SameRequest`), and the answer
  is one's own. Only a loader that connects and a probe have a client nobody else
  has (`Owned`); that and how far the `Handshake` has come make a client that
  reaches the pool usable and one that a probe opened closed.
* `AcpProofs`. `Streams` and `Flow` concatenate what the turn has yielded, its
  queue and the pipe: together they are the updates sent, in order, followed by at
  most one answer. `Hello` keeps the answers of the handshake apart from those of a
  turn, `Counted` lets a late prompt be told from the current one, and `AskedIsSeen`
  keeps a cancel.
* `GatewayProofs`. The files are what the properties speak of; the memory in
  between is what keeps them true, since the next save writes it out whole
  (`AckedInMemory`, `LogsTell`). A run in flight is awaited by one task and has not
  ended (`RunsAreLive`, `RunsAreAwaited`); an RPC in flight has its connection
  unless its client left, and nothing is in flight once the server has stopped
  (`FlightHasClient`). Each invariant was checked by TLC before its proof.

Induction over data is replaced by least elements: a set of numbers that is not
empty has a least one (`LeastElement`, `Least`), which serves the
definitions by positions.

Only model-checked: what holds under fairness (`Termination`, `EveryTurnEnds`,
`AnsweredCallsEnd`, `CallsEnd`, `ProbesEnd`, `TurnsEnd`, `ShutdownEnds`), since the
provers reach neither liveness nor `ENABLED`, and `LoopsAgree`, that the definitions
of `Session` by positions compute what the loops of the code compute, which is an
induction over lists. TLC checks `Approvals` with an event sink and a token; the
proofs cover the other configurations, the gateway's own (no sink) included.

## Plan

Done: the models of turn loop, dispatch, approvals, session, MCP, ACP, cron and
gateway, their runs, and a theorem for each safety property. Next:

1. Stronger statements about the same models, each first checked by TLC: that a
   call of the MCP client is given at most one answer, that ACP turns end in the order
   they were started, that the run log keeps its newest entries.
2. Abstract specifications for dispatch (a lock per conversation) and for approvals
   (one verdict per request), refined by the modules as they stand.
3. The candidates named below, where they have control of their own.

## Not modelled

The models cover the parts whose steps interleave, fail or recover. The larger
part of the repository is of another kind, and a model of it would restate it:

* text and data: prompts, system-prompt assembly and recall in `pi_agent.py`, the
  patterns of the error classifier, summarizers and token estimates of
  `pi/compaction.py`, provider payloads, tool-result trimming, ranking and SQL of
  the memory, the wiki, skills and their archives;
* sequential I/O: setup flows, `doctor`, the CLI, backup, plugins, configuration,
  file and web tools, the browser, sandboxes;
* code nothing drives: the channel poll loop and its back-off (all channels in the
  tree are outbound-only), the reconnect watcher, the credential pool (the gateway's
  agent gets a plain key store), `gateway.restart` (registered nowhere),
  `custom_predicate`.

Candidates with some control of their own, left for later: start and stop of the
local model server, the background dreaming of the memory, the process registry
and subagent limits of the tools, event push to slow clients.

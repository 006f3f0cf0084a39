------------------------------ MODULE Session ------------------------------
(***************************************************************************)
(* One conversation of a PiAgent: oxenclaw/agents/pi_agent.py, handle and  *)
(* the helpers it calls (agents/history.py, incomplete_turn.py,            *)
(* message_merge.py, pi/compaction.py, pi/context_engine), beside          *)
(* chat.clear (gateway/chat_methods.py).                                   *)
(*                                                                         *)
(* The conversation is stored twice: in the agent's in-memory session,     *)
(* which the model is shown, and in the ConversationHistory file, which    *)
(* the dashboard shows.  A restart loses the first and rebuilds it from    *)
(* the second.  The lanes let one handle() of a conversation run at a time *)
(* (module Dispatch), so only chat.clear, a cancellation and a crash       *)
(* interleave with it.                                                     *)
(***************************************************************************)
EXTENDS Integers, Sequences, FiniteSets, SequencesExt

CONSTANTS
    MaxTurns,      \* bound: inbound messages of the conversation
    KeepTail,      \* compact_keep_tail: messages a compaction leaves alone
    MaxAutoFires,  \* max_rounds of _maybe_auto_fire_pseudo_tool
    MaxLength,     \* bound: messages in sight of the model after which a turn
                   \* takes no further round
    MaxCrashes, MaxClears \* bounds on faults and on operators

ASSUME SessionConstants ==
    /\ MaxTurns \in Nat /\ KeepTail \in Nat \ {0} /\ MaxAutoFires \in Nat
    /\ MaxLength \in Nat /\ MaxCrashes \in Nat /\ MaxClears \in Nat

VARIABLES
    live,       \* the agent holds a session for the key (_session_ids)
    session,    \* AgentSession.messages, empty while there is none
    summarised, \* turns whose messages a compaction replaced by its summary
    file,       \* entries of the ConversationHistory file; none if it is missing
    pc,         \* the await at which handle() is suspended
    turn,       \* inbound messages so far; the number of the current one
    hist,       \* handle()'s own ConversationHistory object
    request,    \* the message list of the last call of run_agent_turn
    fresh,      \* what that call has appended so far
    appended,   \* result.appended_messages
    final,      \* what result.final_message is
    fires,      \* auto-fire rounds of this turn
    delivered,  \* turns whose reply was yielded since the last chat.clear
    hooked,     \* turns answered by a before_agent_reply hook
    crashes, clears

stores == << live, session, summarised, file >>
call == << request, fresh >>
result == << appended, final, fires >>
observed == << delivered, hooked >>
bounds == << crashes, clears >>
vars == << stores, pc, turn, hist, call, result, observed, bounds >>

(***************************************************************************)
(* Messages.  use: it carries tool_use blocks; text: it carries text;      *)
(* turn: the inbound message it belongs to.  An entry of the file has no   *)
(* tool blocks.                                                            *)
(***************************************************************************)
Msg(role, use, text, t) == [role |-> role, use |-> use, text |-> text, turn |-> t]
User(t) == Msg("user", FALSE, TRUE, t)
Asst(text, t) == Msg("assistant", FALSE, text, t)
Calls(text, t) == Msg("assistant", TRUE, text, t)
Results(t) == Msg("tool", FALSE, FALSE, t)
Summary == Msg("system", FALSE, TRUE, 0)

Message == [role : { "user", "assistant", "tool", "system" }, use : BOOLEAN,
            text : BOOLEAN, turn : 0 .. MaxTurns]

(***************************************************************************)
(* What run_agent_turn can return (module AgentTurn): rounds of tool calls *)
(* or of re-asked empty replies, then a closing.  An aborted turn's notice *)
(* is its final message but is not appended.  A message whose calls came   *)
(* with another stop reason than "tool_use" (a cut-off, a stream that just *)
(* ended) or with a terminal error closes the turn, its calls unanswered.  *)
(*                                                                         *)
(* final, the closing's message: "text" is shown to the user, "call" is a  *)
(* text that reads as a tool call, "both" a text beside tool calls,        *)
(* "calls" tool calls alone, "empty" neither.                              *)
(***************************************************************************)
Rounds(t) ==
    { << Calls(TRUE, t), Results(t) >>,
      << Calls(FALSE, t), Results(t), User(t) >>,
      << Asst(FALSE, t), User(t) >> }

Closings(t) ==
    { [msgs |-> << >>, final |-> "text"],
      [msgs |-> << Asst(TRUE, t) >>, final |-> "text"],
      [msgs |-> << Asst(TRUE, t) >>, final |-> "call"],
      [msgs |-> << Calls(TRUE, t) >>, final |-> "both"],
      [msgs |-> << Calls(FALSE, t) >>, final |-> "calls"],
      [msgs |-> << Asst(FALSE, t) >>, final |-> "empty"] }

\* Positions in a list, counted along a set of them; the messages at such positions.
Rank(S, i) == Cardinality({ j \in S : j <= i })

AtPositions(msgs, S) ==
    [ k \in 1 .. Cardinality(S) |-> msgs[CHOOSE i \in S : Rank(S, i) = k] ]

(***************************************************************************)
(* _ensure_session: the live session, or a new one seeded from the file.   *)
(* Entries without content are skipped, and repair_incomplete_turn drops   *)
(* the trailing users nobody answered.  Entries of the file carry no tool  *)
(* blocks, so its second pass and the replay sanitizer find nothing.       *)
(***************************************************************************)
DropTrailingUsers(msgs) ==
    LET answers == { i \in DOMAIN msgs : msgs[i].role # "user" }
    IN  { i \in DOMAIN msgs : \E j \in answers : i <= j }

RepairIncompleteTurn(msgs) ==
    SubSeq(msgs, 1, Cardinality(DropTrailingUsers(msgs)))

\* A mutant: a new session starts empty.
EnsureSessionUnseeded == IF live THEN session ELSE << >>

EnsureSession ==
    IF live THEN session
    ELSE RepairIncompleteTurn(AtPositions(file, { i \in DOMAIN file : file[i].text }))

(***************************************************************************)
(* merge_consecutive_same_role, on the copy of the session that engine     *)
(* .assemble returns: a run of neighbours that are all users or all        *)
(* assistants becomes one message.                                         *)
(***************************************************************************)
Joins(a, b) == a.role = b.role /\ a.role \in { "user", "assistant" }

Heads(msgs) == { i \in DOMAIN msgs : i = 1 \/ ~ Joins(msgs[i - 1], msgs[i]) }

RunOf(msgs, k) == { i \in DOMAIN msgs : Rank(Heads(msgs), i) = k }

Merged(msgs, run) ==
    LET last == CHOOSE i \in run : i + 1 \notin run
    IN  Msg(msgs[last].role, \E i \in run : msgs[i].use, \E i \in run : msgs[i].text,
            msgs[last].turn)

MergeConsecutiveSameRole(msgs) ==
    [ k \in 1 .. Cardinality(Heads(msgs)) |-> Merged(msgs, RunOf(msgs, k)) ]

(***************************************************************************)
(* decide_compaction and apply_compaction: everything before the tail is   *)
(* replaced by one summary.  The tail starts KeepTail messages from the    *)
(* end, or later when that would part tool results from their calls.  The  *)
(* token threshold is an input (the action's choice).                      *)
(***************************************************************************)
Boundary(msgs, i) == ~ (msgs[i - 1].use /\ msgs[i].role = "tool")

\* A mutant: the tail starts KeepTail messages from the end, wherever that is.
TailStartsBlind(msgs) == { IF Len(msgs) > KeepTail THEN Len(msgs) - KeepTail + 1 ELSE 2 }
                         \cap 2 .. Len(msgs)

TailStarts(msgs) ==
    { i \in 2 .. Len(msgs) : i > Len(msgs) - KeepTail /\ Boundary(msgs, i) }

CompactTail(msgs) ==
    LET start == CHOOSE i \in TailStarts(msgs) : \A j \in TailStarts(msgs) : i <= j
    IN  SubSeq(msgs, start, Len(msgs))

TurnsOf(msgs) == { msgs[i].turn : i \in DOMAIN msgs }

(***************************************************************************)
(* handle().  Its locals are gone once it has ended.                       *)
(***************************************************************************)
Init ==
    /\ live = FALSE /\ session = << >> /\ summarised = {} /\ file = << >>
    /\ pc = "idle" /\ turn = 0 /\ hist = << >> /\ request = << >> /\ fresh = << >>
    /\ appended = << >> /\ final = "none" /\ fires = 0
    /\ delivered = {} /\ hooked = {} /\ crashes = 0 /\ clears = 0

Ended ==
    /\ pc' = "idle"
    /\ hist' = << >> /\ request' = << >> /\ fresh' = << >>
    /\ appended' = << >> /\ final' = "none" /\ fires' = 0

\* An inbound message with text or images; the awaits up to the session
\* (images, hooks, active memory, recall) read nothing that is used later.
Arrive ==
    /\ pc = "idle" /\ turn < MaxTurns
    /\ turn' = turn + 1
    /\ pc' = "prelude"
    /\ UNCHANGED << stores, hist, call, result, observed, bounds >>

\* before_agent_reply handled the message: only the file gets the exchange.
HookReplies ==
    /\ pc = "prelude"
    /\ file' = file \o << User(turn), Asst(TRUE, turn) >>
    /\ delivered' = delivered \cup { turn }
    /\ hooked' = hooked \cup { turn }
    /\ Ended
    /\ UNCHANGED << live, session, summarised, turn, bounds >>

\* The hook handled the message with nothing to say.
HookSwallows ==
    /\ pc = "prelude"
    /\ Ended
    /\ UNCHANGED << stores, turn, observed, bounds >>

\* Active memory and the pending-action lookup want the session early.
EnsureEarly ==
    /\ pc = "prelude" /\ ~ live
    /\ live' = TRUE
    /\ session' = EnsureSession
    /\ UNCHANGED << summarised, file, pc, turn, hist, call, result, observed,
                    bounds >>

\* The user's message goes to the session, and to the file.
Begin ==
    /\ pc = "prelude"
    /\ live' = TRUE
    /\ session' = Append(EnsureSession, User(turn))
    /\ hist' = Append(file, User(turn))
    /\ file' = hist'
    /\ pc' = "assembling"
    /\ UNCHANGED << summarised, turn, call, result, observed, bounds >>

\* resolve_api, the system prompt or the turn itself raises.
Raise ==
    /\ pc \in { "assembling", "running" }
    /\ Ended
    /\ UNCHANGED << stores, turn, observed, bounds >>

\* engine.assemble, image pruning, merging; the turn starts.
Assemble ==
    /\ pc = "assembling"
    /\ request' = MergeConsecutiveSameRole(session)
    /\ pc' = "running"
    /\ UNCHANGED << stores, turn, hist, fresh, result, observed, bounds >>

\* A round of run_agent_turn.
Round ==
    /\ pc \in { "running", "refiring" }
    /\ Len(session) + Len(appended) + Len(fresh) < MaxLength
    /\ \E r \in Rounds(turn) : fresh' = fresh \o r
    /\ UNCHANGED << stores, pc, turn, hist, request, result, observed, bounds >>

TurnReturns ==
    /\ pc = "running"
    /\ \E c \in Closings(turn) :
          /\ appended' = fresh \o c.msgs
          /\ final' = c.final
    /\ request' = << >> /\ fresh' = << >>
    /\ pc' = "returned"
    /\ UNCHANGED << stores, turn, hist, fires, observed, bounds >>

(***************************************************************************)
(* _auto_fire_pseudo_tool_once: the call the model wrote as text is made,  *)
(* and the turn is run again on a history that shows it as a real one.     *)
(***************************************************************************)
Fired(t) == Front(appended) \o << Calls(TRUE, t), Results(t) >>

AutoFire ==
    /\ pc = "returned" /\ final = "call" /\ fires < MaxAutoFires
    /\ request' = MergeConsecutiveSameRole(session) \o Fired(turn)
    /\ pc' = "refiring"
    /\ UNCHANGED << stores, turn, hist, fresh, result, observed, bounds >>

RerunReturns ==
    /\ pc = "refiring"
    /\ \E c \in Closings(turn) :
          /\ appended' = (Fired(turn) \o fresh) \o c.msgs
          /\ final' = c.final
    /\ fires' = fires + 1
    /\ request' = << >> /\ fresh' = << >>
    /\ pc' = "returned"
    /\ UNCHANGED << stores, turn, hist, observed, bounds >>

\* The rerun raised: the first result stands.
RerunFails ==
    /\ pc = "refiring"
    /\ fires' = MaxAutoFires
    /\ request' = << >> /\ fresh' = << >>
    /\ pc' = "returned"
    /\ UNCHANGED << stores, turn, hist, appended, final, observed, bounds >>

\* session.messages.extend; usage; the engine's ingest_batch and after_turn.
Extend ==
    /\ pc = "returned" /\ (final = "call" => fires = MaxAutoFires)
    /\ session' = session \o appended
    /\ pc' = "compacting"
    /\ UNCHANGED << live, summarised, file, turn, hist, call, result, observed, bounds >>

\* engine.compact below the threshold, timed out, or without a safe boundary.
NotCompacted ==
    /\ pc = "compacting"
    /\ pc' = "recording"
    /\ UNCHANGED << stores, turn, hist, call, result, observed, bounds >>

Compacted ==
    /\ pc = "compacting" /\ TailStarts(session) # {}
    /\ session' = << Summary >> \o CompactTail(session)
    /\ summarised' = summarised
          \cup TurnsOf(SubSeq(session, 1, Len(session) - Len(CompactTail(session))))
    /\ pc' = "recording"
    /\ UNCHANGED << live, file, turn, hist, call, result, observed, bounds >>

(***************************************************************************)
(* The file gets one entry per tool-calling message, with its text, then   *)
(* the reply, which is saved before it is yielded.  A reply that stands    *)
(* beside tool calls has its entry already; tool calls without text end    *)
(* the turn in silence.  For an empty reply a hook is awaited before the   *)
(* placeholder is saved and yielded.                                       *)
(***************************************************************************)
\* A mutant: only messages whose calls were answered get an entry.
ToolEntriesOfAnswered ==
    LET calls == AtPositions(appended, { i \in DOMAIN appended :
                                            appended[i].use /\ i < Len(appended) })
    IN  [ i \in DOMAIN calls |-> Asst(calls[i].text, turn) ]

ToolEntries ==
    LET calls == AtPositions(appended, { i \in DOMAIN appended : appended[i].use })
    IN  [ i \in DOMAIN calls |-> Asst(calls[i].text, turn) ]

RecordReply ==
    /\ pc = "recording" /\ final \in { "text", "call" }
    /\ file' = (hist \o ToolEntries) \o << Asst(TRUE, turn) >>
    /\ delivered' = delivered \cup { turn }
    /\ Ended
    /\ UNCHANGED << live, session, summarised, turn, hooked, bounds >>

RecordReplyBesideCalls ==
    /\ pc = "recording" /\ final = "both"
    /\ file' = hist \o ToolEntries
    /\ delivered' = delivered \cup { turn }
    /\ Ended
    /\ UNCHANGED << live, session, summarised, turn, hooked, bounds >>

RecordCallsOnly ==
    /\ pc = "recording" /\ final = "calls"
    /\ file' = hist \o ToolEntries
    /\ Ended
    /\ UNCHANGED << live, session, summarised, turn, observed, bounds >>

RecordTools ==
    /\ pc = "recording" /\ final = "empty"
    /\ hist' = hist \o ToolEntries
    /\ file' = hist'
    /\ pc' = "empty"
    /\ UNCHANGED << live, session, summarised, turn, call, result, observed, bounds >>

Placeholder ==
    /\ pc = "empty"
    /\ file' = Append(hist, Asst(TRUE, turn))
    /\ delivered' = delivered \cup { turn }
    /\ Ended
    /\ UNCHANGED << live, session, summarised, turn, hooked, bounds >>

(***************************************************************************)
(* The environment: the task of the turn is cancelled, the operator clears *)
(* the dashboard's history, the process dies and comes back.               *)
(***************************************************************************)
Cancel ==
    /\ pc # "idle"
    /\ Ended
    /\ UNCHANGED << stores, turn, observed, bounds >>

ChatClear ==
    /\ clears < MaxClears
    /\ clears' = clears + 1
    /\ file' = << >>
    /\ delivered' = {}
    /\ UNCHANGED << live, session, summarised, pc, turn, hist, call, result, hooked,
                    crashes >>

Crash ==
    /\ crashes < MaxCrashes
    /\ crashes' = crashes + 1
    /\ live' = FALSE /\ session' = << >> /\ summarised' = {}
    /\ Ended
    /\ UNCHANGED << file, turn, observed, clears >>

Next ==
    \/ Arrive \/ HookReplies \/ HookSwallows \/ EnsureEarly \/ Begin \/ Raise
    \/ Assemble \/ Round \/ TurnReturns \/ AutoFire \/ RerunReturns \/ RerunFails
    \/ Extend \/ NotCompacted \/ Compacted
    \/ RecordReply \/ RecordReplyBesideCalls \/ RecordCallsOnly
    \/ RecordTools \/ Placeholder
    \/ Cancel \/ ChatClear \/ Crash

Spec == Init /\ [][Next]_vars

(***************************************************************************)
(* Properties.                                                             *)
(***************************************************************************)
\* Every variable keeps the shape the code gives it.
TypeOK ==
    /\ live \in BOOLEAN /\ session \in Seq(Message) /\ file \in Seq(Message)
    /\ hist \in Seq(Message) /\ request \in Seq(Message)
    /\ fresh \in Seq(Message) /\ appended \in Seq(Message)
    /\ summarised \subseteq 0 .. MaxTurns
    /\ delivered \subseteq 1 .. MaxTurns /\ hooked \subseteq 1 .. MaxTurns
    /\ pc \in { "idle", "prelude", "assembling", "running", "returned", "refiring",
                "compacting", "recording", "empty" }
    /\ final \in { "none", "text", "call", "both", "calls", "empty" }
    /\ turn \in 0 .. MaxTurns /\ fires \in 0 .. MaxAutoFires
    /\ crashes \in 0 .. MaxCrashes /\ clears \in 0 .. MaxClears

\* The calls of message i have their results, or are the last word of a turn before
\* the one whose message comes next.
Answered(msgs, i) == i < Len(msgs) /\ msgs[i + 1].role = "tool"

CutShort(msgs, i) ==
    i < Len(msgs) /\ msgs[i + 1].role = "user" /\ msgs[i].turn < msgs[i + 1].turn

\* The list alternates, results follow calls, the model is next to speak, and calls
\* lack their results only where a turn ended with them.
KeepsRounds(msgs) ==
    /\ msgs # << >> /\ Last(msgs).role \in { "user", "tool" }
    /\ \A i \in 1 .. Len(msgs) :
          /\ msgs[i].use => Answered(msgs, i) \/ CutShort(msgs, i)
          /\ msgs[i].role = "tool" => i > 1 /\ msgs[i - 1].use
          /\ i > 1 => msgs[i].role # msgs[i - 1].role

\* Whatever happened to earlier turns (cancelled, aborted, failed, cut short, compacted,
\* lost in a crash and rebuilt from the file), the list run_agent_turn is called with is
\* in order: no compaction, merge, auto-fire or restart parts results from their calls,
\* and what a turn left without results is followed by the message of a later one.
RequestKeepsRounds == pc \in { "running", "refiring" } => KeepsRounds(request)

\* incomplete_turn.py: a "tool_use with no matching tool_result" gets a 400 from the
\* provider, and the session is repaired "BEFORE any new user message is appended" so
\* that none is sent.  The live session is not repaired: the message after a turn that
\* was cut short sends one.
RequestAcceptable ==
    pc \in { "running", "refiring" } =>
        \A i \in 1 .. Len(request) : request[i].use => Answered(request, i)

\* A reply that left handle() is in the conversation's file, so a crash right after
\* it cannot make the dashboard or the next session forget it; only chat.clear can.
DeliveredIsRecorded ==
    \A t \in delivered :
        \E i \in DOMAIN file :
            file[i].role = "assistant" /\ file[i].text /\ file[i].turn = t

\* The agent does not forget what the dashboard still shows: when a turn runs, every
\* answered exchange of the file is in the session or in its summary, hook replies
\* apart (those reach the file only).
NoAmnesia ==
    pc = "running" =>
        \A i \in DOMAIN hist :
            hist[i].role = "assistant" /\ hist[i].text =>
                \/ hist[i].turn \in hooked \cup summarised
                \/ \E j \in DOMAIN session :
                      session[j].role = "user" /\ session[j].turn = hist[i].turn
=============================================================================

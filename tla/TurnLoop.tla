------------------------------ MODULE TurnLoop ------------------------------
(***************************************************************************)
(* The agent turn: oxenclaw/pi/run/run.py, run_agent_turn, with the        *)
(* helpers it calls (failover.py, error_classifier.py, stop_recovery.py,   *)
(* arg_loop_detector.py, _run_tools).                                      *)
(*                                                                         *)
(* One coroutine drives provider attempts and tool batches until it has a  *)
(* TurnResult.  It yields to the event loop while an attempt streams,      *)
(* while tools run and while it sleeps; the abort event may be set at any  *)
(* of these points.  Everything between two awaits is one action here.     *)
(*                                                                         *)
(* Left out, because no decision of the loop reads them: message text,     *)
(* usage counters, delays, the token override of length recovery, and the  *)
(* truncation and spilling of tool output.                                 *)
(***************************************************************************)
EXTENDS Integers, Sequences, FiniteSets

CONSTANTS
    Call,              \* (tool name, argument digest) pairs the model may emit
    Registered,        \* the calls whose tool name resolves to a live tool
    YieldCall,         \* the calls to sessions_yield
    MaxBatch,          \* tool_use blocks in one assistant message, at most
    MaxToolIterations, MaxRetries,
    UnknownToolThreshold, ArgLoopThreshold,
    StopRecoveryAttempts, LengthRecoveryAttempts, MaxCompressionSelfHeals,
    ChainLength,       \* len(failover_chain_full): the primary and its backups
    InRegistry,        \* positions of the chain whose model id is registered
    HasRegistry, FailoverCycle, CompressThenRetry, SoftIterationCap,
    ParallelTools,
    Reason             \* the classifier's verdicts the provider can provoke

\* FailoverReason; "bad_request" is UNKNOWN for a 400 that matches no pattern.
AllReasons ==
    { "transient", "rate_limit", "context_overflow", "payload_too_large",
      "auth", "server", "client_abort", "provider_blocked",
      "thinking_signature", "empty_response", "model_not_found",
      "credit_exhausted", "session_expired", "unknown",
      "bad_request" }

ASSUME TurnConstants ==
    /\ Registered \subseteq Call
    /\ YieldCall \subseteq Call
    /\ MaxBatch \in Nat
    /\ MaxToolIterations \in Nat
    /\ MaxRetries \in Nat
    /\ UnknownToolThreshold \in Nat \ {0}
    /\ ArgLoopThreshold \in Nat \ {0}
    /\ StopRecoveryAttempts \in Nat
    /\ LengthRecoveryAttempts \in Nat
    /\ MaxCompressionSelfHeals \in Nat
    /\ ChainLength \in Nat \ {0}
    /\ InRegistry \subseteq 0 .. ChainLength - 1
    /\ HasRegistry \in BOOLEAN
    /\ FailoverCycle \in BOOLEAN
    /\ CompressThenRetry \in BOOLEAN
    /\ SoftIterationCap \in BOOLEAN
    /\ ParallelTools \in BOOLEAN
    /\ Reason \subseteq AllReasons

VARIABLES
    pc,                \* where the coroutine is suspended
    iter,              \* outer iterations begun
    retry, silent,     \* retry and silent_retries of this outer iteration
    heals,             \* compression_self_heals
    cursor, cycles,    \* failover_cursor, failover_cycles_used
    emptyStreak,       \* failover_empty_streak
    recoveries,        \* recoveries_used
    lengthRecoveries,  \* length_recoveries_used
    unknownStreak,     \* consecutive_unknown_tools
    reinjected,        \* unknown_tool_reinject_used
    argStreak, lastKey,\* ArgLoopDetector._streak, ._last_key
    abort,             \* config.abort_event.is_set()
    sentAborted,       \* abort was already set when the attempt was sent
    batch, results,    \* the tool_use blocks being run, their outcomes so far
    yielded,           \* some execution is named sessions_yield
    attempts,          \* len(attempts): provider calls made
    appended, working, \* the two message lists the loop keeps in step
    stopped            \* TurnResult.stopped_reason

vars == << pc, iter, retry, silent, heals, cursor, cycles, emptyStreak,
           recoveries, lengthRecoveries, unknownStreak, reinjected, argStreak,
           lastKey, abort, sentAborted, batch, results, yielded, attempts,
           appended, working, stopped >>

budgets == << retry, silent, heals, cursor, cycles >>
recovery == << emptyStreak, recoveries, lengthRecoveries >>
loopGuards == << unknownStreak, reinjected, argStreak, lastKey >>
toolRun == << batch, results, yielded >>

NoKey == <<>>
Batches == UNION { [1 .. n -> Call] : n \in 0 .. MaxBatch }
Outcome == { "pending", "ok", "error", "unknown" }

MaxSilentRetries == IF MaxRetries \div 2 > 2 THEN MaxRetries \div 2 ELSE 2
MaxHeals == IF MaxCompressionSelfHeals > 1 THEN MaxCompressionSelfHeals ELSE 1

(***************************************************************************)
(* Entries of the message lists.  A notice is an assistant message the     *)
(* loop writes itself (yield, loop abort, iteration cap).                  *)
(***************************************************************************)
Assistant(calls, stop) == [kind |-> "assistant", calls |-> calls, stop |-> stop]
ToolResults(calls) == [kind |-> "results", calls |-> calls, stop |-> "none"]
Nudge == [kind |-> "nudge", calls |-> <<>>, stop |-> "none"]
Notice(why) == [kind |-> "notice", calls |-> <<>>, stop |-> why]

StopReason == { "end_turn", "tool_use", "length", "refusal" }

\* What an attempt that ends without an ErrorEvent can assemble.
Reply == [calls : Batches, text : BOOLEAN, thinking : BOOLEAN, stop : StopReason]

\* The provider stream returns at the first chunk when abort is already set.
NothingStreamed ==
    [calls |-> <<>>, text |-> FALSE, thinking |-> FALSE, stop |-> "end_turn"]

(***************************************************************************)
(* What an attempt that ends with an ErrorEvent can carry: the event's own *)
(* retryable flag, the classifier's verdict, a Retry-After of at least a   *)
(* minute, and whether visible text was streamed before it.                *)
(***************************************************************************)
Failure == [retryable : BOOLEAN, reason : Reason, longWait : BOOLEAN,
            text : BOOLEAN]

ClassifiedRetryable(e) ==
    \/ e.reason \in { "transient", "rate_limit", "context_overflow",
                      "payload_too_large", "server", "thinking_signature",
                      "empty_response" }
    \/ e.reason = "unknown" /\ e.retryable

ShouldFallback(e) ==
    \/ e.reason \in { "credit_exhausted", "model_not_found", "session_expired",
                      "bad_request" }
    \/ e.reason = "rate_limit" /\ e.longWait

ShouldCompress(e) == e.reason \in { "context_overflow", "payload_too_large" }

(***************************************************************************)
(* The failover chain.  MayWrap is the guard on going from the tail back   *)
(* to the head; Candidates are the distances from the cursor at which      *)
(* resolve_next_model visits a registered model.                           *)
(***************************************************************************)
MayWrap == FailoverCycle /\ cycles < ChainLength

ShouldFailover == cursor + 1 < ChainLength \/ MayWrap

Position(d) ==
    IF cursor + d < ChainLength THEN cursor + d ELSE cursor + d - ChainLength

Candidates ==
    { d \in 1 .. ChainLength - 1 :
        /\ cursor + d >= ChainLength => MayWrap
        /\ Position(d) \in InRegistry }

HasNextModel == Candidates # {}

NextModel ==
    Position(CHOOSE d \in Candidates : \A x \in Candidates : d <= x)

FailoverApplies(e) ==
    /\ HasRegistry
    /\ ChainLength > 1
    /\ ShouldFailover \/ ShouldFallback(e)
    /\ HasNextModel

(***************************************************************************)
(* stop_recovery.py and arg_loop_detector.py.                              *)
(***************************************************************************)
Silence(m) == m.calls = <<>> /\ ~m.text

IsRecoverableEmpty(m) == Silence(m) /\ m.stop \in { "refusal", "end_turn" }

IsLengthTruncation(m) ==
    Silence(m) /\ (m.stop = "length" \/ (m.stop = "end_turn" /\ m.thinking))

\* Mutant of StreakAt: the detector forgets its streak between messages.
StreakPerMessage(calls, j) ==
    Cardinality({ i \in 1 .. j : \A k \in i .. j : calls[k] = calls[j] })

\* _streak after ArgLoopDetector.observe has seen calls[1..j].
StreakAt(calls, j) ==
    LET run == { i \in 1 .. j : \A k \in i .. j : calls[k] = calls[j] }
    IN  Cardinality(run)
          + (IF run = 1 .. j /\ lastKey = << calls[j] >> THEN argStreak ELSE 0)

ArgLoopHits(calls) ==
    { j \in 1 .. Len(calls) : StreakAt(calls, j) >= ArgLoopThreshold }

\* The loop over tool_uses breaks at the first hit.
LastObserved(calls) ==
    IF ArgLoopHits(calls) = {} THEN Len(calls)
    ELSE CHOOSE j \in ArgLoopHits(calls) : \A k \in ArgLoopHits(calls) : j <= k

-----------------------------------------------------------------------------
Init ==
    /\ pc = "top" /\ iter = 0 /\ stopped = "running"
    /\ retry = 0 /\ silent = 0 /\ heals = 0 /\ cursor = 0 /\ cycles = 0
    /\ emptyStreak = 0 /\ recoveries = 0 /\ lengthRecoveries = 0
    /\ unknownStreak = 0 /\ reinjected = FALSE /\ argStreak = 0 /\ lastKey = NoKey
    /\ abort \in BOOLEAN /\ sentAborted = FALSE
    /\ batch = <<>> /\ results = <<>> /\ yielded = FALSE
    /\ attempts = 0 /\ appended = <<>> /\ working = <<>>

\* config.abort_event.set() by whoever owns the event.
SetAbort ==
    /\ pc # "done" /\ ~abort
    /\ abort' = TRUE
    /\ UNCHANGED << pc, iter, budgets, recovery, loopGuards, sentAborted,
                    toolRun, attempts, appended, working, stopped >>

Finish(why) == pc' = "done" /\ stopped' = why

(***************************************************************************)
(* Top of the outer loop.                                                  *)
(***************************************************************************)
\* Mutant of IterationCap: the return belongs to the soft cap only.
CapOnlyWhenSoft ==
    /\ pc = "top" /\ iter = MaxToolIterations /\ SoftIterationCap
    /\ appended' = Append(appended, Notice("iteration_cap"))
    /\ Finish("iteration_cap")
    /\ UNCHANGED << iter, budgets, recovery, loopGuards, abort, sentAborted,
                    toolRun, attempts, working >>

IterationCap ==
    /\ pc = "top" /\ iter = MaxToolIterations
    /\ appended' = IF SoftIterationCap THEN Append(appended, Notice("iteration_cap"))
                                       ELSE appended
    /\ Finish("iteration_cap")
    /\ UNCHANGED << iter, budgets, recovery, loopGuards, abort, sentAborted,
                    toolRun, attempts, working >>

AbortSeen ==
    /\ pc = "top" /\ iter < MaxToolIterations /\ abort
    /\ \/ yielded /\ Finish("yielded")
                  /\ appended' = Append(appended, Notice("yielded"))
       \/ ~yielded /\ Finish("abort") /\ UNCHANGED appended
    /\ iter' = iter + 1
    /\ UNCHANGED << budgets, recovery, loopGuards, abort, sentAborted,
                    toolRun, attempts, working >>

BeginIteration ==
    /\ pc = "top" /\ iter < MaxToolIterations /\ ~abort
    /\ iter' = iter + 1 /\ retry' = 0 /\ silent' = 0
    /\ pc' = "send"
    /\ UNCHANGED << heals, cursor, cycles, recovery, loopGuards, abort,
                    sentAborted, toolRun, attempts, appended, working, stopped >>

\* run_attempt is called; the request carries the working list.
Send ==
    /\ pc = "send"
    /\ pc' = "stream" /\ attempts' = attempts + 1 /\ sentAborted' = abort
    /\ UNCHANGED << iter, budgets, recovery, loopGuards, abort, toolRun,
                    appended, working, stopped >>

(***************************************************************************)
(* The attempt ended with an error.  The five outcomes are tried in the    *)
(* order of the code, each under the negation of the ones before it.       *)
(***************************************************************************)
\* With abort set before the request, an error can only precede the first chunk.
Failed(e) ==
    /\ pc = "stream"
    /\ sentAborted => ~e.text

SilentApplies(e) == e.retryable /\ ~e.text /\ silent < MaxSilentRetries

\* Mutant of CompressApplies: self-heals are not counted against a cap.
CompressUncapped(e) == ShouldCompress(e) /\ CompressThenRetry

CompressApplies(e) ==
    ShouldCompress(e) /\ CompressThenRetry /\ heals < MaxHeals

TerminalApplies(e) == ~ClassifiedRetryable(e) \/ retry >= MaxRetries

SilentRetry(e) ==
    /\ Failed(e) /\ SilentApplies(e)
    /\ silent' = silent + 1 /\ pc' = "send"
    /\ UNCHANGED << iter, retry, heals, cursor, cycles, recovery, loopGuards,
                    abort, sentAborted, toolRun, attempts, appended, working,
                    stopped >>

\* Mutant of Failover: the new model starts with fresh retry budgets.
FailoverRefunds(e) ==
    /\ Failed(e) /\ ~SilentApplies(e) /\ FailoverApplies(e)
    /\ cursor' = NextModel
    /\ cycles' = IF NextModel < cursor THEN cycles + 1 ELSE cycles
    /\ emptyStreak' = 0 /\ pc' = "send" /\ retry' = 0 /\ silent' = 0
    /\ UNCHANGED << iter, heals, recoveries, lengthRecoveries, loopGuards, abort,
                    sentAborted, toolRun, attempts, appended, working, stopped >>

Failover(e) ==
    /\ Failed(e) /\ ~SilentApplies(e) /\ FailoverApplies(e)
    /\ cursor' = NextModel
    /\ cycles' = IF NextModel < cursor THEN cycles + 1 ELSE cycles
    /\ emptyStreak' = 0 /\ pc' = "send"
    /\ UNCHANGED << iter, retry, silent, heals, recoveries, lengthRecoveries,
                    loopGuards, abort, sentAborted, toolRun, attempts, appended,
                    working, stopped >>

CompressThenRetryStep(e) ==
    /\ Failed(e) /\ ~SilentApplies(e) /\ ~FailoverApplies(e) /\ CompressApplies(e)
    /\ heals' = heals + 1 /\ pc' = "top"
    /\ UNCHANGED << iter, retry, silent, cursor, cycles, recovery, loopGuards,
                    abort, sentAborted, toolRun, attempts, appended, working,
                    stopped >>

\* The partial message is kept: tool_use blocks without results, and a
\* StopEvent's reason if one came before the error.
TerminalError(e) ==
    /\ Failed(e) /\ ~SilentApplies(e) /\ ~FailoverApplies(e)
    /\ ~CompressApplies(e) /\ TerminalApplies(e)
    /\ \E calls \in Batches, stop \in {"error"} \cup StopReason :
          /\ sentAborted => calls = <<>> /\ stop = "error"
          /\ appended' = Append(appended, Assistant(calls, stop))
    /\ Finish("error")
    /\ UNCHANGED << iter, budgets, recovery, loopGuards, abort, sentAborted,
                    toolRun, attempts, working >>

PlainRetry(e) ==
    /\ Failed(e) /\ ~SilentApplies(e) /\ ~FailoverApplies(e)
    /\ ~CompressApplies(e) /\ ~TerminalApplies(e)
    /\ retry' = retry + 1 /\ pc' = "send"
    /\ UNCHANGED << iter, silent, heals, cursor, cycles, recovery, loopGuards,
                    abort, sentAborted, toolRun, attempts, appended, working,
                    stopped >>

(***************************************************************************)
(* The attempt ended with a message.                                       *)
(***************************************************************************)
\* Mutant of Replied: the provider stream does not look at the abort event.
RepliedUncut(m) == pc = "stream"

Replied(m) == pc = "stream" /\ (sentAborted => m = NothingStreamed)

WantsTools(m) == m.calls # <<>> /\ m.stop = "tool_use"

LengthApplies(m) ==
    lengthRecoveries < LengthRecoveryAttempts /\ IsLengthTruncation(m)

EmptyApplies(m) == recoveries < StopRecoveryAttempts /\ IsRecoverableEmpty(m)

EmptyStreakAfter(m) == IF IsRecoverableEmpty(m) THEN emptyStreak + 1 ELSE 0

\* Mutant of LengthRecovery: the noise message is popped from one list only.
LengthRecoveryPopsOne(m) ==
    /\ Replied(m) /\ ~WantsTools(m) /\ LengthApplies(m)
    /\ lengthRecoveries' = lengthRecoveries + 1 /\ pc' = "top"
    /\ working' = Append(working, Assistant(m.calls, m.stop))
    /\ UNCHANGED << iter, budgets, emptyStreak, recoveries, loopGuards, abort,
                    sentAborted, toolRun, attempts, appended, stopped >>

\* The message was appended to both lists and is popped from both again.
LengthRecovery(m) ==
    /\ Replied(m) /\ ~WantsTools(m) /\ LengthApplies(m)
    /\ lengthRecoveries' = lengthRecoveries + 1 /\ pc' = "top"
    /\ UNCHANGED << iter, budgets, emptyStreak, recoveries, loopGuards, abort,
                    sentAborted, toolRun, attempts, appended, working, stopped >>

StopRecovery(m) ==
    /\ Replied(m) /\ ~WantsTools(m) /\ ~LengthApplies(m) /\ EmptyApplies(m)
    /\ recoveries' = recoveries + 1 /\ emptyStreak' = EmptyStreakAfter(m)
    /\ appended' = appended \o << Assistant(m.calls, m.stop), Nudge >>
    /\ working' = working \o << Assistant(m.calls, m.stop), Nudge >>
    /\ pc' = "top"
    /\ UNCHANGED << iter, budgets, lengthRecoveries, loopGuards, abort,
                    sentAborted, toolRun, attempts, stopped >>

FinalAnswer(m) ==
    /\ Replied(m) /\ ~WantsTools(m) /\ ~LengthApplies(m) /\ ~EmptyApplies(m)
    /\ emptyStreak' = EmptyStreakAfter(m)
    /\ appended' = Append(appended, Assistant(m.calls, m.stop))
    /\ working' = Append(working, Assistant(m.calls, m.stop))
    /\ Finish(m.stop)
    /\ UNCHANGED << iter, budgets, recoveries, lengthRecoveries, loopGuards,
                    abort, sentAborted, toolRun, attempts >>

StartTools(m) ==
    /\ Replied(m) /\ WantsTools(m)
    /\ appended' = Append(appended, Assistant(m.calls, m.stop))
    /\ working' = Append(working, Assistant(m.calls, m.stop))
    /\ batch' = m.calls
    /\ results' = [i \in 1 .. Len(m.calls) |-> "pending"]
    /\ pc' = "tools"
    /\ UNCHANGED << iter, budgets, recovery, loopGuards, abort, sentAborted,
                    yielded, attempts, stopped >>

(***************************************************************************)
(* _run_tools: asyncio.gather, or one call after the other.  A registered  *)
(* sessions_yield sets the abort event from inside the batch.  An outcome  *)
(* is "unknown" when it is an error whose text has "is not registered":    *)
(* the loop's own answer, or what a failing tool says.                     *)
(***************************************************************************)
ToolReturns(i, out) ==
    /\ pc = "tools" /\ results[i] = "pending"
    /\ ParallelTools \/ \A k \in 1 .. i - 1 : results[k] # "pending"
    /\ out = "ok" => batch[i] \in Registered
    /\ results' = [results EXCEPT ![i] = out]
    /\ abort' = (abort \/ (out = "ok" /\ batch[i] \in YieldCall))
    /\ UNCHANGED << pc, iter, budgets, recovery, loopGuards, sentAborted, batch,
                    yielded, attempts, appended, working, stopped >>

AllReturned == pc = "tools" /\ \A i \in DOMAIN results : results[i] # "pending"

UnknownStreakAfter ==
    IF \A i \in DOMAIN results : results[i] = "unknown"
    THEN unknownStreak + 1 ELSE 0

\* executions.extend(results), then the branch's own appends.
CloseBatch ==
    /\ AllReturned
    /\ yielded' = (yielded \/ \E i \in DOMAIN batch : batch[i] \in YieldCall)
    /\ batch' = <<>> /\ results' = <<>>

\* Mutant of ReinjectToolList: the tool list is sent instead of the results.
ReinjectWithoutResults ==
    /\ CloseBatch
    /\ UnknownStreakAfter >= UnknownToolThreshold /\ ~reinjected
    /\ reinjected' = TRUE /\ unknownStreak' = 0
    /\ appended' = Append(appended, Nudge) /\ working' = Append(working, Nudge)
    /\ pc' = "top"
    /\ UNCHANGED << iter, budgets, recovery, argStreak, lastKey, abort,
                    sentAborted, attempts, stopped >>

ReinjectToolList ==
    /\ CloseBatch
    /\ UnknownStreakAfter >= UnknownToolThreshold /\ ~reinjected
    /\ reinjected' = TRUE /\ unknownStreak' = 0
    /\ appended' = appended \o << ToolResults(batch), Nudge >>
    /\ working' = working \o << ToolResults(batch), Nudge >>
    /\ pc' = "top"
    /\ UNCHANGED << iter, budgets, recovery, argStreak, lastKey, abort,
                    sentAborted, attempts, stopped >>

\* Mutant of UnknownToolAbort: the aborted round is returned without results.
AbortWithoutResults ==
    /\ CloseBatch
    /\ UnknownStreakAfter >= UnknownToolThreshold /\ reinjected
    /\ unknownStreak' = UnknownStreakAfter
    /\ appended' = Append(appended, Notice("unknown_tools"))
    /\ Finish("loop_detection")
    /\ UNCHANGED << iter, budgets, recovery, reinjected, argStreak, lastKey,
                    abort, sentAborted, attempts, working >>

UnknownToolAbort ==
    /\ CloseBatch
    /\ UnknownStreakAfter >= UnknownToolThreshold /\ reinjected
    /\ unknownStreak' = UnknownStreakAfter
    /\ appended' = appended \o << ToolResults(batch), Notice("unknown_tools") >>
    /\ Finish("loop_detection")
    /\ UNCHANGED << iter, budgets, recovery, reinjected, argStreak, lastKey,
                    abort, sentAborted, attempts, working >>

ObserveBatch ==
    LET last == LastObserved(batch)
    IN  argStreak' = StreakAt(batch, last) /\ lastKey' = << batch[last] >>

ArgLoopAbort ==
    /\ CloseBatch
    /\ UnknownStreakAfter < UnknownToolThreshold
    /\ unknownStreak' = UnknownStreakAfter
    /\ ArgLoopHits(batch) # {} /\ ObserveBatch
    /\ appended' = appended \o << ToolResults(batch), Notice("arg_loop") >>
    /\ Finish("loop_detection")
    /\ UNCHANGED << iter, budgets, recovery, reinjected, abort, sentAborted,
                    attempts, working >>

NextRound ==
    /\ CloseBatch
    /\ UnknownStreakAfter < UnknownToolThreshold
    /\ unknownStreak' = UnknownStreakAfter
    /\ ArgLoopHits(batch) = {} /\ ObserveBatch
    /\ appended' = Append(appended, ToolResults(batch))
    /\ working' = Append(working, ToolResults(batch))
    /\ pc' = "top"
    /\ UNCHANGED << iter, budgets, recovery, reinjected, abort, sentAborted,
                    attempts, stopped >>

-----------------------------------------------------------------------------
Errored ==
    \E e \in Failure :
        \/ SilentRetry(e) \/ Failover(e) \/ CompressThenRetryStep(e)
        \/ TerminalError(e) \/ PlainRetry(e)

Answered ==
    \E m \in Reply :
        LengthRecovery(m) \/ StopRecovery(m) \/ FinalAnswer(m) \/ StartTools(m)

ToolSteps ==
    \/ \E i \in DOMAIN results, out \in Outcome \ {"pending"} : ToolReturns(i, out)
    \/ ReinjectToolList \/ UnknownToolAbort \/ ArgLoopAbort \/ NextRound

\* The steps of the turn itself, without the outside abort.
Advance ==
    IterationCap \/ AbortSeen \/ BeginIteration \/ Send
        \/ Errored \/ Answered \/ ToolSteps

Next == Advance \/ SetAbort

Spec == Init /\ [][Next]_vars

\* Every attempt has a timeout and every tool returns, so the turn is scheduled.
FairSpec == Spec /\ WF_vars(Advance)

-----------------------------------------------------------------------------
(***************************************************************************)
(* Properties.                                                             *)
(***************************************************************************)
EntryKind == { "assistant", "results", "nudge", "notice" }
EntryStop == StopReason \cup { "error", "none", "yielded", "iteration_cap",
                               "unknown_tools", "arg_loop" }
Entry == [kind : EntryKind, calls : Batches, stop : EntryStop]

Outcomes == { "running", "iteration_cap", "yielded", "abort", "error",
              "loop_detection" } \cup StopReason

\* The variables of run_agent_turn hold values of their declared types.
TypeOK ==
    /\ pc \in { "top", "send", "stream", "tools", "done" }
    /\ iter \in 0 .. MaxToolIterations
    /\ retry \in 0 .. MaxRetries /\ silent \in 0 .. MaxSilentRetries
    /\ heals \in 0 .. MaxHeals
    /\ cursor \in 0 .. ChainLength - 1 /\ cycles \in 0 .. ChainLength
    /\ emptyStreak \in Nat
    /\ recoveries \in 0 .. StopRecoveryAttempts
    /\ lengthRecoveries \in 0 .. LengthRecoveryAttempts
    /\ unknownStreak \in 0 .. UnknownToolThreshold /\ reinjected \in BOOLEAN
    /\ argStreak \in Nat /\ lastKey \in { NoKey } \cup { << c >> : c \in Call }
    /\ abort \in BOOLEAN /\ sentAborted \in BOOLEAN
    /\ batch \in Batches /\ results \in [1 .. Len(batch) -> Outcome]
    /\ yielded \in BOOLEAN
    /\ attempts \in Nat
    /\ appended \in Seq(Entry) /\ working \in Seq(Entry)
    /\ stopped \in Outcomes

\* The list sent to the provider (working) and the list handed to the caller
\* for persistence (appended) never drift apart while the turn runs, whatever
\* mix of recoveries, nudges, retries and tool rounds it went through.
Lockstep == pc # "done" => working = appended

\* A tool call stays unanswered only as the last entry, and only while its
\* batch runs or in the message that ended the turn: no later request, and no
\* entry after it in what the caller persists, follows a dangling tool_use.
NoDanglingCalls ==
    \A i \in 1 .. Len(appended) :
        appended[i].kind = "assistant" /\ appended[i].calls # <<>> =>
            IF i = Len(appended) THEN pc \in { "tools", "done" }
            ELSE appended[i + 1] = ToolResults(appended[i].calls)

\* Each outer iteration may spend one attempt, its silent retries and its
\* retries; every further attempt moved the failover chain.
PerIteration == 1 + MaxSilentRetries + MaxRetries
ChainWalk == cycles * ChainLength + cursor

\* A turn makes a bounded number of provider calls: retries, silent retries,
\* failovers with and without wrapping, self-heals and recoveries cannot feed
\* each other for ever (the bound the self-heal and cycle caps are there for).
AttemptBudget ==
    attempts <= MaxToolIterations * PerIteration
                  + (IF FailoverCycle THEN ChainLength * ChainLength ELSE 0)
                  + ChainLength - 1

\* Once abort_event is set while no attempt is streaming, no tool batch is
\* ever started again, across the retries and failovers that do not look at it.
AbortStopsTools == [](abort /\ pc \in { "top", "send" } => [](pc # "tools"))

\* run_agent_turn returns: no combination of provider errors, empty replies,
\* tool calls and failovers keeps the turn running.
Termination == <>(pc = "done")

-----------------------------------------------------------------------------
(***************************************************************************)
(* The abstract turn: rounds reach the transcript whole.  The assistant    *)
(* message of a running batch is not yet part of it.                       *)
(***************************************************************************)
Committed ==
    IF pc = "tools" THEN SubSeq(appended, 1, Len(appended) - 1) ELSE appended

Abstract == INSTANCE AgentTurn WITH log <- Committed, outcome <- stopped

\* run_agent_turn implements the abstract turn: the transcript it returns grows
\* only by whole rounds and is closed exactly once.
ImplementsAgentTurn == Abstract!Spec

-----------------------------------------------------------------------------
(***************************************************************************)
(* The calls of a transcript, in the order in which they were made: each   *)
(* is a pair of an entry and a place in its message.                       *)
(***************************************************************************)
CallsOf(s) ==
    { p \in (1 .. Len(s)) \X (1 .. MaxBatch) :
        s[p[1]].kind = "assistant" /\ p[2] <= Len(s[p[1]].calls) }

CallAt(s, p) == s[p[1]].calls[p[2]]
NotAfter(p, q) == p[1] < q[1] \/ (p[1] = q[1] /\ p[2] <= q[2])
Span(s, p, q) == { x \in CallsOf(s) : NotAfter(p, x) /\ NotAfter(x, q) }

\* One call was made n times in a row, within or across messages.
MadeInARow(s, n) ==
    \E p, q \in CallsOf(s) :
        /\ \A x \in Span(s, p, q) : CallAt(s, x) = CallAt(s, q)
        /\ Cardinality(Span(s, p, q)) >= n

\* Until the tool list has been re-sent, the turn does not go on after the same
\* call was made ArgLoopThreshold times in a row.
NoUndetectedLoop ==
    pc \in { "top", "send" } /\ ~reinjected => ~MadeInARow(Committed, ArgLoopThreshold)
=============================================================================

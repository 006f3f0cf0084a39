--------------------------- MODULE TurnLoopProofs ---------------------------
(***************************************************************************)
(* Proofs about TurnLoop, for every set of calls, every budget, every      *)
(* failover chain and every mix of provider errors.                        *)
(***************************************************************************)
EXTENDS TurnLoop, FiniteSetTheorems, WellFoundedInduction, TLAPS

(***************************************************************************)
(* Facts about the operators.                                              *)
(***************************************************************************)
\* A batch of tool calls is a sequence of calls.
LEMMA BatchFacts ==
    ASSUME NEW c \in Batches
    PROVE  /\ c \in Seq(Call)
           /\ Len(c) \in Nat
           /\ DOMAIN c = 1 .. Len(c)
           /\ \A i \in 1 .. Len(c) : c[i] \in Call
<1>1. PICK n \in 0 .. MaxBatch : c \in [1 .. n -> Call]
    BY DEF Batches
<1>2. n \in Nat
    BY <1>1, TurnConstants
<1>3. c \in Seq(Call)
    BY <1>1, <1>2
<1>4. QED
    BY <1>3

\* The empty batch is a batch.
LEMMA EmptyBatch == <<>> \in Batches
<1>1. 0 \in 0 .. MaxBatch
    BY TurnConstants
<1>2. <<>> \in [1 .. 0 -> Call]
    OBVIOUS
<1>3. QED
    BY <1>1, <1>2 DEF Batches

\* A nonempty set of naturals has a least element, so the CHOOSE in NextModel
\* and in LastObserved denotes one.
LEMMA LeastElement ==
    ASSUME NEW S, S \subseteq Nat, S # {}
    PROVE  \E x \in S : \A y \in S : x <= y
<1>1. PICK x \in S : \A y \in S : ~ (<< y, x >> \in OpToRel(<, Nat))
    BY NatLessThanWellFounded, WFMin
<1>2. \A y \in S : ~ (y < x)
    BY <1>1 DEF OpToRel
<1>3. QED
    BY <1>2

\* The streak that the detector stores is a natural number.
LEMMA StreakType ==
    ASSUME TypeOK, NEW calls \in Batches, NEW j \in 1 .. Len(calls)
    PROVE  StreakAt(calls, j) \in Nat
<1> DEFINE run == { i \in 1 .. j : \A k \in i .. j : calls[k] = calls[j] }
<1>1. j \in Int
    BY BatchFacts
<1>2. IsFiniteSet(1 .. j)
    BY <1>1, FS_Interval
<1>3. run \in SUBSET (1 .. j)
    OBVIOUS
<1>4. IsFiniteSet(run)
    BY <1>2, <1>3, FS_Subset
<1>5. Cardinality(run) \in Nat
    BY <1>4, FS_CardinalityType
<1>6. argStreak \in Nat
    BY DEF TypeOK
<1>7. QED
    BY <1>5, <1>6 DEF StreakAt

\* The last call the detector looks at is a call of the batch.
LEMMA LastObservedType ==
    ASSUME NEW calls \in Batches, calls # <<>>
    PROVE  LastObserved(calls) \in 1 .. Len(calls)
<1>1. Len(calls) \in Nat \ {0}
    BY BatchFacts
<1>2. CASE ArgLoopHits(calls) = {}
    BY <1>1, <1>2 DEF LastObserved
<1>3. CASE ArgLoopHits(calls) # {}
  <2>1. ArgLoopHits(calls) \subseteq 1 .. Len(calls)
      BY DEF ArgLoopHits
  <2>2. ArgLoopHits(calls) \subseteq Nat
      BY <2>1, <1>1
  <2>3. \E x \in ArgLoopHits(calls) : \A y \in ArgLoopHits(calls) : x <= y
      BY <2>2, <1>3, LeastElement
  <2>4. LastObserved(calls) \in ArgLoopHits(calls)
      BY <1>3, <2>3 DEF LastObserved
  <2>5. QED
      BY <2>4, <2>1
<1>4. QED
    BY <1>2, <1>3

\* Where failover goes: a position of the chain, and past the tail only when
\* the guard on wrapping holds; it always moves.
LEMMA NextModelFacts ==
    ASSUME TypeOK, HasNextModel
    PROVE  /\ NextModel \in 0 .. ChainLength - 1
           /\ NextModel # cursor
           /\ NextModel < cursor => MayWrap
<1> DEFINE d == CHOOSE d \in Candidates : \A x \in Candidates : d <= x
<1>1. Candidates \subseteq 1 .. ChainLength - 1
    BY DEF Candidates
<1>2. Candidates \subseteq Nat
    BY <1>1, TurnConstants
<1>3. \E m \in Candidates : \A x \in Candidates : m <= x
    BY <1>2, LeastElement DEF HasNextModel
<1>4. d \in Candidates
    BY <1>3
<1>5. /\ d \in 1 .. ChainLength - 1
      /\ cursor + d >= ChainLength => MayWrap
    BY <1>4 DEF Candidates
<1>6. NextModel = Position(d)
    BY DEF NextModel
<1> HIDE DEF d
<1>7. cursor \in 0 .. ChainLength - 1 /\ ChainLength \in Nat
    BY TurnConstants DEF TypeOK
<1>8. QED
    BY <1>5, <1>6, <1>7 DEF Position

-----------------------------------------------------------------------------
(***************************************************************************)
(* Type correctness.  Two facts about control are needed with it: the      *)
(* streak of unknown tools is below its threshold until the turn ends, and *)
(* tools run only on a nonempty batch that the transcript ends with.       *)
(***************************************************************************)
StreakBelow == pc # "done" => unknownStreak < UnknownToolThreshold

BatchOnTop ==
    pc = "tools" =>
        /\ batch # <<>>
        /\ appended # <<>>
        /\ appended[Len(appended)] = Assistant(batch, "tool_use")

TypeInv == TypeOK /\ StreakBelow /\ BatchOnTop

\* The messages the loop writes are entries.
LEMMA EntryFacts ==
    /\ \A c \in Batches, s \in {"error"} \cup StopReason : Assistant(c, s) \in Entry
    /\ \A c \in Batches : ToolResults(c) \in Entry
    /\ Nudge \in Entry
    /\ \A w \in {"iteration_cap", "yielded", "unknown_tools", "arg_loop"} :
          Notice(w) \in Entry
BY EmptyBatch DEF Entry, EntryKind, EntryStop, StopReason, Assistant, ToolResults,
                  Nudge, Notice

\* The budgets' limits are natural numbers.
LEMMA LimitFacts ==
    /\ MaxSilentRetries \in Nat /\ MaxHeals \in Nat
BY TurnConstants DEF MaxSilentRetries, MaxHeals

\* The initial state.
LEMMA TypeInit == Init => TypeInv
<1> SUFFICES ASSUME Init PROVE TypeInv
    OBVIOUS
<1> USE DEF Init
<1>1. results \in [1 .. Len(batch) -> Outcome]
    BY DEF Outcome
<1>2. /\ appended \in Seq(Entry) /\ working \in Seq(Entry)
      /\ lastKey \in { NoKey } \cup { << c >> : c \in Call }
      /\ batch \in Batches
    BY EmptyBatch DEF NoKey
<1>3. /\ iter \in 0 .. MaxToolIterations
      /\ retry \in 0 .. MaxRetries /\ silent \in 0 .. MaxSilentRetries
      /\ heals \in 0 .. MaxHeals
      /\ cursor \in 0 .. ChainLength - 1 /\ cycles \in 0 .. ChainLength
      /\ recoveries \in 0 .. StopRecoveryAttempts
      /\ lengthRecoveries \in 0 .. LengthRecoveryAttempts
      /\ unknownStreak \in 0 .. UnknownToolThreshold
    BY TurnConstants, LimitFacts
<1>t. TypeOK
    BY <1>1, <1>2, <1>3 DEF TypeOK, Outcomes
<1>4. QED
    BY <1>t, TurnConstants DEF TypeInv, StreakBelow, BatchOnTop

\* The steps at the top of the outer loop.
LEMMA TypeTop ==
    ASSUME TypeInv, IterationCap \/ AbortSeen \/ BeginIteration \/ Send \/ SetAbort
    PROVE  TypeInv'
<1> USE DEF TypeInv, budgets, recovery, loopGuards, toolRun
<1>1. CASE IterationCap
  <2>1. appended' \in Seq(Entry)
      BY <1>1, EntryFacts DEF IterationCap, TypeOK
  <2>2. QED
      BY <1>1, <2>1 DEF IterationCap, Finish, TypeOK, Outcomes, StreakBelow, BatchOnTop
<1>2. CASE AbortSeen
  <2>1. appended' \in Seq(Entry)
    <3>1. appended' = appended \/ appended' = Append(appended, Notice("yielded"))
        BY <1>2 DEF AbortSeen
    <3>2. appended \in Seq(Entry) /\ Notice("yielded") \in Entry
        BY EntryFacts DEF TypeOK
    <3>3. QED
        BY <3>1, <3>2
  <2>2. iter' \in 0 .. MaxToolIterations
      BY <1>2, TurnConstants DEF AbortSeen, TypeOK
  <2>3. QED
      BY <1>2, <2>1, <2>2 DEF AbortSeen, Finish, TypeOK, Outcomes, StreakBelow, BatchOnTop
<1>3. CASE BeginIteration
  <2>1. iter' \in 0 .. MaxToolIterations
      BY <1>3, TurnConstants DEF BeginIteration, TypeOK
  <2>2. retry' \in 0 .. MaxRetries /\ silent' \in 0 .. MaxSilentRetries
      BY <1>3, TurnConstants, LimitFacts DEF BeginIteration
  <2>3. QED
      BY <1>3, <2>1, <2>2 DEF BeginIteration, TypeOK, StreakBelow, BatchOnTop
<1>4. CASE Send
    BY <1>4 DEF Send, TypeOK, StreakBelow, BatchOnTop
<1>5. CASE SetAbort
    BY <1>5 DEF SetAbort, TypeOK, StreakBelow, BatchOnTop
<1>6. QED
    BY <1>1, <1>2, <1>3, <1>4, <1>5

\* The steps after a failed attempt.
LEMMA TypeErrored == ASSUME TypeInv, Errored PROVE TypeInv'
<1> USE DEF TypeInv, budgets, recovery, loopGuards, toolRun
<1>0. PICK e \in Failure : \/ SilentRetry(e) \/ Failover(e) \/ CompressThenRetryStep(e)
                           \/ TerminalError(e) \/ PlainRetry(e)
    BY DEF Errored
<1>1. CASE SilentRetry(e)
  <2>1. silent' \in 0 .. MaxSilentRetries
      BY <1>1, LimitFacts DEF SilentRetry, SilentApplies, TypeOK
  <2>2. QED
      BY <1>1, <2>1 DEF SilentRetry, Failed, TypeOK, StreakBelow, BatchOnTop
<1>2. CASE Failover(e)
  <2>1. HasNextModel
      BY <1>2 DEF Failover, FailoverApplies
  <2>2. cursor' \in 0 .. ChainLength - 1
      BY <1>2, <2>1, NextModelFacts DEF Failover
  <2>3. cycles' \in 0 .. ChainLength
      BY <1>2, <2>1, NextModelFacts, TurnConstants DEF Failover, MayWrap, TypeOK
  <2>4. QED
      BY <1>2, <2>2, <2>3 DEF Failover, Failed, TypeOK, StreakBelow, BatchOnTop
<1>3. CASE CompressThenRetryStep(e)
  <2>1. heals' \in 0 .. MaxHeals
      BY <1>3, LimitFacts DEF CompressThenRetryStep, CompressApplies, TypeOK
  <2>2. QED
      BY <1>3, <2>1 DEF CompressThenRetryStep, Failed, TypeOK, StreakBelow, BatchOnTop
<1>4. CASE TerminalError(e)
  <2>1. appended' \in Seq(Entry)
    <3>1. PICK calls \in Batches, stop \in {"error"} \cup StopReason :
               appended' = Append(appended, Assistant(calls, stop))
        BY <1>4 DEF TerminalError
    <3>2. Assistant(calls, stop) \in Entry
        BY EntryFacts
    <3>3. QED
        BY <3>1, <3>2 DEF TypeOK
  <2>2. QED
      BY <1>4, <2>1 DEF TerminalError, Finish, TypeOK, Outcomes, StreakBelow, BatchOnTop
<1>5. CASE PlainRetry(e)
  <2>1. retry' \in 0 .. MaxRetries
      BY <1>5, TurnConstants DEF PlainRetry, TerminalApplies, TypeOK
  <2>2. QED
      BY <1>5, <2>1 DEF PlainRetry, Failed, TypeOK, StreakBelow, BatchOnTop
<1>6. QED
    BY <1>0, <1>1, <1>2, <1>3, <1>4, <1>5

\* The steps after a reply.
LEMMA TypeAnswered == ASSUME TypeInv, Answered PROVE TypeInv'
<1> USE DEF TypeInv, budgets, recovery, loopGuards, toolRun
<1>0. PICK m \in Reply : \/ LengthRecovery(m) \/ StopRecovery(m)
                         \/ FinalAnswer(m) \/ StartTools(m)
    BY DEF Answered
<1>a. m.calls \in Batches /\ m.stop \in StopReason
    BY DEF Reply
<1>b. Assistant(m.calls, m.stop) \in Entry /\ Nudge \in Entry
    BY <1>a, EntryFacts
<1>c. EmptyStreakAfter(m) \in Nat
    BY DEF EmptyStreakAfter, TypeOK
<1>1. CASE LengthRecovery(m)
  <2>1. lengthRecoveries' \in 0 .. LengthRecoveryAttempts
    <3>1. lengthRecoveries' = lengthRecoveries + 1 /\ lengthRecoveries < LengthRecoveryAttempts
        BY <1>1 DEF LengthRecovery, LengthApplies
    <3>2. lengthRecoveries \in 0 .. LengthRecoveryAttempts
        BY DEF TypeOK
    <3>3. QED
        BY <3>1, <3>2, TurnConstants
  <2>2. QED
      BY <1>1, <2>1 DEF LengthRecovery, Replied, TypeOK, StreakBelow, BatchOnTop
<1>2. CASE StopRecovery(m)
  <2>1. recoveries' \in 0 .. StopRecoveryAttempts
    <3>1. recoveries' = recoveries + 1 /\ recoveries < StopRecoveryAttempts
        BY <1>2 DEF StopRecovery, EmptyApplies
    <3>2. recoveries \in Nat
        BY TurnConstants DEF TypeOK
    <3>3. QED
        BY <3>1, <3>2, TurnConstants
  <2>2. appended' \in Seq(Entry) /\ working' \in Seq(Entry)
      BY <1>2, <1>b DEF StopRecovery, TypeOK
  <2>3. QED
      BY <1>2, <2>1, <2>2, <1>c DEF StopRecovery, Replied, TypeOK, StreakBelow, BatchOnTop
<1>3. CASE FinalAnswer(m)
  <2>1. appended' \in Seq(Entry) /\ working' \in Seq(Entry)
      BY <1>3, <1>b DEF FinalAnswer, TypeOK
  <2>2. stopped' \in Outcomes
      BY <1>3, <1>a DEF FinalAnswer, Finish, Outcomes
  <2>3. QED
      BY <1>3, <2>1, <2>2, <1>c DEF FinalAnswer, Finish, TypeOK, StreakBelow, BatchOnTop
<1>4. CASE StartTools(m)
  <2>1. appended' \in Seq(Entry) /\ working' \in Seq(Entry)
      BY <1>4, <1>b DEF StartTools, TypeOK
  <2>2. batch' \in Batches /\ results' \in [1 .. Len(batch') -> Outcome]
      BY <1>4, <1>a DEF StartTools, Outcome
  <2>3. TypeOK'
      BY <1>4, <2>1, <2>2 DEF StartTools, TypeOK
  <2>4. StreakBelow'
      BY <1>4 DEF StartTools, Replied, StreakBelow
  <2>5. BatchOnTop'
    <3>1. appended \in Seq(Entry)
        BY DEF TypeOK
    <3>2. appended' = Append(appended, Assistant(m.calls, m.stop))
        BY <1>4 DEF StartTools
    <3>3. appended' # <<>> /\ appended'[Len(appended')] = Assistant(m.calls, m.stop)
        BY <3>1, <3>2, <1>b
    <3>4. batch' = m.calls /\ m.calls # <<>> /\ m.stop = "tool_use"
        BY <1>4 DEF StartTools, WantsTools
    <3>5. QED
        BY <3>3, <3>4 DEF BatchOnTop, Assistant
  <2>6. QED
      BY <2>3, <2>4, <2>5
<1>5. QED
    BY <1>0, <1>1, <1>2, <1>3, <1>4

\* What closing a batch leaves, in each of its four continuations.
LEMMA ClosedBatchFacts ==
    ASSUME TypeInv, CloseBatch
    PROVE  /\ batch \in Batches /\ batch # <<>>
           /\ ToolResults(batch) \in Entry
           /\ UnknownStreakAfter \in 0 .. UnknownToolThreshold
           /\ batch' \in Batches /\ results' \in [1 .. Len(batch') -> Outcome]
           /\ yielded' \in BOOLEAN
<1> USE DEF TypeInv
<1>1. batch \in Batches /\ batch # <<>>
    BY DEF CloseBatch, AllReturned, BatchOnTop, TypeOK
<1>2. ToolResults(batch) \in Entry
    BY <1>1, EntryFacts
<1>3. unknownStreak \in Nat /\ unknownStreak < UnknownToolThreshold
    BY TurnConstants DEF TypeOK, StreakBelow, CloseBatch, AllReturned
<1>4. UnknownStreakAfter \in 0 .. UnknownToolThreshold
    BY <1>3, TurnConstants DEF UnknownStreakAfter
<1>5. batch' = <<>> /\ results' = <<>>
    BY DEF CloseBatch
<1>6. batch' \in Batches
    BY <1>5, EmptyBatch
<1>7. results' \in [1 .. Len(batch') -> Outcome]
    BY <1>5
<1>8. yielded' \in BOOLEAN
    BY DEF CloseBatch
<1>9. QED
    BY <1>1, <1>2, <1>4, <1>6, <1>7, <1>8

\* What the detector stores after a batch.
LEMMA ObservedFacts ==
    ASSUME TypeOK, batch # <<>>, ObserveBatch
    PROVE  /\ argStreak' \in Nat
           /\ lastKey' \in { NoKey } \cup { << c >> : c \in Call }
<1>1. batch \in Batches
    BY DEF TypeOK
<1>2. LastObserved(batch) \in 1 .. Len(batch)
    BY <1>1, LastObservedType
<1>3. StreakAt(batch, LastObserved(batch)) \in Nat
    BY <1>1, <1>2, StreakType
<1>4. batch[LastObserved(batch)] \in Call
    BY <1>1, <1>2, BatchFacts
<1>5. QED
    BY <1>3, <1>4 DEF ObserveBatch

\* The steps of a tool batch.
LEMMA TypeTools == ASSUME TypeInv, ToolSteps PROVE TypeInv'
<1> USE DEF TypeInv, budgets, recovery, loopGuards, toolRun
<1>1. ASSUME NEW i \in DOMAIN results, NEW out \in Outcome \ {"pending"},
             ToolReturns(i, out)
      PROVE  TypeInv'
  <2>1. results' \in [1 .. Len(batch') -> Outcome]
      BY <1>1 DEF ToolReturns, TypeOK
  <2>2. abort' \in BOOLEAN
      BY <1>1 DEF ToolReturns
  <2>3. TypeOK'
      BY <1>1, <2>1, <2>2 DEF ToolReturns, TypeOK
  <2>4. QED
      BY <1>1, <2>3 DEF ToolReturns, StreakBelow, BatchOnTop, Assistant
<1>2. CASE ReinjectToolList
  <2>0. CloseBatch
      BY <1>2 DEF ReinjectToolList
  <2>1. appended' \in Seq(Entry) /\ working' \in Seq(Entry)
      BY <1>2, <2>0, ClosedBatchFacts, EntryFacts DEF ReinjectToolList, TypeOK
  <2>2. TypeOK'
      BY <1>2, <2>0, <2>1, ClosedBatchFacts, TurnConstants DEF ReinjectToolList, TypeOK
  <2>3. StreakBelow' /\ BatchOnTop'
      BY <1>2, TurnConstants DEF ReinjectToolList, StreakBelow, BatchOnTop
  <2>4. QED
      BY <2>2, <2>3
<1>3. CASE UnknownToolAbort
  <2>0. CloseBatch
      BY <1>3 DEF UnknownToolAbort
  <2>1. appended' \in Seq(Entry)
      BY <1>3, <2>0, ClosedBatchFacts, EntryFacts DEF UnknownToolAbort, TypeOK
  <2>2. TypeOK'
      BY <1>3, <2>0, <2>1, ClosedBatchFacts DEF UnknownToolAbort, Finish, TypeOK, Outcomes
  <2>3. StreakBelow' /\ BatchOnTop'
      BY <1>3 DEF UnknownToolAbort, Finish, StreakBelow, BatchOnTop
  <2>4. QED
      BY <2>2, <2>3
<1>4. CASE ArgLoopAbort
  <2>0. CloseBatch /\ ObserveBatch
      BY <1>4 DEF ArgLoopAbort
  <2>1. appended' \in Seq(Entry)
      BY <1>4, <2>0, ClosedBatchFacts, EntryFacts DEF ArgLoopAbort, TypeOK
  <2>2. TypeOK'
      BY <1>4, <2>0, <2>1, ClosedBatchFacts, ObservedFacts
         DEF ArgLoopAbort, Finish, TypeOK, Outcomes
  <2>3. StreakBelow' /\ BatchOnTop'
      BY <1>4 DEF ArgLoopAbort, Finish, StreakBelow, BatchOnTop
  <2>4. QED
      BY <2>2, <2>3
<1>5. CASE NextRound
  <2>0. CloseBatch /\ ObserveBatch
      BY <1>5 DEF NextRound
  <2>1. appended' \in Seq(Entry) /\ working' \in Seq(Entry)
      BY <1>5, <2>0, ClosedBatchFacts DEF NextRound, TypeOK
  <2>2. TypeOK'
      BY <1>5, <2>0, <2>1, ClosedBatchFacts, ObservedFacts DEF NextRound, TypeOK
  <2>3. StreakBelow' /\ BatchOnTop'
      BY <1>5 DEF NextRound, StreakBelow, BatchOnTop
  <2>4. QED
      BY <2>2, <2>3
<1>6. QED
    BY <1>1, <1>2, <1>3, <1>4, <1>5 DEF ToolSteps

\* Every step of the turn keeps the types and the two control facts.
LEMMA TypeStep == TypeInv /\ [Next]_vars => TypeInv'
<1> SUFFICES ASSUME TypeInv, [Next]_vars PROVE TypeInv'
    OBVIOUS
<1>1. CASE UNCHANGED vars
    BY <1>1 DEF vars, TypeInv, TypeOK, StreakBelow, BatchOnTop, Assistant
<1>2. QED
    BY <1>1, TypeTop, TypeErrored, TypeAnswered, TypeTools DEF Next, Advance

\* Type correctness of run_agent_turn, with the control facts it rests on.
THEOREM TypeInvariance == Spec => []TypeInv
BY TypeInit, TypeStep, PTL DEF Spec

\* Type correctness: in particular every budget counter stays within its limit.
THEOREM TypeCorrect == Spec => []TypeOK
<1>1. TypeInv => TypeOK
    BY DEF TypeInv
<1>2. QED
    BY TypeInvariance, <1>1, PTL

-----------------------------------------------------------------------------
(***************************************************************************)
(* The two message lists.                                                  *)
(***************************************************************************)
\* working and appended are extended and cut back together.
LEMMA LockstepStep == TypeInv /\ Lockstep /\ [Next]_vars => Lockstep'
<1> SUFFICES ASSUME TypeInv, Lockstep, [Next]_vars PROVE Lockstep'
    OBVIOUS
<1> USE DEF Lockstep
<1>1. CASE IterationCap \/ AbortSeen \/ BeginIteration \/ Send \/ SetAbort
    BY <1>1 DEF IterationCap, AbortSeen, BeginIteration, Send, SetAbort, Finish
<1>2. CASE Errored
    BY <1>2 DEF Errored, SilentRetry, Failover, CompressThenRetryStep, TerminalError,
                PlainRetry, Finish, Failed
<1>3. CASE Answered
  <2>1. PICK m \in Reply : \/ LengthRecovery(m) \/ StopRecovery(m)
                           \/ FinalAnswer(m) \/ StartTools(m)
      BY <1>3 DEF Answered
  <2>2. CASE LengthRecovery(m)
      BY <2>2 DEF LengthRecovery, Replied
  <2>3. CASE StopRecovery(m)
      BY <2>3 DEF StopRecovery, Replied
  <2>4. CASE FinalAnswer(m)
      BY <2>4 DEF FinalAnswer, Finish
  <2>5. CASE StartTools(m)
      BY <2>5 DEF StartTools, Replied
  <2>6. QED
      BY <2>1, <2>2, <2>3, <2>4, <2>5
<1>4. CASE ToolSteps
  <2>1. ASSUME NEW i \in DOMAIN results, NEW out \in Outcome \ {"pending"},
               ToolReturns(i, out)
        PROVE  Lockstep'
      BY <2>1 DEF ToolReturns
  <2>2. CASE UnknownToolAbort \/ ArgLoopAbort
      BY <2>2 DEF UnknownToolAbort, ArgLoopAbort, Finish
  <2>3. CASE ReinjectToolList
      BY <2>3 DEF ReinjectToolList, CloseBatch, AllReturned
  <2>4. CASE NextRound
      BY <2>4 DEF NextRound, CloseBatch, AllReturned
  <2>5. QED
      BY <1>4, <2>1, <2>2, <2>3, <2>4 DEF ToolSteps
<1>5. CASE UNCHANGED vars
    BY <1>5 DEF vars
<1>6. QED
    BY <1>1, <1>2, <1>3, <1>4, <1>5 DEF Next, Advance

\* What is sent to the provider is what the caller will persist, in every
\* state of every turn.
THEOREM ListsInLockstep == Spec => []Lockstep
<1>1. Init => Lockstep
    BY DEF Init, Lockstep
<1>2. QED
    BY <1>1, LockstepStep, TypeInvariance, PTL DEF Spec

(***************************************************************************)
(* No dangling calls.  A list is answered when each assistant entry with   *)
(* calls is followed by its results; it is answered but for its last entry *)
(* while a batch runs.                                                     *)
(***************************************************************************)
IsCall(e) == e.kind = "assistant" /\ e.calls # <<>>

AnsweredUpTo(s, n) ==
    \A i \in 1 .. n : IsCall(s[i]) => i < Len(s) /\ s[i + 1] = ToolResults(s[i].calls)

AllAnswered(s) == AnsweredUpTo(s, Len(s))
AnsweredButLast(s) == AnsweredUpTo(s, Len(s) - 1)

\* Appending to an answered list.
LEMMA AppendAnswered ==
    ASSUME NEW s \in Seq(Entry), NEW e \in Entry, AllAnswered(s)
    PROVE  /\ AnsweredButLast(Append(s, e))
           /\ ~IsCall(e) => AllAnswered(Append(s, e))
<1> DEFINE t == Append(s, e)
<1>1. /\ Len(t) = Len(s) + 1 /\ Len(s) \in Nat
      /\ \A i \in 1 .. Len(s) : t[i] = s[i]
      /\ t[Len(s) + 1] = e
    OBVIOUS
<1> HIDE DEF t
<1>2. \A i \in 1 .. Len(s) :
          IsCall(t[i]) => i < Len(t) /\ t[i + 1] = ToolResults(t[i].calls)
  <2> TAKE i \in 1 .. Len(s)
  <2> HAVE IsCall(t[i])
  <2>1. i < Len(s) /\ s[i + 1] = ToolResults(s[i].calls)
      BY <1>1 DEF AllAnswered, AnsweredUpTo
  <2>2. t[i] = s[i] /\ t[i + 1] = s[i + 1]
      BY <1>1, <2>1
  <2>3. QED
      BY <1>1, <2>1, <2>2
<1>3. AnsweredButLast(t)
    BY <1>1, <1>2 DEF AnsweredButLast, AnsweredUpTo
<1>4. ASSUME ~IsCall(e) PROVE AllAnswered(t)
  <2>1. \A i \in 1 .. Len(t) : i \in 1 .. Len(s) \/ i = Len(s) + 1
      BY <1>1
  <2>2. QED
      BY <1>1, <1>2, <1>4, <2>1 DEF AllAnswered, AnsweredUpTo
<1>5. QED
    BY <1>3, <1>4 DEF t

\* The results close the round.
LEMMA ResultsAnswer ==
    ASSUME NEW s \in Seq(Entry), AnsweredButLast(s), s # <<>>,
           NEW c \in Batches, s[Len(s)] = Assistant(c, "tool_use")
    PROVE  AllAnswered(Append(s, ToolResults(c)))
<1> DEFINE e == ToolResults(c)
           t == Append(s, e)
<1>0. e \in Entry
    BY EntryFacts
<1>1. /\ Len(t) = Len(s) + 1 /\ Len(s) \in Nat \ {0}
      /\ \A i \in 1 .. Len(s) : t[i] = s[i]
      /\ t[Len(s) + 1] = e
    BY <1>0
<1>2. e.kind # "assistant"
    BY DEF ToolResults
<1>c. s[Len(s)].calls = c
    BY DEF Assistant
<1> HIDE DEF t
<1>3. ASSUME NEW i \in 1 .. Len(t), IsCall(t[i])
      PROVE  i < Len(t) /\ t[i + 1] = ToolResults(t[i].calls)
  <2>1. CASE i = Len(s) + 1
      BY <2>1, <1>1, <1>2, <1>3 DEF IsCall
  <2>2. CASE i = Len(s)
      BY <2>2, <1>1, <1>c
  <2>3. CASE i \in 1 .. Len(s) - 1
    <3>1. t[i] = s[i] /\ t[i + 1] = s[i + 1]
        BY <1>1, <2>3
    <3>2. QED
        BY <3>1, <1>1, <1>3, <2>3 DEF AnsweredButLast, AnsweredUpTo
  <2>4. QED
      BY <1>1, <2>1, <2>2, <2>3
<1>4. QED
    BY <1>3 DEF AllAnswered, AnsweredUpTo, t

\* Two entries at once are two appends.
LEMMA AppendTwo ==
    ASSUME NEW S, NEW s \in Seq(S), NEW a \in S, NEW b \in S
    PROVE  s \o << a, b >> = Append(Append(s, a), b)
OBVIOUS

\* The shape of the transcript, by where the turn is.
RoundsInv ==
    /\ pc \in { "top", "send", "stream" } => AllAnswered(appended)
    /\ pc \in { "tools", "done" } => AnsweredButLast(appended)

\* An answered list is answered but for its last entry.
LEMMA Weaken == ASSUME NEW s \in Seq(Entry), AllAnswered(s) PROVE AnsweredButLast(s)
BY DEF AllAnswered, AnsweredButLast, AnsweredUpTo

\* Every step keeps the transcript answered.
LEMMA RoundsStep == TypeInv /\ RoundsInv /\ [Next]_vars => RoundsInv'
<1> SUFFICES ASSUME TypeInv, RoundsInv, [Next]_vars PROVE RoundsInv'
    OBVIOUS
<1>0. appended \in Seq(Entry) /\ pc \in { "top", "send", "stream", "tools", "done" }
    BY DEF TypeInv, TypeOK
<1>s. ASSUME UNCHANGED appended,
             \/ pc' = pc
             \/ pc \in { "top", "send", "stream" } /\ pc' # "tools"
      PROVE  RoundsInv'
    BY <1>s, <1>0, Weaken DEF RoundsInv
<1>n. ASSUME NEW e \in Entry, pc \in { "top", "stream" },
             appended' = Append(appended, e), pc' \in { "tools", "done" }
      PROVE  RoundsInv'
    BY <1>n, <1>0, AppendAnswered DEF RoundsInv
<1>1. CASE IterationCap
  <2>1. \/ UNCHANGED appended
        \/ appended' = Append(appended, Notice("iteration_cap"))
      BY <1>1 DEF IterationCap
  <2>2. QED
      BY <1>1, <2>1, <1>s, <1>n, EntryFacts DEF IterationCap, Finish
<1>2. CASE AbortSeen
    BY <1>2, <1>s, <1>n, EntryFacts DEF AbortSeen, Finish
<1>3. CASE BeginIteration \/ Send \/ SetAbort
    BY <1>3, <1>s DEF BeginIteration, Send, SetAbort
<1>4. CASE Errored
  <2>1. PICK e \in Failure : \/ SilentRetry(e) \/ Failover(e) \/ CompressThenRetryStep(e)
                             \/ TerminalError(e) \/ PlainRetry(e)
      BY <1>4 DEF Errored
  <2>2. CASE SilentRetry(e) \/ Failover(e) \/ CompressThenRetryStep(e) \/ PlainRetry(e)
      BY <2>2, <1>s DEF SilentRetry, Failover, CompressThenRetryStep, PlainRetry, Failed
  <2>3. CASE TerminalError(e)
    <3>1. PICK calls \in Batches, stop \in {"error"} \cup StopReason :
               appended' = Append(appended, Assistant(calls, stop))
        BY <2>3 DEF TerminalError
    <3>2. Assistant(calls, stop) \in Entry
        BY EntryFacts
    <3>3. pc = "stream" /\ pc' = "done"
        BY <2>3 DEF TerminalError, Failed, Finish
    <3>4. QED
        BY <3>1, <3>2, <3>3, <1>n
  <2>4. QED
      BY <2>1, <2>2, <2>3
<1>5. CASE Answered
  <2>1. PICK m \in Reply : \/ LengthRecovery(m) \/ StopRecovery(m)
                           \/ FinalAnswer(m) \/ StartTools(m)
      BY <1>5 DEF Answered
  <2>2. Assistant(m.calls, m.stop) \in Entry /\ Nudge \in Entry
      BY EntryFacts DEF Reply
  <2>3. CASE LengthRecovery(m)
      BY <2>3, <1>s DEF LengthRecovery, Replied
  <2>4. CASE StopRecovery(m)
    <3>1. m.calls = <<>>
        BY <2>4 DEF StopRecovery, EmptyApplies, IsRecoverableEmpty, Silence
    <3>2. ~IsCall(Assistant(m.calls, m.stop)) /\ ~IsCall(Nudge)
        BY <3>1 DEF IsCall, Assistant, Nudge
    <3>3. appended' = Append(Append(appended, Assistant(m.calls, m.stop)), Nudge)
        BY <2>4, <2>2, <1>0, AppendTwo DEF StopRecovery
    <3>4. AllAnswered(appended)
        BY <2>4 DEF StopRecovery, Replied, RoundsInv
    <3>5. AllAnswered(Append(appended, Assistant(m.calls, m.stop)))
        BY <3>2, <3>4, <2>2, <1>0, AppendAnswered
    <3>a. Append(appended, Assistant(m.calls, m.stop)) \in Seq(Entry)
        BY <2>2, <1>0
    <3>b. AllAnswered(Append(Append(appended, Assistant(m.calls, m.stop)), Nudge))
        BY <3>2, <3>5, <3>a, <2>2, AppendAnswered
    <3>6. AllAnswered(appended')
        BY <3>3, <3>b
    <3>7. pc' = "top"
        BY <2>4 DEF StopRecovery
    <3>8. QED
        BY <3>6, <3>7 DEF RoundsInv
  <2>5. CASE FinalAnswer(m) \/ StartTools(m)
      BY <2>5, <2>2, <1>n DEF FinalAnswer, StartTools, Replied, Finish
  <2>6. QED
      BY <2>1, <2>3, <2>4, <2>5
<1>6. CASE ToolSteps
  <2>1. ASSUME NEW i \in DOMAIN results, NEW out \in Outcome \ {"pending"},
               ToolReturns(i, out)
        PROVE  RoundsInv'
      BY <2>1, <1>s DEF ToolReturns
  <2>2. ASSUME CloseBatch
        PROVE  /\ Append(appended, ToolResults(batch)) \in Seq(Entry)
               /\ AllAnswered(Append(appended, ToolResults(batch)))
    <3>1. batch \in Batches /\ ToolResults(batch) \in Entry
        BY <2>2, ClosedBatchFacts
    <3>2. /\ AnsweredButLast(appended) /\ appended # <<>>
          /\ appended[Len(appended)] = Assistant(batch, "tool_use")
        BY <2>2 DEF CloseBatch, AllReturned, RoundsInv, TypeInv, BatchOnTop
    <3>3. QED
        BY <3>1, <3>2, <1>0, ResultsAnswer
  <2>3. ASSUME CloseBatch, NEW e \in Entry, ~IsCall(e),
               appended' = appended \o << ToolResults(batch), e >>
        PROVE  AllAnswered(appended') /\ AnsweredButLast(appended')
    <3>1. ToolResults(batch) \in Entry
        BY <2>3, ClosedBatchFacts
    <3>2. appended' = Append(Append(appended, ToolResults(batch)), e)
        BY <2>3, <3>1, <1>0, AppendTwo
    <3>3. QED
        BY <3>2, <2>2, <2>3, AppendAnswered
  <2>4. /\ ~IsCall(Nudge)
        /\ \A w \in {"unknown_tools", "arg_loop"} : ~IsCall(Notice(w))
      BY DEF IsCall, Nudge, Notice
  <2>5. CASE ReinjectToolList
      BY <2>5, <2>3, <2>4, EntryFacts DEF ReinjectToolList, RoundsInv
  <2>6. CASE UnknownToolAbort
      BY <2>6, <2>3, <2>4, EntryFacts DEF UnknownToolAbort, Finish, RoundsInv
  <2>7. CASE ArgLoopAbort
      BY <2>7, <2>3, <2>4, EntryFacts DEF ArgLoopAbort, Finish, RoundsInv
  <2>8. CASE NextRound
      BY <2>8, <2>2 DEF NextRound, RoundsInv
  <2>9. QED
      BY <1>6, <2>1, <2>5, <2>6, <2>7, <2>8 DEF ToolSteps
<1>7. CASE UNCHANGED vars
    BY <1>7, <1>s DEF vars
<1>8. QED
    BY <1>1, <1>2, <1>3, <1>4, <1>5, <1>6, <1>7 DEF Next, Advance

\* The transcript holds no tool_use without its results, except in the message
\* whose batch is running or that ended the turn.
THEOREM CallsAreAnswered == Spec => []NoDanglingCalls
<1>1. Init => RoundsInv
    BY DEF Init, RoundsInv, AllAnswered, AnsweredUpTo
<1>2. TypeInv /\ RoundsInv => NoDanglingCalls
  <2> SUFFICES ASSUME TypeInv, RoundsInv,
                      NEW i \in 1 .. Len(appended), IsCall(appended[i])
               PROVE  IF i = Len(appended) THEN pc \in { "tools", "done" }
                      ELSE appended[i + 1] = ToolResults(appended[i].calls)
      BY DEF NoDanglingCalls, IsCall
  <2>1. appended \in Seq(Entry) /\ pc \in { "top", "send", "stream", "tools", "done" }
      BY DEF TypeInv, TypeOK
  <2>2. CASE pc \in { "tools", "done" }
      BY <2>1, <2>2 DEF RoundsInv, AnsweredButLast, AnsweredUpTo
  <2>3. CASE pc \in { "top", "send", "stream" }
      BY <2>1, <2>3 DEF RoundsInv, AllAnswered, AnsweredUpTo
  <2>4. QED
      BY <2>1, <2>2, <2>3
<1>3. QED
    BY <1>1, <1>2, RoundsStep, TypeInvariance, PTL DEF Spec

-----------------------------------------------------------------------------
(***************************************************************************)
(* The attempt budget.  Within an outer iteration every attempt but the    *)
(* first is paid for by a silent retry, a retry or a move along the chain; *)
(* the moves are counted once for the whole turn by ChainWalk.             *)
(***************************************************************************)
Spent(n) == n * PerIteration + ChainWalk

BudgetInv ==
    /\ pc \in { "send", "stream" } => iter >= 1
    /\ pc = "send" => attempts <= Spent(iter - 1) + retry + silent
    /\ pc = "stream" => attempts <= Spent(iter - 1) + retry + silent + 1
    /\ pc \in { "top", "tools", "done" } => attempts <= Spent(iter)
    /\ ~FailoverCycle => cycles = 0

\* The quantities of the budget are natural numbers.
LEMMA BudgetTypes ==
    ASSUME TypeOK
    PROVE  /\ PerIteration \in Nat /\ ChainLength \in Nat /\ MaxToolIterations \in Nat
           /\ iter \in Nat /\ retry \in Nat /\ silent \in Nat /\ attempts \in Nat
           /\ cycles \in Nat /\ cursor \in Nat /\ cursor < ChainLength
           /\ retry + silent + 1 <= PerIteration
           /\ iter <= MaxToolIterations /\ cycles <= ChainLength
BY TurnConstants, LimitFacts DEF TypeOK, PerIteration

\* Arithmetic: products grow with their first factor.
LEMMA MulNext == \A n \in Nat, k \in Nat : (n + 1) * k = n * k + k /\ n * k \in Nat
OBVIOUS

LEMMA MulMonotone ==
    \A m \in Nat, n \in Nat, k \in Nat : m <= n => m * k <= n * k
OBVIOUS

\* One more iteration allows PerIteration more attempts.
LEMMA SpentNext ==
    ASSUME TypeOK, NEW n \in Nat
    PROVE  /\ Spent(n) \in Nat /\ ChainWalk \in Nat
           /\ Spent(n + 1) = Spent(n) + PerIteration
<1>1. cycles * ChainLength \in Nat
    BY BudgetTypes, MulNext
<1>2. ChainWalk \in Nat
    BY <1>1, BudgetTypes DEF ChainWalk
<1>3. n * PerIteration \in Nat /\ (n + 1) * PerIteration = n * PerIteration + PerIteration
    BY BudgetTypes, MulNext
<1>4. QED
    BY <1>2, <1>3, BudgetTypes DEF Spent

\* A failover moves ChainWalk forward.
LEMMA FailoverAdvances ==
    ASSUME TypeOK, NEW e \in Failure, Failover(e)
    PROVE  ChainWalk' >= ChainWalk + 1 /\ ChainWalk' \in Nat
<1>1. /\ NextModel \in 0 .. ChainLength - 1 /\ NextModel # cursor
    BY NextModelFacts DEF Failover, FailoverApplies
<1>2. cursor' = NextModel /\ cycles' = IF NextModel < cursor THEN cycles + 1 ELSE cycles
    BY DEF Failover
<1>3. /\ cycles * ChainLength \in Nat
      /\ (cycles + 1) * ChainLength = cycles * ChainLength + ChainLength
    BY BudgetTypes, MulNext
<1>4. CASE NextModel < cursor
  <2>1. cycles' * ChainLength = cycles * ChainLength + ChainLength
      BY <1>2, <1>3, <1>4
  <2>2. QED
      BY <1>1, <1>2, <1>3, <2>1, BudgetTypes DEF ChainWalk
<1>5. CASE ~(NextModel < cursor)
  <2>1. cycles' * ChainLength = cycles * ChainLength
      BY <1>2, <1>5
  <2>2. NextModel > cursor
      BY <1>1, <1>5, BudgetTypes
  <2>3. QED
      BY <1>1, <1>2, <1>3, <2>1, <2>2, BudgetTypes DEF ChainWalk
<1>6. QED
    BY <1>4, <1>5

\* Every step stays within what it has been allowed.
LEMMA BudgetStep == TypeInv /\ BudgetInv /\ [Next]_vars => BudgetInv'
<1> SUFFICES ASSUME TypeInv, BudgetInv, [Next]_vars PROVE BudgetInv'
    OBVIOUS
<1>0. TypeOK
    BY DEF TypeInv
<1>t. /\ PerIteration \in Nat /\ iter \in Nat /\ retry \in Nat /\ silent \in Nat
      /\ attempts \in Nat /\ retry + silent + 1 <= PerIteration
    BY <1>0, BudgetTypes
<1>w. ChainWalk \in Nat /\ Spent(iter) \in Nat
    BY <1>0, <1>t, SpentNext
\* A step that leaves the chain alone leaves Spent alone.
<1>c. ASSUME UNCHANGED << cursor, cycles >>
      PROVE  /\ ChainWalk' = ChainWalk
             /\ \A n \in Nat : Spent(n)' = Spent(n)
    BY <1>c DEF ChainWalk, Spent, PerIteration
\* From inside an iteration to its end.
<1>e. ASSUME pc = "stream" PROVE iter >= 1 /\ attempts <= Spent(iter)
  <2>1. iter - 1 \in Nat /\ attempts <= Spent(iter - 1) + retry + silent + 1
      BY <1>e, <1>t DEF BudgetInv
  <2>2. Spent(iter - 1) \in Nat /\ Spent((iter - 1) + 1) = Spent(iter - 1) + PerIteration
      BY <1>0, <2>1, SpentNext
  <2>3. (iter - 1) + 1 = iter
      BY <1>t
  <2>4. QED
      BY <1>t, <2>1, <2>2, <2>3
<1>k. ASSUME UNCHANGED << cursor, cycles, iter, attempts >>,
             pc' \in { "top", "tools", "done" },
             pc \in { "top", "stream", "tools", "done" }
      PROVE  BudgetInv'
  <2>1. attempts <= Spent(iter)
      BY <1>e, <1>k DEF BudgetInv
  <2>2. Spent(iter)' = iter' * PerIteration + ChainWalk'
      BY DEF Spent, PerIteration
  <2>3. Spent(iter) = iter * PerIteration + ChainWalk
      BY DEF Spent
  <2>4. attempts' <= Spent(iter)'
      BY <1>c, <1>k, <2>1, <2>2, <2>3
  <2>5. QED
      BY <1>k, <2>4 DEF BudgetInv
<1>1. CASE IterationCap
    BY <1>1, <1>k DEF IterationCap, Finish, budgets
<1>2. CASE AbortSeen
  <2>1. /\ pc' = "done" /\ iter' = iter + 1
        /\ UNCHANGED << cursor, cycles, attempts >> /\ pc = "top"
      BY <1>2 DEF AbortSeen, Finish, budgets
  <2>2. attempts <= Spent(iter) /\ Spent(iter + 1) = Spent(iter) + PerIteration
      BY <2>1, <1>0, <1>t, SpentNext DEF BudgetInv
  <2>3. Spent(iter)' = Spent(iter + 1)
      BY <2>1, <1>c DEF Spent, PerIteration
  <2>4. attempts' <= Spent(iter)'
      BY <2>1, <2>2, <2>3, <1>t, <1>w
  <2>5. QED
      BY <2>1, <2>4 DEF BudgetInv
<1>3. CASE BeginIteration
  <2>1. /\ pc' = "send" /\ iter' = iter + 1 /\ retry' = 0 /\ silent' = 0
        /\ UNCHANGED << cursor, cycles, attempts >> /\ pc = "top"
      BY <1>3 DEF BeginIteration
  <2>2. attempts <= Spent(iter)
      BY <2>1 DEF BudgetInv
  <2>3. iter' - 1 = iter /\ iter' >= 1
      BY <2>1, <1>t
  <2>4. Spent(iter - 1)' = Spent(iter)
      BY <2>1, <2>3, <1>c DEF Spent, PerIteration
  <2>5. attempts' <= Spent(iter - 1)' + retry' + silent'
      BY <2>1, <2>2, <2>4, <1>t, <1>w
  <2>6. QED
      BY <2>1, <2>3, <2>5 DEF BudgetInv
<1> DEFINE base == Spent(iter - 1)
<1>b. ASSUME pc \in { "send", "stream" } PROVE iter - 1 \in Nat /\ base \in Nat
  <2>1. iter - 1 \in Nat
      BY <1>b, <1>t DEF BudgetInv
  <2>2. QED
      BY <2>1, <1>0, SpentNext
<1>u. ASSUME UNCHANGED << cursor, cycles, iter >> PROVE base' = base
    BY <1>u, <1>c DEF Spent, PerIteration
<1>4. CASE Send
  <2>1. /\ pc = "send" /\ pc' = "stream" /\ attempts' = attempts + 1
        /\ UNCHANGED << iter, retry, silent, cursor, cycles >>
      BY <1>4 DEF Send, budgets
  <2>2. attempts <= base + retry + silent /\ iter >= 1
      BY <2>1 DEF BudgetInv
  <2>3. attempts' <= base' + retry' + silent' + 1
      BY <2>1, <2>2, <1>u, <1>b, <1>t
  <2>4. QED
      BY <2>1, <2>2, <2>3 DEF BudgetInv
<1>5. CASE SetAbort
  <2>1. UNCHANGED << pc, iter, retry, silent, cursor, cycles, attempts >>
      BY <1>5 DEF SetAbort, budgets
  <2>2. QED
      BY <2>1, <1>c, <1>t DEF BudgetInv, Spent, PerIteration
<1>6. CASE Errored
  <2>1. PICK e \in Failure : \/ SilentRetry(e) \/ Failover(e) \/ CompressThenRetryStep(e)
                             \/ TerminalError(e) \/ PlainRetry(e)
      BY <1>6 DEF Errored
  <2>2. /\ pc = "stream" /\ attempts' = attempts /\ iter' = iter
      BY <2>1 DEF SilentRetry, Failover, CompressThenRetryStep, TerminalError, PlainRetry,
                  Failed
  <2>3. /\ attempts <= base + retry + silent + 1 /\ iter >= 1 /\ base \in Nat
      BY <2>2, <1>b DEF BudgetInv
  <2>4. CASE SilentRetry(e) \/ PlainRetry(e)
    <3>1. /\ pc' = "send" /\ UNCHANGED << cursor, cycles >>
          /\ \/ retry' = retry /\ silent' = silent + 1
             \/ retry' = retry + 1 /\ silent' = silent
        BY <2>4 DEF SilentRetry, PlainRetry
    <3>2. base' = base
        BY <3>1, <2>2, <1>u
    <3>3. attempts' <= base' + retry' + silent'
        BY <3>1, <3>2, <2>2, <2>3, <1>t
    <3>4. QED
        BY <3>1, <3>3, <2>2, <2>3 DEF BudgetInv
  <2>5. CASE Failover(e)
    <3>1. pc' = "send" /\ UNCHANGED << retry, silent >>
        BY <2>5 DEF Failover
    <3>2. ChainWalk' >= ChainWalk + 1 /\ ChainWalk' \in Nat
        BY <2>5, <1>0, FailoverAdvances
    <3>3. /\ base = (iter - 1) * PerIteration + ChainWalk
          /\ base' = (iter' - 1) * PerIteration + ChainWalk'
        BY DEF Spent, PerIteration
    <3>4. (iter - 1) * PerIteration \in Nat
        BY <2>2, <1>b, <1>t, MulNext
    <3>5. base' >= base + 1 /\ base' \in Nat
        BY <3>2, <3>3, <3>4, <2>2, <1>w
    <3>6. attempts' <= base' + retry' + silent'
        BY <3>1, <3>5, <2>2, <2>3, <1>t
    <3>7. ~FailoverCycle => cycles' = 0
        BY <2>5, <1>0, NextModelFacts DEF Failover, FailoverApplies, MayWrap, BudgetInv
    <3>8. QED
        BY <3>1, <3>6, <3>7, <2>2, <2>3 DEF BudgetInv
  <2>6. CASE CompressThenRetryStep(e) \/ TerminalError(e)
      BY <2>6, <2>2, <1>k DEF CompressThenRetryStep, TerminalError, Finish, budgets
  <2>7. QED
      BY <2>1, <2>4, <2>5, <2>6
<1>7. CASE Answered
  <2>1. PICK m \in Reply : \/ LengthRecovery(m) \/ StopRecovery(m)
                           \/ FinalAnswer(m) \/ StartTools(m)
      BY <1>7 DEF Answered
  <2>2. /\ pc = "stream" /\ UNCHANGED << cursor, cycles, iter, attempts >>
        /\ pc' \in { "top", "tools", "done" }
      BY <2>1 DEF LengthRecovery, StopRecovery, FinalAnswer, StartTools, Replied, Finish,
                  budgets
  <2>3. QED
      BY <2>2, <1>k
<1>8. CASE ToolSteps
  <2>1. /\ pc = "tools" /\ UNCHANGED << cursor, cycles, iter, attempts >>
        /\ pc' \in { "top", "tools", "done" }
      BY <1>8 DEF ToolSteps, ToolReturns, ReinjectToolList, UnknownToolAbort, ArgLoopAbort,
                  NextRound, CloseBatch, AllReturned, Finish, budgets
  <2>2. QED
      BY <2>1, <1>k
<1>9. CASE UNCHANGED vars
  <2>1. UNCHANGED << pc, iter, retry, silent, cursor, cycles, attempts >>
      BY <1>9 DEF vars
  <2>2. QED
      BY <2>1, <1>c, <1>t DEF BudgetInv, Spent, PerIteration
<1>10. QED
    BY <1>1, <1>2, <1>3, <1>4, <1>5, <1>6, <1>7, <1>8, <1>9 DEF Next, Advance

\* A turn makes a bounded number of provider calls, whatever the provider does.
THEOREM AttemptsAreBounded == Spec => []AttemptBudget
<1>1. Init => BudgetInv
  <2> SUFFICES ASSUME Init PROVE BudgetInv
      OBVIOUS
  <2>1. TypeOK
      BY TypeInit DEF TypeInv
  <2>2. Spent(iter) \in Nat
      BY <2>1, BudgetTypes, SpentNext
  <2>3. QED
      BY <2>2 DEF Init, BudgetInv
<1>2. TypeInv /\ BudgetInv => AttemptBudget
  <2> SUFFICES ASSUME TypeInv, BudgetInv PROVE AttemptBudget
      OBVIOUS
  <2> DEFINE cap == IF FailoverCycle THEN ChainLength * ChainLength ELSE 0
  <2>0. TypeOK
      BY DEF TypeInv
  <2>1. pc \in { "top", "send", "stream", "tools", "done" }
      BY <2>0 DEF TypeOK
  <2>2. attempts <= Spent(iter)
    <3>1. CASE pc \in { "top", "tools", "done" }
        BY <3>1 DEF BudgetInv
    <3>2. CASE pc \in { "send", "stream" }
      <4>1. /\ iter - 1 \in Nat
            /\ \/ attempts <= Spent(iter - 1) + retry + silent
               \/ attempts <= Spent(iter - 1) + retry + silent + 1
          BY <2>0, <3>2, BudgetTypes DEF BudgetInv
      <4>2. /\ Spent(iter - 1) \in Nat
            /\ Spent((iter - 1) + 1) = Spent(iter - 1) + PerIteration
          BY <2>0, <4>1, SpentNext
      <4>3. (iter - 1) + 1 = iter
          BY <2>0, BudgetTypes
      <4>4. QED
          BY <2>0, <4>1, <4>2, <4>3, BudgetTypes
    <3>3. QED
        BY <2>1, <3>1, <3>2
  <2>3. iter * PerIteration <= MaxToolIterations * PerIteration
      BY <2>0, BudgetTypes, MulMonotone
  <2>4. cycles * ChainLength <= cap
    <3>1. CASE FailoverCycle
        BY <3>1, <2>0, BudgetTypes, MulMonotone
    <3>2. CASE ~FailoverCycle
        BY <3>2, <2>0, BudgetTypes DEF BudgetInv
    <3>3. QED
        BY <3>1, <3>2
  <2>5. /\ iter * PerIteration \in Nat /\ MaxToolIterations * PerIteration \in Nat
        /\ cycles * ChainLength \in Nat /\ ChainLength * ChainLength \in Nat
      BY <2>0, BudgetTypes, MulNext
  <2>6. Spent(iter) = iter * PerIteration + (cycles * ChainLength + cursor)
      BY DEF Spent, ChainWalk
  <2>7. cap \in Nat
      BY <2>5
  <2> HIDE DEF cap
  <2>8. attempts <= MaxToolIterations * PerIteration + cap + ChainLength - 1
      BY <2>0, <2>2, <2>3, <2>4, <2>5, <2>6, <2>7, BudgetTypes
  <2>9. QED
      BY <2>8 DEF AttemptBudget, cap
<1>3. QED
    BY <1>1, <1>2, BudgetStep, TypeInvariance, PTL DEF Spec

-----------------------------------------------------------------------------
(***************************************************************************)
(* Abort.  A turn that has seen the abort event between attempts is        *)
(* winding down: any attempt it still makes is cut at its first chunk.     *)
(***************************************************************************)
WindingDown ==
    /\ abort
    /\ \/ pc \in { "top", "send", "done" }
       \/ pc = "stream" /\ sentAborted

\* Winding down is final.
LEMMA WindingDownStep == WindingDown /\ [Next]_vars => WindingDown'
<1> SUFFICES ASSUME WindingDown, [Next]_vars PROVE WindingDown'
    OBVIOUS
<1> USE DEF WindingDown
<1>1. CASE IterationCap \/ AbortSeen \/ BeginIteration \/ Send \/ SetAbort
    BY <1>1 DEF IterationCap, AbortSeen, BeginIteration, Send, SetAbort, Finish
<1>2. CASE Errored
    BY <1>2 DEF Errored, SilentRetry, Failover, CompressThenRetryStep, TerminalError,
                PlainRetry, Finish, Failed
<1>3. CASE Answered
  <2>1. PICK m \in Reply : \/ LengthRecovery(m) \/ StopRecovery(m)
                           \/ FinalAnswer(m) \/ StartTools(m)
      BY <1>3 DEF Answered
  <2>2. CASE StartTools(m)
      BY <2>2 DEF StartTools, Replied, WantsTools, NothingStreamed
  <2>3. CASE LengthRecovery(m) \/ StopRecovery(m) \/ FinalAnswer(m)
      BY <2>3 DEF LengthRecovery, StopRecovery, FinalAnswer, Finish
  <2>4. QED
      BY <2>1, <2>2, <2>3
<1>4. CASE ToolSteps
    BY <1>4 DEF ToolSteps, ToolReturns, ReinjectToolList, UnknownToolAbort, ArgLoopAbort,
                NextRound, CloseBatch, AllReturned
<1>5. CASE UNCHANGED vars
    BY <1>5 DEF vars
<1>6. QED
    BY <1>1, <1>2, <1>3, <1>4, <1>5 DEF Next, Advance

\* After an abort seen between attempts no tool batch ever starts.
THEOREM AbortHolds == Spec => AbortStopsTools
<1>1. abort /\ pc \in { "top", "send" } => WindingDown
    BY DEF WindingDown
<1>2. WindingDown => pc # "tools"
    BY DEF WindingDown
<1>3. QED
    BY <1>1, <1>2, WindingDownStep, PTL DEF Spec, AbortStopsTools

-----------------------------------------------------------------------------
(***************************************************************************)
(* Refinement.  run_agent_turn implements AgentTurn: each of its steps     *)
(* either leaves the committed transcript and the outcome alone, or adds a *)
(* whole round, or closes the turn.  While a batch runs its message is not *)
(* committed, so that the round appears with its results.                  *)
(***************************************************************************)
\* The turn is open until the step that fixes its outcome.
OpenUntilDone == (stopped = "running") <=> pc # "done"

\* Everything but the last entry, and the last entry, make up the list.
LEMMA Split ==
    ASSUME NEW s \in Seq(Entry), s # <<>>
    PROVE  /\ SubSeq(s, 1, Len(s) - 1) \in Seq(Entry)
           /\ s = SubSeq(s, 1, Len(s) - 1) \o << s[Len(s)] >>
           /\ \A e \in Entry : SubSeq(Append(s, e), 1, Len(Append(s, e)) - 1) = s
<1>1. SubSeq(s, 1, Len(s) - 1) \in Seq(Entry)
    OBVIOUS
<1>2. s = SubSeq(s, 1, Len(s) - 1) \o << s[Len(s)] >>
    OBVIOUS
<1>3. ASSUME NEW e \in Entry PROVE SubSeq(Append(s, e), 1, Len(Append(s, e)) - 1) = s
    OBVIOUS
<1>4. QED
    BY <1>1, <1>2, <1>3

\* A list that grew by t extends the old one, and what was added is t.
LEMMA Grown ==
    ASSUME NEW s \in Seq(Entry), NEW t \in Seq(Entry)
    PROVE  /\ Len(s \o t) >= Len(s)
           /\ SubSeq(s \o t, 1, Len(s)) = s
           /\ SubSeq(s \o t, Len(s) + 1, Len(s \o t)) = t
<1>1. Len(s \o t) = Len(s) + Len(t) /\ Len(s) \in Nat /\ Len(t) \in Nat
    OBVIOUS
<1>2. SubSeq(s \o t, 1, Len(s)) = s
    OBVIOUS
<1>3. SubSeq(s \o t, Len(s) + 1, Len(s \o t)) = t
    OBVIOUS
<1>4. QED
    BY <1>1, <1>2, <1>3

\* What the abstract turn calls added is what was concatenated.
LEMMA AddedFacts ==
    ASSUME Committed \in Seq(Entry), NEW t \in Seq(Entry), Committed' = Committed \o t
    PROVE  Abstract!Extends /\ Abstract!Added = t
BY Grown DEF Abstract!Extends, Abstract!Added

\* What is committed, by where the turn is.
LEMMA CommittedFacts ==
    ASSUME TypeInv
    PROVE  /\ Committed \in Seq(Entry) /\ appended \in Seq(Entry)
           /\ pc # "tools" => Committed = appended
           /\ pc = "tools" =>
                 /\ batch \in Batches /\ batch # <<>>
                 /\ appended = Committed \o << Assistant(batch, "tool_use") >>
<1>1. appended \in Seq(Entry)
    BY DEF TypeInv, TypeOK
<1>2. CASE pc = "tools"
  <2>1. /\ appended # <<>> /\ appended[Len(appended)] = Assistant(batch, "tool_use")
        /\ batch \in Batches /\ batch # <<>>
      BY <1>2 DEF TypeInv, TypeOK, BatchOnTop
  <2>2. Committed = SubSeq(appended, 1, Len(appended) - 1)
      BY <1>2 DEF Committed
  <2>3. QED
      BY <1>1, <1>2, <2>1, <2>2, Split
<1>3. CASE pc # "tools"
    BY <1>1, <1>3 DEF Committed
<1>4. QED
    BY <1>2, <1>3

\* The three kinds of steps of the abstract turn, from what they add.
LEMMA StutterStep ==
    ASSUME Committed' = Committed, stopped' = stopped
    PROVE  [Abstract!ANext]_(Abstract!avars)
BY DEF Abstract!avars

LEMMA ReAskStep ==
    ASSUME Committed \in Seq(Entry), stopped = "running", stopped' = stopped,
           NEW a \in Entry, IsCall(a) = FALSE, a.kind = "assistant",
           Committed' = Committed \o << a, Nudge >>
    PROVE  Abstract!ANext
<1>1. << a, Nudge >> \in Seq(Entry)
    BY EntryFacts
<1>2. Abstract!Extends /\ Abstract!Added = << a, Nudge >>
    BY <1>1, AddedFacts
<1>3. a.calls = <<>> /\ Nudge.kind = "nudge"
    BY DEF IsCall, Nudge
<1>4. QED
    BY <1>2, <1>3 DEF Abstract!ANext, Abstract!ReAsk, Abstract!IsAssistant

LEMMA ToolRoundStep ==
    ASSUME Committed \in Seq(Entry), stopped = "running", stopped' = stopped,
           NEW c \in Batches, c # <<>>,
           \/ Committed' = Committed \o << Assistant(c, "tool_use"), ToolResults(c) >>
           \/ Committed' = Committed \o << Assistant(c, "tool_use"), ToolResults(c), Nudge >>
    PROVE  Abstract!ANext
<1> DEFINE a == Assistant(c, "tool_use")
           r == ToolResults(c)
<1>1. a \in Entry /\ r \in Entry /\ Nudge \in Entry
    BY EntryFacts DEF StopReason
<1>2. /\ a.kind = "assistant" /\ a.calls = c
      /\ r.kind = "results" /\ r.calls = c /\ Nudge.kind = "nudge"
    BY DEF Assistant, ToolResults, Nudge
<1> HIDE DEF a, r
<1>3. << a, r >> \in Seq(Entry) /\ << a, r, Nudge >> \in Seq(Entry)
    BY <1>1
<1>4. Abstract!Extends /\ Abstract!Added \in { << a, r >>, << a, r, Nudge >> }
    BY <1>3, AddedFacts DEF a, r
<1>5. PICK z \in Seq(Entry) : z = Abstract!Added /\ z \in { << a, r >>, << a, r, Nudge >> }
    BY <1>3, <1>4
<1>6. /\ Len(z) \in { 2, 3 } /\ z[1] = a /\ z[2] = r
      /\ Len(z) = 3 => z[3] = Nudge
  <2> HIDE DEF Nudge
  <2>1. CASE z = << a, r >>
      BY <2>1
  <2>2. CASE z = << a, r, Nudge >>
      BY <2>2
  <2>3. QED
      BY <1>5, <2>1, <2>2
<1>7. /\ Len(Abstract!Added) \in { 2, 3 }
      /\ Abstract!IsAssistant(Abstract!Added[1])
      /\ Abstract!Answers(Abstract!Added[2], Abstract!Added[1])
      /\ Len(Abstract!Added) = 3 => Abstract!Added[3].kind = "nudge"
    BY <1>2, <1>5, <1>6 DEF Abstract!IsAssistant, Abstract!Answers
<1>8. Abstract!ToolRound
    BY <1>4, <1>7 DEF Abstract!ToolRound
<1>9. QED
    BY <1>8 DEF Abstract!ANext

LEMMA CloseStep ==
    ASSUME Committed \in Seq(Entry), stopped = "running", stopped' # "running",
           NEW t \in Seq(Entry), Committed' = Committed \o t,
           \/ t = <<>>
           \/ \E e \in Entry : t = << e >> /\ e.kind \in { "assistant", "notice" }
           \/ \E c \in Batches, w \in { "unknown_tools", "arg_loop" } :
                 /\ c # <<>>
                 /\ t = << Assistant(c, "tool_use"), ToolResults(c), Notice(w) >>
    PROVE  Abstract!ANext
<1>1. Abstract!Extends /\ Abstract!Added = t
    BY AddedFacts
<1>2. CASE t = <<>>
    BY <1>1, <1>2 DEF Abstract!ANext, Abstract!Close
<1>3. CASE \E e \in Entry : t = << e >> /\ e.kind \in { "assistant", "notice" }
    BY <1>1, <1>3 DEF Abstract!ANext, Abstract!Close
<1>4. ASSUME NEW c \in Batches, NEW w \in { "unknown_tools", "arg_loop" }, c # <<>>,
             t = << Assistant(c, "tool_use"), ToolResults(c), Notice(w) >>
      PROVE  Abstract!ANext
  <2>1. /\ Len(t) = 3 /\ t[1] = Assistant(c, "tool_use")
        /\ t[2] = ToolResults(c) /\ t[3] = Notice(w)
      BY <1>4
  <2>2. /\ t[1].kind = "assistant" /\ t[1].calls = c
        /\ t[2].kind = "results" /\ t[2].calls = c /\ t[3].kind = "notice"
      BY <2>1 DEF Assistant, ToolResults, Notice
  <2>3. QED
      BY <1>1, <1>4, <2>1, <2>2 DEF Abstract!ANext, Abstract!Close, Abstract!IsAssistant,
                                    Abstract!Answers
<1>5. QED
    BY <1>2, <1>3, <1>4

\* The outcome is fixed by the step that ends the turn, and by no other.
LEMMA OpenStep == TypeInv /\ OpenUntilDone /\ [Next]_vars => OpenUntilDone'
<1> SUFFICES ASSUME TypeInv, OpenUntilDone, [Next]_vars PROVE OpenUntilDone'
    OBVIOUS
<1> USE DEF OpenUntilDone
<1>1. CASE IterationCap \/ AbortSeen \/ BeginIteration \/ Send \/ SetAbort
    BY <1>1 DEF IterationCap, AbortSeen, BeginIteration, Send, SetAbort, Finish
<1>2. CASE Errored
    BY <1>2 DEF Errored, SilentRetry, Failover, CompressThenRetryStep, TerminalError,
                PlainRetry, Finish, Failed
<1>3. CASE Answered
  <2>1. PICK m \in Reply : \/ LengthRecovery(m) \/ StopRecovery(m)
                           \/ FinalAnswer(m) \/ StartTools(m)
      BY <1>3 DEF Answered
  <2>2. m.stop # "running"
      BY DEF Reply, StopReason
  <2>3. QED
      BY <2>1, <2>2 DEF LengthRecovery, StopRecovery, FinalAnswer, StartTools, Finish, Replied
<1>4. CASE ToolSteps
    BY <1>4 DEF ToolSteps, ToolReturns, ReinjectToolList, UnknownToolAbort, ArgLoopAbort,
                NextRound, CloseBatch, AllReturned, Finish
<1>5. CASE UNCHANGED vars
    BY <1>5 DEF vars
<1>6. QED
    BY <1>1, <1>2, <1>3, <1>4, <1>5 DEF Next, Advance

\* Every step of the turn is a step of the abstract turn, or none.
LEMMA RefinesStep ==
    TypeInv /\ TypeInv' /\ OpenUntilDone /\ OpenUntilDone' /\ [Next]_vars
        => [Abstract!ANext]_(Abstract!avars)
<1> SUFFICES ASSUME TypeInv, TypeInv', OpenUntilDone, OpenUntilDone', [Next]_vars
             PROVE  [Abstract!ANext]_(Abstract!avars)
    OBVIOUS
<1>0. /\ Committed \in Seq(Entry) /\ appended \in Seq(Entry)
      /\ pc # "tools" => Committed = appended
      /\ pc = "tools" => /\ batch \in Batches /\ batch # <<>>
                         /\ appended = Committed \o << Assistant(batch, "tool_use") >>
    BY CommittedFacts
<1>c. pc' # "tools" => Committed' = appended'
    BY DEF Committed
<1>s. ASSUME pc # "tools", pc' # "tools", appended' = appended, stopped' = stopped
      PROVE  [Abstract!ANext]_(Abstract!avars)
    BY <1>0, <1>c, <1>s, StutterStep
<1>d. ASSUME pc \in { "top", "stream" }, pc' = "done",
             NEW e \in Entry, e.kind \in { "assistant", "notice" },
             appended' = appended \/ appended' = Append(appended, e)
      PROVE  [Abstract!ANext]_(Abstract!avars)
  <2>1. /\ stopped = "running" /\ stopped' # "running"
        /\ Committed = appended /\ Committed' = appended'
      BY <1>0, <1>c, <1>d DEF OpenUntilDone
  <2>2. CASE appended' = appended
    <3>1. Committed' = Committed \o <<>> /\ <<>> \in Seq(Entry)
        BY <1>0, <2>1, <2>2
    <3>2. QED
        BY <1>0, <2>1, <3>1, CloseStep
  <2>3. CASE appended' = Append(appended, e)
    <3>1. Committed' = Committed \o << e >> /\ << e >> \in Seq(Entry)
        BY <1>0, <2>1, <2>3
    <3>2. QED
        BY <1>0, <1>d, <2>1, <3>1, CloseStep
  <2>4. QED
      BY <1>d, <2>2, <2>3
<1>k. /\ \A c \in Batches, s \in {"error"} \cup StopReason : Assistant(c, s).kind = "assistant"
      /\ \A w \in {"iteration_cap", "yielded"} : Notice(w).kind = "notice"
    BY DEF Assistant, Notice
<1>1. CASE IterationCap
    BY <1>1, <1>d, <1>k, EntryFacts DEF IterationCap, Finish
<1>2. CASE AbortSeen
    BY <1>2, <1>d, <1>k, EntryFacts DEF AbortSeen, Finish
<1>3. CASE BeginIteration \/ Send
    BY <1>3, <1>s DEF BeginIteration, Send
<1>4. CASE Errored
  <2>1. PICK e \in Failure : \/ SilentRetry(e) \/ Failover(e) \/ CompressThenRetryStep(e)
                             \/ TerminalError(e) \/ PlainRetry(e)
      BY <1>4 DEF Errored
  <2>2. CASE SilentRetry(e) \/ Failover(e) \/ CompressThenRetryStep(e) \/ PlainRetry(e)
      BY <2>2, <1>s DEF SilentRetry, Failover, CompressThenRetryStep, PlainRetry, Failed
  <2>3. CASE TerminalError(e)
    <3>1. PICK calls \in Batches, stop \in {"error"} \cup StopReason :
               appended' = Append(appended, Assistant(calls, stop))
        BY <2>3 DEF TerminalError
    <3>2. Assistant(calls, stop) \in Entry /\ Assistant(calls, stop).kind = "assistant"
        BY <1>k, EntryFacts
    <3>3. pc = "stream" /\ pc' = "done"
        BY <2>3 DEF TerminalError, Failed, Finish
    <3>4. QED
        BY <3>1, <3>2, <3>3, <1>d
  <2>4. QED
      BY <2>1, <2>2, <2>3
<1>5. CASE Answered
  <2>1. PICK m \in Reply : \/ LengthRecovery(m) \/ StopRecovery(m)
                           \/ FinalAnswer(m) \/ StartTools(m)
      BY <1>5 DEF Answered
  <2>2. Assistant(m.calls, m.stop) \in Entry /\ Assistant(m.calls, m.stop).kind = "assistant"
      BY <1>k, EntryFacts DEF Reply
  <2>3. CASE LengthRecovery(m)
      BY <2>3, <1>s DEF LengthRecovery, Replied
  <2>4. CASE StopRecovery(m)
    <3>1. m.calls = <<>>
        BY <2>4 DEF StopRecovery, EmptyApplies, IsRecoverableEmpty, Silence
    <3>2. IsCall(Assistant(m.calls, m.stop)) = FALSE
        BY <3>1 DEF IsCall, Assistant
    <3>3. /\ pc = "stream" /\ pc' = "top"
          /\ appended' = appended \o << Assistant(m.calls, m.stop), Nudge >>
        BY <2>4 DEF StopRecovery, Replied
    <3>4. stopped = "running" /\ stopped' = stopped
        BY <3>3 DEF OpenUntilDone
    <3>5. Committed' = Committed \o << Assistant(m.calls, m.stop), Nudge >>
        BY <1>0, <1>c, <3>3
    <3>6. QED
        BY <1>0, <2>2, <3>2, <3>4, <3>5, ReAskStep
  <2>5. CASE FinalAnswer(m)
      BY <2>5, <2>2, <1>d DEF FinalAnswer, Replied, Finish
  <2>6. CASE StartTools(m)
    <3>1. /\ pc = "stream" /\ pc' = "tools" /\ stopped' = stopped
          /\ appended' = Append(appended, Assistant(m.calls, m.stop))
        BY <2>6 DEF StartTools, Replied
    <3>2. Committed' = SubSeq(appended', 1, Len(appended') - 1)
        BY <3>1 DEF Committed
    <3>3. SubSeq(appended', 1, Len(appended') - 1) = appended
        BY <1>0, <2>2, <3>1
    <3>4. QED
        BY <1>0, <3>1, <3>2, <3>3, StutterStep
  <2>7. QED
      BY <2>1, <2>3, <2>4, <2>5, <2>6
<1>6. CASE ToolSteps
  <2> DEFINE a == Assistant(batch, "tool_use")
             r == ToolResults(batch)
  <2>0. pc = "tools" /\ stopped = "running"
      BY <1>6 DEF ToolSteps, ToolReturns, ReinjectToolList, UnknownToolAbort, ArgLoopAbort,
                  NextRound, CloseBatch, AllReturned, OpenUntilDone
  <2>1. /\ batch \in Batches /\ batch # <<>>
        /\ appended = Committed \o << a >>
        /\ a \in Entry /\ r \in Entry
      BY <1>0, <2>0, EntryFacts DEF StopReason
  <2>2. ASSUME NEW i \in DOMAIN results, NEW out \in Outcome \ {"pending"},
               ToolReturns(i, out)
        PROVE  [Abstract!ANext]_(Abstract!avars)
      BY <2>2, StutterStep DEF ToolReturns, Committed
  <2> HIDE DEF a, r
  <2>3. \A e \in Entry : appended \o << r, e >> = Committed \o << a, r, e >>
      BY <1>0, <2>1
  <2>4. CASE NextRound
    <3>1. pc' = "top" /\ stopped' = stopped /\ appended' = Append(appended, r)
        BY <2>4 DEF NextRound, r
    <3>2. Append(appended, r) = Committed \o << a, r >>
        BY <1>0, <2>1
    <3>3. Committed' = Committed \o << a, r >>
        BY <1>c, <3>1, <3>2
    <3>4. QED
        BY <1>0, <2>0, <2>1, <3>1, <3>3, ToolRoundStep DEF a, r
  <2>5. CASE ReinjectToolList
    <3>1. pc' = "top" /\ stopped' = stopped /\ appended' = appended \o << r, Nudge >>
        BY <2>5 DEF ReinjectToolList, r
    <3>2. Committed' = Committed \o << a, r, Nudge >>
        BY <1>c, <2>3, <3>1, EntryFacts
    <3>3. QED
        BY <1>0, <2>0, <2>1, <3>1, <3>2, ToolRoundStep DEF a, r
  <2>6. ASSUME NEW w \in { "unknown_tools", "arg_loop" }, pc' = "done",
               appended' = appended \o << r, Notice(w) >>
        PROVE  [Abstract!ANext]_(Abstract!avars)
    <3>1. Notice(w) \in Entry
        BY EntryFacts
    <3>2. Committed' = Committed \o << a, r, Notice(w) >>
        BY <1>c, <2>3, <2>6, <3>1
    <3>3. << a, r, Notice(w) >> \in Seq(Entry)
        BY <2>1, <3>1
    <3>4. stopped' # "running"
        BY <2>6 DEF OpenUntilDone
    <3>5. QED
        BY <1>0, <2>0, <2>1, <3>2, <3>3, <3>4, CloseStep DEF a, r
  <2>7. CASE UnknownToolAbort
      BY <2>6, <2>7 DEF UnknownToolAbort, Finish, r
  <2>8. CASE ArgLoopAbort
      BY <2>6, <2>8 DEF ArgLoopAbort, Finish, r
  <2>9. QED
      BY <1>6, <2>2, <2>4, <2>5, <2>7, <2>8 DEF ToolSteps
<1>7. CASE SetAbort
    BY <1>7, StutterStep DEF SetAbort, Committed
<1>8. CASE UNCHANGED vars
    BY <1>8, StutterStep DEF vars, Committed
<1>9. QED
    BY <1>1, <1>2, <1>3, <1>4, <1>5, <1>6, <1>7, <1>8 DEF Next, Advance

\* run_agent_turn implements the abstract turn: the transcript it returns grows
\* by whole rounds only, and is closed exactly once.
THEOREM TurnImplements == Spec => ImplementsAgentTurn
<1>1. Init => Abstract!AInit /\ OpenUntilDone
    BY DEF Init, Abstract!AInit, Committed, OpenUntilDone
<1>2. Spec => [](TypeInv /\ OpenUntilDone)
    BY <1>1, OpenStep, TypeInvariance, PTL DEF Spec
<1>3. QED
    BY <1>1, <1>2, RefinesStep, PTL DEF Spec, ImplementsAgentTurn, Abstract!Spec

-----------------------------------------------------------------------------
(***************************************************************************)
(* Loop detection.  Run(s, q) are the calls, up to the call q, that equal  *)
(* it without a different one in between.  Until the tool list is re-sent  *)
(* the detector's streak is the length of the run of the last call, and    *)
(* its key is that call; a batch without a hit then leaves every run below *)
(* the threshold.                                                          *)
(***************************************************************************)
Run(s, q) ==
    { x \in CallsOf(s) :
        NotAfter(x, q) /\ \A y \in Span(s, x, q) : CallAt(s, y) = CallAt(s, q) }

Watched(s, streak, key) ==
    /\ \A q \in CallsOf(s) : Cardinality(Run(s, q)) < ArgLoopThreshold
    /\ CallsOf(s) = {} => key = NoKey
    /\ CallsOf(s) # {} =>
          \E z \in CallsOf(s) :
              /\ \A x \in CallsOf(s) : NotAfter(x, z)
              /\ key = << CallAt(s, z) >>
              /\ streak = Cardinality(Run(s, z))

Detected == (pc # "done" /\ ~reinjected) => Watched(Committed, argStreak, lastKey)

\* The calls of a transcript are finitely many pairs of numbers.
LEMMA CallsFacts ==
    ASSUME NEW s \in Seq(Entry)
    PROVE  /\ CallsOf(s) \in SUBSET (Nat \X Nat)
           /\ IsFiniteSet(CallsOf(s))
           /\ \A q : IsFiniteSet(Run(s, q)) /\ Cardinality(Run(s, q)) \in Nat
<1>1. Len(s) \in Nat /\ MaxBatch \in Nat
    BY TurnConstants
<1>2. CallsOf(s) \in SUBSET ((1 .. Len(s)) \X (1 .. MaxBatch))
    BY DEF CallsOf
<1>3. IsFiniteSet(1 .. Len(s)) /\ IsFiniteSet(1 .. MaxBatch)
    BY <1>1, FS_Interval
<1>4. IsFiniteSet((1 .. Len(s)) \X (1 .. MaxBatch))
    BY <1>3, FS_Product
<1>5. IsFiniteSet(CallsOf(s))
    BY <1>2, <1>4, FS_Subset
<1>6. ASSUME NEW q PROVE IsFiniteSet(Run(s, q)) /\ Cardinality(Run(s, q)) \in Nat
  <2>1. Run(s, q) \in SUBSET CallsOf(s)
      BY DEF Run
  <2>2. IsFiniteSet(Run(s, q))
      BY <1>5, <2>1, FS_Subset
  <2>3. QED
      BY <2>2, FS_CardinalityType
<1>7. CallsOf(s) \in SUBSET (Nat \X Nat)
    BY <1>1, <1>2
<1>8. QED
    BY <1>5, <1>6, <1>7

\* Calls are made one after the other.
LEMMA CallOrder ==
    /\ \A p \in Nat \X Nat : NotAfter(p, p)
    /\ \A p, q \in Nat \X Nat : NotAfter(p, q) \/ NotAfter(q, p)
    /\ \A p, q, r \in Nat \X Nat : NotAfter(p, q) /\ NotAfter(q, r) => NotAfter(p, r)
<1>1. ASSUME NEW p \in Nat \X Nat PROVE p[1] \in Nat /\ p[2] \in Nat
    BY <1>1
<1>2. QED
    BY <1>1 DEF NotAfter

\* Calls in a row belong to the run of the last of them.
LEMMA RowIsInRun ==
    ASSUME NEW s \in Seq(Entry), NEW n \in Nat,
           \A q \in CallsOf(s) : Cardinality(Run(s, q)) < n
    PROVE  ~MadeInARow(s, n)
<1> SUFFICES ASSUME NEW p \in CallsOf(s), NEW q \in CallsOf(s),
                    \A x \in Span(s, p, q) : CallAt(s, x) = CallAt(s, q),
                    Cardinality(Span(s, p, q)) >= n
             PROVE  FALSE
    BY DEF MadeInARow
<1>1. p \in Nat \X Nat /\ q \in Nat \X Nat /\ CallsOf(s) \subseteq Nat \X Nat
    BY CallsFacts
<1>2. ASSUME NEW x \in Span(s, p, q) PROVE x \in Run(s, q)
  <2>1. x \in CallsOf(s) /\ NotAfter(p, x) /\ NotAfter(x, q)
      BY <1>2 DEF Span
  <2>2. ASSUME NEW y \in Span(s, x, q) PROVE y \in Span(s, p, q)
    <3>1. y \in CallsOf(s) /\ NotAfter(x, y) /\ NotAfter(y, q)
        BY <2>2 DEF Span
    <3>2. NotAfter(p, y)
        BY <1>1, <2>1, <3>1, CallOrder
    <3>3. QED
        BY <3>1, <3>2 DEF Span
  <2>3. QED
      BY <2>1, <2>2 DEF Run
<1>3. Span(s, p, q) \in SUBSET Run(s, q)
    BY <1>2
<1>4. IsFiniteSet(Run(s, q)) /\ Cardinality(Run(s, q)) \in Nat
    BY CallsFacts
<1>5. /\ Cardinality(Span(s, p, q)) <= Cardinality(Run(s, q))
      /\ IsFiniteSet(Span(s, p, q))
    BY <1>3, <1>4, FS_Subset
<1>6. Cardinality(Span(s, p, q)) \in Nat
    BY <1>5, FS_CardinalityType
<1>7. QED
    BY <1>4, <1>5, <1>6

\* t has the calls of s and, as entry n after them, those of the batch b.
AddsBatch(s, t, n, b) ==
    /\ CallsOf(t) = CallsOf(s) \cup { << n, i >> : i \in 1 .. Len(b) }
    /\ \A p \in CallsOf(s) : p[1] < n /\ CallAt(t, p) = CallAt(s, p)
    /\ \A i \in 1 .. Len(b) : CallAt(t, << n, i >>) = b[i]

\* What two more entries, the first of them a message, add to the calls.
LEMMA RoundAdds ==
    ASSUME NEW s \in Seq(Entry), NEW a \in Entry, a.kind = "assistant",
           NEW b \in Seq(Call), b = a.calls, Len(b) <= MaxBatch,
           NEW r \in Entry, r.kind # "assistant",
           NEW t \in Seq(Entry), t = s \o << a, r >>,
           NEW n \in Nat, n = Len(s) + 1
    PROVE  AddsBatch(s, t, n, b)
<1>1. /\ Len(s) \in Nat /\ Len(t) = Len(s) + 2
      /\ \A k \in 1 .. Len(s) : t[k] = s[k]
      /\ t[n] = a /\ t[n + 1] = r
    OBVIOUS
<1>2. ASSUME NEW p \in CallsOf(s)
      PROVE  p \in CallsOf(t) /\ p[1] < n /\ CallAt(t, p) = CallAt(s, p)
  <2>1. /\ p \in (1 .. Len(s)) \X (1 .. MaxBatch)
        /\ s[p[1]].kind = "assistant" /\ p[2] <= Len(s[p[1]].calls)
      BY <1>2 DEF CallsOf
  <2>2. t[p[1]] = s[p[1]] /\ p[1] \in 1 .. Len(t) /\ p[1] < n
      BY <1>1, <2>1
  <2>3. QED
      BY <2>1, <2>2 DEF CallsOf, CallAt
<1>3. ASSUME NEW i \in 1 .. Len(b)
      PROVE  << n, i >> \in CallsOf(t) /\ CallAt(t, << n, i >>) = b[i]
  <2>1. n \in 1 .. Len(t) /\ i \in 1 .. MaxBatch
      BY <1>1, TurnConstants
  <2>a. << n, i >> \in (1 .. Len(t)) \X (1 .. MaxBatch)
      BY <2>1
  <2>b. << n, i >>[1] = n /\ << n, i >>[2] = i
      OBVIOUS
  <2>2. PICK p \in (1 .. Len(t)) \X (1 .. MaxBatch) : p = << n, i >> /\ p[1] = n /\ p[2] = i
      BY <2>a, <2>b
  <2>3. p \in CallsOf(t)
      BY <1>1, <2>2 DEF CallsOf
  <2>4. CallAt(t, p) = b[i]
      BY <1>1, <2>2 DEF CallAt
  <2>5. QED
      BY <2>2, <2>3, <2>4
<1>4. ASSUME NEW p \in CallsOf(t), p \notin CallsOf(s)
      PROVE  p \in { << n, i >> : i \in 1 .. Len(b) }
  <2>1. PICK k \in 1 .. Len(t), i \in 1 .. MaxBatch :
            /\ p = << k, i >> /\ p[1] = k /\ p[2] = i
            /\ t[k].kind = "assistant" /\ i <= Len(t[k].calls)
      BY <1>4 DEF CallsOf
  <2>2. k \in 1 .. Len(s) \/ k = n \/ k = n + 1
      BY <1>1
  <2>3. k \notin 1 .. Len(s)
    <3>1. SUFFICES ASSUME k \in 1 .. Len(s) PROVE FALSE
        OBVIOUS
    <3>2. t[k] = s[k] /\ p \in (1 .. Len(s)) \X (1 .. MaxBatch)
        BY <1>1, <2>1, <3>1
    <3>3. QED
        BY <1>4, <2>1, <3>2 DEF CallsOf
  <2>4. k # n + 1
      BY <1>1, <2>1
  <2>5. i \in 1 .. Len(b) /\ p = << n, i >>
      BY <1>1, <2>1, <2>2, <2>3, <2>4
  <2>6. QED
      BY <2>5
<1>5. CallsOf(t) = CallsOf(s) \cup { << n, i >> : i \in 1 .. Len(b) }
    BY <1>2, <1>3, <1>4
<1>6. QED
    BY <1>2, <1>3, <1>5 DEF AddsBatch

\* The runs of the earlier calls stay what they were.
LEMMA RunsKept ==
    ASSUME NEW s \in Seq(Entry), NEW t \in Seq(Entry), NEW n \in Nat,
           NEW b \in Seq(Call), AddsBatch(s, t, n, b), NEW q \in CallsOf(s)
    PROVE  Run(t, q) = Run(s, q)
<1>a. PICK N : N = { << n, i >> : i \in 1 .. Len(b) }
    OBVIOUS
<1>b. /\ CallsOf(t) = CallsOf(s) \cup N
      /\ \A x \in N : x[1] = n
      /\ \A p \in CallsOf(s) : p[1] < n /\ CallAt(t, p) = CallAt(s, p)
    BY <1>a DEF AddsBatch
<1> USE <1>b
<1>1. q \in Nat \X Nat /\ q[1] \in Nat /\ q[1] < n
    BY CallsFacts
<1>2. \A x \in N : ~NotAfter(x, q)
    BY <1>1 DEF NotAfter
<1>3. ASSUME NEW x PROVE Span(t, x, q) = Span(s, x, q)
    BY <1>2 DEF Span
<1>4. ASSUME NEW x
      PROVE  (\A y \in Span(t, x, q) : CallAt(t, y) = CallAt(t, q))
                 <=> (\A y \in Span(s, x, q) : CallAt(s, y) = CallAt(s, q))
    BY <1>3 DEF Span
<1>5. \A x : x \in CallsOf(t) /\ NotAfter(x, q) <=> x \in CallsOf(s) /\ NotAfter(x, q)
    BY <1>2
<1>6. QED
    BY <1>4, <1>5 DEF Run

\* The run of a call of the new batch: the calls of the batch before it that
\* equal it without a gap, and, if that is the batch so far and the detector's
\* key is that call, the run of the last call before the batch.
LEMMA NewRun ==
    ASSUME NEW s \in Seq(Entry), NEW t \in Seq(Entry), NEW n \in Nat,
           NEW b \in Seq(Call), AddsBatch(s, t, n, b),
           Watched(s, argStreak, lastKey), NEW j \in 1 .. Len(b)
    PROVE  Cardinality(Run(t, << n, j >>)) = StreakAt(b, j)
<1>a. PICK N : N = { << n, i >> : i \in 1 .. Len(b) }
    OBVIOUS
<1>b. /\ CallsOf(t) = CallsOf(s) \cup N
      /\ \A p \in CallsOf(s) : p[1] < n /\ CallAt(t, p) = CallAt(s, p)
      /\ \A i \in 1 .. Len(b) : CallAt(t, << n, i >>) = b[i]
    BY <1>a DEF AddsBatch
<1>c. /\ CallsOf(s) = {} => lastKey = NoKey
      /\ CallsOf(s) # {} =>
            \E z \in CallsOf(s) :
                /\ \A x \in CallsOf(s) : NotAfter(x, z)
                /\ lastKey = << CallAt(s, z) >>
                /\ argStreak = Cardinality(Run(s, z))
    BY DEF Watched
<1> USE <1>a, <1>b, <1>c
<1> DEFINE run == { i \in 1 .. j : \A k \in i .. j : b[k] = b[j] }
           F == { << n, i >> : i \in run }
           q == << n, j >>
           G == { x \in CallsOf(s) : x \in Run(t, q) }
           joins == run = 1 .. j /\ lastKey = << b[j] >>
<1>1. Len(b) \in Nat /\ j \in Nat /\ j <= Len(b) /\ j >= 1
    OBVIOUS
<1>2. ASSUME NEW i \in 1 .. Len(b)
      PROVE  << n, i >> \in N /\ << n, i >>[1] = n /\ << n, i >>[2] = i
    OBVIOUS
<1>3. q \in N /\ q[1] = n /\ q[2] = j /\ CallAt(t, q) = b[j]
    BY <1>2
<1>4. \A x \in CallsOf(s) : /\ x \in Nat \X Nat /\ x[1] \in Nat /\ x[1] < n
                            /\ CallAt(t, x) = CallAt(s, x)
    BY CallsFacts
<1> HIDE DEF q
<1>5. ASSUME NEW i \in 1 .. Len(b)
      PROVE  << n, i >> \in Run(t, q) <=> i \in run
  <2>1. NotAfter(<< n, i >>, q) <=> i <= j
      BY <1>2, <1>3 DEF NotAfter
  <2>2. ASSUME NEW k \in 1 .. Len(b)
        PROVE  << n, k >> \in Span(t, << n, i >>, q) <=> k \in i .. j
      BY <1>1, <1>2, <1>3 DEF Span, NotAfter
  <2>3. ASSUME NEW x \in CallsOf(s) PROVE x \notin Span(t, << n, i >>, q)
      BY <1>2, <1>4 DEF Span, NotAfter
  <2>4. ASSUME i \in run PROVE << n, i >> \in Run(t, q)
    <3>1. ASSUME NEW y \in Span(t, << n, i >>, q) PROVE CallAt(t, y) = b[j]
      <4>1. PICK k \in 1 .. Len(b) : y = << n, k >>
          BY <2>3, <3>1 DEF Span
      <4>2. k \in i .. j
          BY <2>2, <3>1, <4>1
      <4>3. b[k] = b[j]
          BY <2>4, <4>2
      <4>4. CallAt(t, y) = b[k]
          BY <4>1
      <4>5. QED
          BY <4>3, <4>4
    <3>2. i <= j
        BY <2>4
    <3>3. QED
        BY <1>2, <1>3, <2>1, <3>1, <3>2 DEF Run
  <2>5. ASSUME << n, i >> \in Run(t, q) PROVE i \in run
    <3>1. i <= j /\ \A y \in Span(t, << n, i >>, q) : CallAt(t, y) = b[j]
        BY <1>3, <2>1, <2>5 DEF Run
    <3>2. ASSUME NEW k \in i .. j PROVE b[k] = b[j]
      <4>1. k \in 1 .. Len(b)
          BY <1>1
      <4>2. CallAt(t, << n, k >>) = b[j]
          BY <2>2, <3>1, <4>1
      <4>3. CallAt(t, << n, k >>) = b[k]
          BY <4>1
      <4>4. QED
          BY <4>2, <4>3
    <3>3. QED
        BY <1>1, <3>1, <3>2
  <2>6. QED
      BY <2>4, <2>5
<1>6. ASSUME NEW x \in CallsOf(s)
      PROVE  x \in Run(t, q) <=>
                /\ \A k \in 1 .. j : b[k] = b[j]
                /\ \A y \in CallsOf(s) : NotAfter(x, y) => CallAt(s, y) = b[j]
  <2>1. NotAfter(x, q)
      BY <1>3, <1>4 DEF NotAfter
  <2>2. ASSUME NEW y \in CallsOf(s)
        PROVE  y \in Span(t, x, q) <=> NotAfter(x, y)
      BY <1>3, <1>4 DEF Span, NotAfter
  <2>3. ASSUME NEW k \in 1 .. Len(b)
        PROVE  << n, k >> \in Span(t, x, q) <=> k \in 1 .. j
      BY <1>1, <1>2, <1>3, <1>4 DEF Span, NotAfter
  <2>4. ASSUME NEW y \in Span(t, x, q)
        PROVE  y \in CallsOf(s) \/ \E k \in 1 .. Len(b) : y = << n, k >>
      BY <2>4 DEF Span
  <2>5. x \in Run(t, q) <=> \A y \in Span(t, x, q) : CallAt(t, y) = b[j]
      BY <1>3, <2>1 DEF Run
  <2>6. ASSUME x \in Run(t, q)
        PROVE  /\ \A k \in 1 .. j : b[k] = b[j]
               /\ \A y \in CallsOf(s) : NotAfter(x, y) => CallAt(s, y) = b[j]
    <3>1. ASSUME NEW k \in 1 .. j PROVE b[k] = b[j]
      <4>1. k \in 1 .. Len(b)
          BY <1>1
      <4>2. CallAt(t, << n, k >>) = b[j]
          BY <2>3, <2>5, <2>6, <4>1
      <4>3. CallAt(t, << n, k >>) = b[k]
          BY <4>1
      <4>4. QED
          BY <4>2, <4>3
    <3>2. QED
        BY <1>4, <2>2, <2>5, <2>6, <3>1
  <2>7. ASSUME \A k \in 1 .. j : b[k] = b[j],
               \A y \in CallsOf(s) : NotAfter(x, y) => CallAt(s, y) = b[j]
        PROVE  x \in Run(t, q)
    <3>1. ASSUME NEW y \in CallsOf(s), y \in Span(t, x, q) PROVE CallAt(t, y) = b[j]
        BY <1>4, <2>2, <2>7, <3>1
    <3>2. ASSUME NEW k \in 1 .. Len(b), << n, k >> \in Span(t, x, q)
          PROVE  CallAt(t, << n, k >>) = b[j]
      <4>1. k \in 1 .. j /\ b[k] = b[j]
          BY <2>3, <2>7, <3>2
      <4>2. CallAt(t, << n, k >>) = b[k]
          OBVIOUS
      <4>3. QED
          BY <4>1, <4>2
    <3>3. \A y \in Span(t, x, q) : CallAt(t, y) = b[j]
        BY <2>4, <3>1, <3>2
    <3>4. QED
        BY <2>5, <3>3
  <2>8. QED
      BY <2>6, <2>7
<1>7. (\A k \in 1 .. j : b[k] = b[j]) <=> run = 1 .. j
  <2>1. ASSUME \A k \in 1 .. j : b[k] = b[j] PROVE run = 1 .. j
      BY <2>1, <1>1
  <2>2. ASSUME run = 1 .. j PROVE \A k \in 1 .. j : b[k] = b[j]
    <3>1. 1 \in 1 .. j
        BY <1>1
    <3>2. 1 \in run
        BY <2>2, <3>1
    <3>3. QED
        BY <3>2
  <2>3. QED
      BY <2>1, <2>2
<1>8. IsFiniteSet(run) /\ Cardinality(run) \in Nat
  <2>1. IsFiniteSet(1 .. j) /\ run \in SUBSET (1 .. j)
      BY <1>1, FS_Interval
  <2>2. QED
      BY <2>1, FS_Subset, FS_CardinalityType
<1>9. IsFiniteSet(F) /\ Cardinality(F) = Cardinality(run)
  <2> DEFINE f == [i \in run |-> << n, i >>]
  <2>1. \A i, m \in run : << n, i >> = << n, m >> => i = m
      OBVIOUS
  <2>2. f \in Injection(run, F)
      BY <2>1 DEF Injection, IsInjective
  <2>3. f \in Surjection(run, F)
      BY DEF Surjection
  <2>4. f \in Bijection(run, F)
      BY <2>2, <2>3 DEF Bijection
  <2>5. ExistsBijection(run, F)
      BY <2>4 DEF ExistsBijection
  <2>6. QED
      BY <1>8, <2>5, FS_Bijection
<1>10. Run(t, q) = F \cup G
  <2>1. ASSUME NEW x \in Run(t, q) PROVE x \in F \cup G
    <3>1. x \in CallsOf(s) \/ \E i \in 1 .. Len(b) : x = << n, i >>
        BY <2>1 DEF Run
    <3>2. QED
        BY <1>5, <2>1, <3>1
  <2>2. ASSUME NEW i \in run PROVE << n, i >> \in Run(t, q)
    <3>1. i \in 1 .. Len(b)
        BY <1>1
    <3>2. QED
        BY <1>5, <3>1
  <2>3. QED
      BY <2>1, <2>2
<1>11. F \cap G = {}
  <2>1. \A x \in F : x[1] = n
      OBVIOUS
  <2>2. QED
      BY <1>4, <2>1
<1> HIDE DEF F, run
<1>12. IsFiniteSet(G) /\ Cardinality(G) = IF joins THEN argStreak ELSE 0
  <2>1. CASE joins
    <3>1. PICK z \in CallsOf(s) :
              /\ \A x \in CallsOf(s) : NotAfter(x, z)
              /\ lastKey = << CallAt(s, z) >>
              /\ argStreak = Cardinality(Run(s, z))
        BY <2>1 DEF NoKey
    <3>2. CallAt(s, z) = b[j]
        BY <2>1, <3>1
    <3>3. ASSUME NEW x \in CallsOf(s) PROVE x \in Run(s, z) <=> x \in Run(t, q)
      <4>1. \A y \in CallsOf(s) : y \in Span(s, x, z) <=> NotAfter(x, y)
          BY <3>1 DEF Span
      <4>2. \A y \in Span(s, x, z) : y \in CallsOf(s)
          BY DEF Span
      <4>3. x \in Run(s, z) <=> \A y \in CallsOf(s) : NotAfter(x, y) => CallAt(s, y) = b[j]
          BY <3>1, <3>2, <4>1, <4>2 DEF Run
      <4>4. QED
          BY <1>6, <1>7, <2>1, <4>3
    <3>4. G = Run(s, z)
      <4>1. \A x \in Run(s, z) : x \in CallsOf(s)
          BY DEF Run
      <4>2. QED
          BY <3>3, <4>1
    <3>5. QED
        BY <2>1, <3>1, <3>4, CallsFacts
  <2>2. CASE ~joins
    <3>1. ASSUME NEW x \in G PROVE FALSE
      <4>1. x \in CallsOf(s) /\ x \in Run(t, q)
          BY <3>1
      <4>2. run = 1 .. j /\ \A y \in CallsOf(s) : NotAfter(x, y) => CallAt(s, y) = b[j]
          BY <1>6, <1>7, <4>1
      <4>3. PICK z \in CallsOf(s) : NotAfter(x, z) /\ lastKey = << CallAt(s, z) >>
          BY <4>1
      <4>4. QED
          BY <2>2, <4>2, <4>3
    <3>2. G = {}
        BY <3>1
    <3>3. QED
        BY <2>2, <3>2, FS_EmptySet
  <2>3. QED
      BY <2>1, <2>2
<1> HIDE DEF G
<1>13. Cardinality(Run(t, q)) = Cardinality(F) + Cardinality(G) - Cardinality(F \cap G)
    BY <1>9, <1>10, <1>12, FS_Union
<1>14. Cardinality(F \cap G) = 0
    BY <1>11, FS_EmptySet
<1>15. StreakAt(b, j) = Cardinality(run) + (IF joins THEN argStreak ELSE 0)
    BY DEF StreakAt, run, joins
<1>16. Cardinality(G) \in Nat
    BY <1>12, FS_CardinalityType
<1>17. Cardinality(Run(t, q)) = StreakAt(b, j)
    BY <1>8, <1>9, <1>12, <1>13, <1>14, <1>15, <1>16
<1>18. QED
    BY <1>17 DEF q

\* Two entries with no new call leave the detector right.
LEMMA WatchedSilent ==
    ASSUME NEW s \in Seq(Entry), NEW a \in Entry, a.kind = "assistant", a.calls = <<>>,
           NEW r \in Entry, r.kind # "assistant", Watched(s, argStreak, lastKey)
    PROVE  Watched(s \o << a, r >>, argStreak, lastKey)
<1>0. Len(s) + 1 \in Nat /\ s \o << a, r >> \in Seq(Entry)
    OBVIOUS
<1>a. PICK t \in Seq(Entry) : t = s \o << a, r >>
    BY <1>0
<1>b. PICK n \in Nat : n = Len(s) + 1
    BY <1>0
<1>c. PICK b \in Seq(Call) : b = a.calls /\ b = <<>>
  <2>1. <<>> \in Seq(Call)
      OBVIOUS
  <2>2. QED
      BY <2>1
<1>d. Len(b) = 0 /\ Len(b) <= MaxBatch
    BY <1>c, TurnConstants
<1>1. AddsBatch(s, t, n, b)
    BY <1>a, <1>b, <1>c, <1>d, RoundAdds
<1>2. \A p \in CallsOf(s) : p[1] < n /\ CallAt(t, p) = CallAt(s, p)
    BY <1>1 DEF AddsBatch
<1>3. \A q \in CallsOf(s) : Run(t, q) = Run(s, q)
    BY <1>1, RunsKept
<1>4. CallsOf(t) = CallsOf(s)
  <2>1. 1 .. Len(b) = {}
      BY <1>d
  <2>2. { << n, i >> : i \in 1 .. Len(b) } = {}
      BY <2>1
  <2>3. QED
      BY <1>1, <2>2 DEF AddsBatch
<1>5. Watched(t, argStreak, lastKey)
    BY <1>2, <1>3, <1>4 DEF Watched
<1>6. QED
    BY <1>a, <1>5

\* A round whose batch had no hit leaves the detector right, at the last call
\* of the batch.
LEMMA WatchedRound ==
    ASSUME TypeOK, NEW s \in Seq(Entry), Watched(s, argStreak, lastKey),
           NEW b \in Batches, b # <<>>, ArgLoopHits(b) = {}
    PROVE  Watched(s \o << Assistant(b, "tool_use"), ToolResults(b) >>,
                   StreakAt(b, Len(b)), << b[Len(b)] >>)
<1>a. PICK a : a = Assistant(b, "tool_use")
    OBVIOUS
<1>r. PICK r : r = ToolResults(b)
    OBVIOUS
<1>0. Len(s) + 1 \in Nat /\ a \in Entry /\ r \in Entry
  <2>1. "tool_use" \in StopReason
      BY DEF StopReason
  <2>2. QED
      BY <1>a, <1>r, <2>1, EntryFacts
<1>t. PICK t \in Seq(Entry) : t = s \o << a, r >>
  <2>1. s \o << a, r >> \in Seq(Entry)
      BY <1>0
  <2>2. QED
      BY <2>1
<1>n. PICK n \in Nat : n = Len(s) + 1
    BY <1>0
<1> DEFINE N == { << n, i >> : i \in 1 .. Len(b) }
<1>1. b \in Seq(Call) /\ Len(b) \in Nat \ {0} /\ Len(b) <= MaxBatch
  <2>1. PICK m \in 0 .. MaxBatch : b \in [1 .. m -> Call]
      BY DEF Batches
  <2>2. Len(b) = m /\ m \in Nat /\ m <= MaxBatch
      BY <2>1, TurnConstants
  <2>3. QED
      BY <2>2, BatchFacts
<1>2. /\ a.kind = "assistant" /\ b = a.calls
      /\ r.kind # "assistant"
    BY <1>a, <1>r DEF Assistant, ToolResults
<1>3. AddsBatch(s, t, n, b)
    BY <1>0, <1>1, <1>2, <1>t, <1>n, RoundAdds
<1>4. /\ CallsOf(t) = CallsOf(s) \cup N
      /\ \A p \in CallsOf(s) : p[1] < n /\ CallAt(t, p) = CallAt(s, p)
      /\ \A i \in 1 .. Len(b) : CallAt(t, << n, i >>) = b[i]
    BY <1>3 DEF AddsBatch
<1>5. \A q \in CallsOf(s) : Run(t, q) = Run(s, q)
    BY <1>1, <1>3, RunsKept
<1>6. ASSUME NEW j \in 1 .. Len(b)
      PROVE  Cardinality(Run(t, << n, j >>)) = StreakAt(b, j)
    BY <1>1, <1>3, NewRun
<1>7. ASSUME NEW j \in 1 .. Len(b)
      PROVE  StreakAt(b, j) < ArgLoopThreshold
  <2>1. StreakAt(b, j) \in Nat
      BY StreakType
  <2>2. ~(StreakAt(b, j) >= ArgLoopThreshold)
      BY DEF ArgLoopHits
  <2>3. QED
      BY <2>1, <2>2, TurnConstants
<1>8. \A q \in CallsOf(t) : Cardinality(Run(t, q)) < ArgLoopThreshold
  <2>1. \A q \in CallsOf(s) : Cardinality(Run(t, q)) < ArgLoopThreshold
      BY <1>5 DEF Watched
  <2>2. ASSUME NEW q \in N PROVE Cardinality(Run(t, q)) < ArgLoopThreshold
    <3>1. PICK j \in 1 .. Len(b) : q = << n, j >>
        OBVIOUS
    <3>2. QED
        BY <1>6, <1>7, <3>1
  <2>3. QED
      BY <1>4, <2>1, <2>2
<1>9. PICK z \in N : z = << n, Len(b) >> /\ z[1] = n /\ z[2] = Len(b)
  <2>1. Len(b) \in 1 .. Len(b)
      BY <1>1
  <2>2. << n, Len(b) >> \in N
      BY <2>1
  <2>3. << n, Len(b) >>[1] = n /\ << n, Len(b) >>[2] = Len(b)
      OBVIOUS
  <2>4. QED
      BY <2>2, <2>3
<1>10. z \in CallsOf(t) /\ \A x \in CallsOf(t) : NotAfter(x, z)
  <2>1. \A x \in CallsOf(s) : NotAfter(x, z)
      BY <1>4, <1>9 DEF NotAfter
  <2>2. ASSUME NEW x \in N PROVE NotAfter(x, z)
    <3>1. PICK i \in 1 .. Len(b) : x = << n, i >>
        OBVIOUS
    <3>2. x[1] = n /\ x[2] = i /\ i <= Len(b)
        BY <1>1, <3>1
    <3>3. QED
        BY <1>9, <3>2 DEF NotAfter
  <2>3. QED
      BY <1>4, <2>1, <2>2
<1>11. CallAt(t, z) = b[Len(b)] /\ Cardinality(Run(t, z)) = StreakAt(b, Len(b))
  <2>1. Len(b) \in 1 .. Len(b)
      BY <1>1
  <2>2. QED
      BY <1>4, <1>6, <1>9, <2>1
<1>12. Watched(t, StreakAt(b, Len(b)), << b[Len(b)] >>)
    BY <1>8, <1>10, <1>11 DEF Watched
<1>13. QED
    BY <1>12, <1>a, <1>r, <1>t

\* Every step keeps the detector right until the tool list is re-sent.
LEMMA DetectedStep ==
    TypeInv /\ Detected /\ [Next]_vars => Detected'
<1> SUFFICES ASSUME TypeInv, Detected, [Next]_vars, pc' # "done", ~reinjected'
             PROVE  Watched(Committed', argStreak', lastKey')
    BY DEF Detected, Watched, CallsOf, Run, Span, CallAt
<1>0. /\ Committed \in Seq(Entry) /\ appended \in Seq(Entry)
      /\ pc # "tools" => Committed = appended
      /\ pc = "tools" => /\ batch \in Batches /\ batch # <<>>
                         /\ appended = Committed \o << Assistant(batch, "tool_use") >>
    BY CommittedFacts
<1>c. pc' # "tools" => Committed' = appended'
    BY DEF Committed
<1>s. ASSUME pc # "done", ~reinjected, Committed' = Committed,
             argStreak' = argStreak, lastKey' = lastKey
      PROVE  Watched(Committed', argStreak', lastKey')
    BY <1>s DEF Detected
<1>t. ASSUME pc # "done", pc # "tools", pc' # "tools", appended' = appended, ~reinjected,
             argStreak' = argStreak, lastKey' = lastKey
      PROVE  Watched(Committed', argStreak', lastKey')
    BY <1>0, <1>c, <1>s, <1>t
<1> USE DEF loopGuards
<1>1. CASE IterationCap \/ AbortSeen
    BY <1>1 DEF IterationCap, AbortSeen, Finish
<1>2. CASE BeginIteration \/ Send
    BY <1>2, <1>t DEF BeginIteration, Send
<1>3. CASE SetAbort
    BY <1>3, <1>s DEF SetAbort, Committed
<1>4. CASE Errored
    BY <1>4, <1>t DEF Errored, SilentRetry, Failover, CompressThenRetryStep, TerminalError,
                      PlainRetry, Finish, Failed
<1>5. CASE Answered
  <2>1. PICK m \in Reply : \/ LengthRecovery(m) \/ StopRecovery(m)
                           \/ FinalAnswer(m) \/ StartTools(m)
      BY <1>5 DEF Answered
  <2>2. /\ Assistant(m.calls, m.stop) \in Entry
        /\ Assistant(m.calls, m.stop).kind = "assistant"
        /\ Assistant(m.calls, m.stop).calls = m.calls
      BY EntryFacts DEF Reply, Assistant
  <2>3. CASE LengthRecovery(m)
      BY <2>3, <1>t DEF LengthRecovery, Replied
  <2>4. CASE FinalAnswer(m)
      BY <2>4 DEF FinalAnswer, Finish
  <2>5. CASE StartTools(m)
    <3>1. /\ pc = "stream" /\ pc' = "tools" /\ ~reinjected
          /\ argStreak' = argStreak /\ lastKey' = lastKey
          /\ appended' = Append(appended, Assistant(m.calls, m.stop))
        BY <2>5 DEF StartTools, Replied
    <3>2. Committed' = SubSeq(appended', 1, Len(appended') - 1)
        BY <3>1 DEF Committed
    <3>3. SubSeq(appended', 1, Len(appended') - 1) = appended
        BY <1>0, <2>2, <3>1
    <3>4. QED
        BY <1>0, <1>s, <3>1, <3>2, <3>3
  <2>6. CASE StopRecovery(m)
    <3>1. m.calls = <<>>
        BY <2>6 DEF StopRecovery, EmptyApplies, IsRecoverableEmpty, Silence
    <3>2. /\ pc = "stream" /\ pc' = "top" /\ ~reinjected
          /\ argStreak' = argStreak /\ lastKey' = lastKey
          /\ appended' = appended \o << Assistant(m.calls, m.stop), Nudge >>
        BY <2>6 DEF StopRecovery, Replied
    <3>3. Nudge \in Entry /\ Nudge.kind # "assistant"
        BY EntryFacts DEF Nudge
    <3>4. Watched(Committed, argStreak, lastKey)
        BY <3>2 DEF Detected
    <3>5. Watched(Committed \o << Assistant(m.calls, m.stop), Nudge >>, argStreak, lastKey)
        BY <1>0, <2>2, <3>1, <3>3, <3>4, WatchedSilent
    <3>6. QED
        BY <1>0, <1>c, <3>2, <3>5
  <2>7. QED
      BY <2>1, <2>3, <2>4, <2>5, <2>6
<1>6. CASE ToolSteps
  <2>1. ASSUME NEW i \in DOMAIN results, NEW out \in Outcome \ {"pending"},
               ToolReturns(i, out)
        PROVE  Watched(Committed', argStreak', lastKey')
      BY <2>1, <1>s DEF ToolReturns, Committed
  <2>2. CASE ReinjectToolList \/ UnknownToolAbort \/ ArgLoopAbort
      BY <2>2 DEF ReinjectToolList, UnknownToolAbort, ArgLoopAbort, Finish
  <2>3. CASE NextRound
    <3>1. /\ pc = "tools" /\ pc' = "top" /\ ~reinjected
          /\ appended' = Append(appended, ToolResults(batch))
          /\ ArgLoopHits(batch) = {} /\ ObserveBatch
        BY <2>3 DEF NextRound, CloseBatch, AllReturned
    <3>2. LastObserved(batch) = Len(batch)
        BY <3>1 DEF LastObserved
    <3>3. argStreak' = StreakAt(batch, Len(batch)) /\ lastKey' = << batch[Len(batch)] >>
        BY <3>1, <3>2 DEF ObserveBatch
    <3>4. Watched(Committed, argStreak, lastKey)
        BY <3>1 DEF Detected
    <3>5. Watched(Committed \o << Assistant(batch, "tool_use"), ToolResults(batch) >>,
                  StreakAt(batch, Len(batch)), << batch[Len(batch)] >>)
        BY <1>0, <3>1, <3>4, WatchedRound DEF TypeInv
    <3>6. Assistant(batch, "tool_use") \in Entry /\ ToolResults(batch) \in Entry
        BY <1>0, <3>1, EntryFacts DEF StopReason
    <3>7. Committed' = Committed \o << Assistant(batch, "tool_use"), ToolResults(batch) >>
      <4>1. ASSUME NEW a \in Entry, NEW r \in Entry, NEW c \in Seq(Entry)
            PROVE  Append(c \o << a >>, r) = c \o << a, r >>
          OBVIOUS
      <4>2. Append(appended, ToolResults(batch))
                = Committed \o << Assistant(batch, "tool_use"), ToolResults(batch) >>
          BY <1>0, <3>1, <3>6, <4>1
      <4>3. QED
          BY <1>c, <3>1, <4>2
    <3>8. QED
        BY <3>3, <3>5, <3>7
  <2>4. QED
      BY <1>6, <2>1, <2>2, <2>3 DEF ToolSteps
<1>7. CASE UNCHANGED vars
    BY <1>7, <1>s DEF vars, Committed
<1>8. QED
    BY <1>1, <1>2, <1>3, <1>4, <1>5, <1>6, <1>7 DEF Next, Advance

\* ArgLoopDetector lets no turn go on after the same call was made its threshold
\* of times in a row, however the calls are spread over batches and messages, as
\* long as the tool list has not been re-sent.
THEOREM LoopsAreDetected == Spec => []NoUndetectedLoop
<1>1. Init => Detected
  <2> SUFFICES ASSUME Init PROVE Watched(Committed, argStreak, lastKey)
      BY DEF Detected
  <2>1. Committed = <<>> /\ lastKey = NoKey
      BY DEF Init, Committed
  <2>2. CallsOf(<<>>) = {}
      BY DEF CallsOf
  <2>3. QED
      BY <2>1, <2>2 DEF Watched
<1>2. TypeInv /\ Detected => NoUndetectedLoop
  <2> SUFFICES ASSUME TypeInv, Detected, pc \in { "top", "send" }, ~reinjected
               PROVE  ~MadeInARow(Committed, ArgLoopThreshold)
      BY DEF NoUndetectedLoop
  <2>1. Committed \in Seq(Entry) /\ ArgLoopThreshold \in Nat
      BY CommittedFacts, TurnConstants
  <2>2. \A q \in CallsOf(Committed) : Cardinality(Run(Committed, q)) < ArgLoopThreshold
      BY DEF Detected, Watched
  <2>3. QED
      BY <2>1, <2>2, RowIsInRun
<1>3. Spec => [](TypeInv /\ Detected)
    BY <1>1, DetectedStep, TypeInvariance, PTL DEF Spec
<1>4. QED
    BY <1>2, <1>3, PTL
=============================================================================

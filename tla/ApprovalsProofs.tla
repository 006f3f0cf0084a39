-------------------------- MODULE ApprovalsProofs --------------------------
(***************************************************************************)
(* Proofs about Approvals: the safety invariants of the runs, for every    *)
(* set of requests, wired or not, with or without a token, and any number  *)
(* of crashes.                                                             *)
(***************************************************************************)
EXTENDS Approvals, TLAPS

(***************************************************************************)
(* The inductive invariant.  A verdict reaches a tool through the future   *)
(* and then through the status that request() returns; each link of that   *)
(* chain is one conjunct.                                                  *)
(***************************************************************************)
\* A future with a verdict holds what the operator was told, and an approval
\* came with the token.
FutureIsAcked ==
    \A r \in Request :
        fut[r] \in Verdict =>
            /\ fut[r] = acked[r]
            /\ fut[r] = "approved" => (HasToken => presented[r])

\* A verdict returned by request() is the one in the future.
AnswerIsFuture ==
    \A r \in Request : answer[r] \in Verdict => answer[r] = fut[r]

\* Only an approved answer leads into the tool.
ToolAfterApproval ==
    \A r \in Request \ AutoApproved : where[r] = "executing" => answer[r] = "approved"

\* A call that has not begun has no answer.
FreshIsUnanswered ==
    \A r \in Request : where[r] = "idle" => answer[r] = "none"

\* Announcing needs an event sink; a process that is down runs nothing and
\* holds no entries.
AnnouncingNeedsEvents ==
    \A r \in Request : where[r] = "announcing" => HasEvents

DownIsQuiet ==
    ~up => pending = {} /\ \A r \in Request : where[r] \in Ended \cup {"idle"}

IInv ==
    /\ TypeOK
    /\ FutureIsAcked /\ AnswerIsFuture /\ ToolAfterApproval /\ FreshIsUnanswered
    /\ AnnouncingNeedsEvents /\ DownIsQuiet
    /\ EntryHasOwner /\ WaiterIsListed /\ SnapshotCurrent

\* The initial state satisfies the inductive invariant.
LEMMA InitInv == Init => IInv
<1> SUFFICES ASSUME Init PROVE IInv
    OBVIOUS
<1> USE DEF Init
<1>1. TypeOK
  <2>1. where \in [Request -> { "idle", "announcing", "waiting", "closing",
                                "executing" } \cup Ended]
      OBVIOUS
  <2>2. fut \in [Request -> { "none", "pending", "dropped" } \cup Verdict]
      OBVIOUS
  <2>3. /\ answer \in [Request -> { "none", "timed_out" } \cup Verdict]
        /\ acked \in [Request -> { "none" } \cup Verdict]
      OBVIOUS
  <2>4. presented \in [Request -> BOOLEAN] /\ crashes \in 0 .. MaxCrashes
      BY ApprovalConstants
  <2>5. QED
      BY <2>1, <2>2, <2>3, <2>4 DEF TypeOK
<1>2. FutureIsAcked /\ AnswerIsFuture /\ ToolAfterApproval /\ FreshIsUnanswered
    BY DEF FutureIsAcked, AnswerIsFuture, ToolAfterApproval, FreshIsUnanswered, Verdict
<1>3. AnnouncingNeedsEvents /\ DownIsQuiet
    BY DEF AnnouncingNeedsEvents, DownIsQuiet
<1>4. EntryHasOwner /\ WaiterIsListed /\ SnapshotCurrent
    BY DEF EntryHasOwner, WaiterIsListed, SnapshotCurrent, Open
<1>5. QED
    BY <1>1, <1>2, <1>3, <1>4 DEF IInv

\* Every step of the manager, its callers, the operators and the process keeps
\* its fields in their types.
LEMMA TypeStep == TypeOK /\ [Next]_vars => TypeOK'
<1> SUFFICES ASSUME TypeOK, [Next]_vars PROVE TypeOK'
    OBVIOUS
<1> USE ApprovalConstants DEF TypeOK, Verdict, Ended, verdicts, process
<1>1. ASSUME NEW r \in Request, AutoApprove(r) PROVE TypeOK'
    BY <1>1 DEF AutoApprove
<1>2. ASSUME NEW r \in Request, Ask(r) PROVE TypeOK'
    BY <1>2 DEF Ask, Persist
<1>3. ASSUME NEW r \in Request, TaskStep(r) PROVE TypeOK'
    BY <1>3 DEF TaskStep, Announced, Wake, Expire, Closed, ToolDone, CloseEntry,
                Persist, AfterRequest
<1>4. ASSUME NEW r \in Request, TaskCancelled(r) PROVE TypeOK'
    BY <1>4 DEF TaskCancelled, CancelAnnouncing, CancelWaiting, CancelLater, Persist
<1>5. CASE Operator
    BY <1>5 DEF Operator, Resolve, CancelAll
<1>6. CASE Crash
  <2>1. where' \in [Request -> { "idle", "announcing", "waiting", "closing",
                                 "executing" } \cup Ended]
      BY <1>6 DEF Crash
  <2>2. crashes' \in 0 .. MaxCrashes
      BY <1>6 DEF Crash
  <2>3. QED
      BY <1>6, <2>1, <2>2 DEF Crash
<1>7. CASE Restart
    BY <1>7 DEF Restart
<1>8. CASE UNCHANGED vars
    BY <1>8 DEF vars
<1>9. QED
    BY <1>1, <1>2, <1>3, <1>4, <1>5, <1>6, <1>7, <1>8 DEF Next

\* Every step keeps the chain from the operator's verdict to the tool.
LEMMA ChainStep ==
    IInv /\ [Next]_vars =>
        FutureIsAcked' /\ AnswerIsFuture' /\ ToolAfterApproval' /\ FreshIsUnanswered'
<1> SUFFICES ASSUME IInv, [Next]_vars
             PROVE  FutureIsAcked' /\ AnswerIsFuture' /\ ToolAfterApproval'
                      /\ FreshIsUnanswered'
    OBVIOUS
<1> USE DEF IInv, TypeOK, FutureIsAcked, AnswerIsFuture, ToolAfterApproval,
            FreshIsUnanswered, Verdict, Ended, verdicts, process
<1>1. ASSUME NEW r \in Request, AutoApprove(r) \/ Ask(r)
      PROVE  FutureIsAcked' /\ AnswerIsFuture' /\ ToolAfterApproval' /\ FreshIsUnanswered'
    BY <1>1 DEF AutoApprove, Ask
<1>2. ASSUME NEW r \in Request, TaskStep(r)
      PROVE  FutureIsAcked' /\ AnswerIsFuture' /\ ToolAfterApproval' /\ FreshIsUnanswered'
    BY <1>2 DEF TaskStep, Announced, Wake, Expire, Closed, ToolDone, CloseEntry,
                AfterRequest
<1>3. ASSUME NEW r \in Request, TaskCancelled(r)
      PROVE  FutureIsAcked' /\ AnswerIsFuture' /\ ToolAfterApproval' /\ FreshIsUnanswered'
    BY <1>3 DEF TaskCancelled, CancelAnnouncing, CancelWaiting, CancelLater
<1>4. CASE Operator
    BY <1>4 DEF Operator, Resolve, CancelAll, Answerable, Authorised
<1>5. CASE Crash
    BY <1>5 DEF Crash
<1>6. CASE Restart \/ UNCHANGED vars
    BY <1>6 DEF Restart, vars
<1>7. QED
    BY <1>1, <1>2, <1>3, <1>4, <1>5, <1>6 DEF Next

\* Every step keeps the entries, their owners and the snapshot in step.
LEMMA EntryStep ==
    IInv /\ [Next]_vars =>
        /\ AnnouncingNeedsEvents' /\ DownIsQuiet' /\ EntryHasOwner'
        /\ WaiterIsListed' /\ SnapshotCurrent'
<1> DEFINE Entries == /\ AnnouncingNeedsEvents /\ DownIsQuiet /\ EntryHasOwner
                      /\ WaiterIsListed /\ SnapshotCurrent
<1> SUFFICES ASSUME IInv, [Next]_vars PROVE Entries'
    OBVIOUS
<1> USE DEF IInv, TypeOK, AnnouncingNeedsEvents, DownIsQuiet, EntryHasOwner,
            WaiterIsListed, SnapshotCurrent, Verdict, Ended, Open, verdicts, process
<1>1. ASSUME NEW r \in Request, AutoApprove(r) \/ Ask(r) PROVE Entries'
    BY <1>1 DEF AutoApprove, Ask, Persist
<1>2. ASSUME NEW r \in Request, TaskStep(r) PROVE Entries'
    BY <1>2 DEF TaskStep, Announced, Wake, Expire, Closed, ToolDone, CloseEntry,
                Persist, AfterRequest
<1>3. ASSUME NEW r \in Request, TaskCancelled(r) PROVE Entries'
    BY <1>3 DEF TaskCancelled, CancelAnnouncing, CancelWaiting, CancelLater, Persist
<1>4. CASE Operator
    BY <1>4 DEF Operator, Resolve, CancelAll
<1>5. CASE Crash
    BY <1>5 DEF Crash
<1>6. CASE Restart
    BY <1>6 DEF Restart
<1>7. CASE UNCHANGED vars
    BY <1>7 DEF vars
<1>8. QED
    BY <1>1, <1>2, <1>3, <1>4, <1>5, <1>6, <1>7 DEF Next

\* The inductive invariant holds throughout.
THEOREM Invariance == Spec => []IInv
<1>1. IInv /\ [Next]_vars => IInv'
    BY TypeStep, ChainStep, EntryStep DEF IInv
<1>2. QED
    BY InitInv, <1>1, PTL DEF Spec

\* Type correctness of the approval manager.
THEOREM TypeCorrect == Spec => []TypeOK
<1>1. IInv => TypeOK
    BY DEF IInv
<1>2. QED
    BY Invariance, <1>1, PTL

\* A gated tool never runs without an acknowledged, authorised approval.
THEOREM GateHolds == Spec => []RunsOnlyApproved
<1>1. IInv => RunsOnlyApproved
    BY DEF IInv, RunsOnlyApproved, FutureIsAcked, AnswerIsFuture, ToolAfterApproval,
           Verdict
<1>2. QED
    BY Invariance, <1>1, PTL

\* The operator's first verdict is the only one a call can get.
THEOREM VerdictHolds == Spec => []VerdictIsFinal
<1>1. IInv => VerdictIsFinal
    BY DEF IInv, VerdictIsFinal, FutureIsAcked, AnswerIsFuture
<1>2. QED
    BY Invariance, <1>1, PTL

\* Every entry of the list has a call that waits behind it, or one that was
\* cancelled while it announced itself (request() removes its entry on every other
\* way out).
THEOREM EntriesHold == Spec => []EntryHasOwner
<1>1. IInv => EntryHasOwner
    BY DEF IInv
<1>2. QED
    BY Invariance, <1>1, PTL

\* Every call that waits for the operator is in the list that approvals.list shows.
THEOREM WaitersHold == Spec => []WaiterIsListed
<1>1. IInv => WaiterIsListed
    BY DEF IInv
<1>2. QED
    BY Invariance, <1>1, PTL

\* The file follows the list, unless its last write failed (_persist after every
\* change of _pending).
THEOREM SnapshotHolds == Spec => []SnapshotCurrent
<1>1. IInv => SnapshotCurrent
    BY DEF IInv
<1>2. QED
    BY Invariance, <1>1, PTL

\* A crash never takes an open request out of the file that the next process
\* reads, unless the last write of that file had failed.
THEOREM AuditHolds == Spec => CrashIsAudited
<1> DEFINE A == \A r \in Request :
                  where[r] \in Open /\ where'[r] = "dead" /\ ~stale => r \in snapshot'
<1>1. ASSUME IInv, [Next]_vars PROVE [A]_vars
  <2> USE <1>1 DEF IInv, TypeOK, WaiterIsListed, SnapshotCurrent, DownIsQuiet, Open, Ended,
                   Verdict, verdicts, process
  <2>1. CASE Crash
      BY <2>1 DEF Crash
  <2>2. ASSUME NEW r \in Request, AutoApprove(r) \/ Ask(r) PROVE A
      BY <2>2 DEF AutoApprove, Ask
  <2>3. ASSUME NEW r \in Request, TaskStep(r) PROVE A
      BY <2>3 DEF TaskStep, Announced, Wake, Expire, Closed, ToolDone, CloseEntry,
                  AfterRequest
  <2>4. ASSUME NEW r \in Request, TaskCancelled(r) PROVE A
      BY <2>4 DEF TaskCancelled, CancelAnnouncing, CancelWaiting, CancelLater
  <2>5. CASE Operator \/ Restart
      BY <2>5 DEF Operator, Resolve, CancelAll, Restart
  <2>6. QED
      BY <2>1, <2>2, <2>3, <2>4, <2>5 DEF Next
<1>2. QED
    BY Invariance, <1>1, PTL DEF Spec, CrashIsAudited
=============================================================================

------------------------------ MODULE Approvals ------------------------------
(***************************************************************************)
(* Human approval of tool calls: oxenclaw/approvals/manager.py             *)
(* (ApprovalManager) and tool_wrap.py (_GatedTool and                      *)
(* _ConditionallyGatedTool), resolved by the exec-approvals RPCs of        *)
(* gateway/approval_methods.py.                                            *)
(*                                                                         *)
(* Each request is one execute() of a gated tool.  Its task may be         *)
(* cancelled at any await; operators answer at any time; the timer of      *)
(* wait_for races their answer; the process may die and start again, when  *)
(* only the snapshot file survives.                                        *)
(***************************************************************************)
EXTENDS Integers, FiniteSets

CONSTANTS
    Request,       \* calls of gated tools
    Timed,         \* the ones with a timeout
    AutoApproved,  \* the ones auto_approve(args) lets through
    HasEvents,     \* on_event is wired
    HasToken,      \* approver_token is set
    MaxCrashes     \* bound: crashes of the process

ASSUME ApprovalConstants ==
    /\ Timed \subseteq Request
    /\ AutoApproved \subseteq Request
    /\ HasEvents \in BOOLEAN
    /\ HasToken \in BOOLEAN
    /\ MaxCrashes \in Nat

VARIABLES
    where,         \* where the execute() call is
    fut,           \* the request's future
    pending,       \* the keys of _pending
    snapshot,      \* the requests in approvals.json
    stale,         \* the last _persist failed
    answer,        \* the status request() returns
    acked,         \* the verdict resolve() or cancel() reported to the operator
    presented,     \* a valid approver token came with that verdict
    up, crashes,   \* the process runs; how often it died
    carried        \* requests logged by _on_startup_load

vars == << where, fut, pending, snapshot, stale, answer, acked, presented, up,
           crashes, carried >>

process == << up, crashes, carried >>
verdicts == << acked, presented >>

Verdict == { "approved", "denied", "cancelled" }
Ended == { "returned", "raised", "abandoned", "dead" }

\* Suspended inside request() while its entry is registered.
Open == { "announcing", "waiting" }

Init ==
    /\ where = [r \in Request |-> "idle"]
    /\ fut = [r \in Request |-> "none"]
    /\ pending = {} /\ snapshot = {} /\ stale = FALSE
    /\ answer = [r \in Request |-> "none"]
    /\ acked = [r \in Request |-> "none"]
    /\ presented = [r \in Request |-> FALSE]
    /\ up = TRUE /\ crashes = 0 /\ carried = {}

\* _persist writes the entries S, or the write fails and is only logged.
Persist(S) ==
    \/ snapshot' = S /\ stale' = FALSE
    \/ stale' = TRUE /\ UNCHANGED snapshot

(***************************************************************************)
(* The requesting task.                                                    *)
(***************************************************************************)
AutoApprove(r) ==
    /\ up /\ where[r] = "idle" /\ r \in AutoApproved
    /\ where' = [where EXCEPT ![r] = "executing"]
    /\ UNCHANGED << fut, pending, snapshot, stale, answer, verdicts, process >>

\* Mutant of Ask: the snapshot is left for the next change.
AskUnsaved(r) ==
    /\ up /\ where[r] = "idle" /\ r \notin AutoApproved
    /\ fut' = [fut EXCEPT ![r] = "pending"]
    /\ pending' = pending \cup {r}
    /\ where' = [where EXCEPT ![r] = IF HasEvents THEN "announcing" ELSE "waiting"]
    /\ UNCHANGED << snapshot, stale, answer, verdicts, process >>

Ask(r) ==
    /\ up /\ where[r] = "idle" /\ r \notin AutoApproved
    /\ fut' = [fut EXCEPT ![r] = "pending"]
    /\ pending' = pending \cup {r}
    /\ Persist(pending \cup {r})
    /\ where' = [where EXCEPT ![r] = IF HasEvents THEN "announcing" ELSE "waiting"]
    /\ UNCHANGED << answer, verdicts, process >>

\* The approval.requested event is out, or emitting it failed.
Announced(r) ==
    /\ where[r] = "announcing"
    /\ where' = [where EXCEPT ![r] = "waiting"]
    /\ UNCHANGED << fut, pending, snapshot, stale, answer, verdicts, process >>

\* execute() goes on with what request() returned.
AfterRequest(status) == IF status = "approved" THEN "executing" ELSE "returned"

\* Mutant of CloseEntry: the snapshot keeps the closed request.
CloseUnsaved(r, status) ==
    /\ pending' = pending \ {r}
    /\ answer' = [answer EXCEPT ![r] = status]
    /\ where' = [where EXCEPT ![r] = IF HasEvents THEN "closing"
                                     ELSE AfterRequest(status)]
    /\ UNCHANGED << snapshot, stale >>

\* The finally arm: the entry goes, then the approval.closed event.
CloseEntry(r, status) ==
    /\ pending' = pending \ {r}
    /\ Persist(pending \ {r})
    /\ answer' = [answer EXCEPT ![r] = status]
    /\ where' = [where EXCEPT ![r] = IF HasEvents THEN "closing"
                                     ELSE AfterRequest(status)]

\* Mutant of Wake: a cancelled approval does not wake its requester.
WakeOnDecision(r) ==
    /\ where[r] = "waiting" /\ fut[r] \in Verdict \ { "cancelled" }
    /\ CloseEntry(r, fut[r])
    /\ UNCHANGED << fut, verdicts, process >>

Wake(r) ==
    /\ where[r] = "waiting" /\ fut[r] \in Verdict
    /\ CloseEntry(r, fut[r])
    /\ UNCHANGED << fut, verdicts, process >>

\* Mutant of Expire: TimeoutError is not turned into a status.
ExpireUnhandled(r) ==
    /\ where[r] = "waiting" /\ r \in Timed
    /\ CloseEntry(r, "timeout_error")
    /\ fut' = [fut EXCEPT ![r] = IF @ = "pending" THEN "dropped" ELSE @]
    /\ UNCHANGED << verdicts, process >>

\* The timer fires.  A verdict that the task has not yet woken up to loses:
\* asyncio.timeout cancels the task all the same (Python 3.12).
Expire(r) ==
    /\ where[r] = "waiting" /\ r \in Timed
    /\ CloseEntry(r, "timed_out")
    /\ fut' = [fut EXCEPT ![r] = IF @ = "pending" THEN "dropped" ELSE @]
    /\ UNCHANGED << verdicts, process >>

Closed(r) ==
    /\ where[r] = "closing"
    /\ where' = [where EXCEPT ![r] = IF answer[r] = "none" THEN "raised"
                                     ELSE AfterRequest(answer[r])]
    /\ UNCHANGED << fut, pending, snapshot, stale, answer, verdicts, process >>

ToolDone(r) ==
    /\ where[r] = "executing"
    /\ where' = [where EXCEPT ![r] = "returned"]
    /\ UNCHANGED << fut, pending, snapshot, stale, answer, verdicts, process >>

(***************************************************************************)
(* The task is cancelled.  The first event is emitted outside the          *)
(* try/finally, so a cancellation there leaves the entry behind.           *)
(***************************************************************************)
CancelAnnouncing(r) ==
    /\ where[r] = "announcing"
    /\ where' = [where EXCEPT ![r] = "abandoned"]
    /\ UNCHANGED << fut, pending, snapshot, stale, answer, verdicts, process >>

\* Mutant of CancelWaiting: no finally arm.
CancelWaitingLeaks(r) ==
    /\ where[r] = "waiting"
    /\ fut' = [fut EXCEPT ![r] = IF @ = "pending" THEN "dropped" ELSE @]
    /\ where' = [where EXCEPT ![r] = "raised"]
    /\ UNCHANGED << pending, snapshot, stale, answer, verdicts, process >>

CancelWaiting(r) ==
    /\ where[r] = "waiting"
    /\ pending' = pending \ {r}
    /\ Persist(pending \ {r})
    /\ fut' = [fut EXCEPT ![r] = IF @ = "pending" THEN "dropped" ELSE @]
    /\ where' = [where EXCEPT ![r] = IF HasEvents THEN "closing" ELSE "raised"]
    /\ UNCHANGED << answer, verdicts, process >>

CancelLater(r) ==
    /\ where[r] \in { "closing", "executing" }
    /\ where' = [where EXCEPT ![r] = "raised"]
    /\ UNCHANGED << fut, pending, snapshot, stale, answer, verdicts, process >>

(***************************************************************************)
(* The operator.  A call that finds no entry, a future already done, or    *)
(* the wrong token changes nothing and reports so.                         *)
(***************************************************************************)
\* Mutant of Authorised: the token is not compared.
AnyToken(token) == TRUE

Authorised(token) == HasToken => token

Answerable(r) == r \in pending /\ fut[r] = "pending"

\* Mutant of Resolve: a verdict for a future already done is dropped, and yet
\* reported as the result.
ResolveReportsLate(r, v, token) ==
    /\ up /\ Authorised(token) /\ r \in pending
    /\ fut' = [fut EXCEPT ![r] = IF @ = "pending" THEN v ELSE @]
    /\ acked' = [acked EXCEPT ![r] = v]
    /\ presented' = [presented EXCEPT ![r] = token]
    /\ UNCHANGED << where, pending, snapshot, stale, answer, process >>

\* exec-approvals.resolve and exec-approvals.cancel.
Resolve(r, v, token) ==
    /\ up /\ Authorised(token) /\ Answerable(r)
    /\ fut' = [fut EXCEPT ![r] = v]
    /\ acked' = [acked EXCEPT ![r] = v]
    /\ presented' = [presented EXCEPT ![r] = token]
    /\ UNCHANGED << where, pending, snapshot, stale, answer, process >>

\* Mutant of CancelAll: the entries are dropped, their futures left alone.
CancelAllClears ==
    /\ up /\ \E r \in Request : Answerable(r)
    /\ pending' = {}
    /\ UNCHANGED << where, fut, snapshot, stale, answer, verdicts, process >>

\* Shutdown of the gateway; no token is asked for.
CancelAll ==
    /\ up /\ \E r \in Request : Answerable(r)
    /\ fut' = [r \in Request |-> IF Answerable(r) THEN "cancelled" ELSE fut[r]]
    /\ acked' = [r \in Request |-> IF Answerable(r) THEN "cancelled" ELSE acked[r]]
    /\ UNCHANGED << where, pending, snapshot, stale, answer, presented, process >>

(***************************************************************************)
(* The process.                                                            *)
(***************************************************************************)
Crash ==
    /\ up /\ crashes < MaxCrashes
    /\ up' = FALSE /\ crashes' = crashes + 1
    /\ pending' = {}
    /\ where' = [r \in Request |->
                    IF where[r] \in Ended \cup {"idle"} THEN where[r] ELSE "dead"]
    /\ UNCHANGED << fut, snapshot, stale, answer, verdicts, carried >>

\* _on_startup_load: the snapshot is logged and wiped, never restored.
Restart ==
    /\ ~up
    /\ up' = TRUE
    /\ carried' = carried \cup snapshot
    /\ \/ snapshot' = {} /\ stale' = FALSE
       \/ snapshot # {} /\ stale' = TRUE /\ UNCHANGED snapshot
    /\ UNCHANGED << where, fut, pending, answer, verdicts, crashes >>

-----------------------------------------------------------------------------
TaskStep(r) ==
    Announced(r) \/ Wake(r) \/ Expire(r) \/ Closed(r) \/ ToolDone(r)

TaskCancelled(r) == CancelAnnouncing(r) \/ CancelWaiting(r) \/ CancelLater(r)

Operator ==
    \/ \E r \in Request, v \in Verdict, token \in BOOLEAN : Resolve(r, v, token)
    \/ CancelAll

Next ==
    \/ \E r \in Request : AutoApprove(r) \/ Ask(r) \/ TaskStep(r) \/ TaskCancelled(r)
    \/ Operator
    \/ Crash \/ Restart

Spec == Init /\ [][Next]_vars

\* The event loop runs a ready task, timers fire, event sinks and tools return.
FairSpec == Spec /\ \A r \in Request : WF_vars(TaskStep(r))

-----------------------------------------------------------------------------
(***************************************************************************)
(* Properties.                                                             *)
(***************************************************************************)
\* The manager's fields and the wrapped calls hold values of their types.
TypeOK ==
    /\ where \in [Request -> { "idle", "announcing", "waiting", "closing",
                               "executing" } \cup Ended]
    /\ fut \in [Request -> { "none", "pending", "dropped" } \cup Verdict]
    /\ pending \subseteq Request /\ snapshot \subseteq Request
    /\ stale \in BOOLEAN
    /\ answer \in [Request -> { "none", "timed_out" } \cup Verdict]
    /\ acked \in [Request -> { "none" } \cup Verdict]
    /\ presented \in [Request -> BOOLEAN]
    /\ up \in BOOLEAN /\ crashes \in 0 .. MaxCrashes
    /\ carried \subseteq Request

\* A gated tool runs only on a call for which resolve(approved=True) was
\* acknowledged to somebody who presented the approver token: no timeout,
\* shutdown, cancellation or late second verdict lets it through.
RunsOnlyApproved ==
    \A r \in Request \ AutoApproved :
        where[r] = "executing" =>
            acked[r] = "approved" /\ (HasToken => presented[r])

\* The verdict the operator was told is the only one the tool call can get,
\* unless the call timed out or was cancelled first.
VerdictIsFinal ==
    \A r \in Request :
        answer[r] \in Verdict => answer[r] = acked[r] /\ fut[r] = acked[r]

\* What exec-approvals.list shows is what somebody waits for: an entry without
\* a live task belongs to a task cancelled while it announced itself.
EntryHasOwner ==
    \A r \in pending :
        /\ where[r] \in Open \cup { "abandoned" }
        /\ where[r] = "abandoned" => HasEvents

\* The converse: a task that waits for a verdict can be given one.
WaiterIsListed == \A r \in Request : where[r] \in Open => r \in pending

\* manager.py: the snapshot "of currently-pending requests is written to disk
\* after every change", as long as writing works and the process lives.
SnapshotCurrent == up /\ ~stale => snapshot = pending

\* manager.py: after a restart "the persistent snapshot lets a new process know
\* the request existed", for every request a crash took while it was open.
CrashIsAudited ==
    [][ \A r \in Request :
          where[r] \in Open /\ where'[r] = "dead" /\ ~stale => r \in snapshot' ]_vars

\* A call with a timeout, and a call that was answered, ends.
AnsweredCallsEnd ==
    \A r \in Request :
        where[r] \in Open /\ (r \in Timed \/ fut[r] \in Verdict)
            ~> where[r] \in Ended
=============================================================================

-------------------------------- MODULE Cron --------------------------------
(***************************************************************************)
(* Scheduled prompts: oxenclaw/cron/scheduler.py (CronScheduler),          *)
(* store.py (CronJobStore, jobs.json) and run_log.py (CronRunStore,        *)
(* runs.json), edited by the cron.* RPCs of gateway/cron_methods.py and by *)
(* the agents' cron tool (tools_pkg/cron_tool.py).  When the process       *)
(* starts, stops and dies is Gateway's.                                    *)
(*                                                                         *)
(* A job is its enabled flag and its schedule; prompt, target and dates    *)
(* are left out.  APScheduler is external: a schedule for each registered  *)
(* job, at most one instance of each that it started (max_instances=1),    *)
(* and a gap between the submission of _fire and its first step.  Both     *)
(* files are replaced atomically, and any save may raise OSError.  Runs    *)
(* are numbered in the order of started_at.                                *)
(***************************************************************************)
EXTENDS Integers, FiniteSets, Sequences

CONSTANTS
    Jobs,          \* job ids; from_new draws a fresh one, never used again
    Schedules,     \* crontab expressions
    Callers,       \* the RPC tasks that may call fire_now
    None, Never, Unsure, Timer,
    MaxPerJob,     \* entries prune() keeps for each job
    MaxRuns,       \* bound: fires
    MaxEdits,      \* bound: changes of the job store
    MaxFaults      \* bound: times that the disk fails

ASSUME CronConstants ==
    /\ MaxPerJob \in Nat \ {0}
    /\ {MaxRuns, MaxEdits, MaxFaults} \subseteq Nat
    /\ Timer \notin Callers

VARIABLES
    jobs,          \* CronJobStore._jobs
    saved,         \* jobs.json
    started,       \* CronScheduler._started
    scheduled,     \* the schedule under which APScheduler holds a job, or None
    submitted,     \* jobs whose _fire APScheduler has submitted but not begun
    running,       \* the _fire calls that await their dispatch
    log,           \* CronRunStore._entries
    savedLog,      \* runs.json
    acked,         \* what the last edit of a job reported: its new state,
                   \* None when removed, Unsure when the edit raised
    history,       \* every run begun, with how it ended
    edits, faults  \* the bounds' counters

cronVars == << jobs, saved, started, scheduled, submitted, running, log, savedLog,
               acked, history, edits, faults >>
jobStore == << jobs, saved, acked, edits >>
runLog == << log, savedLog, history >>

Job == [enabled : BOOLEAN, schedule : Schedules]
Status == {"running", "ok", "error"}
End == {"live", "returned", "raised", "spoiled", "cut", "unstarted"}
Nothing == [j \in Jobs |-> None]

\* What marks an edit that did not happen, or raised, is no state of a job.
ASSUME CronMarkers == {Never, Unsure} \cap (Job \cup {None}) = {}

CronTypeOK ==
    /\ jobs \in [Jobs -> Job \cup {None}] /\ saved \in [Jobs -> Job \cup {None}]
    /\ started \in BOOLEAN
    /\ scheduled \in [Jobs -> Schedules \cup {None}]
    /\ submitted \subseteq Jobs
    /\ running \subseteq [run : 1 .. Len(history), job : Jobs, by : Callers \cup {Timer}]
    /\ log \subseteq [run : 1 .. Len(history), job : Jobs, status : Status]
    /\ savedLog \subseteq [run : 1 .. Len(history), job : Jobs, status : Status]
    /\ acked \in [Jobs -> Job \cup {None, Never, Unsure}]
    /\ history \in Seq([job : Jobs, end : End])
    /\ edits \in 0 .. MaxEdits /\ faults \in 0 .. MaxFaults

CronInit ==
    /\ jobs = Nothing /\ saved = Nothing
    /\ started = FALSE /\ scheduled = Nothing
    /\ submitted = {} /\ running = {}
    /\ log = {} /\ savedLog = {}
    /\ acked = [j \in Jobs |-> Never]
    /\ history = << >>
    /\ edits = 0 /\ faults = 0

-----------------------------------------------------------------------------
(* The job store.                                                          *)

\* The schedule under which a started scheduler holds a job.
ScheduleOf(job) == IF job # None /\ job.enabled THEN job.schedule ELSE None

\* One save raises, or several in a row.
DiskFails == faults < MaxFaults /\ faults' = faults + 1

\* The job's schedule after an edit; a scheduler that is not started holds none.
Rescheduled(j, new) ==
    [scheduled EXCEPT ![j] = IF started THEN ScheduleOf(new) ELSE None]

\* Every edit changes the memory, saves the whole store and then tells
\* APScheduler.  A save that raises leaves the first step done.
\*
\* Mutant of Edited: a scheduler that is not started leaves before the save.
EditedUnsaved(j, new) ==
    /\ jobs' = [jobs EXCEPT ![j] = new]
    /\ saved' = IF started THEN jobs' ELSE saved
    /\ scheduled' = Rescheduled(j, new)
    /\ acked' = [acked EXCEPT ![j] = new]
    /\ UNCHANGED faults

Edited(j, new) ==
    /\ jobs' = [jobs EXCEPT ![j] = new]
    /\ saved' = jobs'
    /\ scheduled' = Rescheduled(j, new)
    /\ acked' = [acked EXCEPT ![j] = new]
    /\ UNCHANGED faults

EditRaises(j, new) ==
    /\ DiskFails
    /\ jobs' = [jobs EXCEPT ![j] = new]
    /\ acked' = [acked EXCEPT ![j] = Unsure]
    /\ UNCHANGED << saved, scheduled >>

Edit(j, new) ==
    /\ edits < MaxEdits /\ edits' = edits + 1
    /\ Edited(j, new) \/ EditRaises(j, new)
    /\ UNCHANGED << started, submitted, running, runLog >>

Add(j) == acked[j] = Never /\ \E new \in Job : Edit(j, new)

Remove(j) == jobs[j] # None /\ Edit(j, None)

Toggle(j) ==
    /\ jobs[j] # None
    /\ \E e \in BOOLEAN : Edit(j, [jobs[j] EXCEPT !.enabled = e])

Update(j) == jobs[j] # None /\ \E new \in Job : Edit(j, new)

-----------------------------------------------------------------------------
(* Firing.                                                                 *)

\* APScheduler counts an instance from its submission to its end.
Busy(j) == j \in submitted \/ \E x \in running : x.job = j /\ x.by = Timer

Due(j) ==
    /\ started /\ scheduled[j] # None /\ ~ Busy(j)
    /\ Len(history) + Cardinality(submitted) < MaxRuns
    /\ submitted' = submitted \cup {j}
    /\ UNCHANGED << jobStore, runLog, started, scheduled, running, faults >>

\* Mutant of Fireable: _fire trusts APScheduler to know what is enabled.
FireableBlind(j) == jobs[j] # None

Fireable(j) == jobs[j] # None /\ jobs[j].enabled

\* The "running" entry is appended before the dispatch.  When its save raises
\* nothing is dispatched, and the entry stays in memory.
Fire(j, by) ==
    LET r == Len(history) + 1 IN
    /\ log' = log \cup {[run |-> r, job |-> j, status |-> "running"]}
    /\ \/ /\ savedLog' = log'
          /\ running' = running \cup {[run |-> r, job |-> j, by |-> by]}
          /\ history' = Append(history, [job |-> j, end |-> "live"])
          /\ UNCHANGED faults
       \/ /\ DiskFails
          /\ history' = Append(history, [job |-> j, end |-> "unstarted"])
          /\ UNCHANGED << savedLog, running >>

TimerFires(j) ==
    /\ j \in submitted
    /\ submitted' = submitted \ {j}
    /\ \/ Fireable(j) /\ Fire(j, Timer)
       \/ ~ Fireable(j) /\ UNCHANGED << runLog, running, faults >>
    /\ UNCHANGED << jobStore, started, scheduled >>

\* fire_now: _fire in the caller's own task, whatever APScheduler runs.
FireNow(j, by) ==
    /\ Fireable(j)
    /\ Len(history) + Cardinality(submitted) < MaxRuns
    /\ Fire(j, by)
    /\ UNCHANGED << jobStore, started, scheduled, submitted >>

Logged(r) == \E e \in log : e.run = r

\* CronRunStore.update in memory.
Marked(entries, r, status) ==
    {IF e.run = r THEN [e EXCEPT !.status = status] ELSE e : e \in entries}

\* Mutant of Pruned: the newest entries are dropped.
PrunedNewest(entries) ==
    {e \in entries :
        Cardinality({f \in entries : f.job = e.job /\ f.run < e.run}) < MaxPerJob}

Pruned(entries) ==
    {e \in entries :
        Cardinality({f \in entries : f.job = e.job /\ f.run > e.run}) < MaxPerJob}

Over(x, end) ==
    /\ running' = running \ {x}
    /\ history' = [history EXCEPT ![x.run].end = end]
    /\ UNCHANGED << jobStore, started, scheduled, submitted >>

\* The dispatch returned; only this path prunes.
Returned(x) ==
    LET marked == Marked(log, x.run, "ok") IN
    /\ Over(x, "returned")
    /\ log' = Pruned(marked)
    /\ savedLog' = IF Logged(x.run) \/ log' # marked THEN log' ELSE savedLog
    /\ UNCHANGED faults

\* The save of update() or of prune() raised, inside the try: the handler marks
\* the run "error", and its own save succeeds or raises too.
ReturnSpoiled(x) ==
    LET marked == Marked(log, x.run, "ok")
        byUpdate == Logged(x.run)
        byPrune == Pruned(marked) # marked
    IN  /\ Over(x, "spoiled") /\ DiskFails
        /\ \/ /\ byUpdate
              /\ log' = Marked(log, x.run, "error")
              /\ savedLog' \in {log', savedLog}
           \/ /\ byPrune
              /\ log' = Marked(Pruned(marked), x.run, "error")
              /\ savedLog' \in {log', IF byUpdate THEN marked ELSE savedLog}

Raised(x) ==
    /\ log' = Marked(log, x.run, "error")
    /\ \/ /\ Over(x, "raised")
          /\ savedLog' = IF Logged(x.run) THEN log' ELSE savedLog
          /\ UNCHANGED faults
       \/ /\ Logged(x.run) /\ DiskFails
          /\ Over(x, "spoiled")
          /\ UNCHANGED savedLog

DispatchEnds(x) == Returned(x) \/ ReturnSpoiled(x) \/ Raised(x)

\* CancelledError is no Exception: the entries of these runs stay "running".
Cut(xs) ==
    /\ running' = running \ xs
    /\ history' = [r \in DOMAIN history |->
                     IF \E x \in xs : x.run = r THEN [history[r] EXCEPT !.end = "cut"]
                     ELSE history[r]]

-----------------------------------------------------------------------------
(* The process.                                                            *)

\* Both stores are loaded, the enabled jobs registered.
Start ==
    /\ jobs' = saved /\ log' = savedLog
    /\ started' = TRUE /\ scheduled' = [j \in Jobs |-> ScheduleOf(saved[j])]
    /\ UNCHANGED << saved, savedLog, submitted, running, acked, history, edits, faults >>

\* shutdown(wait=False) drops the jobs and cancels what APScheduler started.
Stop ==
    /\ started' = FALSE /\ scheduled' = Nothing /\ submitted' = {}
    /\ Cut({x \in running : x.by = Timer})
    /\ UNCHANGED << jobStore, log, savedLog, faults >>

\* The process ends; the files stay.
Gone ==
    /\ jobs' = Nothing /\ log' = {}
    /\ started' = FALSE /\ scheduled' = Nothing /\ submitted' = {}
    /\ Cut(running)
    /\ UNCHANGED << saved, savedLog, acked, edits, faults >>

-----------------------------------------------------------------------------
(* Properties.                                                             *)

\* An edit that was reported as done is in jobs.json, whatever restarts,
\* failed saves and edits of other jobs there were since, and while the
\* scheduler runs it is what APScheduler goes by (scheduler.add, remove, toggle;
\* cron.update).
AckedIsInForce ==
    \A j \in Jobs :
        acked[j] \notin {Never, Unsure} =>
            /\ saved[j] = acked[j]
            /\ started => scheduled[j] = ScheduleOf(acked[j])

\* Once the caller was told that a job is disabled or removed, no dispatch of it
\* begins, though a fire may already have been submitted, until an edit enables
\* it again (CronScheduler._fire).
NoFireOnceStoodDown ==
    [][\A j \in Jobs :
         /\ Len(history') > Len(history)
         /\ history'[Len(history')] = [job |-> j, end |-> "live"]
         => acked[j] # None /\ (acked[j] \in Job => acked[j].enabled)]_cronVars

\* Every run dispatched has its record in runs.json, across restarts and
\* concurrent runs of its job, unless MaxPerJob later runs of the job pushed it
\* out ("we always have a record even if the dispatcher raises"); and the record
\* tells how it ended, except that a cancelled run stays "running" and that a
\* failed save may spoil it (CronScheduler._fire, CronRunStore).
RunLogTells ==
    \A r \in 1 .. Len(history) :
        \/ history[r].end = "unstarted"
        \/ Cardinality({q \in r + 1 .. Len(history) : history[q].job = history[r].job})
               >= MaxPerJob
        \/ \E e \in savedLog :
               /\ e.run = r
               /\ e.status \in CASE history[r].end \in {"live", "cut"} -> {"running"}
                                 [] history[r].end = "returned" -> {"ok"}
                                 [] history[r].end = "raised" -> {"error"}
                                 [] history[r].end = "spoiled" -> Status
=============================================================================

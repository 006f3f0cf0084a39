--------------------------- MODULE GatewayProofs ---------------------------
(***************************************************************************)
(* Proofs about Gateway and Cron: what an edit of a job promises, which    *)
(* runs may begin, what runs.json tells and which answers arrive, for      *)
(* every set of jobs, clients and RPC tasks, every MaxPerJob and any       *)
(* number of edits, runs, failed saves and restarts.                       *)
(***************************************************************************)
EXTENDS Gateway, FiniteSetTheorems, TLAPS

(***************************************************************************)
(* Run logs.  The lemmas are about any history h and any set of entries,   *)
(* because the same facts are needed of the memory and of the file, before *)
(* a step and after it.                                                    *)
(***************************************************************************)
History == Seq([job : Jobs, end : End])
Entries(h) == [run : 1 .. Len(h), job : Jobs, status : Status]

\* A run log holds one entry for a run, of the run's job.
OneEntryEach(h, entries) ==
    /\ \A e, f \in entries : e.run = f.run => e = f
    /\ \A e \in entries : e.job = h[e.run].job

\* The later runs of a run's job.
Later(h, r) == {q \in r + 1 .. Len(h) : h[q].job = h[r].job}

PushedOut(h, r) == Cardinality(Later(h, r)) >= MaxPerJob

\* The statuses that tell how a run ended.
Telling(end) ==
    CASE end \in {"live", "cut"} -> {"running"}
      [] end = "returned" -> {"ok"}
      [] end = "raised" -> {"error"}
      [] end = "spoiled" -> Status

\* What RunLogTells says of runs.json, of any run log.
Tells(h, entries) ==
    \A r \in 1 .. Len(h) :
        \/ h[r].end = "unstarted"
        \/ PushedOut(h, r)
        \/ \E e \in entries : e.run = r /\ e.status \in Telling(h[r].end)

\* A history after the end of a run.
Ended(h, r, end) == [h EXCEPT ![r].end = end]

\* A history, and a run log, after _fire.
Begun(h, j, end) == Append(h, [job |-> j, end |-> end])
WithEntry(h, entries, j) ==
    entries \cup {[run |-> Len(h) + 1, job |-> j, status |-> "running"]}

\* Later runs of a job are finitely many, and there are only more of them as the
\* history grows.
LEMMA LaterGrows ==
    ASSUME NEW h \in History, NEW g \in History, Len(h) <= Len(g),
           \A q \in 1 .. Len(h) : g[q].job = h[q].job,
           NEW r \in 1 .. Len(h)
    PROVE  PushedOut(h, r) => PushedOut(g, r)
<1>1. Later(h, r) \subseteq Later(g, r)
    BY DEF Later, History
<1>2. IsFiniteSet(Later(g, r))
  <2>1. Later(g, r) \in SUBSET (r + 1 .. Len(g)) /\ r + 1 \in Int /\ Len(g) \in Int
      BY DEF Later, History
  <2>2. QED
      BY <2>1, FS_Interval, FS_Subset
<1>3. IsFiniteSet(Later(h, r)) /\ Cardinality(Later(h, r)) <= Cardinality(Later(g, r))
    BY <1>1, <1>2, FS_Subset
<1>4. Cardinality(Later(h, r)) \in Nat /\ Cardinality(Later(g, r)) \in Nat
    BY <1>2, <1>3, FS_CardinalityType
<1>5. QED
    BY <1>3, <1>4, CronConstants DEF PushedOut

\* An entry that prune() drops is of a run that MaxPerJob later runs pushed out:
\* each of the newer entries it counts stands for a run of its own.
LEMMA DroppedIsPushedOut ==
    ASSUME NEW h \in History, NEW entries \in SUBSET Entries(h), OneEntryEach(h, entries),
           NEW e \in entries, e \notin Pruned(entries)
    PROVE  PushedOut(h, e.run)
<1> DEFINE newer == {f \in entries : f.job = e.job /\ f.run > e.run}
           run == [f \in newer |-> f.run]
<1>1. /\ \A f \in entries : f.run \in 1 .. Len(h)
      /\ Len(h) \in Nat
    BY DEF Entries, History
<1>2. run \in Injection(newer, Later(h, e.run))
    BY <1>1 DEF OneEntryEach, Later, Injection, IsInjective
<1>3. IsFiniteSet(Later(h, e.run))
  <2>1. Later(h, e.run) \in SUBSET (e.run + 1 .. Len(h)) /\ e.run + 1 \in Int /\ Len(h) \in Int
      BY <1>1 DEF Later
  <2>2. QED
      BY <2>1, FS_Interval, FS_Subset
<1>4. IsFiniteSet(newer) /\ Cardinality(newer) <= Cardinality(Later(h, e.run))
    BY <1>2, <1>3, FS_Injection
<1>5. Cardinality(newer) \in Nat /\ Cardinality(Later(h, e.run)) \in Nat
    BY <1>3, <1>4, FS_CardinalityType
<1>6. ~ (Cardinality(newer) < MaxPerJob)
    BY DEF Pruned
<1>7. QED
    BY <1>4, <1>5, <1>6, CronConstants DEF PushedOut

\* prune() leaves a log that tells as much.
LEMMA PrunedTells ==
    ASSUME NEW h \in History, NEW entries \in SUBSET Entries(h), OneEntryEach(h, entries)
    PROVE  /\ Pruned(entries) \in SUBSET entries
           /\ OneEntryEach(h, Pruned(entries))
           /\ Tells(h, entries) => Tells(h, Pruned(entries))
<1>1. Pruned(entries) \subseteq entries
    BY DEF Pruned
<1>2. OneEntryEach(h, Pruned(entries))
    BY <1>1 DEF OneEntryEach
<1>3. ASSUME Tells(h, entries) PROVE Tells(h, Pruned(entries))
    BY <1>3, DroppedIsPushedOut DEF Tells
<1>4. QED
    BY <1>1, <1>2, <1>3

\* Ends of runs change: the log still tells when it does so of those runs, or when
\* they had been pushed out.
LEMMA EndsChange ==
    ASSUME NEW h \in History, NEW g \in History, Len(g) = Len(h),
           \A q \in 1 .. Len(h) : g[q].job = h[q].job,
           NEW entries, Tells(h, entries),
           \A q \in 1 .. Len(h) :
               \/ g[q].end = h[q].end
               \/ PushedOut(h, q)
               \/ \E e \in entries : e.run = q /\ e.status \in Telling(g[q].end)
    PROVE  Tells(g, entries)
<1>1. ASSUME NEW q \in 1 .. Len(h) PROVE PushedOut(h, q) => PushedOut(g, q)
  <2>1. Len(h) <= Len(g)
      BY DEF History
  <2>2. QED
      BY <2>1, LaterGrows
<1>2. QED
    BY <1>1 DEF Tells

\* update() replaces the status of one entry.
LEMMA MarkedOne ==
    ASSUME NEW h \in History, NEW entries \in SUBSET Entries(h), OneEntryEach(h, entries),
           NEW r \in 1 .. Len(h), NEW st \in Status
    PROVE  /\ Marked(entries, r, st) \in SUBSET Entries(h)
           /\ OneEntryEach(h, Marked(entries, r, st))
           /\ \A e \in entries : e.run # r => e \in Marked(entries, r, st)
           /\ \A e \in entries : e.run = r =>
                 [e EXCEPT !.status = st] \in Marked(entries, r, st)
<1> DEFINE m(e) == IF e.run = r THEN [e EXCEPT !.status = st] ELSE e
<1>1. \A e \in entries : m(e) \in Entries(h) /\ m(e).run = e.run /\ m(e).job = e.job
    BY DEF Entries
<1>2. Marked(entries, r, st) = {m(e) : e \in entries}
    BY DEF Marked
<1>3. OneEntryEach(h, Marked(entries, r, st))
  <2>1. ASSUME NEW a \in entries, NEW b \in entries, m(a).run = m(b).run PROVE m(a) = m(b)
      BY <1>1, <2>1 DEF OneEntryEach
  <2>2. ASSUME NEW a \in entries PROVE m(a).job = h[m(a).run].job
      BY <1>1 DEF OneEntryEach
  <2> HIDE DEF m
  <2>3. QED
      BY <1>2, <2>1, <2>2 DEF OneEntryEach
<1>4. QED
    BY <1>1, <1>2, <1>3

\* A history is a function on the numbers of its runs.
LEMMA HistoryOf ==
    ASSUME NEW h \in History
    PROVE  /\ Len(h) \in Nat /\ h \in [1 .. Len(h) -> [job : Jobs, end : End]]
           /\ \A r \in 1 .. Len(h) : h[r] \in [job : Jobs, end : End]
<1>1. ASSUME NEW S, NEW s \in Seq(S)
      PROVE  Len(s) \in Nat /\ s \in [1 .. Len(s) -> S] /\ \A r \in 1 .. Len(s) : s[r] \in S
    OBVIOUS
<1>2. QED
    BY <1>1, Zenon DEF History

\* A function on the same numbers is a history.
LEMMA HistoryFrom ==
    ASSUME NEW n \in Nat, NEW g \in [1 .. n -> [job : Jobs, end : End]]
    PROVE  g \in History /\ Len(g) = n
<1>1. ASSUME NEW S, NEW s \in [1 .. n -> S] PROVE s \in Seq(S) /\ Len(s) = n
    OBVIOUS
<1>2. QED
    BY <1>1, Zenon DEF History

\* The end of a run changes its end in the history and nothing else.
LEMMA EndedHistory ==
    ASSUME NEW h \in History, NEW r \in 1 .. Len(h), NEW end \in End
    PROVE  /\ Ended(h, r, end) \in History /\ Len(Ended(h, r, end)) = Len(h)
           /\ \A q \in 1 .. Len(h) : Ended(h, r, end)[q].job = h[q].job
           /\ \A q \in 1 .. Len(h) : q # r => Ended(h, r, end)[q] = h[q]
           /\ Ended(h, r, end)[r].end = end
<1> DEFINE g == Ended(h, r, end)
<1> DEFINE ended == [h[r] EXCEPT !.end = end]
<1>1. /\ Len(h) \in Nat /\ h \in [1 .. Len(h) -> [job : Jobs, end : End]]
      /\ h[r] \in [job : Jobs, end : End]
    BY HistoryOf, Zenon
<1>2. ended \in [job : Jobs, end : End] /\ ended.job = h[r].job /\ ended.end = end
    BY <1>1
<1>3. g = [h EXCEPT ![r] = ended]
    BY DEF Ended
<1> HIDE DEF ended, g
<1>4. /\ g \in [1 .. Len(h) -> [job : Jobs, end : End]]
      /\ g[r] = ended /\ \A q \in 1 .. Len(h) : q # r => g[q] = h[q]
    BY <1>1, <1>2, <1>3
<1>5. g \in History /\ Len(g) = Len(h)
    BY <1>1, <1>4, HistoryFrom, Zenon
<1>6. QED
    BY <1>2, <1>4, <1>5 DEF g

\* A run ends and its entry, where there is one, is marked accordingly: the log
\* tells how it ended.
LEMMA MarkedTells ==
    ASSUME NEW h \in History, NEW entries \in SUBSET Entries(h), OneEntryEach(h, entries),
           NEW r \in 1 .. Len(h), h[r].end = "live",
           NEW end \in {"returned", "raised", "spoiled"}, NEW st \in Telling(end),
           NEW g, g = Ended(h, r, end),
           Tells(h, entries)
    PROVE  Tells(g, Marked(entries, r, st))
<1>1. /\ g \in History /\ Len(g) = Len(h)
      /\ \A q \in 1 .. Len(h) : g[q].job = h[q].job
      /\ \A q \in 1 .. Len(h) : q # r => g[q] = h[q]
      /\ g[r].end = end
  <2>1. end \in End
      BY DEF End
  <2>2. QED
      BY <2>1, EndedHistory
<1>2. st \in Status
    BY DEF Telling, Status
<1>3. ASSUME NEW q \in 1 .. Len(h) PROVE PushedOut(h, q) => PushedOut(g, q)
  <2>1. Len(h) <= Len(g)
      BY <1>1 DEF History
  <2>2. QED
      BY <1>1, <2>1, LaterGrows
<1>4. ASSUME NEW q \in 1 .. Len(g), ~ PushedOut(g, q), g[q].end # "unstarted"
      PROVE  \E e \in Marked(entries, r, st) : e.run = q /\ e.status \in Telling(g[q].end)
  <2>1. h[q].end # "unstarted" /\ ~ PushedOut(h, q)
      BY <1>1, <1>3, <1>4
  <2>2. PICK e \in entries : e.run = q /\ e.status \in Telling(h[q].end)
      BY <1>1, <2>1 DEF Tells
  <2>3. CASE q # r
    <3>1. g[q] = h[q]
        BY <1>1, <2>3
    <3>2. QED
        BY <2>2, <2>3, <3>1, <1>2, MarkedOne
  <2>4. CASE q = r
    <3>1. g[q].end = end
        BY <1>1, <2>4
    <3>2. [e EXCEPT !.status = st] \in Marked(entries, r, st)
        BY <2>2, <2>4, <1>2, MarkedOne
    <3>3. [e EXCEPT !.status = st].run = r /\ [e EXCEPT !.status = st].status = st
        BY <2>2, <2>4 DEF Entries
    <3>4. QED
        BY <2>4, <3>1, <3>2, <3>3
  <2>5. QED
      BY <2>3, <2>4
<1>5. QED
    BY <1>4 DEF Tells

\* _fire appends a run and its entry.  A run whose save failed is no run that was
\* dispatched, and its entry does no harm.
LEMMA FireTells ==
    ASSUME NEW h \in History, NEW entries \in SUBSET Entries(h), OneEntryEach(h, entries),
           NEW j \in Jobs, NEW end \in {"live", "unstarted"},
           NEW g, g = Begun(h, j, end), NEW more, more = WithEntry(h, entries, j)
    PROVE  /\ g \in History /\ entries \in SUBSET Entries(g) /\ more \in SUBSET Entries(g)
           /\ Len(g) = Len(h) + 1 /\ \A q \in 1 .. Len(h) : g[q] = h[q]
           /\ g[Len(h) + 1].end = end
           /\ OneEntryEach(g, entries) /\ OneEntryEach(g, more)
           /\ Tells(h, entries) => Tells(g, more)
           /\ Tells(h, entries) /\ end = "unstarted" => Tells(g, entries)
<1> DEFINE new == [run |-> Len(h) + 1, job |-> j, status |-> "running"]
<1>0. more = entries \cup {new} /\ g = Append(h, [job |-> j, end |-> end])
    BY DEF Begun, WithEntry
<1>1. /\ g \in History /\ Len(h) \in Nat /\ Len(g) = Len(h) + 1
      /\ \A q \in 1 .. Len(h) : g[q] = h[q]
      /\ g[Len(h) + 1] = [job |-> j, end |-> end]
    BY <1>0 DEF History, End
<1>2. entries \in SUBSET Entries(g) /\ more \in SUBSET Entries(g)
    BY <1>0, <1>1 DEF Entries, Status
<1>3. \A e \in entries : e.run \in 1 .. Len(h)
    BY DEF Entries
<1>4. OneEntryEach(g, entries) /\ OneEntryEach(g, more)
    BY <1>0, <1>1, <1>3 DEF OneEntryEach
<1>5. ASSUME NEW q \in 1 .. Len(h) PROVE PushedOut(h, q) => PushedOut(g, q)
  <2>1. Len(h) <= Len(g) /\ \A p \in 1 .. Len(h) : g[p].job = h[p].job
      BY <1>1
  <2>2. QED
      BY <1>1, <2>1, LaterGrows
<1>6. ASSUME Tells(h, entries) PROVE Tells(g, more)
  <2>1. ASSUME NEW q \in 1 .. Len(h)
        PROVE  \/ g[q].end = "unstarted" \/ PushedOut(g, q)
               \/ \E e \in more : e.run = q /\ e.status \in Telling(g[q].end)
      BY <1>0, <1>1, <1>5, <1>6 DEF Tells
  <2>2. \/ g[Len(h) + 1].end = "unstarted"
        \/ \E e \in more : e.run = Len(h) + 1 /\ e.status \in Telling(g[Len(h) + 1].end)
    <3>1. CASE end = "unstarted"
        BY <1>1, <3>1
    <3>2. CASE end = "live"
      <4>1. new \in more /\ new.run = Len(h) + 1 /\ new.status = "running"
          BY <1>0
      <4>2. "running" \in Telling(g[Len(h) + 1].end)
          BY <1>1, <3>2 DEF Telling
      <4>3. QED
          BY <4>1, <4>2
    <3>3. QED
        BY <3>1, <3>2
  <2>3. QED
      BY <1>1, <2>1, <2>2 DEF Tells
<1>7. ASSUME Tells(h, entries), end = "unstarted" PROVE Tells(g, entries)
    BY <1>1, <1>5, <1>7 DEF Tells
<1>8. QED
    BY <1>1, <1>2, <1>4, <1>6, <1>7

\* Entries keep to their runs when only the ends of runs change.
LEMMA EntriesKept ==
    ASSUME NEW h \in History, NEW g \in History, Len(g) = Len(h),
           \A q \in 1 .. Len(h) : g[q].job = h[q].job,
           NEW entries \in SUBSET Entries(h), OneEntryEach(h, entries)
    PROVE  entries \in SUBSET Entries(g) /\ OneEntryEach(g, entries)
<1>1. entries \in SUBSET Entries(g)
    BY DEF Entries
<1>2. \A e \in entries : e.run \in 1 .. Len(h)
    BY DEF Entries
<1>3. QED
    BY <1>1, <1>2 DEF OneEntryEach

-----------------------------------------------------------------------------
(***************************************************************************)
(* The inductive invariant.  The properties speak of the files and of      *)
(* APScheduler; what keeps them true is the memory in between, which the   *)
(* next save writes out whole.                                             *)
(***************************************************************************)
\* An edit reported as done is in the memory too, so that the save of another
\* job carries it along.
AckedInMemory ==
    \A j \in Jobs : Up /\ acked[j] \notin {Never, Unsure} => jobs[j] = acked[j]

\* Both the file and, in a process that runs, the memory are logs that tell.
LogsTell ==
    /\ OneEntryEach(history, savedLog) /\ Tells(history, savedLog)
    /\ OneEntryEach(history, log) /\ (Up => Tells(history, log))

\* A run that is awaited has not ended, and it is awaited once.
RunsAreLive ==
    /\ \A x \in running : history[x.run].end = "live"
    /\ \A x, y \in running : x.run = y.run => x = y

\* A task that awaits a run awaits that one only; no process, no runs.
RunsAreAwaited ==
    /\ \A x \in running : x.by \in Tasks => task[x.by].at = "handling"
    /\ \A x, y \in running : x.by = y.by /\ x.by # Timer => x = y
    /\ ~ Up => running = {}

\* While the server listens, a task in flight has its connection, or its client
\* left; afterwards nothing is in flight.
FlightHasClient ==
    \A t \in InFlight : Listening /\ task[t].client \in conns \cup left

IInv ==
    /\ TypeOK
    /\ AckedIsInForce /\ AckedInMemory
    /\ LogsTell /\ RunsAreLive
    /\ RunsAreAwaited /\ FlightHasClient /\ AnswersArrive

(***************************************************************************)
(* What a step of the process is to the scheduler.                         *)
(***************************************************************************)
CutRuns(xs) ==
    /\ Cut(xs)
    /\ UNCHANGED << jobStore, started, scheduled, submitted, log, savedLog, faults >>

WorkStep ==
    \/ \E j \in Jobs, new \in Job \cup {None} : Edit(j, new)
    \/ \E j \in Jobs : Due(j)
    \/ \E j \in Jobs : TimerFires(j)
    \/ \E j \in Jobs, t \in Tasks : FireNow(j, t)
    \/ \E x \in running : DispatchEnds(x)

CronStep ==
    \/ Up /\ Up' /\ WorkStep
    \/ (Up' <=> Up) /\ \E xs \in SUBSET running : CutRuns(xs)
    \/ Up' /\ Start
    \/ (Up' <=> Up) /\ Stop
    \/ ~ Up' /\ Gone
    \/ (Up' <=> Up) /\ UNCHANGED cronVars

\* Every step of the gateway is one of these to the scheduler: edits, fires and
\* ends of dispatches happen only in a process that runs.
LEMMA NextIsCronStep == TypeOK /\ [Next]_vars => CronStep
<1> SUFFICES ASSUME TypeOK, [Next]_vars PROVE CronStep
    OBVIOUS
<1>1. ASSUME NEW j \in Jobs, Add(j) \/ Remove(j) \/ Toggle(j) \/ Update(j)
      PROVE  \E new \in Job \cup {None} : Edit(j, new)
  <2>1. CASE Add(j) \/ Update(j)
      BY <2>1 DEF Add, Update
  <2>2. CASE Remove(j)
      BY <2>2 DEF Remove
  <2>3. CASE Toggle(j)
    <3>1. PICK e \in BOOLEAN : jobs[j] # None /\ Edit(j, [jobs[j] EXCEPT !.enabled = e])
        BY <2>3 DEF Toggle
    <3>2. [jobs[j] EXCEPT !.enabled = e] \in Job
        BY <3>1 DEF TypeOK, CronTypeOK, Job
    <3>3. QED
        BY <3>1, <3>2
  <2>4. QED
      BY <1>1, <2>1, <2>2, <2>3
<1>2. ASSUME NEW c \in Clients, Connect(c) \/ Receive(c) \/ ReceiveLate(c) PROVE CronStep
    BY <1>2 DEF Connect, Receive, ReceiveLate, CronStep, Up
<1>3. ASSUME NEW c \in Clients, Disconnect(c) PROVE CronStep
    BY <1>3 DEF Disconnect, CutTasks, CutRuns, CronStep, Up
<1>4. ASSUME NEW t \in Tasks, HandleEdit(t) PROVE CronStep
    BY <1>1, <1>4 DEF HandleEdit, Listening, CronStep, WorkStep, Up
<1>5. ASSUME NEW t \in Tasks, HandleFire(t) \/ Reply(t) PROVE CronStep
    BY <1>5 DEF HandleFire, Reply, Listening, CronStep, WorkStep, Up
<1>6. ASSUME NEW x \in running, TurnEnds(x) PROVE CronStep
    BY <1>6 DEF TurnEnds, CronStep, WorkStep, Up
<1>7. ASSUME NEW j \in Jobs, CronTool(j) \/ Clock(j) PROVE CronStep
    BY <1>1, <1>7 DEF CronTool, Clock, serverVars, CronStep, WorkStep, Up
<1>8. CASE Boot \/ Signal \/ Drain \/ Drained \/ StopCron
    BY <1>8 DEF Boot, Signal, Drain, Drained, StopCron, CronStep, Up
<1>9. CASE DrainTimeout
    BY <1>9 DEF DrainTimeout, CutTasks, CutRuns, CronStep, Up
<1>10. CASE Exit \/ Crash
    BY <1>10 DEF Exit, Crash, ProcessEnds, CronStep, Up
<1>11. CASE UNCHANGED vars
    BY <1>11 DEF vars, serverVars, CronStep, Up
<1>12. QED
    BY <1>2, <1>3, <1>4, <1>5, <1>6, <1>7, <1>8, <1>9, <1>10, <1>11 DEF Next

\* Cancelling runs leaves a history that differs in the ends of those runs.
LEMMA CutHistory ==
    ASSUME CronTypeOK, NEW xs \in SUBSET running, Cut(xs)
    PROVE  /\ history' \in History /\ Len(history') = Len(history)
           /\ \A q \in 1 .. Len(history) : history'[q].job = history[q].job
           /\ \A q \in 1 .. Len(history) :
                 \/ history'[q] = history[q] /\ \A x \in xs : x.run # q
                 \/ history'[q].end = "cut" /\ \E x \in xs : x.run = q
<1> DEFINE cut(q) == IF \E x \in xs : x.run = q THEN [history[q] EXCEPT !.end = "cut"]
                     ELSE history[q]
<1>1. /\ Len(history) \in Nat /\ history \in [1 .. Len(history) -> [job : Jobs, end : End]]
      /\ \A q \in 1 .. Len(history) : history[q] \in [job : Jobs, end : End]
  <2>1. history \in History
      BY DEF CronTypeOK, History
  <2>2. QED
      BY <2>1, HistoryOf, Zenon
<1>2. \A q \in 1 .. Len(history) :
        /\ cut(q) \in [job : Jobs, end : End] /\ cut(q).job = history[q].job
        /\ \/ cut(q) = history[q] /\ \A x \in xs : x.run # q
           \/ cut(q).end = "cut" /\ \E x \in xs : x.run = q
    BY <1>1 DEF End
<1>3. history' = [q \in 1 .. Len(history) |-> cut(q)]
    BY <1>1 DEF Cut
<1> HIDE DEF cut
<1>4. /\ history' \in [1 .. Len(history) -> [job : Jobs, end : End]]
      /\ \A q \in 1 .. Len(history) : history'[q] = cut(q)
    BY <1>2, <1>3
<1>5. history' \in History /\ Len(history') = Len(history)
    BY <1>1, <1>4, HistoryFrom, Zenon
<1>6. QED
    BY <1>2, <1>4, <1>5

\* Every step of the scheduler keeps its fields and files in their types.
LEMMA CronTypeStep == CronTypeOK /\ CronStep => CronTypeOK'
<1> SUFFICES ASSUME CronTypeOK, CronStep PROVE CronTypeOK'
    OBVIOUS
<1> DEFINE Store == /\ jobs \in [Jobs -> Job \cup {None}] /\ saved \in [Jobs -> Job \cup {None}]
                    /\ acked \in [Jobs -> Job \cup {None, Never, Unsure}]
                    /\ edits \in 0 .. MaxEdits
           Planned == /\ started \in BOOLEAN /\ submitted \subseteq Jobs
                      /\ scheduled \in [Jobs -> Schedules \cup {None}]
           Run(h) == [run : 1 .. Len(h), job : Jobs, by : Callers \cup {Timer}]
           Runs == /\ history \in History /\ running \in SUBSET Run(history)
                   /\ log \in SUBSET Entries(history)
                   /\ savedLog \in SUBSET Entries(history)
           Disk == faults \in 0 .. MaxFaults
<1>1. Store /\ Planned /\ Runs /\ Disk
    BY DEF CronTypeOK, History, Entries
<1>2. SUFFICES Store' /\ Planned' /\ Runs' /\ Disk'
    BY DEF CronTypeOK, History, Entries
<1> USE CronConstants DEF jobStore, runLog
<1>a. ASSUME NEW h \in History, NEW g \in History, Len(h) <= Len(g)
      PROVE  Run(h) \subseteq Run(g) /\ Entries(h) \subseteq Entries(g)
    BY <1>a DEF History, Entries
<1>b. DiskFails => Disk'
    BY <1>1 DEF DiskFails
<1>c. \A job \in Job \cup {None} : ScheduleOf(job) \in Schedules \cup {None}
    BY DEF ScheduleOf, Job
<1>3. ASSUME NEW j \in Jobs, NEW new \in Job \cup {None}, Edit(j, new)
      PROVE  Store' /\ Planned' /\ Runs' /\ Disk'
    BY <1>1, <1>3, <1>b, <1>c DEF Edit, Edited, EditRaises, Rescheduled
<1>4. ASSUME NEW j \in Jobs, Due(j) PROVE Store' /\ Planned' /\ Runs' /\ Disk'
    BY <1>1, <1>4 DEF Due
<1>5. ASSUME NEW j \in Jobs, NEW by \in Callers \cup {Timer}, Fire(j, by)
      PROVE  Runs' /\ Disk'
  <2> DEFINE e == [run |-> Len(history) + 1, job |-> j, status |-> "running"]
  <2>1. \E end \in {"live", "unstarted"} : history' = Begun(history, j, end)
      BY <1>5 DEF Fire, Begun
  <2>2. /\ history' \in History /\ Len(history') = Len(history) + 1
        /\ Len(history) \in Nat
    <3>1. PICK end \in End : history' = Begun(history, j, end)
        BY <2>1 DEF End
    <3>2. [job |-> j, end |-> end] \in [job : Jobs, end : End]
        OBVIOUS
    <3>3. QED
        BY <1>1, <3>1, <3>2 DEF Begun, History
  <2>3. Run(history) \subseteq Run(history') /\ Entries(history) \subseteq Entries(history')
      BY <1>1, <2>2, <1>a
  <2>4. [run |-> Len(history) + 1, job |-> j, by |-> by] \in Run(history')
      BY <2>2
  <2>5. e \in Entries(history')
      BY <2>2 DEF Entries, Status
  <2> HIDE DEF e, Run
  <2>6. QED
      BY <1>1, <1>5, <2>2, <2>3, <2>4, <2>5, <1>b DEF Fire, e
<1>6. ASSUME NEW j \in Jobs, TimerFires(j) PROVE Store' /\ Planned' /\ Runs' /\ Disk'
  <2>1. CASE Fireable(j) /\ Fire(j, Timer)
      BY <1>1, <1>5, <1>6, <2>1 DEF TimerFires
  <2>2. CASE ~ Fireable(j)
      BY <1>1, <1>6, <2>2 DEF TimerFires
  <2>3. QED
      BY <1>6, <2>1, <2>2 DEF TimerFires
<1>7. ASSUME NEW j \in Jobs, NEW t \in Tasks, FireNow(j, t)
      PROVE  Store' /\ Planned' /\ Runs' /\ Disk'
    BY <1>1, <1>5, <1>7 DEF FireNow, Tasks
<1>8. ASSUME NEW x \in running, DispatchEnds(x) PROVE Store' /\ Planned' /\ Runs' /\ Disk'
  <2>1. x.run \in 1 .. Len(history)
      BY <1>1
  <2>2. PICK end \in End : Over(x, end)
      BY <1>8 DEF DispatchEnds, Returned, ReturnSpoiled, Raised, End
  <2>3. history' = Ended(history, x.run, end)
      BY <2>2 DEF Over, Ended
  <2>4. history' \in History /\ Len(history') = Len(history)
      BY <1>1, <2>1, <2>3, EndedHistory
  <2>5. \A entries \in SUBSET Entries(history), st \in Status :
            Marked(entries, x.run, st) \in SUBSET Entries(history)
      BY DEF Marked, Entries
  <2>6. \A entries \in SUBSET Entries(history) : Pruned(entries) \in SUBSET Entries(history)
      BY DEF Pruned
  <2>7. log' \in SUBSET Entries(history) /\ savedLog' \in SUBSET Entries(history)
      BY <1>1, <1>8, <2>5, <2>6 DEF DispatchEnds, Returned, ReturnSpoiled, Raised, Status
  <2>8. Entries(history') = Entries(history) /\ Run(history') = Run(history)
      BY <2>4 DEF Entries
  <2>9. Disk'
      BY <1>1, <1>8, <1>b DEF DispatchEnds, Returned, ReturnSpoiled, Raised
  <2>10. Store' /\ Planned' /\ running' \subseteq running
      BY <1>1, <2>2 DEF Over
  <2>11. QED
      BY <1>1, <2>4, <2>7, <2>8, <2>9, <2>10
<1>9. ASSUME NEW xs \in SUBSET running, Cut(xs)
      PROVE  /\ history' \in History /\ running' \in SUBSET Run(history')
             /\ Entries(history') = Entries(history)
    BY <1>1, <1>9, CutHistory DEF Cut, Entries
<1>10. ASSUME NEW xs \in SUBSET running, CutRuns(xs) PROVE Store' /\ Planned' /\ Runs' /\ Disk'
    BY <1>1, <1>9, <1>10 DEF CutRuns
<1>11. CASE Start
    BY <1>1, <1>11, <1>c DEF Start
<1>12. CASE Stop
  <2>1. {x \in running : x.by = Timer} \in SUBSET running
      OBVIOUS
  <2>2. QED
      BY <1>1, <1>9, <1>12, <2>1 DEF Stop, Nothing
<1>13. CASE Gone
    BY <1>1, <1>9, <1>13 DEF Gone, Nothing
<1>14. CASE UNCHANGED cronVars
    BY <1>1, <1>14 DEF cronVars
<1>15. QED
    BY <1>3, <1>4, <1>6, <1>7, <1>8, <1>10, <1>11, <1>12, <1>13, <1>14
       DEF CronStep, WorkStep

\* Every step keeps what an edit reported in the memory, in the file and in
\* APScheduler.
LEMMA InForceStep ==
    CronTypeOK /\ AckedIsInForce /\ AckedInMemory /\ CronStep
        => AckedIsInForce' /\ AckedInMemory'
<1> SUFFICES ASSUME CronTypeOK, AckedIsInForce, AckedInMemory, CronStep
             PROVE  AckedIsInForce' /\ AckedInMemory'
    OBVIOUS
<1> USE DEF CronTypeOK, AckedIsInForce, AckedInMemory, jobStore, runLog
<1>1. ASSUME Up, Up', NEW j \in Jobs, NEW new \in Job \cup {None}, Edit(j, new)
      PROVE  AckedIsInForce' /\ AckedInMemory'
  <2>1. CASE Edited(j, new)
      BY <1>1, <2>1 DEF Edit, Edited, Rescheduled
  <2>2. CASE EditRaises(j, new)
      BY <1>1, <2>2 DEF Edit, EditRaises
  <2>3. QED
      BY <1>1, <2>1, <2>2 DEF Edit
<1>2. ASSUME Up, Up', WorkStep, UNCHANGED << jobStore, started, scheduled >>
      PROVE  AckedIsInForce' /\ AckedInMemory'
    BY <1>2
<1>3. WorkStep => \/ UNCHANGED << jobStore, started, scheduled >>
                  \/ \E j \in Jobs, new \in Job \cup {None} : Edit(j, new)
    BY DEF WorkStep, Due, TimerFires, FireNow, DispatchEnds, Returned, ReturnSpoiled,
           Raised, Over
<1>4. CASE (Up' <=> Up) /\ \E xs \in SUBSET running : CutRuns(xs)
    BY <1>4 DEF CutRuns
<1>5. CASE Up' /\ Start
    BY <1>5 DEF Start
<1>6. CASE (Up' <=> Up) /\ Stop
    BY <1>6 DEF Stop
<1>7. CASE ~ Up' /\ Gone
    BY <1>7 DEF Gone
<1>8. CASE (Up' <=> Up) /\ UNCHANGED cronVars
    BY <1>8 DEF cronVars
<1>9. QED
    BY <1>1, <1>2, <1>3, <1>4, <1>5, <1>6, <1>7, <1>8 DEF CronStep

\* A dispatch that ends leaves logs that tell how it ended, wherever a save of
\* update(), of prune() or of the handler failed.
LEMMA EndTells ==
    ASSUME CronTypeOK, LogsTell, RunsAreLive, Up, NEW x \in running, DispatchEnds(x)
    PROVE  /\ OneEntryEach(history', savedLog') /\ Tells(history', savedLog')
           /\ OneEntryEach(history', log') /\ Tells(history', log')
<1> DEFINE r == x.run
<1>1. /\ history \in History /\ log \in SUBSET Entries(history)
      /\ savedLog \in SUBSET Entries(history) /\ r \in 1 .. Len(history)
    BY DEF CronTypeOK, History, Entries
<1>2. /\ history[r].end = "live"
      /\ OneEntryEach(history, log) /\ OneEntryEach(history, savedLog)
      /\ Tells(history, log) /\ Tells(history, savedLog)
    BY DEF LogsTell, RunsAreLive
<1> HIDE DEF r
<1>3. ASSUME NEW end \in {"returned", "raised", "spoiled"},
             NEW entries \in SUBSET Entries(history), OneEntryEach(history, entries)
      PROVE  LET g == Ended(history, r, end) IN
             /\ g \in History /\ entries \in SUBSET Entries(g) /\ OneEntryEach(g, entries)
             /\ Pruned(entries) \in SUBSET Entries(g)
             /\ OneEntryEach(g, Pruned(entries))
             /\ Tells(g, entries) => Tells(g, Pruned(entries))
  <2>1. end \in End
      BY DEF End
  <2>2. /\ Ended(history, r, end) \in History
        /\ entries \in SUBSET Entries(Ended(history, r, end))
        /\ OneEntryEach(Ended(history, r, end), entries)
    <3>1. /\ Ended(history, r, end) \in History
          /\ Len(Ended(history, r, end)) = Len(history)
          /\ \A q \in 1 .. Len(history) : Ended(history, r, end)[q].job = history[q].job
        BY <1>1, <2>1, EndedHistory
    <3>2. QED
        BY <1>1, <1>3, <3>1, EntriesKept
  <2>3. QED
      BY <2>2, PrunedTells
<1>4. ASSUME NEW end \in {"returned", "raised", "spoiled"}, NEW st \in Telling(end),
             NEW entries \in SUBSET Entries(history), OneEntryEach(history, entries),
             Tells(history, entries)
      PROVE  LET m == Marked(entries, r, st)
                 g == Ended(history, r, end)
             IN  /\ m \in SUBSET Entries(history) /\ OneEntryEach(history, m)
                 /\ OneEntryEach(g, m) /\ Tells(g, m)
                 /\ OneEntryEach(g, Pruned(m)) /\ Tells(g, Pruned(m))
  <2>1. st \in Status
      BY DEF Telling, Status
  <2>2. /\ Marked(entries, r, st) \in SUBSET Entries(history)
        /\ OneEntryEach(history, Marked(entries, r, st))
      BY <1>1, <1>4, <2>1, MarkedOne
  <2>3. Tells(Ended(history, r, end), Marked(entries, r, st))
      BY <1>1, <1>2, <1>4, MarkedTells
  <2>4. QED
      BY <1>3, <2>2, <2>3
<1>5. ASSUME NEW end \in {"returned", "raised", "spoiled"},
             NEW entries \in SUBSET Entries(history), OneEntryEach(history, entries),
             Tells(history, entries), end = "spoiled" \/ PushedOut(history, r)
      PROVE  Tells(Ended(history, r, end), entries)
  <2>1. end \in End
      BY DEF End
  <2>2. /\ Ended(history, r, end) \in History
        /\ Len(Ended(history, r, end)) = Len(history)
        /\ \A q \in 1 .. Len(history) : Ended(history, r, end)[q].job = history[q].job
        /\ \A q \in 1 .. Len(history) : q # r => Ended(history, r, end)[q] = history[q]
        /\ Ended(history, r, end)[r].end = end
      BY <1>1, <2>1, EndedHistory
  <2>3. \/ PushedOut(history, r)
        \/ \E e \in entries : e.run = r /\ e.status \in Telling(end)
    <3>1. CASE end = "spoiled" /\ ~ PushedOut(history, r)
      <4>1. PICK e \in entries : e.run = r
          BY <1>1, <1>2, <1>5, <3>1 DEF Tells
      <4>2. e.status \in Telling(end)
          BY <3>1 DEF Telling, Entries
      <4>3. QED
          BY <4>1, <4>2
    <3>2. QED
        BY <1>5, <3>1
  <2>4. \A q \in 1 .. Len(history) :
            \/ Ended(history, r, end)[q].end = history[q].end
            \/ PushedOut(history, q)
            \/ \E e \in entries : e.run = q
                                  /\ e.status \in Telling(Ended(history, r, end)[q].end)
      BY <2>2, <2>3
  <2>5. QED
      BY <1>1, <1>5, <2>2, <2>4, EndsChange
<1>6. ~ Logged(r) => PushedOut(history, r)
    BY <1>1, <1>2 DEF Tells, Logged
<1>7. /\ "ok" \in Telling("returned") /\ "error" \in Telling("raised")
      /\ "error" \in Telling("spoiled") /\ "ok" \in Telling("spoiled")
    BY DEF Telling, Status
<1>8. CASE Returned(x)
  <2> DEFINE m == Marked(log, r, "ok")
             g == Ended(history, r, "returned")
  <2>1. /\ history' = g /\ log' = Pruned(m)
        /\ savedLog' = log' \/ (~ Logged(r) /\ savedLog' = savedLog)
      BY <1>8 DEF Returned, Over, Ended, r
  <2>2. OneEntryEach(g, log') /\ Tells(g, log')
      BY <1>1, <1>2, <1>4, <1>7, <2>1
  <2>3. CASE savedLog' = log'
      BY <2>1, <2>2, <2>3
  <2>4. CASE ~ Logged(r) /\ savedLog' = savedLog
      BY <1>1, <1>2, <1>3, <1>5, <1>6, <2>1, <2>2, <2>4
  <2>5. QED
      BY <2>1, <2>3, <2>4
<1>9. CASE ReturnSpoiled(x)
  <2> DEFINE m == Marked(log, r, "ok")
             g == Ended(history, r, "spoiled")
  <2>1. history' = g
      BY <1>9 DEF ReturnSpoiled, Over, Ended, r
  <2>2. /\ m \in SUBSET Entries(history) /\ OneEntryEach(history, m)
        /\ OneEntryEach(g, m) /\ Tells(g, m)
      BY <1>1, <1>2, <1>4, <1>7
  <2>3. OneEntryEach(g, savedLog) /\ Tells(g, savedLog)
      BY <1>1, <1>2, <1>3, <1>5
  <2>4. CASE /\ log' = Marked(log, r, "error")
             /\ savedLog' \in {log', savedLog}
      BY <1>1, <1>2, <1>4, <1>7, <2>1, <2>3, <2>4
  <2>5. CASE /\ log' = Marked(Pruned(m), r, "error")
             /\ savedLog' \in {log', m, savedLog}
    <3> DEFINE p == Pruned(m)
    <3> HIDE DEF m
    <3>1. /\ p \in SUBSET Entries(g) /\ OneEntryEach(g, p) /\ Tells(g, p) /\ g \in History
        BY <1>3, <2>2
    <3>2. r \in 1 .. Len(g) /\ g[r].end = "spoiled"
      <4>1. "spoiled" \in End
          BY DEF End
      <4>2. QED
          BY <1>1, <4>1, EndedHistory
    <3> HIDE DEF g, p
    <3>3. OneEntryEach(g, Marked(p, r, "error"))
        BY <3>1, <3>2, MarkedOne DEF Status
    <3>4. Tells(g, Marked(p, r, "error"))
      <4>1. /\ \A e \in p : e.run # r => e \in Marked(p, r, "error")
            /\ \A e \in p : e.run = r => [e EXCEPT !.status = "error"] \in Marked(p, r, "error")
          BY <3>1, <3>2, MarkedOne DEF Status
      <4>2. \A e \in p : [e EXCEPT !.status = "error"].run = e.run
                         /\ [e EXCEPT !.status = "error"].status = "error"
          BY <3>1 DEF Entries
      <4>3. ASSUME NEW q \in 1 .. Len(g), g[q].end # "unstarted", ~ PushedOut(g, q)
            PROVE  \E e \in Marked(p, r, "error") : e.run = q /\ e.status \in Telling(g[q].end)
        <5>1. PICK e \in p : e.run = q /\ e.status \in Telling(g[q].end)
            BY <3>1, <4>3 DEF Tells
        <5>2. CASE q = r
            BY <1>7, <3>2, <4>1, <4>2, <5>1, <5>2
        <5>3. QED
            BY <4>1, <5>1, <5>2
      <4>4. QED
          BY <4>3 DEF Tells
    <3>5. QED
        BY <2>1, <2>2, <2>3, <2>5, <3>3, <3>4 DEF p
  <2>6. QED
      BY <1>9, <2>4, <2>5 DEF ReturnSpoiled, r
<1>10. CASE Raised(x)
  <2> DEFINE m == Marked(log, r, "error")
  <2>1. log' = m
      BY <1>10 DEF Raised, r
  <2>2. CASE /\ history' = Ended(history, r, "raised")
             /\ savedLog' = IF Logged(r) THEN log' ELSE savedLog
    <3>1. OneEntryEach(history', log') /\ Tells(history', log')
        BY <1>1, <1>2, <1>4, <1>7, <2>1, <2>2
    <3>2. CASE Logged(r)
        BY <2>2, <3>1, <3>2
    <3>3. CASE ~ Logged(r)
        BY <1>1, <1>2, <1>3, <1>5, <1>6, <2>2, <3>1, <3>3
    <3>4. QED
        BY <3>2, <3>3
  <2>3. CASE history' = Ended(history, r, "spoiled") /\ savedLog' = savedLog
    <3>1. OneEntryEach(history', log') /\ Tells(history', log')
        BY <1>1, <1>2, <1>4, <1>7, <2>1, <2>3
    <3>2. OneEntryEach(history', savedLog') /\ Tells(history', savedLog')
        BY <1>1, <1>2, <1>3, <1>5, <2>3
    <3>3. QED
        BY <3>1, <3>2
  <2>4. QED
      BY <1>10, <2>2, <2>3 DEF Raised, Over, Ended, r
<1>11. QED
    BY <1>8, <1>9, <1>10 DEF DispatchEnds

\* Runs that are cancelled keep their entry "running", which tells of them.
LEMMA CutTells ==
    ASSUME CronTypeOK, RunsAreLive, NEW xs \in SUBSET running, Cut(xs),
           NEW entries \in SUBSET Entries(history), OneEntryEach(history, entries)
    PROVE  /\ OneEntryEach(history', entries)
           /\ Tells(history, entries) => Tells(history', entries)
<1>1. /\ history' \in History /\ Len(history') = Len(history)
      /\ \A q \in 1 .. Len(history) : history'[q].job = history[q].job
      /\ \A q \in 1 .. Len(history) :
            \/ history'[q] = history[q]
            \/ history'[q].end = "cut" /\ \E x \in xs : x.run = q
    BY CutHistory
<1>2. history \in History
    BY DEF CronTypeOK, History
<1>3. OneEntryEach(history', entries)
    BY <1>1, <1>2, EntriesKept
<1>4. ASSUME Tells(history, entries) PROVE Tells(history', entries)
  <2>1. ASSUME NEW q \in 1 .. Len(history)
        PROVE  \/ history'[q].end = history[q].end
               \/ PushedOut(history, q)
               \/ \E e \in entries : e.run = q /\ e.status \in Telling(history'[q].end)
    <3>1. CASE history'[q].end = "cut" /\ \E x \in xs : x.run = q
      <4>1. history[q].end = "live"
          BY <3>1 DEF RunsAreLive
      <4>2. Telling(history[q].end) = Telling(history'[q].end)
          BY <3>1, <4>1 DEF Telling
      <4>3. QED
          BY <1>4, <4>1, <4>2 DEF Tells
    <3>2. QED
        BY <1>1, <3>1
  <2>2. QED
      BY <1>1, <1>2, <1>4, <2>1, EndsChange
<1>5. QED
    BY <1>3, <1>4

\* Runs that go on are live still when others are cancelled.
LEMMA CutLeavesLive ==
    ASSUME CronTypeOK, RunsAreLive, NEW xs \in SUBSET running, Cut(xs)
    PROVE  RunsAreLive'
<1>1. \A q \in 1 .. Len(history) :
            \/ history'[q] = history[q]
            \/ \E x \in xs : x.run = q
    BY CutHistory
<1>2. \A y \in running : y.run \in 1 .. Len(history)
    BY DEF CronTypeOK
<1>3. running' = running \ xs
    BY DEF Cut
<1>4. QED
    BY <1>1, <1>2, <1>3 DEF RunsAreLive

\* _fire leaves logs that tell of the new run, and a run that is live.
LEMMA FireLogs ==
    ASSUME CronTypeOK, LogsTell, RunsAreLive, Up, Up', NEW j \in Jobs,
           NEW by \in Callers \cup {Timer}, Fire(j, by)
    PROVE  LogsTell' /\ RunsAreLive'
<1> DEFINE new == [run |-> Len(history) + 1, job |-> j, by |-> by]
<1>1. /\ history \in History /\ log \in SUBSET Entries(history)
      /\ savedLog \in SUBSET Entries(history)
    BY DEF CronTypeOK, History, Entries
<1>2. log' = WithEntry(history, log, j)
    BY DEF Fire, WithEntry
<1>3. PICK end \in {"live", "unstarted"} :
        /\ history' = Begun(history, j, end)
        /\ \/ end = "live" /\ running' = running \cup {new} /\ savedLog' = log'
           \/ end = "unstarted" /\ running' = running /\ savedLog' = savedLog
    BY DEF Fire, Begun
<1>4. /\ Len(history') = Len(history) + 1
      /\ \A q \in 1 .. Len(history) : history'[q] = history[q]
      /\ history'[Len(history) + 1].end = end
      /\ OneEntryEach(history', log') /\ Tells(history', log')
    BY <1>1, <1>2, <1>3, FireTells DEF LogsTell
<1>5. LogsTell'
  <2>1. ASSUME savedLog' = savedLog, end = "unstarted"
        PROVE  OneEntryEach(history', savedLog') /\ Tells(history', savedLog')
    <3>1. OneEntryEach(history', savedLog) /\ Tells(history', savedLog)
        BY <1>1, <1>3, <2>1, FireTells DEF LogsTell
    <3>2. QED
        BY <2>1, <3>1
  <2>2. ASSUME savedLog' = log'
        PROVE  OneEntryEach(history', savedLog') /\ Tells(history', savedLog')
      BY <1>4, <2>2
  <2>3. QED
      BY <1>3, <1>4, <2>1, <2>2 DEF LogsTell
<1>6. RunsAreLive'
  <2>1. Len(history) \in Nat /\ \A x \in running : x.run \in 1 .. Len(history)
      BY DEF CronTypeOK
  <2>2. ASSUME running' = running PROVE RunsAreLive'
      BY <1>4, <2>1, <2>2 DEF RunsAreLive
  <2>3. ASSUME end = "live", running' = running \cup {new} PROVE RunsAreLive'
      BY <1>4, <2>1, <2>3 DEF RunsAreLive
  <2>4. QED
      BY <1>3, <2>2, <2>3
<1>7. QED
    BY <1>5, <1>6

\* Every step keeps the file, and the memory of a process that runs, logs that tell
\* of every run.
LEMMA LogStep ==
    CronTypeOK /\ LogsTell /\ RunsAreLive /\ CronStep => LogsTell' /\ RunsAreLive'
<1> SUFFICES ASSUME CronTypeOK, LogsTell, RunsAreLive, CronStep
             PROVE  LogsTell' /\ RunsAreLive'
    OBVIOUS
<1>1. log \in SUBSET Entries(history) /\ savedLog \in SUBSET Entries(history)
    BY DEF CronTypeOK, Entries
<1>2. ASSUME Up' <=> Up, UNCHANGED << runLog, running >> PROVE LogsTell' /\ RunsAreLive'
    BY <1>2 DEF LogsTell, RunsAreLive, runLog
<1>3. ASSUME Up, Up', NEW j \in Jobs, NEW new \in Job \cup {None}, Edit(j, new)
      PROVE  LogsTell' /\ RunsAreLive'
    BY <1>2, <1>3 DEF Edit
<1>4. ASSUME Up, Up', NEW j \in Jobs, Due(j) PROVE LogsTell' /\ RunsAreLive'
    BY <1>2, <1>4 DEF Due
<1>5. ASSUME Up, Up', NEW j \in Jobs, TimerFires(j) PROVE LogsTell' /\ RunsAreLive'
  <2>1. \/ Fire(j, Timer) \/ UNCHANGED << runLog, running >>
      BY <1>5 DEF TimerFires
  <2>2. QED
      BY <1>2, <1>5, <2>1, FireLogs
<1>6. ASSUME Up, Up', NEW j \in Jobs, NEW t \in Tasks, FireNow(j, t)
      PROVE  LogsTell' /\ RunsAreLive'
    BY <1>6, FireLogs DEF FireNow, Tasks
<1>7. ASSUME Up, Up', NEW x \in running, DispatchEnds(x) PROVE LogsTell' /\ RunsAreLive'
  <2>1. LogsTell'
      BY <1>7, EndTells DEF LogsTell
  <2>2. PICK end \in End : Over(x, end)
      BY <1>7 DEF DispatchEnds, Returned, ReturnSpoiled, Raised, End
  <2>3. running' = running \ {x} /\ history' = Ended(history, x.run, end)
      BY <2>2 DEF Over, Ended
  <2>4. history \in History /\ \A y \in running : y.run \in 1 .. Len(history)
      BY DEF CronTypeOK, History
  <2>5. \A q \in 1 .. Len(history) : q # x.run => history'[q] = history[q]
      BY <2>3, <2>4, EndedHistory
  <2>6. RunsAreLive'
      BY <2>3, <2>4, <2>5 DEF RunsAreLive
  <2>7. QED
      BY <2>1, <2>6
<1>8. ASSUME Up' <=> Up, NEW xs \in SUBSET running, Cut(xs), UNCHANGED << log, savedLog >>
      PROVE  LogsTell' /\ RunsAreLive'
  <2>1. RunsAreLive'
      BY <1>8, CutLeavesLive
  <2>2. LogsTell'
      BY <1>1, <1>8, CutTells DEF LogsTell
  <2>3. QED
      BY <2>1, <2>2
<1>9. ASSUME Up' <=> Up, NEW xs \in SUBSET running, CutRuns(xs) PROVE LogsTell' /\ RunsAreLive'
    BY <1>8, <1>9 DEF CutRuns
<1>10. CASE Up' /\ Start
    BY <1>10 DEF Start, LogsTell, RunsAreLive
<1>11. CASE (Up' <=> Up) /\ Stop
  <2>1. {x \in running : x.by = Timer} \in SUBSET running
      OBVIOUS
  <2>2. QED
      BY <1>8, <1>11, <2>1 DEF Stop
<1>12. CASE ~ Up' /\ Gone
  <2>1. Cut(running) /\ log' = {} /\ savedLog' = savedLog
      BY <1>12 DEF Gone
  <2>2. RunsAreLive'
      BY <2>1, CutLeavesLive
  <2>3. OneEntryEach(history', savedLog') /\ Tells(history', savedLog')
      BY <1>1, <2>1, CutTells DEF LogsTell
  <2>4. OneEntryEach(history', log')
      BY <2>1 DEF OneEntryEach
  <2>5. QED
      BY <1>12, <2>2, <2>3, <2>4 DEF LogsTell
<1>13. CASE (Up' <=> Up) /\ UNCHANGED cronVars
    BY <1>2, <1>13 DEF cronVars, runLog
<1>14. QED
    BY <1>3, <1>4, <1>5, <1>6, <1>7, <1>9, <1>10, <1>11, <1>12, <1>13
       DEF CronStep, WorkStep

-----------------------------------------------------------------------------
(* The server. *)

\* Every step of the gateway keeps the server's fields in their types.
LEMMA ServerTypeStep == TypeOK /\ [Next]_vars => TypeOK'
<1> SUFFICES ASSUME TypeOK, [Next]_vars PROVE TypeOK'
    OBVIOUS
<1> DEFINE Task == [client : Clients \cup {None}, op : Op, at : Place]
           ServerOK == /\ phase \in Phase /\ shutting \in BOOLEAN
                       /\ conns \subseteq Clients /\ left \subseteq Clients
                       /\ task \in [Tasks -> Task]
                       /\ boots \in 0 .. MaxBoots
<1>1. CronTypeOK'
    BY NextIsCronStep, CronTypeStep DEF TypeOK
<1>2. SUFFICES ServerOK'
    BY <1>1 DEF TypeOK
<1>3. ServerOK
    BY DEF TypeOK
<1>4. \A place \in Place : Slot(place) \in Task
    BY DEF Slot, Op
<1>5. \A t \in Tasks, place \in Place : Move(t, place) => task' \in [Tasks -> Task]
    BY <1>3 DEF Move
<1>6. \A ts : Cancelled(ts) \in [Tasks -> Task]
    BY <1>3, <1>4 DEF Cancelled, Place
<1> HIDE DEF Task
<1> USE GatewayConstants DEF Phase
<1>7. ASSUME NEW c \in Clients, Connect(c) \/ ReceiveLate(c) PROVE ServerOK'
    BY <1>3, <1>7 DEF Connect, ReceiveLate
<1>8. ASSUME NEW c \in Clients, Receive(c) PROVE ServerOK'
  <2>1. \A op \in Op : [client |-> c, op |-> op, at |-> "queued"] \in Task
      BY DEF Task, Place
  <2>2. QED
      BY <1>3, <1>8, <2>1 DEF Receive
<1>9. ASSUME NEW c \in Clients, Disconnect(c) PROVE ServerOK'
    BY <1>3, <1>6, <1>9 DEF Disconnect, CutTasks
<1>10. ASSUME NEW t \in Tasks, HandleEdit(t) \/ HandleFire(t) PROVE ServerOK'
    BY <1>3, <1>5, <1>10 DEF HandleEdit, HandleFire, Place
<1>11. ASSUME NEW t \in Tasks, Reply(t) PROVE ServerOK'
    BY <1>3, <1>4, <1>5, <1>11 DEF Reply, Place
<1>12. ASSUME NEW x \in running, TurnEnds(x) PROVE ServerOK'
  <2>1. x.by \in Tasks \cup {Timer}
      BY DEF TypeOK, CronTypeOK, Tasks
  <2>2. QED
      BY <1>3, <1>5, <1>12, <2>1 DEF TurnEnds, Place
<1>13. ASSUME NEW j \in Jobs, CronTool(j) \/ Clock(j) PROVE ServerOK'
    BY <1>3, <1>13 DEF CronTool, Clock, serverVars
<1>14. CASE Boot \/ Signal \/ Drain \/ Drained \/ StopCron
  <2>1. CASE Boot
      BY <1>3, <2>1 DEF Boot
  <2>2. CASE Signal
      BY <1>3, <2>2 DEF Signal
  <2>3. CASE Drain \/ Drained \/ StopCron
      BY <1>3, <2>3 DEF Drain, Drained, StopCron
  <2>4. QED
      BY <1>14, <2>1, <2>2, <2>3
<1>15. CASE DrainTimeout
    BY <1>3, <1>6, <1>15 DEF DrainTimeout, CutTasks
<1>16. CASE Exit \/ Crash
    BY <1>3, <1>6, <1>16 DEF Exit, Crash, ProcessEnds
<1>17. CASE UNCHANGED vars
    BY <1>3, <1>17 DEF vars, serverVars
<1>18. QED
    BY <1>7, <1>8, <1>9, <1>10, <1>11, <1>12, <1>13, <1>14, <1>15, <1>16, <1>17 DEF Next

\* Every step keeps the tasks in flight on a connection or with a client that left,
\* and the runs with the tasks that await them.
LEMMA FlightStep ==
    TypeOK /\ RunsAreAwaited /\ FlightHasClient /\ AnswersArrive /\ [Next]_vars
        => RunsAreAwaited' /\ FlightHasClient' /\ AnswersArrive'
<1> DEFINE Server == RunsAreAwaited /\ FlightHasClient /\ AnswersArrive
<1> SUFFICES ASSUME TypeOK, Server, [Next]_vars PROVE Server'
    OBVIOUS
<1>1. /\ task \in [Tasks -> [client : Clients \cup {None}, op : Op, at : Place]]
      /\ conns \subseteq Clients /\ left \subseteq Clients
      /\ \A x \in running : x.by \in Tasks \cup {Timer} /\ x.run \in 1 .. Len(history)
      /\ Len(history) \in Nat
      /\ Timer \notin Tasks
    BY CronConstants DEF TypeOK, CronTypeOK, Tasks
<1> USE DEF RunsAreAwaited, FlightHasClient, AnswersArrive, InFlight, Listening, Up, Slot
<1>2. ASSUME UNCHANGED << running, phase, conns, task, left >> PROVE Server'
    BY <1>2
<1>3. ASSUME NEW c \in Clients, Connect(c) \/ ReceiveLate(c) PROVE Server'
    BY <1>1, <1>3 DEF Connect, ReceiveLate, cronVars
<1>4. ASSUME NEW c \in Clients, Receive(c) PROVE Server'
  <2> DEFINE fresh == {t \in Tasks : task[t].at = "idle"}
             u == CHOOSE t \in fresh : TRUE
  <2>1. u \in Tasks /\ task[u].at = "idle"
      BY <1>4 DEF Receive
  <2>2. PICK op \in Op : task' = [task EXCEPT ![u] = [client |-> c, op |-> op, at |-> "queued"]]
      BY <1>4 DEF Receive
  <2> HIDE DEF fresh, u
  <2>3. QED
      BY <1>1, <1>4, <2>1, <2>2 DEF Receive, cronVars
<1>5. ASSUME NEW c \in Clients, Disconnect(c) PROVE Server'
    BY <1>1, <1>5 DEF Disconnect, CutTasks, Cut, Cancelled
<1>6. ASSUME NEW t \in Tasks, HandleEdit(t) PROVE Server'
  <2>1. running' = running
      BY <1>6 DEF HandleEdit, Add, Remove, Toggle, Update, Edit, cronVars
  <2>2. QED
      BY <1>1, <1>6, <2>1 DEF HandleEdit, Admitted, Move
<1>7. ASSUME NEW t \in Tasks, HandleFire(t) PROVE Server'
  <2>1. \/ running' = running /\ Move(t, "replying")
        \/ /\ Move(t, "handling")
           /\ \E j \in Jobs :
                running' = running \cup {[run |-> Len(history) + 1, job |-> j, by |-> t]}
      BY <1>7 DEF HandleFire, FireNow, Fire, cronVars
  <2>2. task[t].at = "queued" /\ UNCHANGED << phase, conns, left >> /\ Listening
      BY <1>7 DEF HandleFire, Admitted
  <2>3. \A x \in running : x.by # t
      BY <2>2
  <2>4. QED
      BY <1>1, <2>1, <2>2, <2>3 DEF Move
<1>8. ASSUME NEW t \in Tasks, Reply(t) PROVE Server'
    BY <1>1, <1>8 DEF Reply, Move, cronVars
<1>9. ASSUME NEW x \in running, TurnEnds(x) PROVE Server'
  <2>1. running' = running \ {x}
      BY <1>9 DEF TurnEnds, DispatchEnds, Returned, ReturnSpoiled, Raised, Over
  <2>2. QED
      BY <1>1, <1>9, <2>1 DEF TurnEnds, Move
<1>10. ASSUME NEW j \in Jobs, CronTool(j) PROVE Server'
    BY <1>2, <1>10 DEF CronTool, Add, Remove, Toggle, Edit, serverVars
<1>11. ASSUME NEW j \in Jobs, Clock(j) PROVE Server'
  <2>1. Up /\ \/ running' = running
              \/ running' = running \cup {[run |-> Len(history) + 1, job |-> j, by |-> Timer]}
      BY <1>11 DEF Clock, Due, TimerFires, Fire
  <2>2. QED
      BY <1>1, <1>11, <2>1 DEF Clock, serverVars
<1>12. CASE Boot \/ Signal \/ Drain \/ Drained
    BY <1>1, <1>12 DEF Boot, Start, Signal, Drain, Drained, cronVars
<1>13. CASE StopCron
    BY <1>1, <1>13 DEF StopCron, Stop, Cut
<1>14. CASE DrainTimeout
    BY <1>1, <1>14 DEF DrainTimeout, CutTasks, Cut, Cancelled
<1>15. CASE Exit \/ Crash
    BY <1>1, <1>15 DEF Exit, Crash, ProcessEnds, Gone, Cut, Cancelled
<1>16. CASE UNCHANGED vars
    BY <1>2, <1>16 DEF vars, cronVars, serverVars
<1>17. QED
    BY <1>3, <1>4, <1>5, <1>6, <1>7, <1>8, <1>9, <1>10, <1>11, <1>12, <1>13, <1>14,
       <1>15, <1>16 DEF Next

-----------------------------------------------------------------------------
(* The theorems. *)

\* The initial state, a process that was never started and empty files, satisfies
\* the inductive invariant.
LEMMA InitInv == Init => IInv
<1> SUFFICES ASSUME Init PROVE IInv
    OBVIOUS
<1> USE CronConstants, GatewayConstants DEF Init, CronInit
<1>1. CronTypeOK
  <2>1. history \in Seq([job : Jobs, end : End])
      OBVIOUS
  <2>2. /\ jobs \in [Jobs -> Job \cup {None}] /\ saved \in [Jobs -> Job \cup {None}]
        /\ scheduled \in [Jobs -> Schedules \cup {None}]
        /\ acked \in [Jobs -> Job \cup {None, Never, Unsure}]
      BY DEF Nothing
  <2>3. edits \in 0 .. MaxEdits /\ faults \in 0 .. MaxFaults
      OBVIOUS
  <2>4. QED
      BY <2>1, <2>2, <2>3 DEF CronTypeOK
<1>2. TypeOK
  <2>1. Slot("idle") \in [client : Clients \cup {None}, op : Op, at : Place]
      BY DEF Slot, Op, Place
  <2>2. task \in [Tasks -> [client : Clients \cup {None}, op : Op, at : Place]]
      BY <2>1
  <2>3. boots \in 0 .. MaxBoots
      OBVIOUS
  <2>4. QED
      BY <1>1, <2>2, <2>3 DEF TypeOK, Phase
<1>3. AckedIsInForce /\ AckedInMemory
    BY DEF AckedIsInForce, AckedInMemory
<1>4. LogsTell /\ RunsAreLive
    BY DEF LogsTell, RunsAreLive, OneEntryEach, Tells, Up
<1>5. RunsAreAwaited /\ FlightHasClient /\ AnswersArrive
    BY DEF RunsAreAwaited, FlightHasClient, AnswersArrive, InFlight, Slot
<1>6. QED
    BY <1>2, <1>3, <1>4, <1>5 DEF IInv

\* The inductive invariant holds throughout, restarts included.
THEOREM Invariance == Spec => []IInv
<1>1. IInv /\ [Next]_vars => IInv'
  <2> SUFFICES ASSUME IInv, [Next]_vars PROVE IInv'
      OBVIOUS
  <2>1. TypeOK /\ CronTypeOK /\ CronStep
      BY NextIsCronStep DEF IInv, TypeOK
  <2>2. TypeOK'
      BY <2>1, ServerTypeStep
  <2>3. AckedIsInForce' /\ AckedInMemory'
      BY <2>1, InForceStep DEF IInv
  <2>4. LogsTell' /\ RunsAreLive'
      BY <2>1, LogStep DEF IInv
  <2>5. RunsAreAwaited' /\ FlightHasClient' /\ AnswersArrive'
      BY FlightStep DEF IInv
  <2>6. QED
      BY <2>2, <2>3, <2>4, <2>5 DEF IInv
<1>2. QED
    BY InitInv, <1>1, PTL DEF Spec

\* Type correctness of the scheduler, its stores and the server.
THEOREM TypeCorrect == Spec => []TypeOK
<1>1. IInv => TypeOK
    BY DEF IInv
<1>2. QED
    BY Invariance, <1>1, PTL

\* An edit that was reported as done is in jobs.json and, while the scheduler runs,
\* in APScheduler (scheduler.add, remove, toggle; cron.update), whatever failed
\* saves, edits of other jobs and restarts there were since.
THEOREM EditsHold == Spec => []AckedIsInForce
<1>1. IInv => AckedIsInForce
    BY DEF IInv
<1>2. QED
    BY Invariance, <1>1, PTL

\* Every dispatched run has its record in runs.json, which tells how it ended,
\* unless MaxPerJob later runs of its job pushed it out (CronScheduler._fire,
\* CronRunStore.append, update and prune).
THEOREM RunLogHolds == Spec => []RunLogTells
<1>1. IInv => RunLogTells
    BY DEF IInv, LogsTell, Tells, PushedOut, Later, Telling, RunLogTells
<1>2. QED
    BY Invariance, <1>1, PTL

\* The answer of a handler that ran to its end reaches its client, unless the client
\* left (GatewayServer.serve drains before it closes).
THEOREM AnswersHold == Spec => []AnswersArrive
<1>1. IInv => AnswersArrive
    BY DEF IInv
<1>2. QED
    BY Invariance, <1>1, PTL

\* No dispatch of a job begins once its caller was told that it is disabled or
\* removed, though APScheduler may have submitted it before (CronScheduler._fire
\* reads the store again).
THEOREM StandDownHolds == Spec => NoFireOnceStoodDown
<1> DEFINE A == \A j \in Jobs :
                  /\ Len(history') > Len(history)
                  /\ history'[Len(history')] = [job |-> j, end |-> "live"]
                  => acked[j] # None /\ (acked[j] \in Job => acked[j].enabled)
<1>1. ASSUME IInv, [Next]_vars PROVE [A]_cronVars
  <2>1. TypeOK /\ CronTypeOK /\ CronStep /\ history \in History /\ Len(history) \in Nat
      BY <1>1, NextIsCronStep DEF IInv, TypeOK, CronTypeOK, History
  <2>2. ASSUME Len(history') = Len(history) PROVE A
      BY <2>1, <2>2
  <2>3. ASSUME NEW j \in Jobs, NEW by, Up, Fireable(j), Fire(j, by) PROVE A
    <3>1. acked[j] # None /\ (acked[j] \in Job => acked[j].enabled)
        BY <1>1, <2>3, CronMarkers DEF IInv, AckedInMemory, Fireable
    <3>2. \A e \in {"live", "unstarted"} :
            history' = Append(history, [job |-> j, end |-> e]) =>
                /\ Len(history') = Len(history) + 1
                /\ history'[Len(history')].job = j
        BY <2>1 DEF History
    <3>3. history'[Len(history')].job = j
        BY <2>3, <3>2 DEF Fire
    <3>4. QED
        BY <3>1, <3>3
  <2>4. ASSUME Up, WorkStep PROVE A
    <3>1. ASSUME NEW j \in Jobs, NEW new \in Job \cup {None}, Edit(j, new) PROVE A
        BY <2>2, <3>1 DEF Edit, runLog
    <3>2. ASSUME NEW j \in Jobs, Due(j) PROVE A
        BY <2>2, <3>2 DEF Due, runLog
    <3>3. ASSUME NEW j \in Jobs, TimerFires(j) PROVE A
        BY <2>2, <2>3, <2>4, <3>3 DEF TimerFires, runLog
    <3>4. ASSUME NEW j \in Jobs, NEW t \in Tasks, FireNow(j, t) PROVE A
        BY <2>3, <2>4, <3>4 DEF FireNow
    <3>5. ASSUME NEW x \in running, DispatchEnds(x) PROVE A
      <4>1. PICK end \in End : history' = Ended(history, x.run, end)
          BY <3>5 DEF DispatchEnds, Returned, ReturnSpoiled, Raised, Over, End, Ended
      <4>2. x.run \in 1 .. Len(history)
          BY <2>1 DEF CronTypeOK
      <4>3. QED
          BY <2>1, <2>2, <4>1, <4>2, EndedHistory
    <3>6. QED
        BY <2>4, <3>1, <3>2, <3>3, <3>4, <3>5 DEF WorkStep
  <2>5. ASSUME NEW xs \in SUBSET running, Cut(xs) PROVE A
      BY <2>1, <2>2, <2>5, CutHistory
  <2>6. CASE \E xs \in SUBSET running : CutRuns(xs)
      BY <2>5, <2>6 DEF CutRuns
  <2>7. CASE Start
      BY <2>2, <2>7 DEF Start
  <2>8. CASE Stop
    <3>1. {x \in running : x.by = Timer} \in SUBSET running
        OBVIOUS
    <3>2. QED
        BY <2>5, <2>8, <3>1 DEF Stop
  <2>9. CASE Gone
      BY <2>5, <2>9 DEF Gone
  <2> HIDE DEF A
  <2>10. QED
      BY <2>1, <2>4, <2>6, <2>7, <2>8, <2>9 DEF CronStep
<1>2. QED
    BY Invariance, <1>1, PTL DEF Spec, NoFireOnceStoodDown
=============================================================================

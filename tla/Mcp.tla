-------------------------------- MODULE Mcp --------------------------------
(***************************************************************************)
(* The MCP client and its pool: oxenclaw/pi/mcp/client.py, transport.py    *)
(* and adapter.py, and the mcp.test probe of gateway/mcp_methods.py.       *)
(*                                                                         *)
(* A task is a coroutine that uses a client: a loader                      *)
(* (materialize_mcp_tools), a proxied tool call, a probe, a closer         *)
(* (pool.close).  A client numbers its requests; its reader task hands     *)
(* each answer to the future of the request with that number.  The server  *)
(* answers what it received late, twice, out of order or never; it breaks  *)
(* the stream, and its process may refuse a write.                         *)
(***************************************************************************)
EXTENDS Integers

CONSTANTS
    Servers,                         \* configured servers
    Loaders, Calls, Probes, Closers, \* tasks
    MaxClients,                      \* bound: MCPClient objects ever created
    MaxPages,                        \* bound: pages of tools/list
    MaxIds,                          \* bound: requests of one client
    None

Tasks == Loaders \cup Calls \cup Probes \cup Closers
Clients == 1 .. MaxClients
Ids == 1 .. MaxIds

ASSUME McpConstants ==
    /\ MaxClients \in Nat /\ MaxPages \in Nat \ {0} /\ MaxIds \in Nat \ {0}
    /\ None \notin Tasks \cup Clients \cup Servers
    /\ Servers # {}
    /\ Loaders \cap (Calls \cup Probes \cup Closers) = {}
    /\ Calls \cap (Probes \cup Closers) = {} /\ Probes \cap Closers = {}

VARIABLES
    made,       \* clients created so far
    conn,       \* conn[c]: the state of client c
    fut,        \* fut[c][i]: the future of c's request i, while a task awaits it
    got,        \* got[c]: requests c's server may still answer, [id, tag]
    pool,       \* pool._clients: server -> client or None
    failures,   \* servers in pool._failures
    connected,  \* pool._connected
    lock,       \* the task that holds pool._connect_lock, or None
    task        \* task[t]: where coroutine t is suspended

vars == << made, conn, fut, got, pool, failures, connected, lock, task >>
poolVars == << pool, failures, connected, lock >>

(***************************************************************************)
(* A request is tagged with its task and what it asks, so that an answer   *)
(* can be told from the answer to another request.                         *)
(***************************************************************************)
Tag(t, what) == << t, what >>
NoTag == << None, 0 >>
NoFuture == [tag |-> NoTag, st |-> "none", ans |-> NoTag]
NewClient == [trans |-> "none", reader |-> FALSE, closed |-> FALSE,
              ready |-> FALSE, next |-> 1, pending |-> {}]
Task(pc, c, i, page, todo) ==
    [pc |-> pc, client |-> c, id |-> i, page |-> page, todo |-> todo]
Idle == Task("idle", None, 1, 0, {})

\* The tasks of S are yet to start, the others never will.
InitWith(S) ==
    /\ made = 0
    /\ conn = [c \in Clients |-> NewClient]
    /\ fut = [c \in Clients |-> [i \in Ids |-> NoFuture]]
    /\ got = [c \in Clients |-> {}]
    /\ pool = [s \in Servers |-> None] /\ failures = {} /\ connected = FALSE
    /\ lock = None
    /\ task = [t \in Tasks |-> IF t \in S THEN Idle ELSE [Idle EXCEPT !.pc = "off"]]

Init == InitWith(Tasks)

At(t, pc) == task[t].pc = pc
Mine(t) == task[t].client
Future(t) == fut[Mine(t)][task[t].id]
Running(t) == task[t].pc \notin { "off", "idle", "done" }
Become(t, state) == task' = [task EXCEPT ![t] = state]

\* The coroutine has ended; a probe's client is remembered.
Done(t) == Task("done", IF t \in Probes THEN Mine(t) ELSE None, 1, 0, {})

(***************************************************************************)
(* _request: number the request, enter its future, send.  No timeout       *)
(* covers the send; the answer may arrive before it returns.  k is conn    *)
(* after what the same step did to it, f is fut.                           *)
(***************************************************************************)
\* A mutant: the number of a request nobody waits for is used again.
NextIdReused(k, c) == CHOOSE i \in Ids : i \notin k[c].pending
                         /\ \A j \in Ids \ k[c].pending : i <= j

NextId(k, c) == k[c].next

Usable(k, c) == ~ k[c].closed /\ k[c].trans = "open"

Ask(k, f, c, tag) ==
    /\ k[c].next <= MaxIds
    /\ conn' = [k EXCEPT ![c].next = @ + 1, ![c].pending = @ \cup { NextId(k, c) }]
    /\ fut' = [f EXCEPT ![c][NextId(k, c)] =
                  [tag |-> tag, st |-> "waiting", ans |-> NoTag]]

\* The task is done with its future: answered, failed or cancelled by wait_for.
Dropped(t) == [fut EXCEPT ![Mine(t)][task[t].id] = NoFuture]

\* send raised, or the request's own timeout expired: the entry is popped.
Popped(t) == [conn EXCEPT ![Mine(t)].pending = @ \ { task[t].id }]

\* transport.send went through: the server has the request.
Sent(t) ==
    /\ task[t].pc \in { "initSend", "listSend", "callSend" }
    /\ got' = [got EXCEPT ![Mine(t)] =
                  IF conn[Mine(t)].reader
                  THEN @ \cup { [id |-> task[t].id, tag |-> Future(t).tag] } ELSE {}]
    /\ task' = [task EXCEPT ![t].pc =
                   CASE @ = "initSend" -> "initWait"
                     [] @ = "listSend" -> "listWait"
                     [] @ = "callSend" -> "callWait"]
    /\ UNCHANGED << made, conn, fut, poolVars >>

(***************************************************************************)
(* The reader task and the server.                                         *)
(***************************************************************************)
\* _dispatch: any answer to any request the server has received.
Dispatch(c) ==
    /\ conn[c].reader
    /\ \E r \in got[c], st \in { "answered", "error" } :
          /\ conn' = [conn EXCEPT ![c].pending = @ \ { r.id }]
          /\ fut' = IF r.id \in conn[c].pending /\ fut[c][r.id].st = "waiting"
                    THEN [fut EXCEPT ![c][r.id].st = st, ![c][r.id].ans = r.tag]
                    ELSE fut
    /\ UNCHANGED << made, got, poolVars, task >>

\* The stream ended or a line was not JSON: the reader fails what is pending and
\* ends.  The transport stays open.
ReaderFails(c) ==
    /\ conn[c].reader
    /\ fut' = [fut EXCEPT ![c] = [i \in Ids |->
                  IF i \in conn[c].pending /\ fut[c][i].st = "waiting"
                  THEN [fut[c][i] EXCEPT !.st = "failed"] ELSE fut[c][i]]]
    /\ conn' = [conn EXCEPT ![c].reader = FALSE, ![c].pending = {}]
    /\ got' = [got EXCEPT ![c] = {}]
    /\ UNCHANGED << made, poolVars, task >>

(***************************************************************************)
(* client.close: _closed is set and the reader cancelled, which fails      *)
(* nothing that is pending; then the transport is closed.                  *)
(***************************************************************************)
Closing(k, C) ==
    [c \in Clients |->
        IF c \in C THEN [k[c] EXCEPT !.closed = TRUE, !.reader = FALSE]
                   ELSE k[c]]

CloseTransport(c) ==
    /\ conn[c].closed /\ conn[c].trans = "open"
    /\ conn' = [conn EXCEPT ![c].trans = "closed"]
    /\ got' = [got EXCEPT ![c] = {}]
    /\ UNCHANGED << made, fut, poolVars, task >>

IsShut(c) == conn[c].closed /\ conn[c].trans # "open"

(***************************************************************************)
(* Loading: under the lock, connect the servers of todo one by one; then,  *)
(* with the lock released, list the tools of each client.                  *)
(***************************************************************************)
Pooled(p) == { p[s] : s \in Servers } \ { None }
First(todo) == CHOOSE s \in todo : TRUE

\* list_tools of the next of the clients cs; one that is closed raises at once.
ListFrom(t, k, f, cs) ==
    LET open == { c \in cs : Usable(k, c) }
    IN  \/ /\ open = {}
           /\ Become(t, Done(t))
           /\ conn' = k /\ fut' = f
        \/ \E c \in open :
              /\ Ask(k, f, c, Tag(t, 1))
              /\ Become(t, Task("listSend", c, NextId(k, c), 1, open \ { c }))

\* The next server, or _connected and the lock released.
ConnectNext(t, k, f, p, todo) ==
    /\ pool' = p
    /\ \/ /\ todo # {}
          /\ made < MaxClients /\ made' = made + 1
          /\ Become(t, Task("opening", made + 1, 1, 0, todo))
          /\ conn' = k /\ fut' = f
          /\ UNCHANGED << connected, lock >>
       \/ /\ todo = {}
          /\ connected' = TRUE /\ lock' = None
          /\ ListFrom(t, k, f, Pooled(p))
          /\ UNCHANGED made

Load(t) ==
    /\ t \in Loaders /\ At(t, "idle") /\ lock = None
    /\ \/ /\ connected
          /\ ListFrom(t, conn, fut, Pooled(pool))
          /\ UNCHANGED << made, poolVars >>
       \/ /\ ~ connected /\ made < MaxClients
          /\ lock' = t /\ made' = made + 1
          /\ Become(t, Task("opening", made + 1, 1, 0, Servers))
          /\ UNCHANGED << conn, fut, pool, failures, connected >>
    /\ UNCHANGED got

(***************************************************************************)
(* connect, for a loader and for a probe: open the transport, start the    *)
(* reader, initialize, notify.                                             *)
(***************************************************************************)
Opened(t) ==
    LET c == Mine(t)
        k == [conn EXCEPT ![c].trans = "open", ![c].reader = TRUE]
    IN  /\ At(t, "opening")
        /\ Ask(k, fut, c, Tag(t, 0))
        /\ Become(t, [task[t] EXCEPT !.pc = "initSend", !.id = NextId(k, c)])
        /\ UNCHANGED << made, got, poolVars >>

InitAnswered(t) ==
    /\ At(t, "initWait") /\ Future(t).st = "answered"
    /\ fut' = Dropped(t)
    /\ Become(t, [task[t] EXCEPT !.pc = "notify", !.id = 1])
    /\ UNCHANGED << made, conn, got, poolVars >>

\* _initialized.  A loader enters the client in the pool, a probe lists its tools.
Notified(t) ==
    LET c == Mine(t)
        k == [conn EXCEPT ![c].ready = TRUE]
    IN  /\ At(t, "notify")
        /\ \/ /\ t \in Loaders
              /\ ConnectNext(t, k, fut, [pool EXCEPT ![First(task[t].todo)] = c],
                             task[t].todo \ { First(task[t].todo) })
           \/ /\ t \in Probes
              /\ ListFrom(t, k, fut, { c })
              /\ UNCHANGED << made, pool, connected, lock >>
        /\ UNCHANGED << got, failures >>

\* open_transport or a send raised, the server refused, the reader failed, or the
\* wait_for around it all expired.  Either way the client is closed.
ConnectFails(t) ==
    /\ task[t].pc \in { "opening", "initSend", "initWait", "notify" }
    /\ At(t, "initWait") => Future(t).st # "answered"
    /\ conn' = Closing(conn, { Mine(t) })
    /\ fut' = Dropped(t)
    /\ Become(t, [task[t] EXCEPT !.pc = "closing", !.id = 1])
    /\ failures' = failures \cup { First(task[t].todo) : x \in { t } \cap Loaders }
    /\ UNCHANGED << made, got, pool, connected, lock >>

\* A loader goes on to the next server.
GaveUp(t) ==
    /\ At(t, "closing") /\ t \in Loaders /\ IsShut(Mine(t))
    /\ ConnectNext(t, conn, fut, pool, task[t].todo \ { First(task[t].todo) })
    /\ UNCHANGED << got, failures >>

(***************************************************************************)
(* list_tools.  Only a probe bounds it in time.                            *)
(***************************************************************************)
\* A probe closes its client; a loader goes on to the next one.
ListOver(t, k, f) ==
    \/ /\ t \in Loaders
       /\ ListFrom(t, k, f, task[t].todo)
    \/ /\ t \in Probes
       /\ conn' = Closing(k, { Mine(t) })
       /\ fut' = f
       /\ Become(t, Task("closing", Mine(t), 1, 0, {}))

\* A page arrived: the next one is asked for while it names a cursor.
ListAnswered(t) ==
    /\ At(t, "listWait") /\ Future(t).st = "answered"
    /\ \/ ListOver(t, conn, Dropped(t))
       \/ /\ task[t].page < MaxPages /\ Usable(conn, Mine(t))
          /\ Ask(conn, Dropped(t), Mine(t), Tag(t, task[t].page + 1))
          /\ Become(t, [task[t] EXCEPT !.pc = "listSend", !.id = NextId(conn, Mine(t)),
                                       !.page = @ + 1])
    /\ UNCHANGED << made, got, poolVars >>

\* The send raised, the server refused or the reader failed.
ListFails(t) ==
    /\ \/ At(t, "listSend")
       \/ At(t, "listWait") /\ Future(t).st \in { "error", "failed" }
    /\ ListOver(t, Popped(t), Dropped(t))
    /\ UNCHANGED << made, got, poolVars >>

\* A mutant: the probe's listing is not bounded in time.
ListUnbounded(t) == FALSE /\ UNCHANGED vars

ListTimeout(t) ==
    /\ t \in Probes /\ task[t].pc \in { "listSend", "listWait" }
    /\ Future(t).st = "waiting"
    /\ ListOver(t, conn, Dropped(t))
    /\ UNCHANGED << made, got, poolVars >>

(***************************************************************************)
(* execute of a proxied tool, which exists once a loader has listed it.    *)
(***************************************************************************)
Execute(t) ==
    /\ t \in Calls /\ At(t, "idle")
    /\ \E l \in Loaders : At(l, "done")
    /\ \E s \in Servers :
          \/ /\ pool[s] = None
             /\ Become(t, Done(t))
             /\ UNCHANGED << conn, fut >>
          \/ /\ pool[s] # None /\ Usable(conn, pool[s])
             /\ Ask(conn, fut, pool[s], Tag(t, 1))
             /\ Become(t, Task("callSend", pool[s], NextId(conn, pool[s]), 0, {}))
    /\ UNCHANGED << made, got, poolVars >>

CallReturns(t) ==
    /\ \/ At(t, "callSend")
       \/ At(t, "callWait") /\ Future(t).st \in { "answered", "error", "failed" }
    /\ conn' = Popped(t) /\ fut' = Dropped(t)
    /\ Become(t, Done(t))
    /\ UNCHANGED << made, got, poolVars >>

\* A mutant: no timeout is passed on to _request.
CallUnbounded(t) == FALSE /\ UNCHANGED vars

CallTimeout(t) ==
    /\ At(t, "callWait") /\ Future(t).st = "waiting"
    /\ conn' = Popped(t) /\ fut' = Dropped(t)
    /\ Become(t, Done(t))
    /\ UNCHANGED << made, got, poolVars >>

(***************************************************************************)
(* mcp.test: a client of its own, closed whatever happened.                *)
(***************************************************************************)
Probe(t) ==
    /\ t \in Probes /\ At(t, "idle") /\ made < MaxClients
    /\ made' = made + 1
    /\ Become(t, Task("opening", made + 1, 1, 0, {}))
    /\ UNCHANGED << conn, fut, got, poolVars >>

\* A mutant: the answer is returned while the transport is still closing.
ProbeOverEarly(t) ==
    /\ At(t, "closing") /\ t \in Probes
    /\ Become(t, Done(t))
    /\ UNCHANGED << made, conn, fut, got, poolVars >>

ProbeOver(t) ==
    /\ At(t, "closing") /\ t \in Probes /\ IsShut(Mine(t))
    /\ Become(t, Done(t))
    /\ UNCHANGED << made, conn, fut, got, poolVars >>

(***************************************************************************)
(* pool.close: does not take the lock; the clients it found are cleared,   *)
(* then closed, then the pool counts as not connected.                     *)
(***************************************************************************)
\* A mutant: the clients are taken out of the pool after they are closed.
ClearedLate == pool

Cleared == [s \in Servers |-> None]

Close(t) ==
    /\ t \in Closers /\ At(t, "idle")
    /\ pool' = Cleared
    /\ \/ /\ Pooled(pool) = {}
          /\ connected' = FALSE
          /\ Become(t, Done(t))
          /\ UNCHANGED conn
       \/ /\ Pooled(pool) # {}
          /\ conn' = Closing(conn, Pooled(pool))
          /\ Become(t, Task("gather", None, 1, 0, Pooled(pool)))
          /\ UNCHANGED connected
    /\ UNCHANGED << made, fut, got, failures, lock >>

Closed(t) ==
    /\ At(t, "gather") /\ \A c \in task[t].todo : IsShut(c)
    /\ connected' = FALSE
    /\ Become(t, Done(t))
    /\ UNCHANGED << made, conn, fut, got, pool, failures, lock >>

ClientStep(c) == Dispatch(c) \/ ReaderFails(c) \/ CloseTransport(c)

TaskStep(t) ==
    \/ Sent(t)
    \/ Opened(t) \/ InitAnswered(t) \/ Notified(t) \/ ConnectFails(t) \/ GaveUp(t)
    \/ ListAnswered(t) \/ ListFails(t) \/ ListTimeout(t)
    \/ CallReturns(t) \/ CallTimeout(t)
    \/ ProbeOver(t) \/ Closed(t)

Start(t) == Load(t) \/ Execute(t) \/ Probe(t) \/ Close(t)

Next ==
    \/ \E c \in Clients : ClientStep(c)
    \/ \E t \in Tasks : Start(t) \/ TaskStep(t)

(***************************************************************************)
(* Fairness: the event loop resumes a coroutine that can go on, a timer    *)
(* expires, a send ends, a transport closes.  Nothing makes the server     *)
(* answer.                                                                 *)
(***************************************************************************)
Fairness ==
    /\ \A c \in Clients : WF_vars(CloseTransport(c))
    /\ \A t \in Calls \cup Probes : WF_vars(TaskStep(t))

Spec == Init /\ [][Next]_vars /\ Fairness

(***************************************************************************)
(* Properties.                                                             *)
(***************************************************************************)
\* Every variable keeps the shape the code gives it.
TypeOK ==
    /\ made \in 0 .. MaxClients
    /\ \A c \in Clients :
          /\ conn[c].trans \in { "none", "open", "closed" }
          /\ conn[c].next \in 1 .. MaxIds + 1 /\ conn[c].pending \subseteq Ids
          /\ \A i \in Ids : fut[c][i].st \in
                { "none", "waiting", "answered", "error", "failed" }
    /\ pool \in [Servers -> Clients \cup { None }] /\ failures \subseteq Servers
    /\ connected \in BOOLEAN /\ lock \in Loaders \cup { None }

\* Concurrent calls are multiplexed safely: a request is only ever answered with the
\* server's answer to itself, however late, often or out of order answers come.
OwnAnswer ==
    \A c \in Clients, i \in Ids :
        fut[c][i].st \in { "answered", "error" } => fut[c][i].ans = fut[c][i].tag

\* pool.get never hands a tool call a client that is being or has been closed, or
\* one that has not completed its handshake.
PoolHandsOutUsable ==
    \A s \in Servers : pool[s] # None => conn[pool[s]].ready /\ Usable(conn, pool[s])

\* A probe that has returned left no subprocess and no stream open.
ProbeCleansUp ==
    \A t \in Probes : At(t, "done") => conn[Mine(t)].trans \in { "none", "closed" }

\* A tool call that was sent ends, whatever the server does and though close() and
\* a dead reader leave its future unanswered.
CallsEnd ==
    \A t \in Calls : Running(t) ~> At(t, "done")

\* mcp.test "never hangs on a misconfigured server".
ProbesEnd ==
    \A t \in Probes : Running(t) ~> At(t, "done")
=============================================================================

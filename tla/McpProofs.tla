----------------------------- MODULE McpProofs -----------------------------
(***************************************************************************)
(* Proofs about Mcp: answers reach the requests they answer, the pool      *)
(* hands out usable clients and a probe cleans up, for every set of        *)
(* servers and tasks and any number of clients, pages and requests.        *)
(***************************************************************************)
EXTENDS Mcp, TLAPS

(***************************************************************************)
(* The inductive invariant.                                                *)
(***************************************************************************)
Tags == (Tasks \cup { None }) \X Nat
ClientState == [trans : { "none", "open", "closed" }, reader : BOOLEAN, closed : BOOLEAN,
                ready : BOOLEAN, next : 1 .. MaxIds + 1, pending : SUBSET Ids]
FutureState == [tag : Tags, st : { "none", "waiting", "answered", "error", "failed" },
                ans : Tags]
Connecting == { "opening", "initSend", "initWait", "notify", "closing" }
Listing == { "listSend", "listWait" }
Calling == { "callSend", "callWait" }
Resting == { "off", "idle", "done" }
TaskState == [pc : Connecting \cup Listing \cup Calling \cup Resting \cup { "gather" },
              client : Clients \cup { None }, id : Ids, page : 0 .. MaxPages,
              todo : SUBSET (Servers \cup Clients)]

Shapes ==
    /\ made \in 0 .. MaxClients
    /\ conn \in [Clients -> ClientState]
    /\ fut \in [Clients -> [Ids -> FutureState]]
    /\ got \in [Clients -> SUBSET [id : Ids, tag : Tags]]
    /\ pool \in [Servers -> Clients \cup { None }] /\ failures \subseteq Servers
    /\ connected \in BOOLEAN /\ lock \in Loaders \cup { None }
    /\ task \in [Tasks -> TaskState]

\* Which coroutine can be in the state st when n clients were made; one that is at
\* work has a client that was made, and a loader that connects has servers to go.
PlaceOK(t, st, n) ==
    /\ st.pc \in Connecting \cup Listing => t \in Loaders \cup Probes /\ st.client \in 1 .. n
    /\ st.pc \in Calling => t \in Calls /\ st.client \in 1 .. n
    /\ st.pc = "gather" => t \in Closers
    /\ st.pc \in Connecting /\ t \in Loaders => st.todo # {} /\ st.todo \subseteq Servers
    /\ st.pc \in Listing => st.todo \subseteq 1 .. n

Places == \A t \in Tasks : PlaceOK(t, task[t], made)

\* A number is used once: whatever is sent, awaited or answered is below the next
\* one.
Numbered ==
    /\ \A c \in Clients : \A r \in got[c] : r.id < conn[c].next
    /\ \A c \in Clients, i \in Ids : fut[c][i].st # "none" => i < conn[c].next
    /\ \A t \in Tasks :
          task[t].pc \in { "initSend", "listSend", "callSend" } =>
              task[t].id < conn[Mine(t)].next

\* What the server received under a number is what the future with it asked.
SameRequest ==
    \A c \in Clients : \A r \in got[c] :
        fut[c][r.id].st # "none" => fut[c][r.id].tag = r.tag

\* The tasks that have a client for themselves: a loader while it connects it, a
\* probe for good.
Owns(t) ==
    \/ t \in Loaders /\ task[t].pc \in Connecting
    \/ t \in Probes /\ task[t].pc \notin { "off", "idle" }

Owned ==
    /\ \A t \in Tasks : Owns(t) => /\ Mine(t) \in 1 .. made
                                   /\ \A s \in Servers : pool[s] # Mine(t)
    /\ \A t, u \in Tasks : Owns(t) /\ Owns(u) /\ Mine(t) = Mine(u) => t = u
    /\ \A s \in Servers : pool[s] # None => pool[s] \in 1 .. made

\* How far the handshake of an owner's client has come.
Handshake ==
    /\ \A t \in Tasks :
          /\ task[t].pc = "opening" => conn[Mine(t)].trans = "none" /\ ~ conn[Mine(t)].closed
          /\ task[t].pc \in { "initSend", "initWait", "notify" } =>
                conn[Mine(t)].trans = "open" /\ ~ conn[Mine(t)].closed
    /\ \A c \in Clients : c > made => conn[c].trans = "none" /\ ~ conn[c].closed

IInv ==
    /\ Shapes /\ Places
    /\ Numbered /\ SameRequest /\ OwnAnswer
    /\ Owned /\ Handshake
    /\ PoolHandsOutUsable /\ ProbeCleansUp

-----------------------------------------------------------------------------
(* What the helpers of the steps do. *)

\* Numbering a request: the client's number goes up by one, and the future under the
\* old number waits.
LEMMA AskFacts ==
    ASSUME NEW k \in [Clients -> ClientState], NEW f \in [Clients -> [Ids -> FutureState]],
           NEW c \in Clients, NEW tag \in Tags, Ask(k, f, c, tag)
    PROVE  /\ NextId(k, c) = k[c].next /\ k[c].next \in Ids
           /\ conn' \in [Clients -> ClientState]
           /\ fut' \in [Clients -> [Ids -> FutureState]]
           /\ \A d \in Clients : /\ conn'[d].trans = k[d].trans
                                 /\ conn'[d].closed = k[d].closed
                                 /\ conn'[d].ready = k[d].ready
           /\ \A d \in Clients : conn'[d].next = IF d = c THEN k[d].next + 1 ELSE k[d].next
           /\ \A d \in Clients, i \in Ids :
                 <<d, i>> # <<c, k[c].next>> => fut'[d][i] = f[d][i]
           /\ fut'[c][k[c].next].st = "waiting"
<1> DEFINE i == k[c].next
           ck == [k[c] EXCEPT !.next = i + 1, !.pending = k[c].pending \cup {i}]
           fi == [tag |-> tag, st |-> "waiting", ans |-> NoTag]
<1>1. i \in Ids /\ NextId(k, c) = i
    BY DEF Ask, NextId, Ids, ClientState
<1>2. k[c] \in ClientState
    OBVIOUS
<1>3. /\ ck \in ClientState /\ ck.trans = k[c].trans /\ ck.closed = k[c].closed
      /\ ck.ready = k[c].ready /\ ck.next = i + 1
  <2>1. i + 1 \in 1 .. MaxIds + 1 /\ k[c].pending \cup {i} \in SUBSET Ids
    <3>1. k[c].pending \in SUBSET Ids
        BY <1>2 DEF ClientState
    <3>2. QED
        BY <1>1, <3>1, McpConstants DEF Ids
  <2> HIDE DEF i
  <2>2. QED
      BY <1>2, <2>1 DEF ClientState
<1>4. fi \in FutureState /\ fi.st = "waiting"
    BY DEF FutureState, Tags, NoTag
<1>5. conn' = [k EXCEPT ![c] = ck]
    BY <1>1, <1>2 DEF Ask, NextId
<1>6. fut' = [f EXCEPT ![c] = [f[c] EXCEPT ![i] = fi]]
    BY <1>1 DEF Ask
<1> HIDE DEF ck, fi, i
<1>7. /\ conn' \in [Clients -> ClientState] /\ conn'[c] = ck
      /\ \A d \in Clients : d # c => conn'[d] = k[d]
    BY <1>3, <1>5
<1>8. /\ fut' \in [Clients -> [Ids -> FutureState]]
      /\ \A d \in Clients, j \in Ids : d # c \/ j # i => fut'[d][j] = f[d][j]
      /\ fut'[c][i] = fi
    BY <1>1, <1>4, <1>6
<1>9. QED
    BY <1>1, <1>3, <1>4, <1>7, <1>8 DEF i

\* Closing clients touches their closed flag and their reader only.
LEMMA ClosingFacts ==
    ASSUME NEW k \in [Clients -> ClientState], NEW C
    PROVE  /\ Closing(k, C) \in [Clients -> ClientState]
           /\ \A d \in Clients : /\ Closing(k, C)[d].trans = k[d].trans
                                 /\ Closing(k, C)[d].ready = k[d].ready
                                 /\ Closing(k, C)[d].next = k[d].next
                                 /\ d \in C => Closing(k, C)[d].closed
                                 /\ d \notin C => Closing(k, C)[d].closed = k[d].closed
<1> DEFINE g(d) == IF d \in C THEN [k[d] EXCEPT !.closed = TRUE, !.reader = FALSE] ELSE k[d]
<1>1. \A d \in Clients :
        /\ g(d) \in ClientState /\ g(d).trans = k[d].trans /\ g(d).ready = k[d].ready
        /\ g(d).next = k[d].next /\ (d \in C => g(d).closed)
        /\ d \notin C => g(d).closed = k[d].closed
    BY DEF ClientState
<1>2. Closing(k, C) = [d \in Clients |-> g(d)]
    BY DEF Closing
<1> HIDE DEF g
<1>3. QED
    BY <1>1, <1>2

\* A task that is done with its future leaves it empty and the others alone.
LEMMA DroppedFacts ==
    ASSUME Shapes, NEW t \in Tasks, Mine(t) \in Clients
    PROVE  /\ Dropped(t) \in [Clients -> [Ids -> FutureState]]
           /\ \A d \in Clients, i \in Ids :
                 Dropped(t)[d][i] = fut[d][i] \/ Dropped(t)[d][i].st = "none"
<1>1. NoFuture \in FutureState /\ NoFuture.st = "none"
    BY DEF NoFuture, NoTag, FutureState, Tags
<1>2. task[t].id \in Ids /\ fut \in [Clients -> [Ids -> FutureState]]
    BY DEF Shapes, TaskState
<1>3. Dropped(t) = [fut EXCEPT ![Mine(t)] = [fut[Mine(t)] EXCEPT ![task[t].id] = NoFuture]]
    BY DEF Dropped
<1>4. QED
    BY <1>1, <1>2, <1>3

\* Popping an entry touches pending only.
LEMMA PoppedFacts ==
    ASSUME Shapes, NEW t \in Tasks, Mine(t) \in Clients
    PROVE  /\ Popped(t) \in [Clients -> ClientState]
           /\ \A d \in Clients : /\ Popped(t)[d].trans = conn[d].trans
                                 /\ Popped(t)[d].closed = conn[d].closed
                                 /\ Popped(t)[d].ready = conn[d].ready
                                 /\ Popped(t)[d].next = conn[d].next
<1> DEFINE c == Mine(t)
           ck == [conn[c] EXCEPT !.pending = @ \ {task[t].id}]
<1>1. conn \in [Clients -> ClientState] /\ conn[c] \in ClientState
    BY DEF Shapes
<1>2. /\ ck \in ClientState /\ ck.trans = conn[c].trans /\ ck.closed = conn[c].closed
      /\ ck.ready = conn[c].ready /\ ck.next = conn[c].next
    BY <1>1 DEF ClientState
<1>3. Popped(t) = [conn EXCEPT ![c] = ck]
    BY DEF Popped
<1> HIDE DEF ck
<1>4. QED
    BY <1>1, <1>2, <1>3

(***************************************************************************)
(* Where a step leaves the clients and the futures, from the values k and  *)
(* f that conn and fut had after what the step did first.                  *)
(***************************************************************************)
Shaped(k, f) == k \in [Clients -> ClientState] /\ f \in [Clients -> [Ids -> FutureState]]

\* Nothing but numbers and pending entries changes in a client.
SameLife(k, l) ==
    \A d \in Clients : /\ l[d].trans = k[d].trans
                       /\ l[d].closed = k[d].closed
                       /\ l[d].ready = k[d].ready

\* At most one future is new, and it has the number that was next.
AsksAtMost(k, f) ==
    \A d \in Clients :
        /\ conn'[d].next >= k[d].next
        /\ \A i \in Ids : \/ fut'[d][i] = f[d][i]
                          \/ /\ i = k[d].next /\ conn'[d].next > i
                             /\ fut'[d][i].st = "waiting"

\* The task t asks the client c, which is open, under its next number.
Asking(t, k, c) ==
    /\ c \in Clients /\ Usable(k, c)
    /\ task'[t].pc \in { "initSend", "listSend", "callSend" }
    /\ task'[t].client = c
    /\ task'[t].id = k[c].next /\ conn'[c].next > task'[t].id

\* Only the state of the coroutine t changes.
OnlyTask(t) == task' \in [Tasks -> TaskState] /\ \A u \in Tasks : u # t => task'[u] = task[u]

\* A coroutine that becomes a state of the right shape.
LEMMA BecomeFacts ==
    ASSUME Shapes, NEW t \in Tasks, NEW state \in TaskState, Become(t, state)
    PROVE  OnlyTask(t) /\ task'[t] = state
BY DEF Shapes, Become, OnlyTask

\* The state a coroutine goes on to.
LEMMA TaskShape ==
    ASSUME NEW pc \in Connecting \cup Listing \cup Calling \cup Resting \cup { "gather" },
           NEW c \in Clients \cup { None }, NEW i \in Ids, NEW page \in 0 .. MaxPages,
           NEW todo \in SUBSET (Servers \cup Clients)
    PROVE  LET st == Task(pc, c, i, page, todo) IN
           /\ st \in TaskState /\ st.pc = pc /\ st.client = c /\ st.id = i
           /\ st.todo = todo
BY DEF Task, TaskState

\* The state it ends in.
LEMMA DoneShape ==
    ASSUME Shapes, NEW t \in Tasks
    PROVE  /\ Done(t) \in TaskState /\ Done(t).pc = "done"
           /\ t \in Probes => Done(t).client = Mine(t)
<1>1. Mine(t) \in Clients \cup { None }
    BY DEF Shapes, Mine, TaskState
<1>2. 1 \in Ids /\ 0 \in 0 .. MaxPages
    BY McpConstants DEF Ids
<1>3. QED
    BY <1>1, <1>2 DEF Task, Done, TaskState, Resting

\* Numbering and sending a request, seen from outside.
LEMMA AskStep ==
    ASSUME NEW k, NEW f, Shaped(k, f), NEW c \in Clients, NEW t \in Tasks, NEW n \in Nat,
           Ask(k, f, c, Tag(t, n))
    PROVE  /\ Shaped(conn', fut') /\ SameLife(k, conn') /\ AsksAtMost(k, f)
           /\ NextId(k, c) = k[c].next /\ k[c].next \in Ids /\ conn'[c].next > k[c].next
<1>1. Tag(t, n) \in Tags
    BY DEF Tag, Tags
<1>2. /\ NextId(k, c) = k[c].next /\ k[c].next \in Ids
      /\ conn' \in [Clients -> ClientState]
      /\ fut' \in [Clients -> [Ids -> FutureState]]
      /\ SameLife(k, conn')
      /\ \A d \in Clients : conn'[d].next = IF d = c THEN k[d].next + 1 ELSE k[d].next
      /\ \A d \in Clients, i \in Ids :
            <<d, i>> # <<c, k[c].next>> => fut'[d][i] = f[d][i]
      /\ fut'[c][k[c].next].st = "waiting"
    BY <1>1, AskFacts DEF Shaped, SameLife
<1>3. \A d \in Clients : k[d].next \in 1 .. MaxIds + 1
    BY DEF Shaped, ClientState
<1>4. AsksAtMost(k, f) /\ conn'[c].next > k[c].next
    BY <1>2, <1>3, McpConstants DEF AsksAtMost
<1>5. QED
    BY <1>2, <1>4 DEF Shaped

\* A step that asks nothing.
LEMMA NoAsk ==
    ASSUME NEW k, NEW f, Shaped(k, f), conn' = k, fut' = f
    PROVE  Shaped(conn', fut') /\ SameLife(k, conn') /\ AsksAtMost(k, f)
<1>1. \A d \in Clients : k[d].next \in 1 .. MaxIds + 1
    BY DEF Shaped, ClientState
<1>2. QED
    BY <1>1, McpConstants DEF SameLife, AsksAtMost

\* list_tools of the next client.
LEMMA ListFromFacts ==
    ASSUME Shapes, NEW t \in Tasks, NEW k, NEW f, Shaped(k, f), NEW cs \in SUBSET Clients,
           ListFrom(t, k, f, cs)
    PROVE  /\ Shaped(conn', fut') /\ SameLife(k, conn') /\ AsksAtMost(k, f) /\ OnlyTask(t)
           /\ \/ task'[t] = Done(t) /\ \A c \in cs : ~ Usable(k, c)
              \/ \E c \in cs : /\ Asking(t, k, c) /\ task'[t].pc = "listSend"
                               /\ task'[t].todo \in SUBSET cs
<1> DEFINE open == { c \in cs : Usable(k, c) }
<1>1. CASE open = {} /\ Become(t, Done(t)) /\ conn' = k /\ fut' = f
    BY <1>1, BecomeFacts, DoneShape, NoAsk
<1>2. ASSUME NEW c \in open, Ask(k, f, c, Tag(t, 1)),
             Become(t, Task("listSend", c, NextId(k, c), 1, open \ { c }))
      PROVE  /\ Shaped(conn', fut') /\ SameLife(k, conn') /\ AsksAtMost(k, f)
             /\ OnlyTask(t) /\ Asking(t, k, c) /\ task'[t].pc = "listSend"
             /\ task'[t].todo \in SUBSET cs
  <2>1. c \in Clients /\ Usable(k, c)
      OBVIOUS
  <2>2. /\ Shaped(conn', fut') /\ SameLife(k, conn') /\ AsksAtMost(k, f)
        /\ NextId(k, c) = k[c].next /\ k[c].next \in Ids /\ conn'[c].next > k[c].next
      BY <1>2, <2>1, AskStep
  <2>3. LET st == Task("listSend", c, NextId(k, c), 1, open \ { c }) IN
        /\ st \in TaskState /\ st.pc = "listSend" /\ st.client = c /\ st.id = k[c].next
        /\ st.todo = open \ { c }
    <3>1. /\ "listSend" \in Listing /\ 1 \in 0 .. MaxPages /\ NextId(k, c) \in Ids
          /\ open \ { c } \in SUBSET (Servers \cup Clients)
        BY <2>2, McpConstants DEF Listing
    <3> HIDE DEF open
    <3>2. QED
        BY <2>1, <2>2, <3>1, TaskShape
  <2>4. /\ OnlyTask(t) /\ task'[t].pc = "listSend" /\ task'[t].client = c
        /\ task'[t].id = k[c].next /\ task'[t].todo = open \ { c }
      BY <1>2, <2>3, BecomeFacts
  <2>5. Asking(t, k, c)
      BY <2>1, <2>2, <2>4 DEF Asking
  <2>6. QED
      BY <2>2, <2>4, <2>5
<1>3. QED
    BY <1>1, <1>2 DEF ListFrom

\* The next server of a loader, or the end of its connecting.
LEMMA ConnectNextFacts ==
    ASSUME Shapes, NEW t \in Tasks, NEW k, NEW f, Shaped(k, f),
           NEW p \in [Servers -> Clients \cup { None }], NEW todo \in SUBSET Servers,
           ConnectNext(t, k, f, p, todo)
    PROVE  /\ Shaped(conn', fut') /\ SameLife(k, conn') /\ AsksAtMost(k, f) /\ OnlyTask(t)
           /\ pool' = p
           /\ \/ /\ made < MaxClients /\ made' = made + 1
                 /\ task'[t].pc = "opening" /\ task'[t].client = made + 1
                 /\ task'[t].todo = todo /\ todo # {}
                 /\ UNCHANGED << connected, lock >>
              \/ /\ made' = made /\ connected' = TRUE /\ lock' = None
                 /\ \/ task'[t] = Done(t)
                    \/ \E c \in Pooled(p) : /\ Asking(t, k, c) /\ task'[t].pc = "listSend"
                                            /\ task'[t].todo \in SUBSET Pooled(p)
<1>1. CASE /\ todo # {} /\ made < MaxClients /\ made' = made + 1
           /\ Become(t, Task("opening", made + 1, 1, 0, todo))
           /\ conn' = k /\ fut' = f
           /\ UNCHANGED << connected, lock >>
  <2>1. /\ "opening" \in Connecting /\ made + 1 \in Clients /\ 1 \in Ids
        /\ 0 \in 0 .. MaxPages
      BY <1>1, McpConstants DEF Shapes, Clients, Ids, Connecting
  <2>2. LET st == Task("opening", made + 1, 1, 0, todo) IN
        /\ st \in TaskState /\ st.pc = "opening" /\ st.client = made + 1
        /\ st.todo = todo
      BY <2>1, TaskShape
  <2>3. /\ OnlyTask(t) /\ task'[t].pc = "opening" /\ task'[t].client = made + 1
        /\ task'[t].todo = todo
      BY <1>1, <2>2, BecomeFacts
  <2>4. QED
      BY <1>1, <2>3, NoAsk DEF ConnectNext
<1>2. CASE ListFrom(t, k, f, Pooled(p)) /\ todo = {} /\ connected' = TRUE /\ lock' = None
           /\ UNCHANGED made
  <2>1. Pooled(p) \in SUBSET Clients
      BY DEF Pooled
  <2>2. QED
      BY <1>2, <2>1, ListFromFacts DEF ConnectNext
<1>3. QED
    BY <1>1, <1>2 DEF ConnectNext

\* The end of a listing.
LEMMA ListOverFacts ==
    ASSUME Shapes, Places, NEW t \in Tasks, task[t].pc \in Listing,
           NEW k, NEW f, Shaped(k, f), ListOver(t, k, f)
    PROVE  /\ Shaped(conn', fut') /\ AsksAtMost(k, f) /\ OnlyTask(t)
           /\ \/ /\ t \in Loaders /\ SameLife(k, conn')
                 /\ \/ task'[t] = Done(t)
                    \/ \E c \in task[t].todo : /\ Asking(t, k, c) /\ task'[t].pc = "listSend"
                                               /\ task'[t].todo \in SUBSET task[t].todo
              \/ /\ t \in Probes /\ conn' = Closing(k, { Mine(t) })
                 /\ task'[t].pc = "closing" /\ task'[t].client = Mine(t)
<1>1. task[t].todo \in SUBSET Clients /\ Mine(t) \in Clients
    BY McpConstants DEF Shapes, Places, PlaceOK, Clients, Mine
<1>2. CASE t \in Loaders /\ ListFrom(t, k, f, task[t].todo)
    BY <1>1, <1>2, ListFromFacts
<1>3. CASE /\ t \in Probes /\ conn' = Closing(k, { Mine(t) }) /\ fut' = f
           /\ Become(t, Task("closing", Mine(t), 1, 0, {}))
  <2>1. "closing" \in Connecting /\ 1 \in Ids /\ 0 \in 0 .. MaxPages
      BY McpConstants DEF Ids, Connecting
  <2>2. LET st == Task("closing", Mine(t), 1, 0, {}) IN
        st \in TaskState /\ st.pc = "closing" /\ st.client = Mine(t)
      BY <1>1, <2>1, TaskShape
  <2>3. OnlyTask(t) /\ task'[t].pc = "closing" /\ task'[t].client = Mine(t)
      BY <1>3, <2>2, BecomeFacts
  <2>4. /\ conn' \in [Clients -> ClientState]
        /\ \A d \in Clients : conn'[d].next = k[d].next /\ k[d].next \in 1 .. MaxIds + 1
      BY <1>3, ClosingFacts DEF Shaped, ClientState
  <2>5. Shaped(conn', fut') /\ AsksAtMost(k, f)
    <3>1. fut' = f
        BY <1>3
    <3>2. Shaped(conn', fut')
        BY <2>4, <3>1 DEF Shaped
    <3>3. AsksAtMost(k, f)
        BY <2>4, <3>1, McpConstants DEF AsksAtMost
    <3>4. QED
        BY <3>2, <3>3
  <2>6. QED
      BY <1>3, <2>3, <2>5
<1>4. QED
    BY <1>2, <1>3 DEF ListOver

-----------------------------------------------------------------------------
(***************************************************************************)
(* Numbers and answers.  Every step moves each future in one of four ways: *)
(* not at all, to empty, from empty to waiting under the next number, or   *)
(* from waiting to failed or to an answer the server gave under its        *)
(* number.                                                                 *)
(***************************************************************************)
Sends == { "initSend", "listSend", "callSend" }

FutureMoves(d, i) ==
    \/ fut'[d][i] = fut[d][i]
    \/ fut'[d][i].st = "none"
    \/ i = conn[d].next /\ conn'[d].next > i /\ fut'[d][i].st = "waiting"
    \/ /\ fut[d][i].st = "waiting" /\ fut'[d][i].tag = fut[d][i].tag
       /\ \/ fut'[d][i].st = "failed"
          \/ \E r \in got[d] : r.id = i /\ fut'[d][i].ans = r.tag

NumberStep ==
    /\ \A d \in Clients : conn'[d].next >= conn[d].next
    /\ \A d \in Clients, i \in Ids : FutureMoves(d, i)
    /\ \A d \in Clients : \A r \in got'[d] :
          \/ r \in got[d]
          \/ r.id < conn[d].next /\ r.tag = fut[d][r.id].tag /\ fut' = fut
    /\ \A t \in Tasks : task'[t].pc \in Sends =>
          task'[t] = task[t] \/ conn'[task'[t].client].next > task'[t].id

\* A step of one coroutine that asks at most one thing is such a step.
LEMMA AsksIsNumberStep ==
    ASSUME Shapes, NEW t \in Tasks, NEW k, NEW f, Shaped(k, f), AsksAtMost(k, f), OnlyTask(t),
           \A d \in Clients : k[d].next = conn[d].next,
           \A d \in Clients, i \in Ids : f[d][i] = fut[d][i] \/ f[d][i].st = "none",
           got' = got,
           task'[t].pc \notin Sends \/ \E c : Asking(t, k, c)
    PROVE  NumberStep
<1>1. \A d \in Clients : conn'[d].next >= conn[d].next
    BY DEF AsksAtMost
<1>2. \A d \in Clients, i \in Ids : FutureMoves(d, i)
    BY DEF AsksAtMost, FutureMoves
<1>3. \A u \in Tasks : task'[u].pc \in Sends =>
          task'[u] = task[u] \/ conn'[task'[u].client].next > task'[u].id
    BY DEF OnlyTask, Asking
<1>4. QED
    BY <1>1, <1>2, <1>3 DEF NumberStep

\* The pool's variables keep their shapes when a step leaves them alone.
PoolShaped ==
    /\ made' \in 0 .. MaxClients
    /\ pool' \in [Servers -> Clients \cup { None }] /\ failures' \subseteq Servers
    /\ connected' \in BOOLEAN /\ lock' \in Loaders \cup { None }

LEMMA ShapesFrom ==
    ASSUME Shapes, Shaped(conn', fut'), PoolShaped, got' = got,
           NEW t \in Tasks, OnlyTask(t)
    PROVE  Shapes'
BY DEF Shapes, Shaped, PoolShaped, OnlyTask

\* The client of a coroutine at work is a client.
LEMMA MineIsClient ==
    ASSUME Shapes, Places, NEW t \in Tasks,
           task[t].pc \in Connecting \cup Listing \cup Calling
    PROVE  Mine(t) \in Clients /\ task[t].id \in Ids
BY McpConstants DEF Shapes, Places, PlaceOK, Clients, TaskState, Mine

\* Steps of the reader and the server.
LEMMA ClientNumbers ==
    ASSUME Shapes, NEW c \in Clients, ClientStep(c)
    PROVE  Shapes' /\ NumberStep
<1>1. /\ conn \in [Clients -> ClientState] /\ conn[c] \in ClientState
      /\ fut \in [Clients -> [Ids -> FutureState]] /\ fut[c] \in [Ids -> FutureState]
      /\ got \in [Clients -> SUBSET [id : Ids, tag : Tags]]
      /\ \A d \in Clients : conn[d].next \in Int
    BY McpConstants DEF Shapes, ClientState
<1>2. UNCHANGED << made, poolVars, task >>
    BY DEF ClientStep, Dispatch, ReaderFails, CloseTransport
<1>3. ASSUME NEW ck \in ClientState, conn' = [conn EXCEPT ![c] = ck], ck.next = conn[c].next
      PROVE  /\ conn' \in [Clients -> ClientState]
             /\ \A d \in Clients : conn'[d].next = conn[d].next
    BY <1>1, <1>3
<1>4. ASSUME conn' \in [Clients -> ClientState],
             \A d \in Clients : conn'[d].next = conn[d].next,
             fut' \in [Clients -> [Ids -> FutureState]],
             \A d \in Clients, i \in Ids : FutureMoves(d, i),
             got' \in [Clients -> SUBSET [id : Ids, tag : Tags]],
             \A d \in Clients : got'[d] \subseteq got[d]
      PROVE  Shapes' /\ NumberStep
  <2>1. Shapes'
      BY <1>2, <1>4 DEF Shapes, poolVars
  <2>2. NumberStep
      BY <1>1, <1>2, <1>4 DEF NumberStep
  <2>3. QED
      BY <2>1, <2>2
<1>5. CASE Dispatch(c)
  <2>1. PICK r \in got[c], st \in { "answered", "error" } :
          /\ conn' = [conn EXCEPT ![c].pending = @ \ { r.id }]
          /\ fut' = IF r.id \in conn[c].pending /\ fut[c][r.id].st = "waiting"
                    THEN [fut EXCEPT ![c][r.id].st = st, ![c][r.id].ans = r.tag]
                    ELSE fut
      BY <1>5 DEF Dispatch
  <2>2. r.id \in Ids /\ r.tag \in Tags
      BY <1>1
  <2> DEFINE ck == [conn[c] EXCEPT !.pending = @ \ { r.id }]
             fr == [fut[c][r.id] EXCEPT !.st = st, !.ans = r.tag]
  <2>3. ck \in ClientState /\ ck.next = conn[c].next /\ conn' = [conn EXCEPT ![c] = ck]
      BY <1>1, <2>1 DEF ClientState
  <2>4. /\ fr \in FutureState /\ fr.tag = fut[c][r.id].tag /\ fr.ans = r.tag
      BY <1>1, <2>2 DEF FutureState
  <2>5. \/ fut' = fut
        \/ /\ fut[c][r.id].st = "waiting"
           /\ fut' = [fut EXCEPT ![c] = [fut[c] EXCEPT ![r.id] = fr]]
      BY <1>1, <2>1, <2>2
  <2> HIDE DEF ck, fr
  <2>6. /\ fut' \in [Clients -> [Ids -> FutureState]]
        /\ \A d \in Clients, i \in Ids : FutureMoves(d, i)
    <3>1. CASE fut' = fut
        BY <1>1, <3>1 DEF FutureMoves
    <3>2. CASE /\ fut[c][r.id].st = "waiting"
               /\ fut' = [fut EXCEPT ![c] = [fut[c] EXCEPT ![r.id] = fr]]
      <4>1. /\ fut' \in [Clients -> [Ids -> FutureState]] /\ fut'[c][r.id] = fr
            /\ \A d \in Clients, i \in Ids : d # c \/ i # r.id => fut'[d][i] = fut[d][i]
          BY <1>1, <2>2, <2>4, <3>2
      <4>2. FutureMoves(c, r.id)
          BY <2>4, <3>2, <4>1 DEF FutureMoves
      <4>3. QED
          BY <4>1, <4>2 DEF FutureMoves
    <3>3. QED
        BY <2>5, <3>1, <3>2
  <2>7. got' = got
      BY <1>5 DEF Dispatch
  <2>8. QED
      BY <1>1, <1>3, <1>4, <2>3, <2>6, <2>7
<1>6. CASE ReaderFails(c)
  <2> DEFINE ck == [conn[c] EXCEPT !.reader = FALSE, !.pending = {}]
             fi(i) == IF i \in conn[c].pending /\ fut[c][i].st = "waiting"
                      THEN [fut[c][i] EXCEPT !.st = "failed"] ELSE fut[c][i]
  <2>1. ck \in ClientState /\ ck.next = conn[c].next /\ conn' = [conn EXCEPT ![c] = ck]
      BY <1>1, <1>6 DEF ClientState, ReaderFails
  <2>2. \A i \in Ids :
          /\ fi(i) \in FutureState
          /\ \/ fi(i) = fut[c][i]
             \/ /\ fut[c][i].st = "waiting" /\ fi(i).tag = fut[c][i].tag
                /\ fi(i).st = "failed"
      BY <1>1 DEF FutureState
  <2>3. fut' = [fut EXCEPT ![c] = [i \in Ids |-> fi(i)]]
      BY <1>6 DEF ReaderFails
  <2>4. got' \in [Clients -> SUBSET [id : Ids, tag : Tags]]
        /\ \A d \in Clients : got'[d] \subseteq got[d]
      BY <1>1, <1>6 DEF ReaderFails
  <2> HIDE DEF ck, fi
  <2>5. /\ fut' \in [Clients -> [Ids -> FutureState]]
        /\ \A d \in Clients, i \in Ids : FutureMoves(d, i)
      BY <1>1, <2>2, <2>3 DEF FutureMoves
  <2>6. QED
      BY <1>3, <1>4, <2>1, <2>4, <2>5
<1>7. CASE CloseTransport(c)
  <2> DEFINE ck == [conn[c] EXCEPT !.trans = "closed"]
  <2>1. ck \in ClientState /\ ck.next = conn[c].next /\ conn' = [conn EXCEPT ![c] = ck]
      BY <1>1, <1>7 DEF ClientState, CloseTransport
  <2>2. /\ got' \in [Clients -> SUBSET [id : Ids, tag : Tags]]
        /\ \A d \in Clients : got'[d] \subseteq got[d]
        /\ fut' = fut
      BY <1>1, <1>7 DEF CloseTransport
  <2>3. QED
      BY <1>1, <1>3, <1>4, <2>1, <2>2 DEF FutureMoves
<1>8. QED
    BY <1>5, <1>6, <1>7 DEF ClientStep

-----------------------------------------------------------------------------
(***************************************************************************)
(* Owners.  A step of a coroutine other than pool.close changes the life   *)
(* of its own client only, and what it then owns is that client or a new   *)
(* one.                                                                    *)
(***************************************************************************)
Rest == Places /\ Owned /\ Handshake /\ PoolHandsOutUsable /\ ProbeCleansUp

OwnStep(t) ==
    /\ OnlyTask(t) /\ made' \in { made, made + 1 }
    /\ \A d \in Clients : (Owns(t) => d # Mine(t)) =>
          /\ conn'[d].trans = conn[d].trans /\ conn'[d].closed = conn[d].closed
          /\ conn'[d].ready = conn[d].ready
    /\ \A s \in Servers :
          \/ pool'[s] = pool[s]
          \/ /\ Owns(t) /\ pool'[s] = Mine(t)
             /\ conn'[Mine(t)].ready /\ Usable(conn', Mine(t))
             /\ ~ (Owns(t)' /\ task'[t].client = Mine(t))
    /\ Owns(t)' => \/ task'[t].client = made + 1 /\ made' = made + 1
                   \/ Owns(t) /\ task'[t].client = Mine(t)
    /\ task'[t].pc = "opening" => task'[t].client = made + 1 /\ made' = made + 1
    /\ task'[t].pc \in { "initSend", "initWait", "notify" } =>
          conn'[task'[t].client].trans = "open" /\ ~ conn'[task'[t].client].closed
    /\ t \in Probes /\ task'[t].pc = "done" =>
          conn'[task'[t].client].trans \in { "none", "closed" }
    /\ PlaceOK(t, task'[t], made')

\* Such a step keeps every owner apart from the others and from the pool, and the
\* pool's clients usable.
LEMMA OwnStepKeeps ==
    ASSUME Shapes, Shapes', Rest, NEW t \in Tasks, OwnStep(t)
    PROVE  Rest'
<1>1. /\ made \in Nat /\ made' \in Nat /\ made <= made' /\ made' <= MaxClients
      /\ MaxClients \in Nat
    BY McpConstants DEF Shapes, OwnStep
<1>2. \A u \in Tasks : u # t => task'[u] = task[u]
    BY DEF OwnStep, OnlyTask
<1>3. \A u \in Tasks : u # t => Owns(u)' = Owns(u)
    BY <1>2 DEF Owns
<1>4. Places'
  <2>1. \A u \in Tasks : PlaceOK(u, task[u], made) => PlaceOK(u, task[u], made')
      BY <1>1 DEF PlaceOK
  <2>2. QED
      BY <1>2, <2>1 DEF Rest, Places, OwnStep
<1>5. Owned'
  <2>1. \A u \in Tasks : Owns(u)' => task'[u].client \in 1 .. made'
      BY <1>1, <1>2, <1>3 DEF Rest, Owned, OwnStep, Mine
  <2>2. \A s \in Servers : pool'[s] # None => pool'[s] \in 1 .. made'
      BY <1>1 DEF Rest, Owned, OwnStep
  <2>3. \A u \in Tasks, s \in Servers : Owns(u)' => pool'[s] # task'[u].client
    <3> SUFFICES ASSUME NEW u \in Tasks, NEW s \in Servers, Owns(u)'
                 PROVE  pool'[s] # task'[u].client
        OBVIOUS
    <3>1. CASE u # t
        BY <1>2, <1>3, <3>1 DEF Rest, Owned, OwnStep, Mine
    <3>2. CASE u = t
      <4>1. made' = made + 1 => pool[s] # made + 1
        <5>1. made' = made + 1 => made + 1 \in Clients
            BY <1>1 DEF Clients
        <5>2. QED
            BY <1>1, <5>1, McpConstants DEF Rest, Owned
      <4>2. QED
          BY <1>1, <3>2, <4>1 DEF Rest, Owned, OwnStep, Mine
    <3>3. QED
        BY <3>1, <3>2
  <2>4. \A u, v \in Tasks : Owns(u)' /\ Owns(v)' /\ task'[u].client = task'[v].client => u = v
      BY <1>1, <1>2, <1>3 DEF Rest, Owned, OwnStep, Mine
  <2>5. QED
      BY <2>1, <2>2, <2>3, <2>4 DEF Owned, Mine
<1>6. Handshake'
  <2>1. ASSUME NEW u \in Tasks, u # t, task[u].pc \in { "opening", "initSend", "initWait", "notify" }
        PROVE  /\ conn'[Mine(u)].trans = conn[Mine(u)].trans
               /\ conn'[Mine(u)].closed = conn[Mine(u)].closed
    <3>1. Owns(u) /\ Mine(u) \in Clients
        BY <1>1, <2>1 DEF Rest, Places, PlaceOK, Owns, Connecting, Clients, Mine
    <3>2. QED
        BY <2>1, <3>1 DEF Rest, Owned, OwnStep
  <2>2. ASSUME NEW u \in Tasks, u # t
        PROVE  /\ task'[u].pc = "opening" =>
                    conn'[task'[u].client].trans = "none" /\ ~ conn'[task'[u].client].closed
               /\ task'[u].pc \in { "initSend", "initWait", "notify" } =>
                    conn'[task'[u].client].trans = "open" /\ ~ conn'[task'[u].client].closed
      BY <1>2, <2>1, <2>2 DEF Rest, Handshake, Mine
  <2>3. \A c \in Clients : c > made => /\ conn'[c].trans = "none" /\ ~ conn'[c].closed
    <3>1. Owns(t) => Mine(t) \in 1 .. made
        BY DEF Rest, Owned
    <3>2. QED
        BY <1>1, <3>1 DEF Rest, Handshake, OwnStep, Clients
  <2>4. task'[t].pc = "opening" =>
            conn'[task'[t].client].trans = "none" /\ ~ conn'[task'[t].client].closed
      BY <1>1, <2>3 DEF OwnStep, Clients
  <2>5. \A c \in Clients : c > made' => conn'[c].trans = "none" /\ ~ conn'[c].closed
      BY <1>1, <2>3 DEF Clients
  <2>6. QED
      BY <2>2, <2>4, <2>5 DEF Handshake, OwnStep, Mine
<1>7. PoolHandsOutUsable'
  <2> SUFFICES ASSUME NEW s \in Servers, pool'[s] # None
               PROVE  conn'[pool'[s]].ready /\ Usable(conn', pool'[s])
      BY DEF PoolHandsOutUsable, Usable
  <2>1. CASE pool'[s] = pool[s]
    <3>1. pool[s] \in Clients /\ (Owns(t) => pool[s] # Mine(t))
        BY <2>1 DEF Shapes, Rest, Owned
    <3>2. QED
        BY <2>1, <3>1 DEF Rest, PoolHandsOutUsable, OwnStep, Usable
  <2>2. CASE pool'[s] # pool[s]
      BY <2>2 DEF OwnStep
  <2>3. QED
      BY <2>1, <2>2
<1>8. ProbeCleansUp'
  <2> SUFFICES ASSUME NEW u \in Probes, task'[u].pc = "done"
               PROVE  conn'[task'[u].client].trans \in { "none", "closed" }
      BY DEF ProbeCleansUp, At, Mine
  <2>1. CASE u = t
      BY <2>1 DEF OwnStep
  <2>2. CASE u # t
    <3>1. u \in Tasks /\ task[u].pc = "done" /\ task'[u].client = Mine(u)
        BY <1>2, <2>2 DEF Tasks, Mine
    <3>2. Owns(u) /\ Mine(u) \in Clients
        BY <1>1, <3>1 DEF Owns, Rest, Owned, Clients
    <3>3. conn'[Mine(u)].trans = conn[Mine(u)].trans
        BY <2>2, <3>1, <3>2 DEF Rest, Owned, OwnStep
    <3>4. QED
        BY <3>1, <3>3 DEF Rest, ProbeCleansUp, At
  <2>3. QED
      BY <2>1, <2>2
<1>9. QED
    BY <1>4, <1>5, <1>6, <1>7, <1>8 DEF Rest

\* A coroutine that keeps its client and the servers or clients it has to go.
LEMMA MovedOn ==
    ASSUME Shapes, NEW t \in Tasks, NEW pc \in Connecting \cup Listing \cup Calling, NEW i \in Ids,
           Become(t, [task[t] EXCEPT !.pc = pc, !.id = i])
    PROVE  /\ OnlyTask(t) /\ task'[t].pc = pc /\ task'[t].id = i
           /\ task'[t].client = Mine(t) /\ task'[t].todo = task[t].todo
<1> DEFINE st == [task[t] EXCEPT !.pc = pc, !.id = i]
<1>1. task[t] \in TaskState
    BY DEF Shapes
<1>2. /\ st \in TaskState /\ st.pc = pc /\ st.id = i
      /\ st.client = Mine(t) /\ st.todo = task[t].todo
    BY <1>1 DEF TaskState, Mine
<1> HIDE DEF st
<1>3. OnlyTask(t) /\ task'[t] = st
    BY <1>2, BecomeFacts DEF st
<1>4. QED
    BY <1>2, <1>3

\* The send of a request returns.
LEMMA SentFacts ==
    ASSUME Shapes, Rest, Numbered, NEW t \in Tasks, Sent(t)
    PROVE  Shapes' /\ NumberStep /\ OwnStep(t)
<1> DEFINE c == Mine(t)
           i == task[t].id
           pc == CASE task[t].pc = "initSend" -> "initWait"
                   [] task[t].pc = "listSend" -> "listWait"
                   [] task[t].pc = "callSend" -> "callWait"
<1>1. task[t].pc \in Sends
    BY DEF Sent, Sends
<1>2. c \in Clients /\ i \in Ids
    BY <1>1, MineIsClient DEF Rest, Sends, Connecting, Listing, Calling
<1>3. /\ pc \in { "initWait", "listWait", "callWait" }
      /\ task[t].pc = "initSend" => pc = "initWait"
      /\ task[t].pc = "listSend" => pc = "listWait"
      /\ task[t].pc = "callSend" => pc = "callWait"
    BY <1>1 DEF Sends
<1>4. task[t] \in TaskState /\ task' = [task EXCEPT ![t].pc = pc]
    BY DEF Shapes, Sent
<1> HIDE DEF pc
<1>5. /\ OnlyTask(t) /\ task'[t].pc = pc /\ task'[t].client = c
      /\ task'[t].todo = task[t].todo
  <2> DEFINE st == [task[t] EXCEPT !.pc = pc]
  <2>1. /\ st \in TaskState /\ st.pc = pc /\ st.client = c /\ st.todo = task[t].todo
      BY <1>3, <1>4 DEF TaskState, Mine, Connecting, Listing, Calling
  <2>2. task' = [task EXCEPT ![t] = st] /\ task \in [Tasks -> TaskState]
      BY <1>4 DEF Shapes
  <2> HIDE DEF st
  <2>3. QED
      BY <2>1, <2>2 DEF OnlyTask
<1>6. UNCHANGED << made, conn, fut, pool, failures, connected, lock >>
    BY DEF Sent, poolVars
<1>7. /\ got' \in [Clients -> SUBSET [id : Ids, tag : Tags]]
      /\ \A d \in Clients : \A r \in got'[d] :
            r \in got[d] \/ (d = c /\ r.id = i /\ r.tag = fut[c][i].tag)
  <2>1. /\ got \in [Clients -> SUBSET [id : Ids, tag : Tags]]
        /\ fut[c][i].tag \in Tags
      BY <1>2 DEF Shapes, FutureState
  <2>2. got' = [got EXCEPT ![c] = IF conn[c].reader
                                  THEN @ \cup { [id |-> i, tag |-> fut[c][i].tag] } ELSE {}]
      BY DEF Sent, Future
  <2>3. QED
      BY <1>2, <2>1, <2>2
<1>8. Shapes'
    BY <1>5, <1>6, <1>7 DEF Shapes, OnlyTask
<1>9. NumberStep
  <2>1. i < conn[c].next /\ \A d \in Clients : conn[d].next \in Int
      BY <1>1, McpConstants DEF Numbered, Sends, Shapes, ClientState
  <2>2. \A u \in Tasks : task'[u].pc \in Sends => task'[u] = task[u]
      BY <1>3, <1>5 DEF OnlyTask, Sends
  <2>3. QED
      BY <1>6, <1>7, <2>1, <2>2 DEF NumberStep, FutureMoves
<1>10. OwnStep(t)
  <2>1. PlaceOK(t, task'[t], made')
      BY <1>1, <1>3, <1>5, <1>6 DEF Rest, Places, PlaceOK, Sends, Connecting, Listing, Calling, Mine
  <2>2. Owns(t)' => Owns(t)
      BY <1>1, <1>3, <1>5 DEF Owns, Sends, Connecting
  <2>3. pc = "initWait" => conn[c].trans = "open" /\ ~ conn[c].closed
      BY <1>1, <1>3 DEF Rest, Handshake, Sends
  <2>4. QED
      BY <1>3, <1>5, <1>6, <2>1, <2>2, <2>3 DEF OwnStep
<1>11. QED
    BY <1>8, <1>9, <1>10

\* A step that closes nothing and opens nothing, and after which the coroutine owns
\* nothing new.
LEMMA PlainOwnStep ==
    ASSUME Shapes, Rest, NEW t \in Tasks, OnlyTask(t), SameLife(conn, conn'),
           UNCHANGED << made, pool >>,
           Owns(t)' => Owns(t) /\ task'[t].client = Mine(t),
           task'[t].pc \notin { "opening", "initSend", "initWait", "notify" },
           t \in Probes => task'[t].pc # "done",
           PlaceOK(t, task'[t], made)
    PROVE  OwnStep(t)
BY DEF OwnStep, SameLife

\* The server's answer to initialize.
LEMMA InitAnsweredFacts ==
    ASSUME Shapes, Rest, NEW t \in Tasks, InitAnswered(t)
    PROVE  Shapes' /\ NumberStep /\ OwnStep(t)
<1>1. task[t].pc = "initWait" /\ fut' = Dropped(t)
    BY DEF InitAnswered, At
<1>2. Mine(t) \in Clients /\ task[t].id \in Ids /\ 1 \in Ids
    BY <1>1, MineIsClient, McpConstants DEF Rest, Connecting, Ids
<1>3. UNCHANGED << made, conn, got, pool, failures, connected, lock >>
    BY DEF InitAnswered, poolVars
<1>4. /\ OnlyTask(t) /\ task'[t].pc = "notify" /\ task'[t].client = Mine(t)
      /\ task'[t].todo = task[t].todo
  <2>1. "notify" \in Connecting /\ Become(t, [task[t] EXCEPT !.pc = "notify", !.id = 1])
      BY DEF InitAnswered, Connecting
  <2>2. QED
      BY <1>2, <2>1, MovedOn
<1>5. /\ Shaped(conn, Dropped(t))
      /\ \A d \in Clients, i \in Ids :
            Dropped(t)[d][i] = fut[d][i] \/ Dropped(t)[d][i].st = "none"
    BY <1>2, DroppedFacts DEF Shaped, Shapes
<1>6. Shaped(conn', fut') /\ AsksAtMost(conn, Dropped(t))
    BY <1>1, <1>3, <1>5, NoAsk
<1>7. Shapes'
    BY <1>3, <1>4, <1>6, ShapesFrom DEF Shapes, PoolShaped
<1>8. NumberStep
    BY <1>3, <1>4, <1>5, <1>6, AsksIsNumberStep DEF Sends
<1>9. OwnStep(t)
  <2>1. PlaceOK(t, task'[t], made')
      BY <1>1, <1>3, <1>4 DEF Rest, Places, PlaceOK, Connecting, Listing, Calling, Mine
  <2>2. Owns(t)' => Owns(t)
      BY <1>1, <1>4 DEF Owns, Connecting
  <2>3. conn[Mine(t)].trans = "open" /\ ~ conn[Mine(t)].closed
      BY <1>1 DEF Rest, Handshake
  <2>4. QED
      BY <1>3, <1>4, <2>1, <2>2, <2>3 DEF OwnStep
<1>10. QED
    BY <1>7, <1>8, <1>9

\* The transport is open: initialize is asked.
LEMMA OpenedFacts ==
    ASSUME Shapes, Rest, NEW t \in Tasks, Opened(t)
    PROVE  Shapes' /\ NumberStep /\ OwnStep(t)
<1> DEFINE c == Mine(t)
           ck == [conn[c] EXCEPT !.trans = "open", !.reader = TRUE]
           k == [conn EXCEPT ![c] = ck]
<1>1. task[t].pc = "opening" /\ conn \in [Clients -> ClientState]
      /\ fut \in [Clients -> [Ids -> FutureState]]
    BY DEF Opened, At, Shapes
<1>2. c \in Clients
    BY <1>1, MineIsClient DEF Rest, Connecting
<1>3. [conn EXCEPT ![c].trans = "open", ![c].reader = TRUE] = k
    BY <1>1, <1>2
<1>4. /\ ck \in ClientState /\ ck.trans = "open" /\ ck.closed = conn[c].closed
      /\ ck.next = conn[c].next /\ ck.ready = conn[c].ready
    BY <1>1, <1>2 DEF ClientState
<1>5. /\ Ask(k, fut, c, Tag(t, 0))
      /\ Become(t, [task[t] EXCEPT !.pc = "initSend", !.id = NextId(k, c)])
      /\ UNCHANGED << made, got, pool, failures, connected, lock >>
    BY <1>3 DEF Opened, poolVars
<1> HIDE DEF ck
<1>6. /\ Shaped(k, fut) /\ k[c] = ck /\ \A d \in Clients : d # c => k[d] = conn[d]
    BY <1>1, <1>2, <1>4 DEF Shaped
<1> HIDE DEF k
<1>7. /\ Shaped(conn', fut') /\ SameLife(k, conn') /\ AsksAtMost(k, fut)
      /\ NextId(k, c) = k[c].next /\ k[c].next \in Ids /\ conn'[c].next > k[c].next
    BY <1>2, <1>5, <1>6, AskStep
<1>8. /\ OnlyTask(t) /\ task'[t].pc = "initSend" /\ task'[t].id = k[c].next
      /\ task'[t].client = Mine(t) /\ task'[t].todo = task[t].todo
    BY <1>5, <1>7, MovedOn DEF Connecting
<1>9. conn[c].trans = "none" /\ ~ conn[c].closed
    BY <1>1 DEF Rest, Handshake
<1>10. Shapes'
    BY <1>5, <1>7, <1>8, ShapesFrom DEF Shapes, PoolShaped
<1>11. NumberStep
  <2>1. Asking(t, k, c)
      BY <1>2, <1>4, <1>6, <1>7, <1>8, <1>9 DEF Asking, Usable
  <2>2. \A d \in Clients : k[d].next = conn[d].next
      BY <1>4, <1>6
  <2>3. QED
      BY <1>5, <1>6, <1>7, <1>8, <2>1, <2>2, AsksIsNumberStep
<1>12. OwnStep(t)
  <2>1. PlaceOK(t, task'[t], made')
      BY <1>1, <1>5, <1>8 DEF Rest, Places, PlaceOK, Connecting, Listing, Calling, Mine
  <2>2. Owns(t)
      BY <1>1 DEF Owns, Rest, Places, PlaceOK, Connecting
  <2>3. conn'[c].trans = "open" /\ ~ conn'[c].closed
      BY <1>2, <1>4, <1>6, <1>7, <1>9 DEF SameLife
  <2>4. QED
      BY <1>5, <1>6, <1>7, <1>8, <2>1, <2>2, <2>3 DEF OwnStep, SameLife
<1>13. QED
    BY <1>10, <1>11, <1>12

\* A connect that failed closes its own client.
LEMMA ConnectFailsFacts ==
    ASSUME Shapes, Rest, NEW t \in Tasks, ConnectFails(t)
    PROVE  Shapes' /\ NumberStep /\ OwnStep(t)
<1> DEFINE c == Mine(t)
<1>1. /\ task[t].pc \in { "opening", "initSend", "initWait", "notify" }
      /\ conn' = Closing(conn, { c }) /\ fut' = Dropped(t)
      /\ Become(t, [task[t] EXCEPT !.pc = "closing", !.id = 1])
      /\ UNCHANGED << made, got, pool, connected, lock >>
    BY DEF ConnectFails
<1>2. c \in Clients /\ conn \in [Clients -> ClientState] /\ 1 \in Ids
    BY <1>1, MineIsClient, McpConstants DEF Rest, Connecting, Shapes, Ids
<1>3. failures' \subseteq Servers
  <2>1. t \in Loaders => First(task[t].todo) \in Servers
      BY <1>1 DEF First, Rest, Places, PlaceOK, Connecting
  <2>2. QED
      BY <2>1 DEF ConnectFails, Shapes
<1>4. /\ OnlyTask(t) /\ task'[t].pc = "closing" /\ task'[t].client = c
      /\ task'[t].todo = task[t].todo
    BY <1>1, <1>2, MovedOn DEF Connecting
<1>5. /\ Shaped(conn', fut')
      /\ \A d \in Clients : /\ conn'[d].trans = conn[d].trans
                            /\ conn'[d].ready = conn[d].ready
                            /\ conn'[d].next = conn[d].next
                            /\ d # c => conn'[d].closed = conn[d].closed
  <2>1. fut' \in [Clients -> [Ids -> FutureState]]
      BY <1>1, <1>2, DroppedFacts
  <2>2. conn' \in [Clients -> ClientState]
      BY <1>1, <1>2, ClosingFacts
  <2>3. ASSUME NEW d \in Clients
        PROVE  /\ conn'[d].trans = conn[d].trans /\ conn'[d].ready = conn[d].ready
               /\ conn'[d].next = conn[d].next
               /\ d # c => conn'[d].closed = conn[d].closed
    <3>1. d # c => d \notin { c }
        OBVIOUS
    <3>2. QED
        BY <1>1, <1>2, <3>1, ClosingFacts
  <2>4. QED
      BY <2>1, <2>2, <2>3 DEF Shaped
<1>6. Shapes'
    BY <1>1, <1>3, <1>4, <1>5, ShapesFrom DEF Shapes, PoolShaped
<1>7. NumberStep
  <2>1. \A d \in Clients, i \in Ids : fut'[d][i] = fut[d][i] \/ fut'[d][i].st = "none"
      BY <1>1, <1>2, DroppedFacts
  <2> DEFINE k == Closing(conn, { c })
             f == Dropped(t)
  <2>2. conn' = k /\ fut' = f
      BY <1>1
  <2> HIDE DEF k, f
  <2>3. Shaped(k, f) /\ AsksAtMost(k, f) /\ \A d \in Clients : k[d].next = conn[d].next
      BY <1>5, <2>2, NoAsk
  <2>4. \A d \in Clients, i \in Ids : f[d][i] = fut[d][i] \/ f[d][i].st = "none"
      BY <2>1, <2>2
  <2>5. QED
      BY <1>1, <1>4, <2>3, <2>4, AsksIsNumberStep DEF Sends
<1>8. OwnStep(t)
  <2>1. PlaceOK(t, task'[t], made')
      BY <1>1, <1>4 DEF Rest, Places, PlaceOK, Connecting, Listing, Calling, Mine
  <2>2. Owns(t)
      BY <1>1 DEF Owns, Rest, Places, PlaceOK, Connecting
  <2>3. QED
      BY <1>1, <1>4, <1>5, <2>1, <2>2 DEF OwnStep
<1>9. QED
    BY <1>6, <1>7, <1>8

\* The pool's clients were made.
LEMMA PooledMade ==
    ASSUME Shapes, Rest PROVE Pooled(pool) \in SUBSET (1 .. made)
BY DEF Pooled, Rest, Owned

\* A loader that failed to connect one server goes on.
LEMMA GaveUpFacts ==
    ASSUME Shapes, Rest, NEW t \in Tasks, GaveUp(t)
    PROVE  Shapes' /\ NumberStep /\ OwnStep(t)
<1> DEFINE todo == task[t].todo \ { First(task[t].todo) }
<1>1. /\ t \in Loaders /\ task[t].pc = "closing"
      /\ ConnectNext(t, conn, fut, pool, todo) /\ UNCHANGED << got, failures >>
    BY DEF GaveUp, At
<1>2. todo \in SUBSET Servers /\ Shaped(conn, fut)
      /\ pool \in [Servers -> Clients \cup { None }]
    BY <1>1 DEF Rest, Places, PlaceOK, Connecting, Shapes, Shaped
<1> HIDE DEF todo
<1>3. /\ Shaped(conn', fut') /\ SameLife(conn, conn') /\ AsksAtMost(conn, fut) /\ OnlyTask(t)
      /\ pool' = pool
      /\ \/ /\ made < MaxClients /\ made' = made + 1
            /\ task'[t].pc = "opening" /\ task'[t].client = made + 1
            /\ task'[t].todo = todo /\ todo # {}
            /\ UNCHANGED << connected, lock >>
         \/ /\ made' = made /\ connected' = TRUE /\ lock' = None
            /\ \/ task'[t] = Done(t)
               \/ \E c \in Pooled(pool) : /\ Asking(t, conn, c) /\ task'[t].pc = "listSend"
                                          /\ task'[t].todo \in SUBSET Pooled(pool)
    BY <1>1, <1>2, ConnectNextFacts
<1>4. PoolShaped
  <2>1. made' \in 0 .. MaxClients
      BY <1>3, McpConstants DEF Shapes
  <2>2. connected' \in BOOLEAN /\ lock' \in Loaders \cup { None }
      BY <1>3 DEF Shapes
  <2>3. QED
      BY <1>1, <1>2, <1>3, <2>1, <2>2 DEF PoolShaped, Shapes
<1>5. Shapes'
    BY <1>1, <1>3, <1>4, ShapesFrom
<1>6. Done(t).pc = "done"
    BY DoneShape
<1>7. NumberStep
    BY <1>1, <1>2, <1>3, <1>6, AsksIsNumberStep DEF Sends
<1>8. OwnStep(t)
  <2>1. t \notin Probes
      BY <1>1, McpConstants
  <2>2. CASE task'[t].pc = "opening" /\ task'[t].client = made + 1 /\ made' = made + 1
             /\ task'[t].todo = todo /\ todo # {}
    <3>1. made + 1 \in 1 .. made + 1
        BY DEF Shapes
    <3>2. PlaceOK(t, task'[t], made')
        BY <1>1, <1>2, <2>2, <3>1 DEF PlaceOK, Connecting, Listing, Calling
    <3>3. QED
        BY <1>3, <2>1, <2>2, <3>2 DEF OwnStep, SameLife
  <2>3. CASE made' = made /\ \/ task'[t] = Done(t)
                             \/ \E c \in Pooled(pool) : /\ Asking(t, conn, c)
                                                        /\ task'[t].pc = "listSend"
                                                        /\ task'[t].todo \in SUBSET Pooled(pool)
    <3>1. PlaceOK(t, task'[t], made)
        BY <1>1, <1>6, <2>3, PooledMade DEF PlaceOK, Connecting, Listing, Calling, Asking
    <3>2. task'[t].pc \in { "done", "listSend" } /\ ~ Owns(t)'
        BY <1>6, <2>1, <2>3 DEF Owns, Connecting
    <3>3. QED
        BY <1>3, <2>1, <2>3, <3>1, <3>2, PlainOwnStep
  <2>4. QED
      BY <1>3, <2>2, <2>3
<1>9. QED
    BY <1>5, <1>7, <1>8

\* The handshake is complete: the client enters the pool, or a probe lists its tools.
LEMMA NotifiedFacts ==
    ASSUME Shapes, Rest, NEW t \in Tasks, Notified(t)
    PROVE  Shapes' /\ NumberStep /\ OwnStep(t)
<1> DEFINE c == Mine(t)
           ck == [conn[c] EXCEPT !.ready = TRUE]
           k == [conn EXCEPT ![c] = ck]
           s0 == First(task[t].todo)
           p == [pool EXCEPT ![s0] = c]
           todo == task[t].todo \ { s0 }
<1>1. /\ task[t].pc = "notify" /\ conn \in [Clients -> ClientState]
      /\ pool \in [Servers -> Clients \cup { None }]
      /\ UNCHANGED << got, failures >>
    BY DEF Notified, At, Shapes
<1>2. c \in Clients /\ c \in 1 .. made /\ made \in Nat /\ Owns(t)
    BY <1>1, MineIsClient DEF Rest, Places, PlaceOK, Owns, Connecting, Mine, Shapes
<1>3. [conn EXCEPT ![c].ready = TRUE] = k
    BY <1>1, <1>2
<1>4. /\ ck \in ClientState /\ ck.trans = conn[c].trans /\ ck.closed = conn[c].closed
      /\ ck.next = conn[c].next /\ ck.ready
    BY <1>1, <1>2 DEF ClientState
<1>5. \/ t \in Loaders /\ ConnectNext(t, k, fut, p, todo)
      \/ /\ t \in Probes /\ ListFrom(t, k, fut, { c })
         /\ UNCHANGED << made, pool, connected, lock >>
    BY <1>3 DEF Notified
<1> HIDE DEF ck
<1>6. /\ Shaped(k, fut) /\ k[c] = ck /\ \A d \in Clients : d # c => k[d] = conn[d]
    BY <1>1, <1>2, <1>4 DEF Shaped, Shapes
<1> HIDE DEF k
<1>7. conn[c].trans = "open" /\ ~ conn[c].closed
    BY <1>1 DEF Rest, Handshake
<1>8. /\ \A d \in Clients : k[d].next = conn[d].next
      /\ Usable(k, c) /\ k[c].ready
    BY <1>4, <1>6, <1>7 DEF Usable
<1>9. Done(t).pc = "done"
    BY DoneShape
<1>10. ASSUME t \in Loaders, ConnectNext(t, k, fut, p, todo)
       PROVE  Shapes' /\ NumberStep /\ OwnStep(t)
  <2>1. s0 \in Servers /\ todo \in SUBSET Servers /\ t \notin Probes
      BY <1>1, <1>10, McpConstants DEF First, Rest, Places, PlaceOK, Connecting
  <2> HIDE DEF s0, todo
  <2>2. /\ p \in [Servers -> Clients \cup { None }] /\ p[s0] = c
        /\ \A s \in Servers : s # s0 => p[s] = pool[s]
      BY <1>1, <1>2, <2>1
  <2>3. Pooled(p) \in SUBSET (1 .. made)
      BY <1>2, <2>2 DEF Pooled, Rest, Owned
  <2> HIDE DEF p
  <2>4. /\ Shaped(conn', fut') /\ SameLife(k, conn') /\ AsksAtMost(k, fut) /\ OnlyTask(t)
        /\ pool' = p
        /\ \/ /\ made < MaxClients /\ made' = made + 1
              /\ task'[t].pc = "opening" /\ task'[t].client = made + 1
              /\ task'[t].todo = todo /\ todo # {}
              /\ UNCHANGED << connected, lock >>
           \/ /\ made' = made /\ connected' = TRUE /\ lock' = None
              /\ \/ task'[t] = Done(t)
                 \/ \E d \in Pooled(p) : /\ Asking(t, k, d) /\ task'[t].pc = "listSend"
                                         /\ task'[t].todo \in SUBSET Pooled(p)
      BY <1>6, <1>10, <2>1, <2>2, ConnectNextFacts
  <2>5. PoolShaped
    <3>1. made' \in 0 .. MaxClients
        BY <2>4, McpConstants DEF Shapes
    <3>2. connected' \in BOOLEAN /\ lock' \in Loaders \cup { None }
        BY <2>4 DEF Shapes
    <3>3. QED
        BY <1>1, <2>2, <2>4, <3>1, <3>2 DEF PoolShaped, Shapes
  <2>6. Shapes'
      BY <1>1, <2>4, <2>5, ShapesFrom
  <2>7. NumberStep
      BY <1>1, <1>6, <1>8, <1>9, <2>4, AsksIsNumberStep DEF Sends
  <2>8. PlaceOK(t, task'[t], made')
    <3>1. CASE /\ made' = made + 1 /\ task'[t].pc = "opening" /\ task'[t].client = made + 1
               /\ task'[t].todo = todo /\ todo # {}
      <4>1. made + 1 \in 1 .. made + 1
          BY <1>2
      <4>2. QED
          BY <1>10, <2>1, <3>1, <4>1 DEF PlaceOK, Connecting, Listing, Calling
    <3>2. CASE made' = made /\ \/ task'[t] = Done(t)
                               \/ \E d \in Pooled(p) : /\ Asking(t, k, d)
                                                       /\ task'[t].pc = "listSend"
                                                       /\ task'[t].todo \in SUBSET Pooled(p)
      <4>1. CASE task'[t] = Done(t)
          BY <1>9, <4>1 DEF PlaceOK, Connecting, Listing, Calling
      <4>2. CASE task'[t].pc = "listSend" /\ task'[t].client \in 1 .. made
                 /\ task'[t].todo \subseteq 1 .. made
        <5>1. PlaceOK(t, task'[t], made)
            BY <1>10, <4>2 DEF PlaceOK, Connecting, Listing, Calling
        <5>2. QED
            BY <3>2, <5>1
      <4>3. QED
          BY <2>3, <3>2, <4>1, <4>2 DEF Asking
    <3>3. QED
        BY <2>4, <3>1, <3>2
  <2>9. /\ Owns(t)' => task'[t].client = made + 1 /\ made' = made + 1
        /\ task'[t].pc \in { "opening", "listSend", "done" }
        /\ task'[t].pc = "opening" => task'[t].client = made + 1 /\ made' = made + 1
      BY <1>9, <2>1, <2>4 DEF Owns, Connecting
  <2>10. conn'[c].ready /\ Usable(conn', c)
      BY <1>2, <1>8, <2>4 DEF SameLife, Usable
  <2>11. \A d \in Clients : d # c =>
            /\ conn'[d].trans = conn[d].trans /\ conn'[d].closed = conn[d].closed
            /\ conn'[d].ready = conn[d].ready
      BY <1>6, <2>4 DEF SameLife
  <2>12. OwnStep(t)
      BY <1>2, <2>1, <2>2, <2>4, <2>8, <2>9, <2>10, <2>11 DEF OwnStep
  <2>13. QED
      BY <2>6, <2>7, <2>12
<1>11. ASSUME t \in Probes, ListFrom(t, k, fut, { c }),
              UNCHANGED << made, pool, connected, lock >>
       PROVE  Shapes' /\ NumberStep /\ OwnStep(t)
  <2>1. /\ Shaped(conn', fut') /\ SameLife(k, conn') /\ AsksAtMost(k, fut) /\ OnlyTask(t)
        /\ Asking(t, k, c) /\ task'[t].pc = "listSend" /\ task'[t].todo \in SUBSET { c }
      BY <1>2, <1>6, <1>8, <1>11, ListFromFacts
  <2>2. Shapes'
      BY <1>1, <1>11, <2>1, ShapesFrom DEF Shapes, PoolShaped
  <2>3. NumberStep
      BY <1>1, <1>6, <1>8, <2>1, AsksIsNumberStep
  <2>4. PlaceOK(t, task'[t], made')
      BY <1>2, <1>11, <2>1 DEF PlaceOK, Connecting, Listing, Calling, Asking
  <2>5. \A d \in Clients : d # c =>
            /\ conn'[d].trans = conn[d].trans /\ conn'[d].closed = conn[d].closed
            /\ conn'[d].ready = conn[d].ready
      BY <1>6, <2>1 DEF SameLife
  <2>6. OwnStep(t)
      BY <1>2, <1>11, <2>1, <2>4, <2>5 DEF OwnStep, Asking
  <2>7. QED
      BY <2>2, <2>3, <2>6
<1>12. QED
    BY <1>5, <1>10, <1>11

\* A listing ends, for a loader with the next client, for a probe with the close of
\* its own.  k and f are conn and fut without the future and, maybe, its entry.
LEMMA ListOverStep ==
    ASSUME Shapes, Rest, NEW t \in Tasks, task[t].pc \in Listing,
           NEW k, NEW f, Shaped(k, f), SameLife(conn, k),
           \A d \in Clients : k[d].next = conn[d].next,
           \A d \in Clients, i \in Ids : f[d][i] = fut[d][i] \/ f[d][i].st = "none",
           ListOver(t, k, f), UNCHANGED << made, got, poolVars >>
    PROVE  Shapes' /\ NumberStep /\ OwnStep(t)
<1>1. /\ Shaped(conn', fut') /\ AsksAtMost(k, f) /\ OnlyTask(t)
      /\ \/ /\ t \in Loaders /\ SameLife(k, conn')
            /\ \/ task'[t] = Done(t)
               \/ \E c \in task[t].todo : /\ Asking(t, k, c) /\ task'[t].pc = "listSend"
                                          /\ task'[t].todo \in SUBSET task[t].todo
         \/ /\ t \in Probes /\ conn' = Closing(k, { Mine(t) })
            /\ task'[t].pc = "closing" /\ task'[t].client = Mine(t)
    BY ListOverFacts DEF Rest
<1>2. Done(t).pc = "done"
    BY DoneShape
<1>3. Shapes'
    BY <1>1, ShapesFrom DEF Shapes, PoolShaped, poolVars
<1>4. NumberStep
    BY <1>1, <1>2, AsksIsNumberStep DEF Sends
<1>5. Mine(t) \in 1 .. made /\ task[t].todo \subseteq 1 .. made
    BY DEF Rest, Places, PlaceOK, Mine
<1>6. CASE /\ t \in Loaders /\ SameLife(k, conn')
           /\ \/ task'[t] = Done(t)
              \/ \E c \in task[t].todo : /\ Asking(t, k, c) /\ task'[t].pc = "listSend"
                                         /\ task'[t].todo \in SUBSET task[t].todo
  <2>1. PlaceOK(t, task'[t], made)
      BY <1>2, <1>5, <1>6 DEF PlaceOK, Connecting, Listing, Calling, Asking
  <2>2. task'[t].pc \in { "done", "listSend" } /\ t \notin Probes
      BY <1>2, <1>6, McpConstants
  <2>3. ~ Owns(t)' /\ SameLife(conn, conn') /\ UNCHANGED << made, pool >>
      BY <1>6, <2>2 DEF Owns, Connecting, SameLife, poolVars
  <2>4. OwnStep(t)
      BY <1>1, <2>1, <2>2, <2>3, PlainOwnStep
  <2>5. QED
      BY <1>3, <1>4, <2>4
<1>7. CASE /\ t \in Probes /\ conn' = Closing(k, { Mine(t) })
           /\ task'[t].pc = "closing" /\ task'[t].client = Mine(t)
  <2>1. PlaceOK(t, task'[t], made')
      BY <1>5, <1>7, McpConstants DEF PlaceOK, Connecting, Listing, Calling, poolVars
  <2>2. Owns(t)
      BY <1>7 DEF Owns, Listing
  <2>3. ASSUME NEW d \in Clients, d # Mine(t)
        PROVE  /\ conn'[d].trans = conn[d].trans /\ conn'[d].closed = conn[d].closed
               /\ conn'[d].ready = conn[d].ready
    <3>1. d \notin { Mine(t) }
        BY <2>3
    <3>2. QED
        BY <1>7, <3>1, ClosingFacts DEF SameLife, Shaped
  <2>4. OwnStep(t)
      BY <1>1, <1>7, <2>1, <2>2, <2>3 DEF OwnStep, poolVars
  <2>5. QED
      BY <1>3, <1>4, <2>4
<1>8. QED
    BY <1>1, <1>6, <1>7

\* The steps of a listing.
LEMMA ListFacts ==
    ASSUME Shapes, Rest, NEW t \in Tasks, ListAnswered(t) \/ ListFails(t) \/ ListTimeout(t)
    PROVE  Shapes' /\ NumberStep /\ OwnStep(t)
<1> DEFINE c == Mine(t)
           f == Dropped(t)
<1>1. task[t].pc \in Listing /\ UNCHANGED << made, got, poolVars >>
    BY DEF ListAnswered, ListFails, ListTimeout, At, Listing
<1>2. c \in Clients
    BY <1>1, MineIsClient DEF Rest
<1>3. /\ Shaped(conn, f) /\ SameLife(conn, conn)
      /\ \A d \in Clients, i \in Ids : f[d][i] = fut[d][i] \/ f[d][i].st = "none"
    BY <1>2, DroppedFacts DEF Shaped, Shapes, SameLife
<1>4. /\ Shaped(Popped(t), f) /\ SameLife(conn, Popped(t))
      /\ \A d \in Clients : Popped(t)[d].next = conn[d].next
    BY <1>2, <1>3, PoppedFacts DEF Shaped, SameLife
<1> HIDE DEF f
<1>5. CASE ListOver(t, conn, f)
    BY <1>1, <1>3, <1>5, ListOverStep
<1>6. CASE ListOver(t, Popped(t), f)
    BY <1>1, <1>3, <1>4, <1>6, ListOverStep
<1>7. CASE /\ task[t].page < MaxPages /\ Usable(conn, c)
           /\ Ask(conn, f, c, Tag(t, task[t].page + 1))
           /\ Become(t, [task[t] EXCEPT !.pc = "listSend", !.id = NextId(conn, c),
                                        !.page = @ + 1])
  <2>1. task[t] \in TaskState /\ task[t].page + 1 \in 0 .. MaxPages
        /\ task[t].page + 1 \in Nat
      BY <1>7, McpConstants DEF Shapes, TaskState
  <2>2. /\ Shaped(conn', fut') /\ SameLife(conn, conn') /\ AsksAtMost(conn, f)
        /\ NextId(conn, c) = conn[c].next /\ conn[c].next \in Ids
        /\ conn'[c].next > conn[c].next
      BY <1>2, <1>3, <1>7, <2>1, AskStep
  <2> DEFINE st == [task[t] EXCEPT !.pc = "listSend", !.id = NextId(conn, c), !.page = @ + 1]
  <2>3. /\ st \in TaskState /\ st.pc = "listSend" /\ st.id = conn[c].next
        /\ st.client = c /\ st.todo = task[t].todo
      BY <2>1, <2>2 DEF TaskState, Mine, Listing
  <2> HIDE DEF st
  <2>4. OnlyTask(t) /\ task'[t] = st
      BY <1>7, <2>3, BecomeFacts DEF st
  <2>5. Asking(t, conn, c) /\ task'[t].pc = "listSend" /\ task'[t].client = c
        /\ task'[t].todo = task[t].todo
      BY <1>2, <1>7, <2>2, <2>3, <2>4 DEF Asking
  <2>6. Shapes'
      BY <1>1, <2>2, <2>4, ShapesFrom DEF Shapes, PoolShaped, poolVars
  <2>7. NumberStep
      BY <1>1, <1>3, <2>2, <2>4, <2>5, AsksIsNumberStep
  <2>8. PlaceOK(t, task'[t], made)
      BY <1>1, <2>5 DEF Rest, Places, PlaceOK, Connecting, Listing, Calling, Mine
  <2>9. Owns(t)' => Owns(t)
      BY <1>1, <2>5 DEF Owns, Connecting, Listing
  <2>10. OwnStep(t)
      BY <1>1, <2>2, <2>4, <2>5, <2>8, <2>9, PlainOwnStep DEF poolVars
  <2>11. QED
      BY <2>6, <2>7, <2>10
<1>8. QED
    BY <1>5, <1>6, <1>7 DEF ListAnswered, ListFails, ListTimeout, f

\* The end of a tool call.
LEMMA CallFacts ==
    ASSUME Shapes, Rest, NEW t \in Tasks, CallReturns(t) \/ CallTimeout(t)
    PROVE  Shapes' /\ NumberStep /\ OwnStep(t)
<1> DEFINE k == Popped(t)
           f == Dropped(t)
<1>1. /\ task[t].pc \in Calling /\ UNCHANGED << made, got, poolVars >>
      /\ conn' = k /\ fut' = f /\ Become(t, Done(t))
    BY DEF CallReturns, CallTimeout, At, Calling
<1>2. Mine(t) \in Clients /\ t \in Calls /\ t \notin Probes /\ t \notin Loaders
    BY <1>1, MineIsClient, McpConstants DEF Rest, Places, PlaceOK
<1>3. /\ Shaped(k, f) /\ SameLife(conn, k) /\ \A d \in Clients : k[d].next = conn[d].next
      /\ \A d \in Clients, i \in Ids : f[d][i] = fut[d][i] \/ f[d][i].st = "none"
    BY <1>2, DroppedFacts, PoppedFacts DEF Shaped, SameLife
<1> HIDE DEF k, f
<1>4. OnlyTask(t) /\ task'[t].pc = "done"
    BY <1>1, DoneShape, BecomeFacts
<1>5. Shaped(conn', fut') /\ AsksAtMost(k, f) /\ SameLife(conn, conn')
    BY <1>1, <1>3, NoAsk
<1>6. Shapes'
    BY <1>1, <1>4, <1>5, ShapesFrom DEF Shapes, PoolShaped, poolVars
<1>7. NumberStep
    BY <1>1, <1>3, <1>4, <1>5, AsksIsNumberStep DEF Sends
<1>8. PlaceOK(t, task'[t], made) /\ ~ Owns(t)'
    BY <1>2, <1>4 DEF PlaceOK, Connecting, Listing, Calling, Owns
<1>9. OwnStep(t)
    BY <1>1, <1>2, <1>4, <1>5, <1>8, PlainOwnStep DEF poolVars
<1>10. QED
    BY <1>6, <1>7, <1>9

\* A probe returns; pool.close has closed what it found.
LEMMA OverFacts ==
    ASSUME Shapes, Rest, NEW t \in Tasks, ProbeOver(t) \/ Closed(t)
    PROVE  Shapes' /\ NumberStep /\ OwnStep(t)
<1>1. /\ UNCHANGED << made, conn, fut, got, pool, failures, lock >>
      /\ connected' \in BOOLEAN /\ Become(t, Done(t))
    BY DEF ProbeOver, Closed, poolVars, Shapes
<1>2. OnlyTask(t) /\ task'[t].pc = "done" /\ (t \in Probes => task'[t].client = Mine(t))
    BY <1>1, DoneShape, BecomeFacts
<1>3. Shaped(conn, fut)
    BY DEF Shapes, Shaped
<1>4. Shaped(conn', fut') /\ AsksAtMost(conn, fut) /\ SameLife(conn, conn')
    BY <1>1, <1>3, NoAsk
<1>5. Shapes'
    BY <1>1, <1>2, <1>4, ShapesFrom DEF Shapes, PoolShaped
<1>6. NumberStep
    BY <1>1, <1>2, <1>3, <1>4, AsksIsNumberStep DEF Sends
<1>7. PlaceOK(t, task'[t], made)
    BY <1>2 DEF PlaceOK, Connecting, Listing, Calling
<1>8. t \in Probes => /\ Owns(t) /\ conn[Mine(t)].trans \in { "none", "closed" }
  <2>1. CASE ProbeOver(t)
    <3>1. task[t].pc = "closing" /\ IsShut(Mine(t)) /\ Mine(t) \in Clients
        BY <2>1, MineIsClient DEF ProbeOver, At, Rest, Connecting
    <3>2. QED
        BY <3>1 DEF Owns, IsShut, Shapes, ClientState
  <2>2. CASE Closed(t)
      BY <2>2, McpConstants DEF Closed, At, Rest, Places, PlaceOK
  <2>3. QED
      BY <2>1, <2>2
<1>9. Owns(t)' => t \in Probes
    BY <1>2 DEF Owns, Connecting
<1>10. OwnStep(t)
    BY <1>1, <1>2, <1>4, <1>7, <1>8, <1>9 DEF OwnStep, SameLife
<1>11. QED
    BY <1>5, <1>6, <1>10

\* A coroutine that was idle makes a client of its own.
LEMMA FreshFacts ==
    ASSUME Shapes, Rest, NEW t \in Loaders \cup Probes, task[t].pc = "idle",
           NEW todo \in SUBSET Servers, t \in Loaders => todo # {},
           made < MaxClients, made' = made + 1,
           Become(t, Task("opening", made + 1, 1, 0, todo)),
           UNCHANGED << conn, fut, got, pool, failures, connected >>,
           lock' \in Loaders \cup { None }
    PROVE  Shapes' /\ NumberStep /\ OwnStep(t)
<1>1. /\ t \in Tasks /\ "opening" \in Connecting /\ made + 1 \in Clients /\ 1 \in Ids
      /\ 0 \in 0 .. MaxPages /\ made \in Nat /\ made' \in 0 .. MaxClients
    BY McpConstants DEF Shapes, Clients, Ids, Connecting, Tasks
<1>2. LET st == Task("opening", made + 1, 1, 0, todo) IN
      /\ st \in TaskState /\ st.pc = "opening" /\ st.client = made + 1
      /\ st.todo = todo
    BY <1>1, TaskShape
<1>3. /\ OnlyTask(t) /\ task'[t].pc = "opening" /\ task'[t].client = made + 1
      /\ task'[t].todo = todo
    BY <1>1, <1>2, BecomeFacts
<1>4. Shaped(conn, fut)
    BY DEF Shapes, Shaped
<1>5. Shaped(conn', fut') /\ AsksAtMost(conn, fut) /\ SameLife(conn, conn')
    BY <1>4, NoAsk
<1>6. Shapes'
    BY <1>1, <1>3, <1>5, ShapesFrom DEF Shapes, PoolShaped
<1>7. NumberStep
    BY <1>1, <1>3, <1>4, <1>5, AsksIsNumberStep DEF Sends
<1>8. PlaceOK(t, task'[t], made')
  <2>1. made + 1 \in 1 .. made + 1
      BY <1>1
  <2>2. QED
      BY <1>3, <2>1 DEF PlaceOK, Connecting, Listing, Calling
<1>9. OwnStep(t)
    BY <1>3, <1>5, <1>8 DEF OwnStep, SameLife
<1>10. QED
    BY <1>6, <1>7, <1>9

\* A loader starts, under the lock or, when the pool is connected, past it.
LEMMA LoadFacts ==
    ASSUME Shapes, Rest, NEW t \in Tasks, Load(t)
    PROVE  Shapes' /\ NumberStep /\ OwnStep(t)
<1>1. t \in Loaders /\ t \notin Probes /\ task[t].pc = "idle" /\ got' = got
    BY McpConstants DEF Load, At
<1>2. CASE ListFrom(t, conn, fut, Pooled(pool)) /\ UNCHANGED << made, poolVars >>
  <2>1. Shaped(conn, fut) /\ Pooled(pool) \in SUBSET Clients /\ Done(t).pc = "done"
      BY DoneShape DEF Shapes, Shaped, Pooled
  <2>2. /\ Shaped(conn', fut') /\ SameLife(conn, conn') /\ AsksAtMost(conn, fut) /\ OnlyTask(t)
        /\ \/ task'[t] = Done(t)
           \/ \E c \in Pooled(pool) : /\ Asking(t, conn, c) /\ task'[t].pc = "listSend"
                                      /\ task'[t].todo \in SUBSET Pooled(pool)
      BY <1>2, <2>1, ListFromFacts
  <2>3. Shapes'
      BY <1>1, <1>2, <2>2, ShapesFrom DEF Shapes, PoolShaped, poolVars
  <2>4. NumberStep
      BY <1>1, <2>1, <2>2, AsksIsNumberStep DEF Sends
  <2>5. PlaceOK(t, task'[t], made) /\ task'[t].pc \in { "done", "listSend" }
      BY <1>1, <2>1, <2>2, PooledMade DEF PlaceOK, Connecting, Listing, Calling, Asking
  <2>6. ~ Owns(t)'
      BY <1>1, <2>5 DEF Owns, Connecting
  <2>7. OwnStep(t)
      BY <1>1, <1>2, <2>2, <2>5, <2>6, PlainOwnStep DEF poolVars
  <2>8. QED
      BY <2>3, <2>4, <2>7
<1>3. CASE /\ made < MaxClients /\ lock' = t /\ made' = made + 1
           /\ Become(t, Task("opening", made + 1, 1, 0, Servers))
           /\ UNCHANGED << conn, fut, pool, failures, connected >>
    BY <1>1, <1>3, FreshFacts, McpConstants
<1>4. QED
    BY <1>2, <1>3 DEF Load

\* A tool call starts on a client of the pool.
LEMMA ExecuteFacts ==
    ASSUME Shapes, Rest, NEW t \in Tasks, Execute(t)
    PROVE  Shapes' /\ NumberStep /\ OwnStep(t)
<1>1. /\ t \in Calls /\ t \notin Probes /\ t \notin Loaders
      /\ UNCHANGED << made, got, poolVars >>
    BY McpConstants DEF Execute
<1>2. Shaped(conn, fut)
    BY DEF Shapes, Shaped
<1>3. /\ Shaped(conn', fut') /\ SameLife(conn, conn') /\ AsksAtMost(conn, fut) /\ OnlyTask(t)
      /\ \/ task'[t].pc = "done"
         \/ /\ task'[t].pc = "callSend" /\ task'[t].client \in 1 .. made
            /\ \E c : Asking(t, conn, c)
  <2>1. CASE Become(t, Done(t)) /\ UNCHANGED << conn, fut >>
      BY <1>2, <2>1, BecomeFacts, DoneShape, NoAsk
  <2>2. ASSUME NEW s \in Servers, pool[s] # None, Usable(conn, pool[s]),
               Ask(conn, fut, pool[s], Tag(t, 1)),
               Become(t, Task("callSend", pool[s], NextId(conn, pool[s]), 0, {}))
        PROVE  /\ Shaped(conn', fut') /\ SameLife(conn, conn') /\ AsksAtMost(conn, fut)
               /\ OnlyTask(t) /\ task'[t].pc = "callSend" /\ task'[t].client \in 1 .. made
               /\ \E c : Asking(t, conn, c)
    <3> DEFINE c == pool[s]
    <3>1. c \in Clients /\ c \in 1 .. made
        BY <2>2 DEF Shapes, Rest, Owned
    <3>2. /\ Shaped(conn', fut') /\ SameLife(conn, conn') /\ AsksAtMost(conn, fut)
          /\ NextId(conn, c) = conn[c].next /\ conn[c].next \in Ids
          /\ conn'[c].next > conn[c].next
        BY <1>2, <2>2, <3>1, AskStep
    <3> HIDE DEF c
    <3>3. LET st == Task("callSend", c, NextId(conn, c), 0, {}) IN
          /\ st \in TaskState /\ st.pc = "callSend" /\ st.client = c
          /\ st.id = conn[c].next
      <4>1. "callSend" \in Calling /\ 0 \in 0 .. MaxPages /\ NextId(conn, c) \in Ids
          BY <3>2, McpConstants DEF Calling
      <4>2. QED
          BY <3>1, <3>2, <4>1, TaskShape
    <3>4. /\ OnlyTask(t) /\ task'[t].pc = "callSend" /\ task'[t].client = c
          /\ task'[t].id = conn[c].next
        BY <2>2, <3>3, BecomeFacts DEF c
    <3>5. Asking(t, conn, c)
        BY <2>2, <3>1, <3>2, <3>4 DEF Asking, c
    <3>6. QED
        BY <3>1, <3>2, <3>4, <3>5
  <2>3. QED
      BY <2>1, <2>2 DEF Execute
<1>4. Shapes'
    BY <1>1, <1>3, ShapesFrom DEF Shapes, PoolShaped, poolVars
<1>5. NumberStep
    BY <1>1, <1>2, <1>3, AsksIsNumberStep DEF Sends
<1>6. PlaceOK(t, task'[t], made) /\ ~ Owns(t)'
    BY <1>1, <1>3 DEF PlaceOK, Connecting, Listing, Calling, Owns
<1>7. OwnStep(t)
    BY <1>1, <1>3, <1>6, PlainOwnStep DEF poolVars
<1>8. QED
    BY <1>4, <1>5, <1>7

\* A probe starts on a client of its own.
LEMMA ProbeFacts ==
    ASSUME Shapes, Rest, NEW t \in Tasks, Probe(t)
    PROVE  Shapes' /\ NumberStep /\ OwnStep(t)
<1>1. /\ t \in Probes /\ t \notin Loaders /\ task[t].pc = "idle"
      /\ made < MaxClients /\ made' = made + 1
      /\ Become(t, Task("opening", made + 1, 1, 0, {}))
      /\ UNCHANGED << conn, fut, got, pool, failures, connected >>
      /\ lock' \in Loaders \cup { None }
    BY McpConstants DEF Probe, At, poolVars, Shapes
<1>2. {} \in SUBSET Servers
    OBVIOUS
<1>3. QED
    BY <1>1, <1>2, FreshFacts

\* pool.close takes every client out of the pool and closes it: no coroutine that is
\* connecting has one of them.
LEMMA CloseFacts ==
    ASSUME Shapes, Rest, NEW t \in Tasks, Close(t)
    PROVE  Shapes' /\ NumberStep /\ Rest'
<1>1. /\ t \in Closers /\ t \notin Loaders /\ t \notin Probes
      /\ pool' = Cleared /\ UNCHANGED << made, fut, got, failures, lock >>
      /\ connected' \in BOOLEAN
    BY McpConstants DEF Close, Shapes
<1>2. Shaped(conn, fut) /\ Pooled(pool) \in SUBSET Clients
    BY DEF Shapes, Shaped, Pooled
<1>3. /\ Shaped(conn', fut') /\ OnlyTask(t) /\ task'[t].pc \in { "done", "gather" }
      /\ \A d \in Clients : /\ conn'[d].trans = conn[d].trans /\ conn'[d].next = conn[d].next
                            /\ d \notin Pooled(pool) => conn'[d].closed = conn[d].closed
  <2>1. CASE Become(t, Done(t)) /\ UNCHANGED conn
      BY <1>1, <1>2, <2>1, BecomeFacts, DoneShape DEF Shaped
  <2>2. CASE /\ conn' = Closing(conn, Pooled(pool))
             /\ Become(t, Task("gather", None, 1, 0, Pooled(pool)))
    <3>1. /\ 1 \in Ids /\ 0 \in 0 .. MaxPages /\ None \in Clients \cup { None }
          /\ Pooled(pool) \in SUBSET (Servers \cup Clients)
        BY <1>2, McpConstants DEF Ids
    <3>2. LET st == Task("gather", None, 1, 0, Pooled(pool)) IN
          st \in TaskState /\ st.pc = "gather"
        BY <3>1, TaskShape
    <3>3. OnlyTask(t) /\ task'[t].pc = "gather"
        BY <2>2, <3>2, BecomeFacts
    <3>4. QED
        BY <1>1, <1>2, <2>2, <3>3, ClosingFacts DEF Shaped
  <2>3. QED
      BY <2>1, <2>2 DEF Close
<1>4. pool' \in [Servers -> Clients \cup { None }] /\ \A s \in Servers : pool'[s] = None
    BY <1>1 DEF Cleared
<1>5. Shapes'
    BY <1>1, <1>3, <1>4, ShapesFrom DEF PoolShaped, Shapes
<1>6. NumberStep
  <2>1. AsksAtMost(conn, fut)
      BY <1>1, <1>3, McpConstants DEF AsksAtMost, Shapes, ClientState
  <2>2. QED
      BY <1>1, <1>2, <1>3, <2>1, AsksIsNumberStep DEF Sends
<1>7. \A u \in Tasks : u # t => task'[u] = task[u] /\ Owns(u)' = Owns(u)
    BY <1>3 DEF OnlyTask, Owns
<1>8. ~ Owns(t)' /\ PlaceOK(t, task'[t], made)
    BY <1>1, <1>3 DEF Owns, PlaceOK, Connecting, Listing, Calling
<1>9. Places'
    BY <1>1, <1>7, <1>8 DEF Rest, Places
<1>10. made \in Nat /\ 1 .. made \subseteq Clients /\ None \notin 1 .. made
    BY McpConstants DEF Shapes, Clients
<1>11. Owned'
    BY <1>1, <1>4, <1>7, <1>8, <1>10 DEF Rest, Owned, Mine
<1>12. Handshake'
  <2>1. ASSUME NEW u \in Tasks, u # t,
               task[u].pc \in { "opening", "initSend", "initWait", "notify" }
        PROVE  /\ conn'[Mine(u)].trans = conn[Mine(u)].trans
               /\ conn'[Mine(u)].closed = conn[Mine(u)].closed
    <3>1. Owns(u) /\ Mine(u) \in Clients
        BY <1>10, <2>1 DEF Rest, Places, PlaceOK, Owns, Connecting, Mine
    <3>2. Mine(u) \notin Pooled(pool)
        BY <3>1 DEF Rest, Owned, Pooled
    <3>3. QED
        BY <1>3, <3>1, <3>2
  <2>2. \A c \in Clients : c > made => c \notin Pooled(pool)
      BY <1>10, PooledMade DEF Clients
  <2>3. \A c \in Clients : c > made => conn'[c].trans = "none" /\ ~ conn'[c].closed
      BY <1>3, <2>2 DEF Rest, Handshake
  <2>4. \A u \in Tasks :
           /\ task'[u].pc = "opening" =>
                 conn'[task'[u].client].trans = "none" /\ ~ conn'[task'[u].client].closed
           /\ task'[u].pc \in { "initSend", "initWait", "notify" } =>
                 conn'[task'[u].client].trans = "open" /\ ~ conn'[task'[u].client].closed
      BY <1>3, <1>7, <2>1 DEF Rest, Handshake, Mine
  <2>5. QED
      BY <1>1, <2>3, <2>4 DEF Handshake, Mine
<1>13. PoolHandsOutUsable'
    BY <1>4 DEF PoolHandsOutUsable
<1>14. ProbeCleansUp'
  <2> SUFFICES ASSUME NEW u \in Probes, task'[u].pc = "done"
               PROVE  conn'[task'[u].client].trans \in { "none", "closed" }
      BY DEF ProbeCleansUp, At, Mine
  <2>1. u \in Tasks /\ u # t /\ task[u].pc = "done" /\ task'[u].client = Mine(u)
      BY <1>1, <1>7 DEF Tasks, Mine
  <2>2. Mine(u) \in Clients
      BY <1>10, <2>1 DEF Owns, Rest, Owned
  <2>3. QED
      BY <1>3, <2>1, <2>2 DEF Rest, ProbeCleansUp, At
<1>15. QED
    BY <1>5, <1>6, <1>9, <1>11, <1>12, <1>13, <1>14 DEF Rest

\* The reader and the server leave a client's life alone, and the transport that is
\* closed is that of a closed client: not one of the pool or of a handshake.
LEMMA ClientRest ==
    ASSUME Shapes, Rest, NEW c \in Clients, ClientStep(c)
    PROVE  Rest'
<1>1. UNCHANGED << made, pool, task >>
    BY DEF ClientStep, Dispatch, ReaderFails, CloseTransport, poolVars
<1>2. conn \in [Clients -> ClientState] /\ conn[c] \in ClientState
    BY DEF Shapes
<1>3. \A d \in Clients :
         /\ conn'[d].ready = conn[d].ready /\ conn'[d].closed = conn[d].closed
         /\ \/ conn'[d].trans = conn[d].trans
            \/ conn[d].closed /\ conn'[d].trans = "closed"
  <2>1. ASSUME NEW ck \in ClientState, conn' = [conn EXCEPT ![c] = ck],
               ck.ready = conn[c].ready, ck.closed = conn[c].closed,
               ck.trans = conn[c].trans \/ (conn[c].closed /\ ck.trans = "closed")
        PROVE  \A d \in Clients :
                 /\ conn'[d].ready = conn[d].ready /\ conn'[d].closed = conn[d].closed
                 /\ \/ conn'[d].trans = conn[d].trans
                    \/ conn[d].closed /\ conn'[d].trans = "closed"
      BY <1>2, <2>1
  <2>2. CASE Dispatch(c)
    <3>1. PICK r \in got[c] : conn' = [conn EXCEPT ![c].pending = @ \ { r.id }]
        BY <2>2 DEF Dispatch
    <3> DEFINE ck == [conn[c] EXCEPT !.pending = @ \ { r.id }]
    <3>2. /\ ck \in ClientState /\ ck.ready = conn[c].ready /\ ck.closed = conn[c].closed
          /\ ck.trans = conn[c].trans /\ conn' = [conn EXCEPT ![c] = ck]
        BY <1>2, <3>1 DEF ClientState
    <3> HIDE DEF ck
    <3>3. QED
        BY <2>1, <3>2
  <2>3. CASE ReaderFails(c)
    <3> DEFINE ck == [conn[c] EXCEPT !.reader = FALSE, !.pending = {}]
    <3>1. /\ ck \in ClientState /\ ck.ready = conn[c].ready /\ ck.closed = conn[c].closed
          /\ ck.trans = conn[c].trans /\ conn' = [conn EXCEPT ![c] = ck]
        BY <1>2, <2>3 DEF ClientState, ReaderFails
    <3> HIDE DEF ck
    <3>2. QED
        BY <2>1, <3>1
  <2>4. CASE CloseTransport(c)
    <3> DEFINE ck == [conn[c] EXCEPT !.trans = "closed"]
    <3>1. /\ ck \in ClientState /\ ck.ready = conn[c].ready /\ ck.closed = conn[c].closed
          /\ conn[c].closed /\ ck.trans = "closed" /\ conn' = [conn EXCEPT ![c] = ck]
        BY <1>2, <2>4 DEF ClientState, CloseTransport
    <3> HIDE DEF ck
    <3>2. QED
        BY <2>1, <3>1
  <2>5. QED
      BY <2>2, <2>3, <2>4 DEF ClientStep
<1>4. Places' /\ Owned'
    BY <1>1 DEF Rest, Places, Owned, Owns, Mine
<1>5. 1 .. made \subseteq Clients
    BY McpConstants DEF Shapes, Clients
<1>6. Handshake'
  <2>1. \A t \in Tasks : task[t].pc \in { "opening", "initSend", "initWait", "notify" } =>
            Mine(t) \in Clients
      BY <1>5 DEF Rest, Places, PlaceOK, Connecting, Mine
  <2>2. QED
      BY <1>1, <1>3, <2>1 DEF Rest, Handshake, Mine
<1>7. PoolHandsOutUsable'
    BY <1>1, <1>3 DEF Rest, PoolHandsOutUsable, Usable, Shapes
<1>8. ProbeCleansUp'
  <2>1. \A t \in Probes : At(t, "done") => Mine(t) \in Clients
      BY <1>5 DEF Rest, Owned, Owns, At, Tasks
  <2>2. QED
      BY <1>1, <1>3, <2>1 DEF Rest, ProbeCleansUp, At, Mine
<1>9. QED
    BY <1>4, <1>6, <1>7, <1>8 DEF Rest

-----------------------------------------------------------------------------
(* Answers. *)

\* A number that is taken again would let an old answer in; none is.
LEMMA AnswerStep ==
    ASSUME Shapes, Shapes', Places, Numbered, SameRequest, OwnAnswer, NumberStep
    PROVE  Numbered' /\ SameRequest' /\ OwnAnswer'
<1>1. /\ \A d \in Clients : conn[d].next \in Int /\ conn'[d].next \in Int
      /\ \A d \in Clients : \A r \in got[d] : r.id \in Ids
      /\ \A d \in Clients : \A r \in got'[d] : r.id \in Ids
      /\ Ids \subseteq Int /\ \A t \in Tasks : task[t].id \in Int
    BY McpConstants DEF Shapes, ClientState, TaskState, Ids
<1>2. \A d \in Clients, i \in Ids : FutureMoves(d, i)
    BY DEF NumberStep
<1>3. Numbered'
  <2>1. \A d \in Clients : \A r \in got'[d] : r.id < conn'[d].next
      BY <1>1 DEF NumberStep, Numbered
  <2>2. ASSUME NEW d \in Clients, NEW i \in Ids, fut'[d][i].st # "none"
        PROVE  i < conn'[d].next
    <3>1. fut[d][i].st # "none" => i < conn[d].next
        BY DEF Numbered
    <3>2. conn'[d].next >= conn[d].next
        BY DEF NumberStep
    <3>3. QED
        BY <1>1, <1>2, <2>2, <3>1, <3>2 DEF FutureMoves
  <2>3. ASSUME NEW t \in Tasks, task'[t].pc \in Sends
        PROVE  task'[t].id < conn'[task'[t].client].next
    <3>1. CASE task'[t] = task[t]
      <4>1. Mine(t) \in Clients
          BY <2>3, <3>1, MineIsClient DEF Sends, Connecting, Listing, Calling
      <4>2. task[t].id < conn[Mine(t)].next /\ conn'[Mine(t)].next >= conn[Mine(t)].next
          BY <2>3, <3>1, <4>1 DEF Numbered, NumberStep, Sends
      <4>3. QED
          BY <1>1, <3>1, <4>1, <4>2 DEF Mine
    <3>2. CASE conn'[task'[t].client].next > task'[t].id
        BY <3>2
    <3>3. QED
        BY <2>3, <3>1, <3>2 DEF NumberStep
  <2>4. QED
      BY <2>1, <2>2, <2>3 DEF Numbered, Mine, Sends
<1>4. SameRequest'
  <2> SUFFICES ASSUME NEW d \in Clients, NEW r \in got'[d], fut'[d][r.id].st # "none"
               PROVE  fut'[d][r.id].tag = r.tag
      BY DEF SameRequest
  <2>1. CASE r \in got[d]
    <3>1. r.id < conn[d].next /\ r.id \in Ids
        BY <1>1, <2>1 DEF Numbered
    <3>2. fut[d][r.id].st # "none" => fut[d][r.id].tag = r.tag
        BY <2>1 DEF SameRequest
    <3>3. r.id # conn[d].next
        BY <1>1, <3>1
    <3>4. \A i \in Ids : i # conn[d].next => \/ fut'[d][i] = fut[d][i]
                                          \/ fut'[d][i].st = "none"
                                          \/ /\ fut[d][i].st = "waiting"
                                             /\ fut'[d][i].tag = fut[d][i].tag
        BY <1>2 DEF FutureMoves
    <3>5. QED
        BY <3>1, <3>2, <3>3, <3>4
  <2>2. CASE r.tag = fut[d][r.id].tag /\ fut' = fut
      BY <2>2
  <2>3. QED
      BY <2>1, <2>2 DEF NumberStep
<1>5. OwnAnswer'
  <2> SUFFICES ASSUME NEW d \in Clients, NEW i \in Ids,
                      fut'[d][i].st \in { "answered", "error" }
               PROVE  fut'[d][i].ans = fut'[d][i].tag
      BY DEF OwnAnswer
  <2>1. CASE fut'[d][i] = fut[d][i]
      BY <2>1 DEF OwnAnswer
  <2>2. CASE /\ fut[d][i].st = "waiting" /\ fut'[d][i].tag = fut[d][i].tag
             /\ \E r \in got[d] : r.id = i /\ fut'[d][i].ans = r.tag
      BY <2>2 DEF SameRequest
  <2>3. QED
      BY <1>2, <2>1, <2>2 DEF FutureMoves
<1>6. QED
    BY <1>3, <1>4, <1>5

-----------------------------------------------------------------------------
(* The theorems. *)

\* Whichever tasks ever start.
LEMMA InitInv ==
    ASSUME NEW S, InitWith(S) PROVE IInv
<1>1. Shapes
  <2>1. NewClient \in ClientState
      BY McpConstants DEF NewClient, ClientState
  <2>2. NoFuture \in FutureState
      BY DEF NoFuture, NoTag, FutureState, Tags
  <2>3. Idle \in TaskState /\ [Idle EXCEPT !.pc = "off"] \in TaskState
      BY McpConstants DEF Idle, Task, TaskState, Resting, Ids
  <2>4. made \in 0 .. MaxClients
      BY McpConstants DEF InitWith
  <2>5. QED
      BY <2>1, <2>2, <2>3, <2>4 DEF InitWith, Shapes
<1>2. \A t \in Tasks : task[t].pc \in { "idle", "off" }
    BY DEF InitWith, Idle, Task
<1>3. Places
    BY <1>2 DEF Places, PlaceOK, Connecting, Listing, Calling
<1>4. /\ \A c \in Clients : got[c] = {} /\ conn[c].trans = "none" /\ ~ conn[c].closed
      /\ \A c \in Clients, i \in Ids : fut[c][i].st = "none"
      /\ \A s \in Servers : pool[s] = None
    BY DEF InitWith, NewClient, NoFuture
<1>5. Numbered /\ SameRequest /\ OwnAnswer
    BY <1>2, <1>4 DEF Numbered, SameRequest, OwnAnswer
<1>6. Owned /\ Handshake
    BY <1>2, <1>4 DEF Owned, Owns, Handshake, Connecting
<1>7. PoolHandsOutUsable /\ ProbeCleansUp
    BY <1>2, <1>4 DEF PoolHandsOutUsable, ProbeCleansUp, At, Tasks
<1>8. QED
    BY <1>1, <1>3, <1>5, <1>6, <1>7 DEF IInv

\* Every step keeps the invariant.
LEMMA NextInv ==
    ASSUME IInv, [Next]_vars PROVE IInv'
<1>1. Shapes /\ Rest /\ Places /\ Numbered /\ SameRequest /\ OwnAnswer
    BY DEF IInv, Rest
<1>2. ASSUME Shapes', NumberStep, Rest'
      PROVE  IInv'
    BY <1>1, <1>2, AnswerStep DEF IInv, Rest
<1>3. ASSUME NEW t \in Tasks, Shapes', NumberStep, OwnStep(t)
      PROVE  IInv'
    BY <1>1, <1>2, <1>3, OwnStepKeeps
<1>4. CASE UNCHANGED vars
    BY <1>4 DEF vars, IInv, Shapes, Places, Numbered, SameRequest, OwnAnswer, Owned, Owns,
                Handshake, PoolHandsOutUsable, ProbeCleansUp, Mine, At, Usable
<1>5. ASSUME NEW c \in Clients, ClientStep(c)
      PROVE  IInv'
    BY <1>1, <1>2, <1>5, ClientNumbers, ClientRest
<1>6. ASSUME NEW t \in Tasks, Start(t)
      PROVE  IInv'
  <2>1. CASE Load(t)
      BY <1>1, <1>3, <2>1, LoadFacts
  <2>2. CASE Execute(t)
      BY <1>1, <1>3, <2>2, ExecuteFacts
  <2>3. CASE Probe(t)
      BY <1>1, <1>3, <2>3, ProbeFacts
  <2>4. CASE Close(t)
      BY <1>1, <1>2, <2>4, CloseFacts
  <2>5. QED
      BY <1>6, <2>1, <2>2, <2>3, <2>4 DEF Start
<1>7. ASSUME NEW t \in Tasks, TaskStep(t)
      PROVE  IInv'
  <2>1. CASE Sent(t)
      BY <1>1, <1>3, <2>1, SentFacts
  <2>2. CASE Opened(t)
      BY <1>1, <1>3, <2>2, OpenedFacts
  <2>3. CASE InitAnswered(t)
      BY <1>1, <1>3, <2>3, InitAnsweredFacts
  <2>4. CASE Notified(t)
      BY <1>1, <1>3, <2>4, NotifiedFacts
  <2>5. CASE ConnectFails(t)
      BY <1>1, <1>3, <2>5, ConnectFailsFacts
  <2>6. CASE GaveUp(t)
      BY <1>1, <1>3, <2>6, GaveUpFacts
  <2>7. CASE ListAnswered(t) \/ ListFails(t) \/ ListTimeout(t)
      BY <1>1, <1>3, <2>7, ListFacts
  <2>8. CASE CallReturns(t) \/ CallTimeout(t)
      BY <1>1, <1>3, <2>8, CallFacts
  <2>9. CASE ProbeOver(t) \/ Closed(t)
      BY <1>1, <1>3, <2>9, OverFacts
  <2>10. QED
      BY <1>7, <2>1, <2>2, <2>3, <2>4, <2>5, <2>6, <2>7, <2>8, <2>9 DEF TaskStep
<1>8. QED
    BY <1>4, <1>5, <1>6, <1>7 DEF Next

\* The strengthened invariant holds throughout, whichever tasks start.
THEOREM Invariance ==
    ASSUME NEW CONSTANT S PROVE InitWith(S) /\ [][Next]_vars => []IInv
<1>1. InitWith(S) => IInv
    BY InitInv
<1>2. IInv /\ [Next]_vars => IInv'
    BY NextInv
<1>3. QED
    BY <1>1, <1>2, PTL

\* Every run of the client, the pool and their users.
LEMMA SpecInv == Spec => []IInv
<1>1. InitWith(Tasks) /\ [][Next]_vars => []IInv
    BY Invariance
<1>2. QED
    BY <1>1, PTL DEF Spec, Init

\* Every variable keeps the shape the code gives it, for any number of servers,
\* clients, pages and requests.
THEOREM TypeCorrect == Spec => []TypeOK
<1>1. IInv => TypeOK
  <2> SUFFICES ASSUME Shapes PROVE TypeOK
      BY DEF IInv
  <2>1. \A c \in Clients : conn[c] \in ClientState
      BY DEF Shapes
  <2>2. \A c \in Clients, i \in Ids : fut[c][i] \in FutureState
      BY DEF Shapes
  <2>3. QED
      BY <2>1, <2>2 DEF TypeOK, Shapes, ClientState, FutureState
<1>2. QED
    BY <1>1, SpecInv, PTL

\* _dispatch never completes a request with the answer to another one, however many
\* coroutines share a client and however late, often or out of order answers come.
THEOREM AnswersOwn == Spec => []OwnAnswer
<1>1. IInv => OwnAnswer
    BY DEF IInv
<1>2. QED
    BY <1>1, SpecInv, PTL

\* pool.get hands a tool call only clients that completed their handshake and that
\* nobody has begun to close, though pool.close does not take the connect lock.
THEOREM PoolHolds == Spec => []PoolHandsOutUsable
<1>1. IInv => PoolHandsOutUsable
    BY DEF IInv
<1>2. QED
    BY <1>1, SpecInv, PTL

\* mcp.test leaves no transport open, wherever its connect or its listing ended.
THEOREM ProbesCleanUp == Spec => []ProbeCleansUp
<1>1. IInv => ProbeCleansUp
    BY DEF IInv
<1>2. QED
    BY <1>1, SpecInv, PTL
=============================================================================

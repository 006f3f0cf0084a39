----------------------------- MODULE AcpProofs -----------------------------
(***************************************************************************)
(* Proofs about Acp: what a turn yields is what the server sent for it,    *)
(* and a cancel is not lost, for any number of turns, cancels, spawns,     *)
(* tool events, replies and faults.                                        *)
(***************************************************************************)
EXTENDS Acp, TLAPS

(***************************************************************************)
(* The inductive invariant.                                                *)
(***************************************************************************)
Events == Nat \X Nat
Replies == { "answered", "stop", "cancel", "error" }
UpLine == [kind : { "initialize", "new", "prompt", "cancel" }, n : 0 .. MaxTurns,
           x : { "none" }]
DownLine == [kind : { "update" }, n : 0 .. MaxTurns, x : Events]
            \cup [kind : { "answer" }, n : 0 .. MaxTurns, x : Replies]

Shapes ==
    /\ child \in { "none", "alive", "dead" } /\ reader \in BOOLEAN /\ closed \in BOOLEAN
    /\ pc \in { "off", "spawning", "handshake", "opening", "ready", "streaming", "over" }
    /\ open \in BOOLEAN
    /\ fut \in Replies \cup { "none", "waiting", "failed" }
    /\ queue \in Seq(Events) /\ turn \in 0 .. MaxTurns /\ yielded \in Seq(Events)
    /\ outcome \in { "none", "stop", "cancel", "error" }
    /\ up \in Seq(UpLine) /\ down \in Seq(DownLine)
    /\ srv \in { "idle", "running", "reply", "final" } /\ srvTurn \in 0 .. MaxTurns
    /\ tools \in 0 .. MaxTools /\ tele \in 0 .. tools /\ sent \in Nat
    /\ cancelEvent \in BOOLEAN /\ cancelled \in BOOLEAN /\ asked \in BOOLEAN
    /\ ended \in Nat

\* A session is opened once, and a reader that has ended under it is not replaced.
Stages ==
    /\ pc \in { "off", "spawning" } => ~ reader
    /\ pc = "spawning" => child # "alive"
    /\ reader => child # "none" /\ fut # "failed"
    /\ pc \in { "off", "spawning", "handshake", "opening" } => ~ open /\ outcome = "none"
    /\ pc = "streaming" => outcome = "none"
    /\ pc = "over" => ~ open
    /\ child # "alive" => srv = "idle"

\* Numbers of prompts only grow, and each is answered at most once.
Counted ==
    /\ \A i \in 1 .. Len(up) : up[i].kind = "prompt" => srvTurn < up[i].n /\ up[i].n <= turn
    /\ \A i, j \in 1 .. Len(up) :
          up[i].kind = "prompt" /\ up[j].kind = "prompt" /\ i < j => up[i].n < up[j].n
    /\ srvTurn <= turn /\ ended <= srvTurn
    /\ srv # "idle" => ended < srvTurn

\* The server knows of every cancel it was asked for since the last answer.
AskedIsSeen == asked => cancelled

\* While the session is being opened, one request or its answer is on its way.
Hello ==
    reader /\ pc \in { "handshake", "opening" } =>
        /\ srv = "idle"
        /\ \A i \in 1 .. Len(up) : up[i].kind \in { "initialize", "new" }
        /\ \A i \in 1 .. Len(down) : down[i] = Message("answer", 0, "answered")
        /\ fut \in { "waiting", "answered" }
        /\ Len(up) + Len(down) <= IF fut = "waiting" THEN 1 ELSE 0

YieldedOK == \A i \in 1 .. Len(yielded) : yielded[i] = << turn, i >>

\* The server has nothing to do: no turn runs and none is on its way.
Quiet == srv = "idle" /\ \A i \in 1 .. Len(up) : up[i].kind = "cancel"

\* The turn has ended, or will when the queue is empty, with the server's own reason.
Settled ==
    \/ outcome \in { "stop", "cancel" }
    \/ pc = "streaming" /\ fut \in { "stop", "cancel" }

\* The queue holds e events of the turn, next in order, and then sentinels only.
Stream(e) ==
    /\ e \in 0 .. Len(queue)
    /\ \A i \in 1 .. Len(queue) :
          queue[i] = IF i <= e THEN << turn, Len(yielded) + i >> ELSE Sentinel
    /\ open /\ reader => e = Len(queue)
    /\ open /\ Settled => Quiet /\ srvTurn = turn /\ sent = Len(yielded) + e
    /\ open /\ outcome \in { "stop", "cancel" } => e = 0

Streams == \E e \in 0 .. Len(queue) : Stream(e)

\* The server has not read the turn's prompt yet, or never will.
NotReceived ==
    /\ down = << >> /\ srv = "idle" /\ queue = << >> /\ yielded = << >>
    /\ \A i \in 1 .. Len(up) : up[i].kind \in { "cancel", "prompt" }
    /\ \A i \in 1 .. Len(up) : up[i].kind = "prompt" => up[i].n = turn

\* It has: the pipe holds the updates the client has not read, and the answer after
\* them once there is one.
Serving(n) ==
    /\ srvTurn = turn /\ n <= sent
    /\ \A i \in 1 .. Len(up) : up[i].kind = "cancel"
    /\ Len(down) \in { sent - n, sent - n + 1 }
    /\ srv # "idle" => Len(down) = sent - n
    /\ \A i \in 1 .. Len(down) :
          IF i <= sent - n THEN down[i] = Message("update", turn, << turn, n + i >>)
          ELSE down[i].kind = "answer" /\ down[i].n = turn /\ down[i].x # "answered"

\* A session that is open and read from.
Flow ==
    open /\ reader =>
        /\ pc = "ready" => queue = << >> /\ down = << >> /\ Quiet
        /\ pc = "streaming" =>
              \/ fut = "waiting" /\ NotReceived
              \/ fut = "waiting" /\ Serving(Len(yielded) + Len(queue))
              \/ /\ fut \in { "stop", "cancel", "error" }
                 /\ down = << >> /\ Quiet

IInv ==
    /\ Shapes /\ Stages /\ Counted /\ AskedIsSeen
    /\ Hello /\ YieldedOK /\ Streams /\ Flow

-----------------------------------------------------------------------------
(* Sequences and lines. *)

LEMMA Appended ==
    ASSUME NEW S, NEW s \in Seq(S), NEW x \in S
    PROVE  /\ Append(s, x) \in Seq(S) /\ Len(s) \in Nat /\ Len(Append(s, x)) = Len(s) + 1
           /\ \A i \in 1 .. Len(s) : Append(s, x)[i] = s[i]
           /\ Append(s, x)[Len(s) + 1] = x
           /\ \A i \in 1 .. Len(s) + 1 : i \in 1 .. Len(s) \/ i = Len(s) + 1
OBVIOUS

LEMMA Taken ==
    ASSUME NEW S, NEW s \in Seq(S), s # << >>
    PROVE  /\ Head(s) \in S /\ Head(s) = s[1] /\ Len(s) \in Nat \ {0}
           /\ Tail(s) \in Seq(S) /\ Len(Tail(s)) = Len(s) - 1
           /\ \A i \in 1 .. Len(s) - 1 : Tail(s)[i] = s[i + 1] /\ i + 1 \in 1 .. Len(s)
OBVIOUS

LEMMA EmptySeq ==
    ASSUME NEW S
    PROVE  /\ << >> \in Seq(S) /\ Len(<< >>) = 0
           /\ \A s \in Seq(S) : Len(s) \in Nat /\ (Len(s) = 0 <=> s = << >>)
OBVIOUS

\* Sending lines one after the other.
LEMMA Joined ==
    ASSUME NEW S, NEW s \in Seq(S), NEW x \in S, NEW y \in S
    PROVE  /\ s \o << x >> = Append(s, x)
           /\ (s \o << >>) \o << y >> = Append(s, y)
           /\ (s \o << x >>) \o << y >> = Append(Append(s, x), y)
<1>1. s \o << x >> = Append(s, x)
    OBVIOUS
<1>2. s \o << >> = s /\ s \o << y >> = Append(s, y)
    OBVIOUS
<1>3. Append(s, x) \in Seq(S)
    OBVIOUS
<1>4. Append(s, x) \o << y >> = Append(Append(s, x), y)
    BY <1>3
<1>5. QED
    BY <1>1, <1>2, <1>4

LEMMA UpLines ==
    ASSUME NEW kind \in { "initialize", "new", "prompt", "cancel" }, NEW n \in 0 .. MaxTurns
    PROVE  LET m == Message(kind, n, "none")
           IN  m \in UpLine /\ m.kind = kind /\ m.n = n
BY DEF Message, UpLine

LEMMA AnswerLines ==
    ASSUME NEW n \in 0 .. MaxTurns, NEW x \in Replies
    PROVE  LET m == Message("answer", n, x)
           IN  m \in DownLine /\ m.kind = "answer" /\ m.n = n /\ m.x = x
BY DEF Message, DownLine

LEMMA UpdateLines ==
    ASSUME NEW n \in 0 .. MaxTurns, NEW i \in Nat
    PROVE  LET m == Message("update", n, << n, i >>)
           IN  m \in DownLine /\ m.kind = "update" /\ m.x = << n, i >>
<1>1. << n, i >> \in Events
    BY DEF Events
<1>2. QED
    BY <1>1 DEF Message, DownLine

LEMMA DownFacts ==
    ASSUME NEW m \in DownLine
    PROVE  /\ m.kind \in { "update", "answer" }
           /\ m.kind = "update" => m.x \in Events
           /\ m.kind = "answer" => m.x \in Replies
BY DEF DownLine

LEMMA UpFacts ==
    ASSUME NEW m \in UpLine
    PROVE  m.kind \in { "initialize", "new", "prompt", "cancel" } /\ m.n \in 0 .. MaxTurns
BY DEF UpLine

LEMMA Zeroes ==
    /\ Sentinel \in Events /\ 0 \in 0 .. MaxTurns /\ 0 \in 0 .. MaxTools
    /\ "answered" \in Replies
    /\ \A n, i \in Nat : << n, i + 1 >> # Sentinel
BY AcpConstants DEF Sentinel, Events, Replies

-----------------------------------------------------------------------------
(* Invariants that steps leave alone. *)

\* The events of the turn stay as they are, unless the session is closed, and an
\* ended turn stays ended.
LEMMA StreamsKept ==
    ASSUME Shapes, Streams, UNCHANGED << queue, turn, yielded >>,
           open' /\ reader' => open /\ reader,
           open' /\ Settled' => open /\ Settled /\ UNCHANGED << srvTurn, sent >>,
           Quiet /\ open' /\ Settled' => Quiet',
           open' /\ outcome' \in { "stop", "cancel" } => open /\ (outcome' = outcome \/ queue = << >>)
    PROVE  Streams'
<1>1. PICK e \in 0 .. Len(queue) : Stream(e)
    BY DEF Streams
<1>2. open' /\ outcome' \in { "stop", "cancel" } => e = 0
  <2>1. queue = << >> => e = 0
      BY <1>1, EmptySeq DEF Shapes
  <2>2. QED
      BY <1>1, <2>1 DEF Stream
<1>3. Stream(e)'
    BY <1>1, <1>2 DEF Stream
<1>4. QED
    BY <1>1, <1>3 DEF Streams

\* The same while the reader ends and a running turn is told.
LEMMA ReaderEndsStreams ==
    ASSUME Shapes, Streams, ReaderEnds, UNCHANGED << turn, yielded, open, pc, outcome, srvTurn, sent >>,
           Quiet => Quiet'
    PROVE  Streams' /\ queue' \in Seq(Events) /\ fut' \in Replies \cup { "none", "waiting", "failed" }
<1>1. PICK e \in 0 .. Len(queue) : Stream(e)
    BY DEF Streams
<1>2. fut' = IF fut = "waiting" THEN "failed" ELSE fut
    BY DEF ReaderEnds, Resolve
<1>3. Settled' => Settled
    BY <1>2 DEF Settled
<1>4. /\ queue' \in Seq(Events) /\ Len(queue') >= Len(queue) /\ Len(queue) \in Nat /\ Len(queue') \in Nat
      /\ \A i \in 1 .. Len(queue') :
            queue'[i] = IF i <= Len(queue) THEN queue[i] ELSE Sentinel
  <2>1. queue \in Seq(Events) /\ Sentinel \in Events
      BY Zeroes DEF Shapes
  <2>2. CASE open
    <3>1. queue' = Append(queue, Sentinel)
        BY <2>2 DEF ReaderEnds, Tell
    <3>2. QED
        BY <2>1, <3>1, Appended
  <2>3. CASE ~ open
    <3>1. queue' = queue /\ Len(queue) \in Nat
        BY <2>1, <2>3 DEF ReaderEnds, Tell
    <3>2. QED
        BY <2>1, <3>1
  <2>4. QED
      BY <2>2, <2>3
<1>5. ~ reader'
    BY DEF ReaderEnds
<1>6. Stream(e)'
  <2>1. e \in 0 .. Len(queue')
      BY <1>1, <1>4
  <2>2. \A i \in 1 .. Len(queue') :
            queue'[i] = IF i <= e THEN << turn', Len(yielded') + i >> ELSE Sentinel
    <3> SUFFICES ASSUME NEW i \in 1 .. Len(queue')
                 PROVE  queue'[i] = IF i <= e THEN << turn, Len(yielded) + i >> ELSE Sentinel
        OBVIOUS
    <3>1. CASE i <= Len(queue)
      <4>1. i \in 1 .. Len(queue) /\ queue'[i] = queue[i]
          BY <1>4, <3>1
      <4>2. queue[i] = IF i <= e THEN << turn, Len(yielded) + i >> ELSE Sentinel
          BY <1>1, <4>1 DEF Stream
      <4>3. QED
          BY <4>1, <4>2
    <3>2. CASE ~ (i <= Len(queue))
        BY <1>1, <1>4, <3>2
    <3>3. QED
        BY <3>1, <3>2
  <2>3. QED
      BY <1>1, <1>3, <1>5, <2>1, <2>2 DEF Stream
<1>7. QED
    BY <1>2, <1>4, <1>6 DEF Streams, Shapes, Stream

LEMMA SameYielded ==
    ASSUME YieldedOK, UNCHANGED << turn, yielded >> PROVE YieldedOK'
BY DEF YieldedOK

LEMMA SameCounted ==
    ASSUME Counted, UNCHANGED << up, turn, srvTurn, ended, srv >> PROVE Counted'
BY DEF Counted

\* A line that is no prompt joins the pipe, or a line leaves it.
LEMMA CountedFewer ==
    ASSUME Shapes, Counted, turn' = turn, srvTurn' = srvTurn, ended' = ended,
           srv' \in { srv, "idle" },
           \/ up' = << >>
           \/ up # << >> /\ up' = Tail(up)
           \/ \E m \in UpLine : up' = Append(up, m) /\ m.kind # "prompt"
    PROVE  Counted'
<1>1. up \in Seq(UpLine)
    BY DEF Shapes
<1>2. CASE up' = << >>
    BY <1>2, EmptySeq DEF Counted
<1>3. CASE up # << >> /\ up' = Tail(up)
  <2>1. /\ Len(up) \in Nat /\ Len(up') = Len(up) - 1
        /\ \A i \in 1 .. Len(up) - 1 : up'[i] = up[i + 1] /\ i + 1 \in 1 .. Len(up)
      BY <1>1, <1>3, Taken
  <2>2. ASSUME NEW i \in 1 .. Len(up')
        PROVE  i + 1 \in 1 .. Len(up) /\ up'[i] = up[i + 1] /\ i \in Nat
      BY <2>1
  <2>3. \A i \in 1 .. Len(up') :
            up'[i].kind = "prompt" => srvTurn' < up'[i].n /\ up'[i].n <= turn'
      BY <2>2 DEF Counted
  <2>4. ASSUME NEW i \in 1 .. Len(up'), NEW j \in 1 .. Len(up'),
               up'[i].kind = "prompt", up'[j].kind = "prompt", i < j
        PROVE  up'[i].n < up'[j].n
    <3>1. i + 1 < j + 1 /\ i + 1 \in 1 .. Len(up) /\ j + 1 \in 1 .. Len(up)
        BY <2>2, <2>4
    <3>2. up[i + 1].kind = "prompt" /\ up[j + 1].kind = "prompt"
        BY <2>2, <2>4
    <3>3. up[i + 1].n < up[j + 1].n
        BY <3>1, <3>2 DEF Counted
    <3>4. QED
        BY <2>2, <3>3
  <2>5. QED
      BY <2>3, <2>4 DEF Counted
<1>4. CASE \E m \in UpLine : up' = Append(up, m) /\ m.kind # "prompt"
  <2>1. PICK m \in UpLine : up' = Append(up, m) /\ m.kind # "prompt"
      BY <1>4
  <2>2. /\ Len(up') = Len(up) + 1 /\ \A i \in 1 .. Len(up) : up'[i] = up[i]
        /\ up'[Len(up) + 1].kind # "prompt"
        /\ \A i \in 1 .. Len(up) + 1 : i \in 1 .. Len(up) \/ i = Len(up) + 1
      BY <1>1, <2>1, Appended
  <2>3. QED
      BY <2>2 DEF Counted
<1>5. QED
    BY <1>2, <1>3, <1>4

\* Nothing of the server and of the queue changes while the session is opened.
LEMMA NoSessionYet ==
    ASSUME IInv, ~ open', ~ open, UNCHANGED << queue, turn, yielded >>
    PROVE  YieldedOK' /\ Streams' /\ Flow'
<1>1. YieldedOK'
    BY SameYielded DEF IInv
<1>2. Streams'
    BY StreamsKept DEF IInv
<1>3. QED
    BY <1>1, <1>2 DEF Flow

-----------------------------------------------------------------------------
(* The calls of the client's user. *)

LEMMA SpawnInv ==
    ASSUME IInv, Spawn PROVE IInv'
<1>1. ~ open /\ ~ open' /\ UNCHANGED << queue, turn, yielded >>
    BY DEF IInv, Stages, Spawn
<1>2. Shapes'
    BY DEF IInv, Shapes, Spawn, server, flags
<1>3. Stages' /\ Hello'
    BY DEF IInv, Stages, Hello, Spawn, server, flags
<1>4. Counted' /\ AskedIsSeen'
    BY DEF IInv, Counted, AskedIsSeen, Spawn, server, flags
<1>5. QED
    BY <1>1, <1>2, <1>3, <1>4, NoSessionYet DEF IInv

LEMMA SpawnedInv ==
    ASSUME IInv, Spawned PROVE IInv'
<1> DEFINE m == Message("initialize", 0, "none")
<1>1. ~ open /\ ~ open' /\ UNCHANGED << queue, turn, yielded, server >> /\ srv = "idle"
    BY DEF IInv, Stages, Spawned
<1>2. m \in UpLine /\ m.kind = "initialize"
    BY UpLines, Zeroes
<1>3. up' = << m >> /\ down' = << >>
    BY DEF Spawned
<1> HIDE DEF m
<1>4. /\ up' \in Seq(UpLine) /\ Len(up') = 1 /\ up'[1] = m
      /\ down' \in Seq(DownLine) /\ Len(down') = 0
    BY <1>2, <1>3
<1>5. Shapes'
    BY <1>1, <1>4 DEF IInv, Shapes, Spawned, server, flags
<1>6. Stages'
    BY <1>1 DEF IInv, Stages, Spawned, server, flags
<1>7. Hello'
    BY <1>1, <1>2, <1>4 DEF Hello, Spawned, server
<1>8. Counted' /\ AskedIsSeen'
    BY <1>1, <1>2, <1>4 DEF IInv, Counted, AskedIsSeen, server, flags
<1>9. QED
    BY <1>1, <1>5, <1>6, <1>7, <1>8, NoSessionYet DEF IInv

\* What is written to the child.
LEMMA AskFacts ==
    ASSUME Shapes, NEW m \in UpLine, NEW next, Ask(m, next)
    PROVE  /\ up' \in Seq(UpLine) /\ fut' = "waiting" /\ pc' = next
           /\ up' = << >> \/ up' = Append(up, m)
           /\ Len(up') \in { 0, Len(up) + 1 } /\ Len(up) \in Nat
           /\ \A i \in 1 .. Len(up') : up'[i] = m \/ (i \in 1 .. Len(up) /\ up'[i] = up[i])
<1>1. up \in Seq(UpLine) /\ << >> \in Seq(UpLine) /\ Len(<< >>) = 0
    BY EmptySeq DEF Shapes
<1>2. fut' = "waiting" /\ pc' = next /\ (up' = << >> \/ up' = Append(up, m))
    BY DEF Ask
<1>3. CASE up' = << >>
    BY <1>1, <1>2, <1>3, EmptySeq
<1>4. CASE up' = Append(up, m)
  <2>1. /\ up' \in Seq(UpLine) /\ Len(up') = Len(up) + 1 /\ Len(up) \in Nat
        /\ \A i \in 1 .. Len(up) : up'[i] = up[i]
        /\ up'[Len(up) + 1] = m
        /\ \A i \in 1 .. Len(up) + 1 : i \in 1 .. Len(up) \/ i = Len(up) + 1
      BY <1>1, <1>4, Appended
  <2>2. QED
      BY <1>2, <2>1
<1>5. QED
    BY <1>2, <1>3, <1>4

LEMMA NewSessionInv ==
    ASSUME IInv, NewSession PROVE IInv'
<1> DEFINE m == Message("new", 0, "none")
<1>1. /\ ~ open /\ ~ open' /\ outcome = "none"
      /\ UNCHANGED << queue, turn, yielded, server, down, child, reader, closed, open, outcome >>
    BY DEF IInv, Stages, NewSession
<1>2. m \in UpLine /\ m.kind = "new"
    BY UpLines, Zeroes
<1>3. Ask(m, "opening")
    BY DEF NewSession
<1> HIDE DEF m
<1>4. /\ up' \in Seq(UpLine) /\ fut' = "waiting" /\ pc' = "opening"
      /\ up' = << >> \/ up' = Append(up, m)
      /\ Len(up') \in { 0, Len(up) + 1 } /\ Len(up) \in Nat
      /\ \A i \in 1 .. Len(up') : up'[i] = m \/ (i \in 1 .. Len(up) /\ up'[i] = up[i])
    BY <1>2, <1>3, AskFacts DEF IInv
<1>5. Shapes'
    BY <1>1, <1>4 DEF IInv, Shapes, server, flags
<1>6. Stages'
    BY <1>1, <1>4 DEF IInv, Stages, server, flags
<1>7. Hello'
  <2> SUFFICES ASSUME reader PROVE Hello'
      BY <1>1 DEF Hello
  <2>1. pc = "handshake" /\ fut = "answered"
      BY DEF IInv, Stages, NewSession
  <2>2. Len(up) + Len(down) <= 0 /\ srv = "idle" /\ Len(down) \in Nat
      BY <2>1, EmptySeq DEF IInv, Hello, Shapes
  <2>3. Len(up) = 0 /\ Len(down) = 0 /\ Len(up') <= 1
      BY <1>4, <2>2
  <2>4. QED
      BY <1>1, <1>2, <1>4, <2>2, <2>3 DEF Hello, server
<1>8. Counted'
    BY <1>1, <1>2, <1>4, CountedFewer DEF IInv, server, flags
<1>9. AskedIsSeen'
    BY <1>1 DEF IInv, AskedIsSeen, server, flags
<1>10. QED
    BY <1>1, <1>5, <1>6, <1>7, <1>8, <1>9, NoSessionYet DEF IInv

LEMMA OpenFailsInv ==
    ASSUME IInv, OpenFails PROVE IInv'
<1>1. ~ open /\ ~ open' /\ UNCHANGED << queue, turn, yielded >> /\ ~ reader /\ pc' = "off"
    BY DEF IInv, Stages, OpenFails, Writable, Shapes
<1>2. Shapes'
    BY DEF IInv, Shapes, OpenFails, server, flags
<1>3. Stages' /\ Hello'
    BY <1>1 DEF IInv, Stages, Hello, OpenFails, server, flags
<1>4. Counted' /\ AskedIsSeen'
    BY DEF IInv, Counted, AskedIsSeen, OpenFails, server, flags
<1>5. QED
    BY <1>1, <1>2, <1>3, <1>4, NoSessionYet DEF IInv

\* An empty queue is a stream that has come to its end.
LEMMA EmptyStream ==
    ASSUME queue' = << >>, Len(yielded') \in Nat,
           open' /\ Settled' => Quiet' /\ srvTurn' = turn' /\ sent' = Len(yielded')
    PROVE  Streams'
<1>1. Len(queue') = 0 /\ 0 \in 0 .. Len(queue') /\ \A i \in 1 .. Len(queue') : FALSE
    BY EmptySeq
<1>2. Len(yielded') + 0 = Len(yielded')
    OBVIOUS
<1>3. Stream(0)'
    BY <1>1, <1>2 DEF Stream
<1>4. QED
    BY <1>1, <1>3 DEF Streams

LEMMA OpenedInv ==
    ASSUME IInv, Opened PROVE IInv'
<1>1. UNCHANGED << turn, yielded, server, up, down, child, reader, closed, outcome >>
      /\ pc' = "ready" /\ open' = TRUE /\ queue' = << >> /\ fut' = "none"
    BY DEF Opened
<1>2. outcome = "none" /\ Len(yielded) \in Nat
    BY EmptySeq DEF IInv, Stages, Shapes, Opened
<1>3. Shapes'
    BY <1>1, EmptySeq DEF IInv, Shapes, server, flags
<1>4. Stages' /\ Hello'
    BY <1>1, <1>2 DEF IInv, Stages, Hello, server, flags
<1>5. Counted' /\ AskedIsSeen'
    BY <1>1 DEF IInv, Counted, AskedIsSeen, server, flags
<1>6. YieldedOK'
    BY <1>1, SameYielded DEF IInv
<1>7. Streams'
    BY <1>1, <1>2, EmptyStream DEF Settled
<1>8. Flow'
  <2> SUFFICES ASSUME reader PROVE down = << >> /\ up = << >> /\ srv = "idle"
      BY <1>1, EmptySeq DEF Flow, Quiet, server
  <2>1. srv = "idle" /\ Len(up) + Len(down) <= 0
      BY DEF IInv, Hello, Opened
  <2>2. up \in Seq(UpLine) /\ down \in Seq(DownLine)
      BY DEF IInv, Shapes
  <2>3. Len(up) \in Nat /\ Len(down) \in Nat
      BY <2>2, EmptySeq
  <2>4. Len(up) = 0 /\ Len(down) = 0
      BY <2>1, <2>3
  <2>5. QED
      BY <2>1, <2>2, <2>4, EmptySeq
<1>9. QED
    BY <1>3, <1>4, <1>5, <1>6, <1>7, <1>8 DEF IInv

LEMMA PromptInv ==
    ASSUME IInv, Prompt PROVE IInv'
<1> DEFINE m == Message("prompt", turn + 1, "none")
<1>1. /\ UNCHANGED << server, down, child, reader, closed, open >>
      /\ turn' = turn + 1 /\ queue' = << >> /\ yielded' = << >> /\ outcome' = "none"
      /\ pc = "ready" /\ turn + 1 \in 0 .. MaxTurns /\ turn \in Nat
    BY AcpConstants DEF Prompt, IInv, Shapes
<1>2. m \in UpLine /\ m.kind = "prompt" /\ m.n = turn + 1
    BY <1>1, UpLines
<1>3. Ask(m, "streaming")
    BY DEF Prompt
<1> HIDE DEF m
<1>4. /\ up' \in Seq(UpLine) /\ fut' = "waiting" /\ pc' = "streaming"
      /\ up' = << >> \/ up' = Append(up, m)
      /\ Len(up') \in { 0, Len(up) + 1 } /\ Len(up) \in Nat
      /\ \A i \in 1 .. Len(up') : up'[i] = m \/ (i \in 1 .. Len(up) /\ up'[i] = up[i])
    BY <1>2, <1>3, AskFacts DEF IInv
<1>5. Shapes'
    BY <1>1, <1>4, EmptySeq DEF IInv, Shapes, server, flags
<1>6. Stages' /\ Hello'
    BY <1>1, <1>4 DEF IInv, Stages, Hello, server, flags
<1>7. Counted'
  <2>1. /\ srvTurn' = srvTurn /\ ended' = ended /\ srv' = srv
        /\ srvTurn \in Nat
      BY <1>1, AcpConstants DEF server, flags, IInv, Shapes
  <2>2. CASE up' = << >>
      BY <1>1, <2>1, <2>2, EmptySeq DEF IInv, Counted
  <2>3. CASE up' = Append(up, m)
    <3>1. /\ up \in Seq(UpLine) /\ Len(up') = Len(up) + 1 /\ up'[Len(up) + 1] = m
          /\ \A i \in 1 .. Len(up) : up'[i] = up[i]
          /\ \A i \in 1 .. Len(up) + 1 : i \in 1 .. Len(up) \/ i = Len(up) + 1
      <4>1. up \in Seq(UpLine)
          BY DEF IInv, Shapes
      <4>2. QED
          BY <1>2, <2>3, <4>1, Appended
    <3>2. \A i \in 1 .. Len(up) : up[i].kind = "prompt" =>
              srvTurn < up[i].n /\ up[i].n <= turn /\ up[i].n \in Nat
        BY <3>1, UpFacts, AcpConstants DEF IInv, Counted
    <3>3. \A i \in 1 .. Len(up') : up'[i].kind = "prompt" =>
              srvTurn < up'[i].n /\ up'[i].n <= turn + 1
        BY <1>1, <1>2, <2>1, <3>1, <3>2 DEF IInv, Counted
    <3>4. \A i, j \in 1 .. Len(up') :
              up'[i].kind = "prompt" /\ up'[j].kind = "prompt" /\ i < j => up'[i].n < up'[j].n
        BY <1>1, <1>2, <1>4, <3>1, <3>2 DEF IInv, Counted
    <3>5. QED
        BY <1>1, <2>1, <3>3, <3>4 DEF IInv, Counted
  <2>4. QED
      BY <1>4, <2>2, <2>3
<1>8. AskedIsSeen' /\ YieldedOK'
    BY <1>1, EmptySeq DEF IInv, AskedIsSeen, YieldedOK, server, flags
<1>9. Streams'
    BY <1>1, <1>4, EmptySeq, EmptyStream DEF Settled
<1>10. Flow'
  <2> SUFFICES ASSUME open, reader PROVE NotReceived'
      BY <1>1, <1>4 DEF Flow
  <2>1. down = << >> /\ Quiet
      BY <1>1 DEF IInv, Flow
  <2>2. \A i \in 1 .. Len(up') :
            \/ up'[i].kind = "cancel"
            \/ up'[i].kind = "prompt" /\ up'[i].n = turn'
      BY <1>1, <1>2, <1>4, <2>1 DEF Quiet
  <2>3. QED
      BY <1>1, <2>1, <2>2 DEF NotReceived, Quiet, server
<1>11. QED
    BY <1>5, <1>6, <1>7, <1>8, <1>9, <1>10 DEF IInv

LEMMA PromptFailsInv ==
    ASSUME IInv, PromptFails PROVE IInv'
<1>1. /\ UNCHANGED << server, up, down, child, reader, closed, open >>
      /\ turn' = turn + 1 /\ queue' = << >> /\ yielded' = << >> /\ outcome' = "error"
      /\ pc = "ready" /\ turn + 1 \in 0 .. MaxTurns /\ turn \in Nat /\ fut' = "none"
      /\ pc' = IF open THEN "ready" ELSE "over"
    BY AcpConstants DEF PromptFails, EndTurn, IInv, Shapes
<1>2. Shapes'
    BY <1>1, EmptySeq DEF IInv, Shapes, server, flags
<1>3. Stages' /\ Hello'
    BY <1>1 DEF IInv, Stages, Hello, server, flags
<1>4. Counted'
  <2>1. \A i \in 1 .. Len(up) : up[i].n \in Nat
    <3>1. up \in Seq(UpLine)
        BY DEF IInv, Shapes
    <3>2. \A i \in 1 .. Len(up) : up[i] \in UpLine /\ i \in Nat
        BY <3>1
    <3>3. QED
        BY <3>2, UpFacts, AcpConstants
  <2>2. srvTurn \in Nat
      BY AcpConstants DEF IInv, Shapes
  <2>3. QED
      BY <1>1, <2>1, <2>2 DEF IInv, Counted, server, flags
<1>5. AskedIsSeen' /\ YieldedOK'
    BY <1>1, EmptySeq DEF IInv, AskedIsSeen, YieldedOK, server, flags
<1>6. Streams'
    BY <1>1, EmptySeq, EmptyStream DEF Settled
<1>7. Flow'
    BY <1>1 DEF IInv, Flow, Quiet, server
<1>8. QED
    BY <1>2, <1>3, <1>4, <1>5, <1>6, <1>7 DEF IInv

-----------------------------------------------------------------------------
(* The events of a turn. *)

LEMMA StreamAt ==
    ASSUME Shapes, NEW e \in 0 .. Len(queue), Stream(e), NEW i \in 1 .. Len(queue)
    PROVE  /\ i <= e => queue[i] = << turn, Len(yielded) + i >>
           /\ ~ (i <= e) => queue[i] = Sentinel
BY DEF Stream

LEMMA YieldEventInv ==
    ASSUME IInv, YieldEvent PROVE IInv'
<1>1. /\ UNCHANGED << server, up, down, child, reader, closed, open, pc, fut, turn, outcome >>
      /\ pc = "streaming" /\ queue # << >> /\ Head(queue) # Sentinel
      /\ yielded' = Append(yielded, Head(queue)) /\ queue' = Tail(queue)
    BY DEF YieldEvent
<1>2. queue \in Seq(Events) /\ yielded \in Seq(Events) /\ turn \in Nat
    BY AcpConstants DEF IInv, Shapes
<1>3. /\ Head(queue) \in Events /\ Head(queue) = queue[1] /\ Len(queue) \in Nat \ {0}
      /\ queue' \in Seq(Events) /\ Len(queue') = Len(queue) - 1
      /\ \A i \in 1 .. Len(queue) - 1 : queue'[i] = queue[i + 1] /\ i + 1 \in 1 .. Len(queue)
    BY <1>1, <1>2, Taken
<1>4. /\ yielded' \in Seq(Events) /\ Len(yielded) \in Nat /\ Len(yielded') = Len(yielded) + 1
      /\ \A i \in 1 .. Len(yielded) : yielded'[i] = yielded[i]
      /\ yielded'[Len(yielded) + 1] = queue[1]
      /\ \A i \in 1 .. Len(yielded) + 1 : i \in 1 .. Len(yielded) \/ i = Len(yielded) + 1
    BY <1>1, <1>2, <1>3, Appended
<1>5. PICK e \in 0 .. Len(queue) : Stream(e)
    BY DEF IInv, Streams
<1>6. e >= 1 /\ queue[1] = << turn, Len(yielded) + 1 >> /\ e \in Nat
  <2>1. 1 \in 1 .. Len(queue) /\ e \in Nat
      BY <1>3, <1>5
  <2>2. QED
      BY <1>1, <1>3, <1>5, <2>1, StreamAt DEF IInv
<1>7. Shapes'
    BY <1>1, <1>3, <1>4 DEF IInv, Shapes, server, flags
<1>8. Stages' /\ Hello' /\ AskedIsSeen'
    BY <1>1 DEF IInv, Stages, Hello, AskedIsSeen, server, flags
<1>9. Counted'
    BY <1>1, SameCounted DEF IInv, server, flags
<1>10. YieldedOK'
    BY <1>1, <1>4, <1>6 DEF IInv, YieldedOK
<1>11. Streams'
  <2>1. e - 1 \in 0 .. Len(queue')
      BY <1>3, <1>5, <1>6
  <2>2. \A i \in 1 .. Len(queue') :
            queue'[i] = IF i <= e - 1 THEN << turn, Len(yielded') + i >> ELSE Sentinel
    <3> SUFFICES ASSUME NEW i \in 1 .. Len(queue')
                 PROVE  queue'[i] = IF i <= e - 1 THEN << turn, Len(yielded') + i >> ELSE Sentinel
        OBVIOUS
    <3>1. i \in Nat /\ i + 1 \in 1 .. Len(queue) /\ queue'[i] = queue[i + 1]
        BY <1>3
    <3>a. \A k, n, m \in Nat : (k + 1) + m = k + (m + 1) /\ (m <= n - 1 <=> m + 1 <= n)
        OBVIOUS
    <3>2. Len(yielded') + i = Len(yielded) + (i + 1) /\ (i <= e - 1 <=> i + 1 <= e)
      <4>1. Len(yielded) \in Nat /\ e \in Nat /\ i \in Nat /\ Len(yielded') = Len(yielded) + 1
          BY <1>4, <1>6, <3>1
      <4>2. QED
          BY <4>1, <3>a
    <3>3. QED
        BY <1>5, <3>1, <3>2 DEF Stream
  <2>3. open' /\ reader' => e - 1 = Len(queue')
      BY <1>1, <1>3, <1>5 DEF Stream
  <2>4. Settled' = Settled /\ Quiet' = Quiet
      BY <1>1 DEF Settled, Quiet, server
  <2>5. Len(yielded') + (e - 1) = Len(yielded) + e
      BY <1>4, <1>6
  <2>6. open' /\ Settled' => Quiet' /\ srvTurn' = turn' /\ sent' = Len(yielded') + (e - 1)
      BY <1>1, <1>5, <2>4, <2>5 DEF Stream, server
  <2>7. outcome' \notin { "stop", "cancel" }
      BY <1>1 DEF IInv, Stages
  <2>8. Stream(e - 1)'
      BY <1>1, <2>1, <2>2, <2>3, <2>6, <2>7 DEF Stream
  <2>9. QED
      BY <2>1, <2>8 DEF Streams
<1>12. Flow'
  <2>1. Len(yielded') + Len(queue') = Len(yielded) + Len(queue)
      BY <1>3, <1>4
  <2>2. Quiet' = Quiet
      BY <1>1 DEF Quiet, server
  <2>3. ASSUME Serving(Len(yielded) + Len(queue))
        PROVE  Serving(Len(yielded) + Len(queue))'
      BY <1>1, <2>1, <2>3 DEF Serving, server
  <2>4. ~ NotReceived
      BY <1>1 DEF NotReceived
  <2>5. QED
      BY <1>1, <2>2, <2>3, <2>4 DEF IInv, Flow
<1>13. QED
    BY <1>7, <1>8, <1>9, <1>10, <1>11, <1>12 DEF IInv

LEMMA TakeSentinelInv ==
    ASSUME IInv, TakeSentinel PROVE IInv'
<1>1. /\ UNCHANGED << server, up, down, child, reader, closed, open, turn, yielded >>
      /\ pc = "streaming" /\ queue # << >> /\ Head(queue) = Sentinel
      /\ queue' = Tail(queue)
      /\ \/ /\ outcome' = "error" /\ fut' = "none"
            /\ pc' = IF open THEN "ready" ELSE "over"
         \/ UNCHANGED << pc, fut, outcome >>
    BY DEF TakeSentinel, EndTurn
<1>2. queue \in Seq(Events) /\ yielded \in Seq(Events) /\ turn \in Nat
    BY AcpConstants DEF IInv, Shapes
<1>3. /\ Head(queue) = queue[1] /\ Len(queue) \in Nat \ {0}
      /\ queue' \in Seq(Events) /\ Len(queue') = Len(queue) - 1
      /\ \A i \in 1 .. Len(queue) - 1 : queue'[i] = queue[i + 1] /\ i + 1 \in 1 .. Len(queue)
    BY <1>1, <1>2, Taken
<1>4. PICK e \in 0 .. Len(queue) : Stream(e)
    BY DEF IInv, Streams
<1>5. e = 0
  <2>1. Len(yielded) \in Nat
      BY <1>2, EmptySeq
  <2>2. << turn, Len(yielded) + 1 >> # Sentinel
      BY <1>2, <2>1, Zeroes
  <2>3. ~ (1 <= e)
    <3>1. 1 \in 1 .. Len(queue)
        BY <1>3
    <3>2. QED
        BY <1>1, <1>3, <1>4, <2>2, <3>1, StreamAt DEF IInv
  <2>4. QED
      BY <1>4, <2>3, <1>3
<1>6. ~ (open /\ reader)
    BY <1>3, <1>4, <1>5 DEF Stream
<1>7. Shapes'
    BY <1>1, <1>3 DEF IInv, Shapes, server, flags
<1>8. Stages'
    BY <1>1 DEF IInv, Stages, server, flags
<1>9. Hello' /\ AskedIsSeen'
    BY <1>1 DEF IInv, Hello, AskedIsSeen, server, flags
<1>10. Counted' /\ YieldedOK'
    BY <1>1, SameCounted, SameYielded DEF IInv, server, flags
<1>11. Streams'
  <2>1. ASSUME NEW i \in 1 .. Len(queue')
        PROVE  queue'[i] = Sentinel /\ ~ (i <= 0)
    <3>1. i \in Nat /\ i + 1 \in 1 .. Len(queue) /\ ~ (i + 1 <= 0) /\ ~ (i <= 0)
          /\ queue'[i] = queue[i + 1]
        BY <1>3
    <3>2. QED
        BY <1>4, <1>5, <3>1, StreamAt DEF IInv
  <2>2. Settled' => Settled
      BY <1>1 DEF Settled
  <2>3. Quiet' = Quiet
      BY <1>1 DEF Quiet, server
  <2>4. open' /\ Settled' => Quiet' /\ srvTurn' = turn' /\ sent' = Len(yielded') + 0
      BY <1>1, <1>4, <1>5, <2>2, <2>3 DEF Stream, server
  <2>5. 0 \in 0 .. Len(queue')
      BY <1>3
  <2>6. Stream(0)'
      BY <1>1, <1>6, <2>1, <2>4, <2>5 DEF Stream
  <2>7. QED
      BY <2>5, <2>6 DEF Streams
<1>12. Flow'
    BY <1>1, <1>6 DEF Flow
<1>13. QED
    BY <1>7, <1>8, <1>9, <1>10, <1>11, <1>12 DEF IInv

LEMMA FinishInv ==
    ASSUME IInv, Finish PROVE IInv'
<1>1. /\ UNCHANGED << server, up, down, child, reader, closed, open, queue, turn, yielded >>
      /\ pc = "streaming" /\ fut \notin { "none", "waiting" } /\ queue = << >> /\ fut' = "none"
      /\ outcome' = IF fut \in { "stop", "cancel" } THEN fut ELSE "error"
      /\ pc' = IF open THEN "ready" ELSE "over"
    BY DEF Finish, ReadyToFinish, Answered, EndTurn
<1>2. Shapes'
    BY <1>1 DEF IInv, Shapes, server, flags
<1>3. Stages'
    BY <1>1 DEF IInv, Stages, server, flags
<1>4. Hello' /\ AskedIsSeen'
    BY <1>1 DEF IInv, Hello, AskedIsSeen, server, flags
<1>5. Counted' /\ YieldedOK'
    BY <1>1, SameCounted, SameYielded DEF IInv, server, flags
<1>6. Quiet' = Quiet
    BY <1>1 DEF Quiet, server
<1>7. Settled' => Settled
    BY <1>1 DEF Settled
<1>8. Streams'
    BY <1>1, <1>6, <1>7, StreamsKept DEF IInv, server
<1>9. Flow'
    BY <1>1, <1>6 DEF IInv, Flow
<1>10. QED
    BY <1>2, <1>3, <1>4, <1>5, <1>8, <1>9 DEF IInv

-----------------------------------------------------------------------------
(* Cancels and closing. *)

\* A cancel joins the pipe.
LEMMA MoreCancels ==
    ASSUME Shapes, NEW m \in UpLine, m.kind = "cancel", up' = Append(up, m),
           UNCHANGED << turn, srvTurn, srv, sent, down, queue, yielded >>
    PROVE  /\ up' \in Seq(UpLine) /\ (Quiet => Quiet') /\ (NotReceived => NotReceived')
           /\ Serving(Len(yielded) + Len(queue)) => Serving(Len(yielded) + Len(queue))'
<1>1. up \in Seq(UpLine)
    BY DEF Shapes
<1>2. /\ up' \in Seq(UpLine) /\ Len(up') = Len(up) + 1 /\ Len(up) \in Nat
      /\ \A i \in 1 .. Len(up) : up'[i] = up[i]
      /\ up'[Len(up) + 1] = m
      /\ \A i \in 1 .. Len(up) + 1 : i \in 1 .. Len(up) \/ i = Len(up) + 1
    BY <1>1, Appended
<1>3. Quiet => Quiet'
    BY <1>2 DEF Quiet
<1>4. NotReceived => NotReceived'
    BY <1>2 DEF NotReceived
<1>5. Serving(Len(yielded) + Len(queue)) => Serving(Len(yielded) + Len(queue))'
    BY <1>2 DEF Serving
<1>6. QED
    BY <1>2, <1>3, <1>4, <1>5

LEMMA CancelInv ==
    ASSUME IInv, Cancel PROVE IInv'
<1> DEFINE m == Message("cancel", 0, "none")
<1>1. /\ UNCHANGED << server, down, child, reader, closed, open, pc, fut, queue, turn, yielded, outcome >>
      /\ open /\ up' = Append(up, m)
    BY DEF Cancel
<1>2. m \in UpLine /\ m.kind = "cancel"
    BY UpLines, Zeroes
<1> HIDE DEF m
<1>3. UNCHANGED << srvTurn, srv, sent, ended, asked, cancelled >>
    BY <1>1 DEF server, flags
<1>4. /\ up' \in Seq(UpLine) /\ (Quiet => Quiet') /\ (NotReceived => NotReceived')
      /\ Serving(Len(yielded) + Len(queue)) => Serving(Len(yielded) + Len(queue))'
    BY <1>1, <1>2, <1>3, MoreCancels DEF IInv
<1>5. Shapes'
    BY <1>1, <1>4 DEF IInv, Shapes, server, flags
<1>6. Stages' /\ AskedIsSeen'
    BY <1>1, <1>3 DEF IInv, Stages, AskedIsSeen
<1>7. Hello'
    BY <1>1 DEF IInv, Stages, Hello
<1>8. Counted'
    BY <1>1, <1>2, <1>3, CountedFewer DEF IInv
<1>9. YieldedOK'
    BY <1>1, SameYielded DEF IInv
<1>10. Settled' = Settled
    BY <1>1 DEF Settled
<1>11. Streams'
    BY <1>1, <1>3, <1>4, <1>10, StreamsKept DEF IInv
<1>12. Flow'
    BY <1>1, <1>4 DEF IInv, Flow
<1>13. QED
    BY <1>5, <1>6, <1>7, <1>8, <1>9, <1>11, <1>12 DEF IInv

LEMMA CloseSessionInv ==
    ASSUME IInv, CloseSession PROVE IInv'
<1>1. /\ UNCHANGED << server, up, down, child, reader, closed, fut, turn, yielded, outcome >>
      /\ open /\ open' = FALSE
      /\ queue' = IF pc = "streaming" THEN Append(queue, Sentinel) ELSE << >>
      /\ pc' = IF pc = "ready" THEN "over" ELSE pc
    BY DEF CloseSession
<1>2. queue \in Seq(Events) /\ Sentinel \in Events /\ yielded \in Seq(Events)
    BY Zeroes DEF IInv, Shapes
<1>3. queue' \in Seq(Events)
    BY <1>1, <1>2, Appended, EmptySeq
<1>4. Shapes'
  <2>1. pc' \in { "off", "spawning", "handshake", "opening", "ready", "streaming", "over" }
      BY <1>1 DEF IInv, Shapes
  <2>2. /\ UNCHANGED << server, up, down, child, reader, closed, fut, turn, yielded, outcome >>
        /\ open' \in BOOLEAN
      BY <1>1
  <2>3. QED
      BY <1>3, <2>1, <2>2 DEF IInv, Shapes, server, flags
<1>5. Stages'
    BY <1>1 DEF IInv, Stages, server, flags
<1>6. Hello' /\ AskedIsSeen'
    BY <1>1 DEF IInv, Stages, Hello, AskedIsSeen, server, flags
<1>7. Counted' /\ YieldedOK'
    BY <1>1, SameCounted, SameYielded DEF IInv, server, flags
<1>8. Streams'
  <2>1. CASE pc # "streaming"
    <3>1. queue' = << >> /\ Len(yielded') \in Nat
        BY <1>1, <1>2, <2>1, EmptySeq
    <3>2. QED
        BY <1>1, <3>1, EmptyStream
  <2>2. CASE pc = "streaming"
    <3>1. PICK e \in 0 .. Len(queue) : Stream(e)
        BY DEF IInv, Streams
    <3>2. queue' = Append(queue, Sentinel)
        BY <1>1, <2>2
    <3>3. /\ Len(queue') = Len(queue) + 1 /\ Len(queue) \in Nat
          /\ \A i \in 1 .. Len(queue) : queue'[i] = queue[i]
          /\ queue'[Len(queue) + 1] = Sentinel
          /\ \A i \in 1 .. Len(queue) + 1 : i \in 1 .. Len(queue) \/ i = Len(queue) + 1
        BY <1>2, <3>2, Appended
    <3>4. ASSUME NEW i \in 1 .. Len(queue')
          PROVE  queue'[i] = IF i <= e THEN << turn, Len(yielded) + i >> ELSE Sentinel
      <4>1. CASE i \in 1 .. Len(queue)
          BY <3>1, <3>3, <4>1, StreamAt DEF IInv
      <4>2. CASE i = Len(queue) + 1
          BY <3>1, <3>3, <4>2
      <4>3. QED
          BY <3>3, <4>1, <4>2
    <3>5. e \in 0 .. Len(queue')
        BY <3>1, <3>3
    <3>6. Stream(e)'
        BY <1>1, <3>4, <3>5 DEF Stream
    <3>7. QED
        BY <3>5, <3>6 DEF Streams
  <2>3. QED
      BY <2>1, <2>2
<1>9. Flow'
    BY <1>1 DEF Flow
<1>10. QED
    BY <1>4, <1>5, <1>6, <1>7, <1>8, <1>9 DEF IInv

-----------------------------------------------------------------------------
(* The reader task. *)

\* Where the pipe can be when the reader of an open session finds a line in it.
LEMMA LineIsServed ==
    ASSUME IInv, open, reader, down # << >>
    PROVE  pc = "streaming" /\ fut = "waiting" /\ Serving(Len(yielded) + Len(queue))
<1>1. pc \in { "ready", "streaming" }
    BY DEF IInv, Stages, Shapes
<1>2. QED
    BY <1>1 DEF IInv, Flow, NotReceived

LEMMA ReadUpdateInv ==
    ASSUME IInv, reader, down # << >>, down' = Tail(down), Head(down).kind = "update",
           queue' = IF open THEN Append(queue, Head(down).x) ELSE queue,
           UNCHANGED << fut, child, reader, closed, pc, open, turn, yielded, outcome, up, server >>
    PROVE  IInv'
<1>1. queue \in Seq(Events) /\ yielded \in Seq(Events) /\ down \in Seq(DownLine)
      /\ turn \in Nat /\ sent \in Nat
    BY AcpConstants DEF IInv, Shapes
<1>2. /\ Head(down) \in DownLine /\ Head(down) = down[1] /\ Len(down) \in Nat \ {0}
      /\ down' \in Seq(DownLine) /\ Len(down') = Len(down) - 1
      /\ \A i \in 1 .. Len(down) - 1 : down'[i] = down[i + 1] /\ i + 1 \in 1 .. Len(down)
    BY <1>1, Taken
<1>3. Head(down).x \in Events /\ Len(queue) \in Nat /\ Len(yielded) \in Nat /\ 1 \in 1 .. Len(down)
    BY <1>1, <1>2, DownFacts, EmptySeq
<1>4. UNCHANGED << srv, srvTurn, sent, asked, cancelled, ended, tele, tools, cancelEvent >>
    BY DEF server, flags
<1>5. queue' \in Seq(Events)
    BY <1>1, <1>3, Appended
<1>6. Shapes'
    BY <1>2, <1>4, <1>5 DEF IInv, Shapes
<1>7. Stages' /\ AskedIsSeen' /\ Counted' /\ YieldedOK'
    BY <1>4, SameCounted, SameYielded DEF IInv, Stages, AskedIsSeen
<1>8. Hello'
  <2> SUFFICES ASSUME pc \in { "handshake", "opening" } PROVE FALSE
      BY DEF Hello
  <2>1. down[1] = Message("answer", 0, "answered")
      BY <1>3 DEF IInv, Hello
  <2>2. QED
      BY <1>2, <2>1, Zeroes, AnswerLines
<1>9. CASE ~ open
  <2>1. queue' = queue /\ ~ open'
      BY <1>9
  <2>2. Streams' /\ Flow'
      BY <1>9, <2>1, StreamsKept DEF IInv, Flow
  <2>3. QED
      BY <1>6, <1>7, <1>8, <2>2 DEF IInv
<1>10. CASE open
  <2>0. PICK n \in Nat : n = Len(yielded) + Len(queue)
      BY <1>3
  <2>1. pc = "streaming" /\ fut = "waiting" /\ Serving(n) /\ outcome = "none"
      BY <1>10, <2>0, LineIsServed DEF IInv, Stages
  <2>3. /\ 1 <= sent - n /\ down[1] = Message("update", turn, << turn, n + 1 >>)
        /\ n + 1 \in Nat
      BY <1>1, <1>2, <1>3, <2>1 DEF Serving
  <2>4. Head(down).x = << turn, n + 1 >>
      BY <1>2, <2>3, UpdateLines DEF IInv, Shapes
  <2>5. /\ Len(queue') = Len(queue) + 1
        /\ \A i \in 1 .. Len(queue) : queue'[i] = queue[i]
        /\ queue'[Len(queue) + 1] = << turn, n + 1 >>
        /\ \A i \in 1 .. Len(queue) + 1 : i \in 1 .. Len(queue) \/ i = Len(queue) + 1
      BY <1>1, <1>3, <1>10, <2>4, Appended
  <2>6. PICK e \in 0 .. Len(queue) : Stream(e)
      BY DEF IInv, Streams
  <2>7. e = Len(queue)
      BY <1>10, <2>6 DEF Stream
  <2>8. Stream(e + 1)'
    <3>1. ASSUME NEW i \in 1 .. Len(queue')
          PROVE  queue'[i] = << turn, Len(yielded) + i >> /\ i <= e + 1
      <4>1. CASE i \in 1 .. Len(queue)
        <5>1. i <= e /\ i <= e + 1
            BY <1>3, <2>7, <4>1
        <5>2. QED
            BY <2>5, <2>6, <4>1, <5>1, StreamAt DEF IInv
      <4>2. CASE i = Len(queue) + 1
        <5>1. n + 1 = Len(yielded) + i
            BY <1>3, <2>0, <4>2
        <5>2. QED
            BY <1>3, <2>5, <2>7, <4>2, <5>1
      <4>3. QED
          BY <2>5, <4>1, <4>2
    <3>2. e + 1 \in 0 .. Len(queue') /\ e + 1 = Len(queue')
        BY <1>3, <2>5, <2>7
    <3>3. ~ Settled' /\ outcome' \notin { "stop", "cancel" }
        BY <2>1 DEF Settled
    <3>4. QED
        BY <3>1, <3>2, <3>3 DEF Stream
  <2>9. Streams'
      BY <1>3, <2>5, <2>7, <2>8 DEF Streams
  <2>10. Serving(n + 1)'
    <3>0. /\ Len(down) \in { sent - n, sent - n + 1 } /\ n <= sent
          /\ Len(down') = Len(down) - 1 /\ n \in Nat /\ sent \in Nat
        BY <1>1, <1>2, <2>1 DEF Serving, IInv, Shapes
    <3>1. Len(down') \in { sent - (n + 1), sent - (n + 1) + 1 } /\ n + 1 <= sent
        BY <2>3, <3>0
    <3>2. srv # "idle" => Len(down') = sent - (n + 1)
        BY <1>1, <1>2, <2>1 DEF Serving
    <3>3. ASSUME NEW i \in 1 .. Len(down')
          PROVE  IF i <= sent - (n + 1)
                 THEN down'[i] = Message("update", turn, << turn, (n + 1) + i >>)
                 ELSE down'[i].kind = "answer" /\ down'[i].n = turn /\ down'[i].x # "answered"
      <4>1. /\ i + 1 \in 1 .. Len(down) /\ down'[i] = down[i + 1] /\ i \in Nat
            /\ (i <= sent - (n + 1) <=> i + 1 <= sent - n) /\ n + (i + 1) = (n + 1) + i
          BY <1>1, <1>2
      <4>2. QED
          BY <2>1, <4>1 DEF Serving
    <3>4. QED
        BY <1>4, <2>1, <3>1, <3>2, <3>3 DEF Serving
  <2>11. Flow'
    <3>1. Len(yielded') + Len(queue') = n + 1
        BY <1>3, <2>0, <2>5
    <3>2. QED
        BY <2>1, <2>10, <3>1 DEF Flow
  <2>12. QED
      BY <1>6, <1>7, <1>8, <2>9, <2>11 DEF IInv
<1>11. QED
    BY <1>9, <1>10 DEF IInv, Shapes

LEMMA ReadAnswerInv ==
    ASSUME IInv, reader, down # << >>, down' = Tail(down), Head(down).kind = "answer",
           fut' = IF Head(down).n \in { 0, turn } THEN Resolve(Head(down).x) ELSE fut,
           UNCHANGED << queue, child, reader, closed, pc, open, turn, yielded, outcome, up, server >>
    PROVE  IInv'
<1>1. queue \in Seq(Events) /\ yielded \in Seq(Events) /\ down \in Seq(DownLine)
      /\ up \in Seq(UpLine) /\ turn \in Nat /\ sent \in Nat
    BY AcpConstants DEF IInv, Shapes
<1>2. /\ Head(down) \in DownLine /\ Head(down) = down[1] /\ Len(down) \in Nat \ {0}
      /\ down' \in Seq(DownLine) /\ Len(down') = Len(down) - 1
      /\ \A i \in 1 .. Len(down) - 1 : down'[i] = down[i + 1] /\ i + 1 \in 1 .. Len(down)
    BY <1>1, Taken
<1>3. /\ Head(down).x \in Replies /\ Len(queue) \in Nat /\ Len(yielded) \in Nat
      /\ Len(up) \in Nat /\ 1 \in 1 .. Len(down)
    BY <1>1, <1>2, DownFacts, EmptySeq
<1>4. UNCHANGED << srv, srvTurn, sent, asked, cancelled, ended, tele, tools, cancelEvent >>
    BY DEF server, flags
<1>5. fut' \in { fut, Head(down).x }
    BY DEF Resolve
<1>6. Shapes'
    BY <1>2, <1>3, <1>4, <1>5 DEF IInv, Shapes
<1>7. Stages' /\ AskedIsSeen'
    BY <1>3, <1>4, <1>5 DEF IInv, Stages, AskedIsSeen, Replies
<1>8. Counted' /\ YieldedOK'
    BY <1>4, SameCounted, SameYielded DEF IInv
<1>9. Hello'
  <2> SUFFICES ASSUME pc \in { "handshake", "opening" } PROVE Hello'
      BY DEF Hello
  <2>1. /\ down[1] = Message("answer", 0, "answered") /\ srv = "idle"
        /\ \A i \in 1 .. Len(up) : up[i].kind \in { "initialize", "new" }
        /\ fut = "waiting" /\ Len(up) + Len(down) <= 1
      BY <1>2, <1>3 DEF IInv, Hello
  <2>2. Head(down).n = 0 /\ Head(down).x = "answered"
      BY <1>2, <2>1, Zeroes, AnswerLines
  <2>3. fut' = "answered" /\ Len(down') = 0 /\ Len(up) = 0
      BY <1>2, <1>3, <2>1, <2>2 DEF Resolve
  <2>4. QED
      BY <1>4, <2>1, <2>3 DEF Hello
<1>10. CASE ~ open
  <2>1. Streams' /\ Flow'
      BY <1>10, StreamsKept DEF IInv, Flow
  <2>2. QED
      BY <1>6, <1>7, <1>8, <1>9, <2>1 DEF IInv
<1>11. CASE open
  <2> DEFINE n == Len(yielded) + Len(queue)
  <2>1. pc = "streaming" /\ fut = "waiting" /\ Serving(n) /\ outcome = "none"
      BY <1>11, LineIsServed DEF IInv, Stages
  <2>2. n \in Nat
      BY <1>3
  <2> HIDE DEF n
  <2>3. ~ (1 <= sent - n)
    <3>1. 1 <= sent - n => down[1] = Message("update", turn, << turn, n + 1 >>)
        BY <1>3, <2>1 DEF Serving
    <3>2. Message("update", turn, << turn, n + 1 >>).kind = "update"
        BY DEF Message
    <3>3. QED
        BY <1>2, <3>1, <3>2
  <2>4. /\ n = sent /\ Len(down) = 1 /\ srvTurn = turn /\ Quiet
        /\ Head(down).n = turn /\ Head(down).x # "answered"
    <3>1. n = sent /\ Len(down) = 1
        BY <1>1, <1>2, <2>1, <2>2, <2>3 DEF Serving
    <3>2. srv = "idle"
        BY <1>1, <2>1, <2>2, <3>1 DEF Serving
    <3>3. QED
        BY <1>2, <1>3, <2>1, <2>3, <3>1, <3>2 DEF Serving, Quiet
  <2>5. fut' \in { "stop", "cancel", "error" } /\ down' = << >> /\ Quiet'
    <3>1. fut' = Head(down).x
        BY <2>1, <2>4 DEF Resolve
    <3>2. down' = << >>
        BY <1>2, <2>4, EmptySeq
    <3>3. QED
        BY <1>3, <1>4, <2>4, <3>1, <3>2 DEF Quiet, Replies
  <2>6. PICK e \in 0 .. Len(queue) : Stream(e)
      BY DEF IInv, Streams
  <2>7. e = Len(queue)
      BY <1>11, <2>6 DEF Stream
  <2>8. sent = Len(yielded) + e
      BY <2>4, <2>7 DEF n
  <2>9. Stream(e)'
      BY <1>4, <2>4, <2>5, <2>6, <2>8 DEF Stream
  <2>10. Streams'
      BY <2>6, <2>9 DEF Streams
  <2>11. Flow'
      BY <2>1, <2>5 DEF Flow
  <2>12. QED
      BY <1>6, <1>7, <1>8, <1>9, <2>10, <2>11 DEF IInv
<1>12. QED
    BY <1>10, <1>11 DEF IInv, Shapes

LEMMA ReadLineInv ==
    ASSUME IInv, ReadLine PROVE IInv'
BY ReadUpdateInv, ReadAnswerInv DEF ReadLine

\* The reader ends: at the end of the pipe, or at a line that is not JSON.
LEMMA ReaderStopsInv ==
    ASSUME IInv, ReaderEnds, down' \in { down, << >> },
           UNCHANGED << child, closed, pc, open, turn, yielded, outcome, up, server >>
    PROVE  IInv'
<1>1. UNCHANGED << srv, srvTurn, sent, asked, cancelled, ended, tele, tools, cancelEvent >>
    BY DEF server, flags
<1>2. Quiet' = Quiet
    BY <1>1 DEF Quiet
<1>3. Streams' /\ queue' \in Seq(Events) /\ fut' \in Replies \cup { "none", "waiting", "failed" }
    BY <1>1, <1>2, ReaderEndsStreams DEF IInv
<1>4. ~ reader' /\ reader' \in BOOLEAN /\ down' \in Seq(DownLine)
    BY EmptySeq DEF ReaderEnds, IInv, Shapes
<1>5. Shapes'
    BY <1>1, <1>3, <1>4 DEF IInv, Shapes
<1>6. Stages' /\ Hello' /\ Flow' /\ AskedIsSeen'
    BY <1>1, <1>4 DEF IInv, Stages, Hello, Flow, AskedIsSeen
<1>7. Counted' /\ YieldedOK'
    BY <1>1, SameCounted, SameYielded DEF IInv
<1>8. QED
    BY <1>3, <1>5, <1>6, <1>7 DEF IInv

LEMMA EndOfFileInv ==
    ASSUME IInv, EndOfFile PROVE IInv'
BY ReaderStopsInv DEF EndOfFile

LEMMA FramingErrorInv ==
    ASSUME IInv, FramingError PROVE IInv'
BY ReaderStopsInv DEF FramingError

\* aclose(): the reader ends, the child is killed and the server with it.
LEMMA AcloseInv ==
    ASSUME IInv, Aclose PROVE IInv'
<1>1. /\ UNCHANGED << pc, open, turn, yielded, outcome, srvTurn, sent, ended >> /\ closed' = TRUE
      /\ srv' = "idle" /\ tele' = 0 /\ tools' = 0
      /\ cancelEvent' = FALSE /\ cancelled' = FALSE /\ asked' = FALSE
      /\ up' = << >> /\ down' = << >> /\ ReaderEnds
      /\ child' = IF child = "alive" THEN "dead" ELSE child
    BY DEF Aclose, Reset
<1>2. Quiet'
    BY <1>1, EmptySeq DEF Quiet
<1>3. Streams' /\ queue' \in Seq(Events) /\ fut' \in Replies \cup { "none", "waiting", "failed" }
    BY <1>1, <1>2, ReaderEndsStreams DEF IInv
<1>4. ~ reader' /\ reader' \in BOOLEAN
    BY <1>1 DEF ReaderEnds
<1>5. /\ child' \in { "none", "alive", "dead" } /\ child' # "alive"
      /\ up' \in Seq(UpLine) /\ down' \in Seq(DownLine)
      /\ closed' \in BOOLEAN /\ tools' \in 0 .. MaxTools /\ tele' \in 0 .. tools'
    BY <1>1, EmptySeq, AcpConstants DEF IInv, Shapes
<1>6. Shapes'
    BY <1>1, <1>3, <1>4, <1>5 DEF IInv, Shapes
<1>7. Stages' /\ Hello' /\ Flow' /\ AskedIsSeen'
    BY <1>1, <1>4, <1>5 DEF IInv, Stages, Hello, Flow, AskedIsSeen
<1>8. Counted'
    BY <1>1, CountedFewer DEF IInv
<1>9. YieldedOK'
    BY <1>1, SameYielded DEF IInv
<1>10. QED
    BY <1>3, <1>6, <1>7, <1>8, <1>9 DEF IInv

-----------------------------------------------------------------------------
(* The server. *)

\* A line leaves the server's end of the pipe.
LEMMA UpTaken ==
    ASSUME IInv, up # << >>
    PROVE  /\ Head(up) = up[1] /\ Head(up) \in UpLine /\ 1 \in 1 .. Len(up) /\ Len(up) \in Nat \ {0}
           /\ Tail(up) \in Seq(UpLine) /\ Len(Tail(up)) = Len(up) - 1
           /\ \A i \in 1 .. Len(up) - 1 : Tail(up)[i] = up[i + 1] /\ i + 1 \in 1 .. Len(up)
<1>1. up \in Seq(UpLine)
    BY DEF IInv, Shapes
<1>2. /\ Head(up) \in UpLine /\ Head(up) = up[1] /\ Len(up) \in Nat \ {0}
      /\ Tail(up) \in Seq(UpLine) /\ Len(Tail(up)) = Len(up) - 1
      /\ \A i \in 1 .. Len(up) - 1 : Tail(up)[i] = up[i + 1] /\ i + 1 \in 1 .. Len(up)
    BY <1>1, Taken
<1>3. QED
    BY <1>2

LEMMA AnswerHelloInv ==
    ASSUME IInv, AnswerHello PROVE IInv'
<1> DEFINE m == Message("answer", 0, "answered")
<1>1. /\ up # << >> /\ Head(up).kind \in { "initialize", "new" } /\ up' = Tail(up)
      /\ down' = Append(down, m) /\ UNCHANGED << client, server >>
    BY DEF AnswerHello
<1>2. m \in DownLine
    BY Zeroes, AnswerLines
<1>3. UNCHANGED << child, reader, closed, pc, open, fut, queue, turn, yielded, outcome,
                   srv, srvTurn, sent, asked, cancelled, ended, tele, tools, cancelEvent >>
    BY <1>1 DEF client, server, flags
<1>4. /\ Head(up) = up[1] /\ Head(up) \in UpLine /\ 1 \in 1 .. Len(up) /\ Len(up) \in Nat \ {0}
      /\ up' \in Seq(UpLine) /\ Len(up') = Len(up) - 1
      /\ \A i \in 1 .. Len(up) - 1 : up'[i] = up[i + 1] /\ i + 1 \in 1 .. Len(up)
    BY <1>1, UpTaken
<1>5. /\ down \in Seq(DownLine) /\ down' \in Seq(DownLine) /\ Len(down) \in Nat
      /\ Len(down') = Len(down) + 1
      /\ \A i \in 1 .. Len(down) : down'[i] = down[i]
      /\ down'[Len(down) + 1] = m
      /\ \A i \in 1 .. Len(down) + 1 : i \in 1 .. Len(down) \/ i = Len(down) + 1
  <2>1. down \in Seq(DownLine)
      BY DEF IInv, Shapes
  <2> HIDE DEF m
  <2>2. QED
      BY <1>1, <1>2, <2>1, Appended
<1>6. Shapes'
    BY <1>3, <1>4, <1>5 DEF IInv, Shapes
<1>7. Stages' /\ AskedIsSeen'
    BY <1>3 DEF IInv, Stages, AskedIsSeen
<1>8. Counted'
    BY <1>1, <1>3, CountedFewer DEF IInv
<1>9. YieldedOK'
    BY <1>3, SameYielded DEF IInv
<1>10. Hello'
  <2> SUFFICES ASSUME reader, pc \in { "handshake", "opening" } PROVE Hello'
      BY <1>3 DEF Hello
  <2>1. /\ srv = "idle" /\ \A i \in 1 .. Len(up) : up[i].kind \in { "initialize", "new" }
        /\ \A i \in 1 .. Len(down) : down[i] = m
        /\ fut \in { "waiting", "answered" }
        /\ Len(up) + Len(down) <= IF fut = "waiting" THEN 1 ELSE 0
      BY DEF IInv, Hello
  <2>2. \A i \in 1 .. Len(up') : up'[i].kind \in { "initialize", "new" }
      BY <1>4, <2>1
  <2> HIDE DEF m
  <2>3. \A i \in 1 .. Len(down') : down'[i] = m
      BY <1>5, <2>1
  <2>4. Len(up') + Len(down') = Len(up) + Len(down)
      BY <1>4, <1>5
  <2>5. QED
      BY <1>3, <2>1, <2>2, <2>3, <2>4 DEF Hello, m
<1>11. ~ Quiet /\ ~ NotReceived /\ ~ Serving(Len(yielded) + Len(queue))
    BY <1>1, <1>4 DEF Quiet, NotReceived, Serving
<1>12. Streams'
  <2>1. Settled' = Settled
      BY <1>3 DEF Settled
  <2>2. ~ (open /\ Settled)
      BY <1>11 DEF IInv, Streams, Stream
  <2>3. QED
      BY <1>3, <2>1, <2>2, StreamsKept DEF IInv
<1>13. Flow'
    BY <1>3, <1>11 DEF IInv, Flow
<1>14. QED
    BY <1>6, <1>7, <1>8, <1>9, <1>10, <1>12, <1>13 DEF IInv

LEMMA ReceiveCancelInv ==
    ASSUME IInv, ReceiveCancel PROVE IInv'
<1>1. /\ up # << >> /\ Head(up).kind = "cancel" /\ up' = Tail(up)
      /\ cancelEvent' = TRUE /\ cancelled' = TRUE /\ asked' = TRUE
      /\ UNCHANGED << client, down, srv, srvTurn, tele, tools, sent, ended >>
    BY DEF ReceiveCancel
<1>2. UNCHANGED << child, reader, closed, pc, open, fut, queue, turn, yielded, outcome >>
    BY <1>1 DEF client
<1>3. /\ Head(up) = up[1] /\ 1 \in 1 .. Len(up) /\ Len(up) \in Nat \ {0}
      /\ up' \in Seq(UpLine) /\ Len(up') = Len(up) - 1
      /\ \A i \in 1 .. Len(up) - 1 : up'[i] = up[i + 1] /\ i + 1 \in 1 .. Len(up)
    BY <1>1, UpTaken
<1>4. Shapes'
    BY <1>1, <1>2, <1>3 DEF IInv, Shapes
<1>5. Stages' /\ AskedIsSeen'
    BY <1>1, <1>2 DEF IInv, Stages, AskedIsSeen
<1>6. Counted'
    BY <1>1, <1>2, CountedFewer DEF IInv
<1>7. YieldedOK'
    BY <1>2, SameYielded DEF IInv
<1>8. Hello'
    BY <1>1, <1>2, <1>3 DEF IInv, Hello
<1>9. \A i \in 1 .. Len(up') : \E j \in 1 .. Len(up) : up'[i] = up[j]
    BY <1>3
<1>10. (Quiet => Quiet') /\ (NotReceived => NotReceived')
    BY <1>1, <1>2, <1>9 DEF Quiet, NotReceived
<1>11. Serving(Len(yielded) + Len(queue)) => Serving(Len(yielded) + Len(queue))'
    BY <1>1, <1>2, <1>9 DEF Serving
<1>12. Settled' = Settled
    BY <1>2 DEF Settled
<1>13. Streams'
    BY <1>1, <1>2, <1>10, <1>12, StreamsKept DEF IInv
<1>14. Flow'
    BY <1>1, <1>2, <1>10, <1>11 DEF IInv, Flow
<1>15. QED
    BY <1>4, <1>5, <1>6, <1>7, <1>8, <1>13, <1>14 DEF IInv

\* The child dies: its end of the pipes is gone, what it sent is still there.
LEMMA DieInv ==
    ASSUME IInv, Die PROVE IInv'
<1>1. /\ UNCHANGED << reader, closed, pc, open, fut, queue, turn, yielded, outcome, down,
                      srvTurn, sent, ended >>
      /\ srv' = "idle" /\ tele' = 0 /\ tools' = 0 /\ child' = "dead"
      /\ cancelEvent' = FALSE /\ cancelled' = FALSE /\ asked' = FALSE
      /\ up' = << >>
    BY DEF Die, Reset
<1>2. /\ up' \in Seq(UpLine) /\ Len(up') = 0
      /\ tools' \in 0 .. MaxTools /\ tele' \in 0 .. tools'
    BY <1>1, EmptySeq, AcpConstants
<1>3. Shapes'
    BY <1>1, <1>2 DEF IInv, Shapes
<1>4. Stages' /\ AskedIsSeen'
    BY <1>1 DEF IInv, Stages, AskedIsSeen
<1>5. Counted'
    BY <1>1, CountedFewer DEF IInv
<1>6. YieldedOK'
    BY <1>1, SameYielded DEF IInv
<1>7. Hello'
  <2>1. Len(up) \in Nat /\ Len(down) \in Nat
      BY EmptySeq DEF IInv, Shapes
  <2>2. Len(up') + Len(down') <= Len(up) + Len(down)
      BY <1>1, <1>2, <2>1
  <2>3. QED
      BY <1>1, <1>2, <2>1, <2>2 DEF IInv, Hello
<1>8. Quiet' /\ (NotReceived => NotReceived')
    BY <1>1, <1>2 DEF Quiet, NotReceived
<1>9. Serving(Len(yielded) + Len(queue)) => Serving(Len(yielded) + Len(queue))'
    BY <1>1, <1>2 DEF Serving
<1>10. Settled' = Settled
    BY <1>1 DEF Settled
<1>11. Streams'
    BY <1>1, <1>8, <1>10, StreamsKept DEF IInv
<1>12. Flow'
    BY <1>1, <1>8, <1>9 DEF IInv, Flow
<1>13. QED
    BY <1>3, <1>4, <1>5, <1>6, <1>7, <1>11, <1>12 DEF IInv

\* A step of the prompt task sends u updates and then a answers, 0 or 1 of each.
Sends(u, a) ==
    /\ sent' = sent + u /\ down' \in Seq(DownLine) /\ Len(down') = Len(down) + u + a
    /\ \A i \in 1 .. Len(down) : down'[i] = down[i]
    /\ u = 1 => down'[Len(down) + 1] = Message("update", srvTurn, << srvTurn, sent + 1 >>)
    /\ a = 1 => LET m == down'[Len(down) + u + 1]
                IN  m.kind = "answer" /\ m.n = srvTurn /\ m.x # "answered"
    /\ a = 1 <=> srv' = "idle"

\* What the client has read and what is in the pipe still make up what was sent.
LEMMA PromptTaskInv ==
    ASSUME IInv, srv # "idle", child = "alive", UNCHANGED << client, up, srvTurn >>,
           NEW u \in {0, 1}, NEW a \in {0, 1}, Sends(u, a),
           srv' \in { "idle", "running", "reply", "final" },
           tools' \in 0 .. MaxTools, tele' \in 0 .. tools',
           cancelEvent' = cancelEvent, cancelled' \in BOOLEAN, asked' \in BOOLEAN, AskedIsSeen',
           ended' \in { ended, ended + a }
    PROVE  IInv'
<1>1. UNCHANGED << child, reader, closed, pc, open, fut, queue, turn, yielded, outcome >>
    BY DEF client
<1>2. /\ sent \in Nat /\ turn \in 0 .. MaxTurns /\ srvTurn \in Nat /\ ended \in Nat
      /\ down \in Seq(DownLine) /\ Len(down) \in Nat /\ queue \in Seq(Events)
      /\ yielded \in Seq(Events) /\ Len(yielded) \in Nat /\ Len(queue) \in Nat
    BY EmptySeq, AcpConstants DEF IInv, Shapes
<1>3. sent' \in Nat /\ ended' \in Nat /\ down' \in Seq(DownLine)
    BY <1>2 DEF Sends
<1>4. Shapes'
    BY <1>1, <1>3 DEF IInv, Shapes
<1>5. Stages'
    BY <1>1 DEF IInv, Stages
<1>6. Counted'
  <2>1. ended < srvTurn /\ ended' <= srvTurn /\ (srv' # "idle" => ended' < srvTurn)
      BY <1>2 DEF IInv, Counted, Sends
  <2>2. QED
      BY <1>1, <2>1 DEF IInv, Counted
<1>7. YieldedOK'
    BY <1>1, SameYielded DEF IInv
<1>8. Hello'
    BY <1>1 DEF IInv, Hello
<1>9. ~ Quiet /\ ~ NotReceived
    BY DEF Quiet, NotReceived
<1>10. Streams'
  <2>1. Settled' = Settled
      BY <1>1 DEF Settled
  <2>2. ~ (open /\ Settled)
      BY <1>9 DEF IInv, Streams, Stream
  <2>3. QED
      BY <1>1, <2>1, <2>2, StreamsKept DEF IInv
<1>11. Flow'
  <2> SUFFICES ASSUME open, reader PROVE Flow'
      BY <1>1 DEF Flow
  <2>1. PICK n \in Nat : n = Len(yielded) + Len(queue)
      BY <1>2
  <2>2. CASE pc = "streaming"
    <3>1. fut = "waiting" /\ Serving(n)
        BY <1>9, <2>1, <2>2 DEF IInv, Flow
    <3>2. Len(down) = sent - n /\ n <= sent /\ srvTurn = turn
        BY <3>1 DEF Serving
    <3>3. ASSUME NEW i \in 1 .. Len(down')
          PROVE  IF i <= sent' - n
                 THEN down'[i] = Message("update", turn, << turn, n + i >>)
                 ELSE down'[i].kind = "answer" /\ down'[i].n = turn /\ down'[i].x # "answered"
      <4>0. /\ sent' = sent + u /\ Len(down') = Len(down) + u + a /\ Len(down) = sent - n
            /\ sent \in Nat /\ n \in Nat /\ i \in 1 .. Len(down')
          BY <1>2, <3>2 DEF Sends
      <4>1. \/ i \in 1 .. Len(down) /\ i <= sent - n /\ i <= sent' - n
            \/ u = 1 /\ i = Len(down) + 1 /\ i <= sent' - n /\ n + i = sent + 1
            \/ a = 1 /\ i = Len(down) + u + 1 /\ ~ (i <= sent' - n)
          BY <4>0
      <4>2. CASE i \in 1 .. Len(down) /\ i <= sent - n /\ i <= sent' - n
        <5>1. down[i] = Message("update", turn, << turn, n + i >>)
            BY <3>1, <4>2 DEF Serving
        <5>2. QED
            BY <4>2, <5>1 DEF Sends
      <4>3. CASE u = 1 /\ i = Len(down) + 1 /\ i <= sent' - n /\ n + i = sent + 1
          BY <3>2, <4>3 DEF Sends
      <4>4. CASE a = 1 /\ i = Len(down) + u + 1 /\ ~ (i <= sent' - n)
          BY <3>2, <4>4 DEF Sends
      <4>5. QED
          BY <4>1, <4>2, <4>3, <4>4
    <3>4. /\ n <= sent' /\ Len(down') \in { sent' - n, sent' - n + 1 }
          /\ srv' # "idle" => Len(down') = sent' - n
      <4>1. /\ sent' = sent + u /\ Len(down') = Len(down) + u + a
            /\ srv' # "idle" => a = 0
          BY <1>2, <3>2 DEF Sends
      <4>2. u \in {0, 1} /\ a \in {0, 1} /\ sent \in Nat /\ n \in Nat
          BY <1>2
      <4>3. \A x, y \in Nat : y <= x => /\ y <= x + 0 /\ y <= x + 1
                                        /\ x - y + 0 = x + 0 - y /\ x - y + 1 = x + 1 - y
          OBVIOUS
      <4>4. n <= sent' /\ Len(down') = (sent' - n) + a
          BY <3>2, <4>1, <4>2, <4>3
      <4>5. QED
          BY <4>1, <4>2, <4>4
    <3>5. Serving(n)'
        BY <1>1, <3>1, <3>3, <3>4 DEF Serving
    <3>6. QED
        BY <1>1, <2>1, <2>2, <3>1, <3>5 DEF Flow
  <2>3. CASE pc # "streaming"
    <3>1. pc # "ready"
        BY <1>9 DEF IInv, Flow
    <3>2. QED
        BY <1>1, <2>3, <3>1 DEF Flow
  <2>4. QED
      BY <2>2, <2>3
<1>12. QED
    BY <1>4, <1>5, <1>6, <1>7, <1>8, <1>10, <1>11 DEF IInv

\* The lines a step appends.
LEMMA SendsNothing ==
    ASSUME IInv, down' = down, sent' = sent, srv' # "idle" PROVE Sends(0, 0)
<1>1. down \in Seq(DownLine) /\ Len(down) \in Nat /\ sent \in Nat
    BY EmptySeq DEF IInv, Shapes
<1>2. QED
    BY <1>1 DEF Sends

LEMMA SendsAnswer ==
    ASSUME IInv, NEW how \in { "stop", "cancel", "error" },
           AnswerPrompt(srvTurn, << >>, how), sent' = sent
    PROVE  /\ Sends(0, 1) /\ srv' = "idle" /\ tele' = 0 /\ asked' = FALSE
           /\ ended' \in { ended, ended + 1 }
           /\ Len(down') > Len(down) /\ down'[Len(down')].x = how
<1> DEFINE m == Message("answer", srvTurn, how)
<1>1. /\ m \in DownLine /\ m.kind = "answer" /\ m.n = srvTurn /\ m.x = how
      /\ how # "answered"
  <2>1. srvTurn \in 0 .. MaxTurns /\ how \in Replies
      BY DEF IInv, Shapes, Replies
  <2>2. QED
      BY <2>1, AnswerLines
<1>2. /\ down' = (down \o << >>) \o << m >> /\ srv' = "idle" /\ tele' = 0 /\ asked' = FALSE
      /\ ended' \in { ended, ended + 1 }
    BY DEF AnswerPrompt
<1> HIDE DEF m
<1>3. down \in Seq(DownLine) /\ sent \in Nat
    BY DEF IInv, Shapes
<1>4. down' = Append(down, m)
    BY <1>1, <1>2, <1>3, Joined
<1>5. /\ down' \in Seq(DownLine) /\ Len(down) \in Nat /\ Len(down') = Len(down) + 1
      /\ \A i \in 1 .. Len(down) : down'[i] = down[i]
      /\ down'[Len(down) + 1] = m
    BY <1>1, <1>3, <1>4, Appended
<1>6. /\ Len(down') = Len(down) + 0 + 1 /\ Len(down) + 0 + 1 = Len(down) + 1 /\ sent = sent + 0
      /\ Len(down') > Len(down)
    BY <1>3, <1>5
<1>7. Sends(0, 1)
    BY <1>1, <1>2, <1>5, <1>6 DEF Sends
<1>8. QED
    BY <1>1, <1>2, <1>5, <1>6, <1>7

\* An update, and the answer "cancel" after it when the server's event is set.
LEMMA SendUpdateFacts ==
    ASSUME IInv, NEW next \in { "running", "reply", "final" }, SendUpdate(next)
    PROVE  /\ \E u, a \in {0, 1} : Sends(u, a) /\ ended' \in { ended, ended + a }
           /\ srv' \in { "idle", next } /\ asked' \in { asked, FALSE }
           /\ tele' \in { 0, tele - 1 } /\ (tele' = tele - 1 => tele > 0)
           /\ srv' = "idle" => down'[Len(down')].x = "cancel"
<1> DEFINE v == Message("update", srvTurn, << srvTurn, sent + 1 >>)
           m == Message("answer", srvTurn, "cancel")
<1>1. down \in Seq(DownLine) /\ sent \in Nat /\ srvTurn \in 0 .. MaxTurns /\ sent + 1 \in Nat
    BY DEF IInv, Shapes
<1>2. v \in DownLine
    BY <1>1, UpdateLines
<1>3. m \in DownLine /\ m.kind = "answer" /\ m.n = srvTurn /\ m.x = "cancel"
    BY <1>1, AnswerLines DEF Replies
<1>4. Update = << v >>
    BY DEF Update
<1> HIDE DEF v, m
<1>5. /\ Append(down, v) \in Seq(DownLine) /\ Len(down) \in Nat
      /\ Len(Append(down, v)) = Len(down) + 1
      /\ \A i \in 1 .. Len(down) : Append(down, v)[i] = down[i]
      /\ Append(down, v)[Len(down) + 1] = v
    BY <1>1, <1>2, Appended
<1>6. CASE cancelEvent /\ AnswerPrompt(srvTurn, Update, "cancel")
  <2>1. /\ down' = (down \o << v >>) \o << m >> /\ srv' = "idle" /\ tele' = 0 /\ asked' = FALSE
        /\ ended' = ended + 1 /\ sent' = sent + 1
      BY <1>4, <1>6 DEF AnswerPrompt, SendUpdate, m
  <2>2. down' = Append(Append(down, v), m)
    <3>1. (down \o << v >>) \o << m >> = Append(Append(down, v), m)
        BY <1>1, <1>2, <1>3, Joined
    <3>2. QED
        BY <2>1, <3>1
  <2>3. /\ down' \in Seq(DownLine) /\ Len(down') = Len(Append(down, v)) + 1
        /\ \A i \in 1 .. Len(Append(down, v)) : down'[i] = Append(down, v)[i]
        /\ down'[Len(Append(down, v)) + 1] = m
      BY <1>3, <1>5, <2>2, Appended
  <2>4. /\ Len(down') = Len(down) + 1 + 1 /\ down'[Len(down) + 1 + 1] = m
        /\ \A i \in 1 .. Len(down) : down'[i] = down[i]
        /\ down'[Len(down) + 1] = v
      BY <1>5, <2>3
  <2>5. Sends(1, 1)
      BY <1>3, <2>1, <2>3, <2>4 DEF Sends, v
  <2>6. down'[Len(down')].x = "cancel"
      BY <1>3, <2>4
  <2>7. \E u, a \in {0, 1} : Sends(u, a) /\ ended' \in { ended, ended + a }
    <3>1. Sends(1, 1) /\ ended' \in { ended, ended + 1 }
        BY <2>1, <2>5
    <3>2. QED
        BY <3>1
  <2>8. tele' \in { 0, tele - 1 } /\ (tele' = tele - 1 => tele > 0)
    <3>1. tele \in Nat
        BY AcpConstants DEF IInv, Shapes
    <3>2. tele' = 0
        BY <2>1
    <3>3. QED
        BY <3>1, <3>2
  <2>9. srv' \in { "idle", next } /\ asked' \in { asked, FALSE }
      BY <2>1
  <2>10. QED
      BY <2>6, <2>7, <2>8, <2>9
<1>7. CASE ~ cancelEvent /\ down' = down \o Update /\ srv' = next
           /\ tele' = (IF tele > 0 THEN tele - 1 ELSE 0) /\ UNCHANGED << asked, ended >>
  <2>1. down' = Append(down, v) /\ sent' = sent + 1
      BY <1>1, <1>2, <1>4, <1>7, Joined DEF SendUpdate
  <2>2. Len(down) + 1 + 0 = Len(down) + 1 /\ srv' # "idle"
      BY <1>5, <1>7
  <2>3. Sends(1, 0)
      BY <1>5, <2>1, <2>2 DEF Sends, v
  <2>4. ended' \in { ended, ended + 0 }
      BY <1>7
  <2>5. \E u, a \in {0, 1} : Sends(u, a) /\ ended' \in { ended, ended + a }
      BY <2>3, <2>4
  <2>6. tele' \in { 0, tele - 1 } /\ (tele' = tele - 1 => tele > 0)
    <3>1. tele \in Nat
        BY AcpConstants DEF IInv, Shapes
    <3>2. QED
        BY <1>7, <3>1
  <2>7. QED
      BY <1>7, <2>2, <2>5, <2>6
<1>8. QED
    BY <1>6, <1>7 DEF SendUpdate

LEMMA SendUpdateInv ==
    ASSUME IInv, srv # "idle", child = "alive", NEW next \in { "running", "reply", "final" },
           SendUpdate(next)
    PROVE  IInv'
<1>1. /\ \E u, a \in {0, 1} : Sends(u, a) /\ ended' \in { ended, ended + a }
      /\ srv' \in { "idle", next } /\ asked' \in { asked, FALSE }
      /\ tele' \in { 0, tele - 1 } /\ (tele' = tele - 1 => tele > 0)
    BY SendUpdateFacts
<1>2. PICK u \in {0, 1}, a \in {0, 1} : Sends(u, a) /\ ended' \in { ended, ended + a }
    BY <1>1
<1>3. UNCHANGED << client, up, srvTurn, tools, cancelEvent, cancelled >>
    BY DEF SendUpdate
<1>4. tools' \in 0 .. MaxTools /\ tele' \in 0 .. tools'
  <2>1. tools \in 0 .. MaxTools /\ tele \in 0 .. tools /\ tools' = tools
      BY <1>3 DEF IInv, Shapes
  <2>2. QED
      BY <1>1, <2>1, AcpConstants
<1>5. cancelled' \in BOOLEAN /\ asked' \in BOOLEAN /\ AskedIsSeen'
  <2>1. cancelled' = cancelled /\ cancelled \in BOOLEAN /\ asked \in BOOLEAN
      BY <1>3 DEF IInv, Shapes
  <2>2. CASE asked' = asked
      BY <2>1, <2>2 DEF IInv, AskedIsSeen
  <2>3. CASE asked' = FALSE
      BY <2>1, <2>3 DEF AskedIsSeen
  <2>4. QED
      BY <1>1, <2>2, <2>3
<1>6. srv' \in { "idle", "running", "reply", "final" }
    BY <1>1
<1>7. QED
    BY <1>2, <1>3, <1>4, <1>5, <1>6, PromptTaskInv

\* The prompt task answers, with nothing before it.
LEMMA AnswersInv ==
    ASSUME IInv, srv # "idle", child = "alive", NEW how \in { "stop", "cancel", "error" },
           AnswerPrompt(srvTurn, << >>, how), cancelled' \in BOOLEAN,
           UNCHANGED << client, up, srvTurn, tools, sent, cancelEvent >>
    PROVE  IInv'
<1>1. /\ Sends(0, 1) /\ srv' = "idle" /\ tele' = 0 /\ asked' = FALSE
      /\ ended' \in { ended, ended + 1 }
    BY SendsAnswer
<1>2. tools' \in 0 .. MaxTools /\ tele' \in 0 .. tools'
    BY <1>1, AcpConstants DEF IInv, Shapes
<1>3. asked' \in BOOLEAN /\ AskedIsSeen'
    BY <1>1 DEF AskedIsSeen
<1>4. 0 \in {0, 1} /\ 1 \in {0, 1} /\ srv' \in { "idle", "running", "reply", "final" }
    BY <1>1
<1>5. QED
    BY <1>1, <1>2, <1>3, <1>4, PromptTaskInv

\* A tool's hook, or handle() going on: nothing is sent.
LEMMA SilentInv ==
    ASSUME IInv, ToolHook \/ HandleYields PROVE IInv'
<1>1. /\ srv = "running" /\ child = "alive"
      /\ UNCHANGED << client, up, down, srvTurn, sent, flags >>
      /\ srv' \in { "running", "reply", "final" }
    BY DEF ToolHook, HandleYields
<1>2. /\ tools' \in 0 .. MaxTools /\ tele' \in 0 .. tools'
  <2>1. tools \in 0 .. MaxTools /\ tele \in 0 .. tools /\ MaxTools \in Nat
      BY AcpConstants DEF IInv, Shapes
  <2>2. CASE ToolHook
    <3>1. tools < MaxTools /\ tele' = tele + 1 /\ tools' = tools + 1
        BY <2>2 DEF ToolHook
    <3>2. QED
        BY <2>1, <3>1
  <2>3. CASE HandleYields
    <3>1. tele' = tele /\ tools' = tools
        BY <2>3 DEF HandleYields
    <3>2. QED
        BY <2>1, <3>1
  <2>4. QED
      BY <2>2, <2>3
<1>3. /\ UNCHANGED << cancelEvent, cancelled, asked, ended >>
      /\ cancelled' \in BOOLEAN /\ asked' \in BOOLEAN /\ AskedIsSeen'
    BY <1>1 DEF flags, IInv, Shapes, AskedIsSeen
<1>4. Sends(0, 0)
    BY <1>1, SendsNothing
<1>5. 0 \in {0, 1} /\ ended' \in { ended, ended + 0 } /\ srv # "idle"
      /\ srv' \in { "idle", "running", "reply", "final" }
    BY <1>1, <1>3
<1>6. QED
    BY <1>1, <1>2, <1>3, <1>4, <1>5, PromptTaskInv

\* Every step of the prompt task.
LEMMA PromptStepInv ==
    ASSUME IInv, PromptTask PROVE IInv'
<1>1. CASE ToolHook \/ HandleYields
    BY <1>1, SilentInv
<1>2. CASE HandleRaises
    BY <1>2, AnswersInv DEF HandleRaises, IInv, Shapes
<1>3. CASE DrainTelemetry
    BY <1>3, SendUpdateInv DEF DrainTelemetry
<1>4. CASE RuntimeCancels
    BY <1>4, AnswersInv DEF RuntimeCancels
<1>5. CASE SendText
    BY <1>5, SendUpdateInv DEF SendText
<1>6. CASE TurnDone
    BY <1>6, AnswersInv DEF TurnDone, IInv, Shapes
<1>7. QED
    BY <1>1, <1>2, <1>3, <1>4, <1>5, <1>6 DEF PromptTask

\* The prompt is read: the numbering of the turn's updates starts.
LEMMA ReceivePromptInv ==
    ASSUME IInv, ReceivePrompt PROVE IInv'
<1> DEFINE k == Head(up).n
<1>1. /\ child = "alive" /\ srv = "idle" /\ up # << >> /\ Head(up).kind = "prompt"
      /\ up' = Tail(up) /\ srvTurn' = k /\ tools' = 0 /\ sent' = 0
      /\ cancelEvent' = FALSE /\ UNCHANGED client /\ tele' = 0
      /\ \/ /\ cancelled /\ cancelled' = FALSE
            /\ AnswerPrompt(k, << >>, "cancel")
         \/ /\ ~ cancelled /\ srv' = "running"
            /\ UNCHANGED << cancelled, asked, ended, down >>
    BY DEF ReceivePrompt, AnswerPrompt
<1>2. UNCHANGED << child, reader, closed, pc, open, fut, queue, turn, yielded, outcome >>
    BY <1>1 DEF client
<1>3. /\ Head(up) = up[1] /\ Head(up) \in UpLine /\ 1 \in 1 .. Len(up) /\ Len(up) \in Nat \ {0}
      /\ up' \in Seq(UpLine) /\ Len(up') = Len(up) - 1
      /\ \A i \in 1 .. Len(up) - 1 : up'[i] = up[i + 1] /\ i + 1 \in 1 .. Len(up)
    BY <1>1, UpTaken
<1>4. k \in 0 .. MaxTurns /\ srvTurn < k /\ k <= turn /\ up[1].kind = "prompt" /\ up[1].n = k
    BY <1>1, <1>3, UpFacts DEF IInv, Counted
<1>5. /\ down \in Seq(DownLine) /\ Len(down) \in Nat /\ turn \in Nat /\ srvTurn \in Nat /\ ended \in Nat
      /\ queue \in Seq(Events) /\ Len(queue) \in Nat /\ yielded \in Seq(Events) /\ Len(yielded) \in Nat
    BY EmptySeq, AcpConstants DEF IInv, Shapes
<1>6. /\ down' \in Seq(DownLine) /\ ended' \in { ended, ended + 1 } /\ ended' \in Nat
      /\ cancelled' \in BOOLEAN /\ asked' \in BOOLEAN /\ (asked' => cancelled')
      /\ \/ srv' = "running" /\ down' = down /\ ended' = ended
         \/ /\ srv' = "idle" /\ Len(down') = Len(down) + 1
            /\ \A i \in 1 .. Len(down) : down'[i] = down[i]
            /\ down'[Len(down) + 1] = Message("answer", k, "cancel")
  <2>1. CASE /\ ~ cancelled /\ srv' = "running"
             /\ UNCHANGED << cancelled, asked, ended, down >>
      BY <1>5, <2>1 DEF IInv, Shapes, AskedIsSeen
  <2>2. CASE /\ cancelled /\ cancelled' = FALSE
             /\ AnswerPrompt(k, << >>, "cancel")
    <3> DEFINE m == Message("answer", k, "cancel")
    <3>1. m \in DownLine
        BY <1>4, AnswerLines DEF Replies
    <3>2. /\ down' = (down \o << >>) \o << m >> /\ srv' = "idle" /\ asked' = FALSE
          /\ ended' = ended + 1
        BY <2>2 DEF AnswerPrompt
    <3> HIDE DEF m
    <3>3. (down \o << >>) \o << m >> = Append(down, m)
        BY <1>5, <3>1, Joined
    <3>4. /\ down' \in Seq(DownLine) /\ Len(down') = Len(down) + 1
          /\ \A i \in 1 .. Len(down) : down'[i] = down[i]
          /\ down'[Len(down) + 1] = m
        BY <1>5, <3>1, <3>2, <3>3, Appended
    <3>5. ended' \in { ended, ended + 1 } /\ ended' \in Nat
        BY <1>5, <3>2
    <3>6. cancelled' \in BOOLEAN /\ asked' \in BOOLEAN /\ (asked' => cancelled')
        BY <2>2, <3>2
    <3>7. QED
        BY <3>2, <3>4, <3>5, <3>6 DEF m
  <2>3. QED
      BY <1>1, <2>1, <2>2
<1> HIDE DEF k
<1>7. Shapes'
  <2>1. tools' = 0 /\ tele' = 0 /\ sent' = 0 /\ cancelEvent' = FALSE
      BY <1>1
  <2>2. tools' \in 0 .. MaxTools /\ tele' \in 0 .. tools' /\ sent' \in Nat
      BY <2>1, AcpConstants
  <2>3. cancelEvent' \in BOOLEAN /\ srv' \in { "idle", "running", "reply", "final" }
      BY <1>6, <2>1
  <2>4. QED
      BY <1>1, <1>2, <1>3, <1>4, <1>6, <2>2, <2>3 DEF IInv, Shapes
<1>8. Stages' /\ AskedIsSeen'
    BY <1>1, <1>2, <1>6 DEF IInv, Stages, AskedIsSeen
<1>9. Counted'
  <2>1. \A i \in 1 .. Len(up) : up[i].n \in Nat /\ i \in Nat
    <3>1. up \in Seq(UpLine)
        BY DEF IInv, Shapes
    <3>2. \A i \in 1 .. Len(up) : up[i] \in UpLine /\ i \in Nat
        BY <3>1
    <3>3. QED
        BY <3>2, UpFacts, AcpConstants
  <2>2. ASSUME NEW i \in 1 .. Len(up'), up'[i].kind = "prompt"
        PROVE  srvTurn' < up'[i].n /\ up'[i].n <= turn'
    <3>1. i + 1 \in 1 .. Len(up) /\ up'[i] = up[i + 1] /\ 1 < i + 1
        BY <1>3
    <3>2. up[1].n < up[i + 1].n /\ up[i + 1].n <= turn
        BY <1>3, <1>4, <2>2, <3>1 DEF IInv, Counted
    <3>3. QED
        BY <1>1, <1>2, <1>4, <3>1, <3>2
  <2>3. \A i, j \in 1 .. Len(up') :
            up'[i].kind = "prompt" /\ up'[j].kind = "prompt" /\ i < j => up'[i].n < up'[j].n
    <3> SUFFICES ASSUME NEW i \in 1 .. Len(up'), NEW j \in 1 .. Len(up'),
                        up'[i].kind = "prompt", up'[j].kind = "prompt", i < j
                 PROVE  up'[i].n < up'[j].n
        OBVIOUS
    <3>a. \A x \in 1 .. Len(up') : x + 1 \in 1 .. Len(up) /\ up'[x] = up[x + 1]
        BY <1>3
    <3>b. i + 1 < j + 1
        OBVIOUS
    <3>1. /\ i + 1 \in 1 .. Len(up) /\ up'[i] = up[i + 1]
          /\ j + 1 \in 1 .. Len(up) /\ up'[j] = up[j + 1]
          /\ i + 1 < j + 1
        BY <3>a, <3>b
    <3>2. up[i + 1].n < up[j + 1].n
        BY <3>1 DEF IInv, Counted
    <3>3. QED
        BY <3>1, <3>2
  <2>4. ended <= srvTurn
      BY DEF IInv, Counted
  <2>5. srvTurn' <= turn' /\ ended' <= srvTurn' /\ (srv' # "idle" => ended' < srvTurn')
      BY <1>1, <1>2, <1>4, <1>5, <1>6, <2>4, AcpConstants
  <2>6. QED
      BY <2>2, <2>3, <2>5 DEF Counted
<1>10. YieldedOK'
    BY <1>2, SameYielded DEF IInv
<1>11. Hello'
    BY <1>1, <1>2, <1>3 DEF IInv, Hello
<1>12. ~ Quiet /\ ~ Serving(Len(yielded) + Len(queue))
    BY <1>3, <1>4 DEF Quiet, Serving
<1>13. Streams'
  <2>1. Settled' = Settled
      BY <1>2 DEF Settled
  <2>2. ~ (open /\ Settled)
      BY <1>12 DEF IInv, Streams, Stream
  <2>3. QED
      BY <1>2, <2>1, <2>2, StreamsKept DEF IInv
<1>14. Flow'
  <2> SUFFICES ASSUME open, reader, pc = "streaming"
               PROVE  fut = "waiting" /\ Serving(Len(yielded) + Len(queue))'
      BY <1>2, <1>12 DEF IInv, Flow
  <2>1. fut = "waiting" /\ NotReceived
      BY <1>12 DEF IInv, Flow
  <2>2. /\ down = << >> /\ Len(down) = 0 /\ Len(yielded) + Len(queue) = 0 /\ k = turn
        /\ Len(yielded') + Len(queue') = 0
      BY <1>2, <1>3, <1>4, <2>1, EmptySeq DEF NotReceived
  <2>3. ASSUME NEW i \in 1 .. Len(up')
        PROVE  up'[i].kind = "cancel"
    <3>1. i + 1 \in 1 .. Len(up) /\ up'[i] = up[i + 1] /\ 1 < i + 1
        BY <1>3
    <3>2. up[i + 1].kind = "prompt" => up[i + 1].n = turn /\ up[1].n < up[i + 1].n
        BY <1>3, <1>4, <2>1, <3>1 DEF IInv, Counted, NotReceived
    <3>3. QED
        BY <1>4, <1>5, <2>1, <2>2, <3>1, <3>2 DEF NotReceived
  <2>4. /\ Len(down') \in { 0, 1 } /\ (srv' # "idle" => Len(down') = 0)
        /\ \A i \in 1 .. Len(down') : down'[i] = Message("answer", k, "cancel")
      BY <1>6, <2>2
  <2>5. \A i \in 1 .. Len(down') : down'[i].kind = "answer" /\ down'[i].n = turn /\ down'[i].x # "answered"
      BY <1>4, <2>2, <2>4, AnswerLines DEF Replies
  <2>6. Serving(0)'
    <3>1. srvTurn' = turn' /\ sent' = 0 /\ turn' = turn
        BY <1>1, <1>2, <2>2
    <3>2. 0 <= sent' /\ sent' - 0 = 0 /\ sent' - 0 + 1 = 1 /\ \A i \in 1 .. Len(down') : ~ (i <= 0)
        BY <2>4, <3>1
    <3>3. QED
        BY <2>3, <2>4, <2>5, <3>1, <3>2 DEF Serving
  <2>7. QED
      BY <2>1, <2>2, <2>6
<1>15. QED
    BY <1>7, <1>8, <1>9, <1>10, <1>11, <1>13, <1>14 DEF IInv

-----------------------------------------------------------------------------
(* The theorems. *)

LEMMA InitInv == Init => IInv
<1> SUFFICES ASSUME Init PROVE IInv
    OBVIOUS
<1>1. /\ queue = << >> /\ yielded = << >> /\ up = << >> /\ down = << >>
      /\ Len(queue) = 0 /\ Len(yielded) = 0 /\ Len(up) = 0 /\ Len(down) = 0
    BY EmptySeq DEF Init
<1>2. Shapes
  <2>1. queue \in Seq(Events) /\ yielded \in Seq(Events) /\ up \in Seq(UpLine) /\ down \in Seq(DownLine)
      BY <1>1, EmptySeq
  <2>2. turn \in 0 .. MaxTurns /\ srvTurn \in 0 .. MaxTurns /\ tools \in 0 .. MaxTools
        /\ tele \in 0 .. tools /\ sent \in Nat /\ ended \in Nat
    <3>1. turn = 0 /\ srvTurn = 0 /\ tools = 0 /\ tele = 0 /\ sent = 0 /\ ended = 0
        BY DEF Init
    <3>2. QED
        BY <3>1, AcpConstants
  <2>3. QED
      BY <2>1, <2>2 DEF Init, Shapes
<1>3. Stages /\ AskedIsSeen /\ Hello /\ Flow
    BY DEF Init, Stages, AskedIsSeen, Hello, Flow
<1>4. Counted
    BY <1>1 DEF Init, Counted
<1>5. YieldedOK
    BY <1>1 DEF YieldedOK
<1>6. Stream(0)
    BY <1>1 DEF Init, Stream
<1>7. Streams
    BY <1>1, <1>6 DEF Streams
<1>8. QED
    BY <1>2, <1>3, <1>4, <1>5, <1>7 DEF IInv

LEMMA NextInv == IInv /\ [Next]_vars => IInv'
<1> SUFFICES ASSUME IInv, [Next]_vars PROVE IInv'
    OBVIOUS
<1>1. CASE UNCHANGED vars
  <2>1. UNCHANGED << child, reader, closed, pc, open, fut, queue, turn, yielded, outcome, up, down,
                     srv, srvTurn, tele, tools, sent, cancelEvent, cancelled, asked, ended >>
      BY <1>1 DEF vars, client, server, flags
  <2>2. Shapes' /\ Stages' /\ AskedIsSeen' /\ Hello'
      BY <2>1 DEF IInv, Shapes, Stages, AskedIsSeen, Hello
  <2>3. Counted' /\ YieldedOK'
      BY <2>1, SameCounted, SameYielded DEF IInv
  <2>4. Settled' = Settled /\ Quiet' = Quiet
      BY <2>1 DEF Settled, Quiet
  <2>5. Streams'
      BY <2>1, <2>4, StreamsKept DEF IInv
  <2>6. Flow'
      BY <2>1, <2>4 DEF IInv, Flow, NotReceived, Serving
  <2>7. QED
      BY <2>2, <2>3, <2>5, <2>6 DEF IInv
<1>2. CASE Call
    BY <1>2, SpawnInv, SpawnedInv, NewSessionInv, OpenedInv, OpenFailsInv, PromptInv,
       PromptFailsInv, CancelInv, CloseSessionInv, AcloseInv DEF Call
<1>3. CASE Consume
    BY <1>3, YieldEventInv, TakeSentinelInv, FinishInv DEF Consume
<1>4. CASE Read
    BY <1>4, ReadLineInv, EndOfFileInv DEF Read
<1>5. CASE Receive
    BY <1>5, AnswerHelloInv, ReceiveCancelInv, ReceivePromptInv DEF Receive
<1>6. CASE PromptTask
    BY <1>6, PromptStepInv
<1>7. CASE FramingError
    BY <1>7, FramingErrorInv
<1>8. CASE Die
    BY <1>8, DieInv
<1>9. QED
    BY <1>1, <1>2, <1>3, <1>4, <1>5, <1>6, <1>7, <1>8 DEF Next

\* The strengthened invariant holds throughout.
THEOREM Invariance == Spec => []IInv
<1>1. QED
    BY InitInv, NextInv, PTL DEF Spec

\* Every variable keeps the shape the code gives it; the server never answers more
\* turns with "cancel" than were started.
THEOREM TypeCorrect == Spec => []TypeOK
<1>1. IInv => TypeOK
  <2> SUFFICES ASSUME IInv PROVE TypeOK
      OBVIOUS
  <2>1. tools \in 0 .. MaxTools /\ tele \in 0 .. tools /\ ended \in Nat /\ ended <= srvTurn
      BY DEF IInv, Shapes, Counted
  <2>2. srvTurn \in 0 .. MaxTurns
      BY DEF IInv, Shapes
  <2>3. tele \in 0 .. MaxTools /\ ended \in 0 .. MaxTurns
      BY <2>1, <2>2, AcpConstants
  <2>4. QED
      BY <2>3 DEF IInv, Shapes, TypeOK, Replies
<1>2. QED
    BY <1>1, Invariance, PTL

\* What a turn yields is what the server sent for it, in order and without gaps, and
\* all of it when the turn ends with the server's own reason: though the answer and
\* the updates reach the user's coroutine by two ways, the child may die and the
\* reader may give up at any point, and an earlier turn may have left lines behind.
THEOREM FaithfulTurns == Spec => []TurnIsFaithful
<1>1. IInv => TurnIsFaithful
  <2> SUFFICES ASSUME IInv PROVE TurnIsFaithful
      OBVIOUS
  <2>1. DOMAIN yielded = 1 .. Len(yielded) /\ Len(yielded) \in Nat
      BY DEF IInv, Shapes
  <2>2. \A i \in DOMAIN yielded : yielded[i] = << turn, i >>
      BY <2>1 DEF IInv, YieldedOK
  <2>3. ASSUME open, outcome \in { "stop", "cancel" }
        PROVE  Len(yielded) = sent /\ srvTurn = turn
    <3>1. PICK e \in 0 .. Len(queue) : Stream(e)
        BY DEF IInv, Streams
    <3>2. srvTurn = turn /\ sent = Len(yielded) + e /\ e = 0
        BY <2>3, <3>1 DEF Stream, Settled
    <3>3. QED
        BY <2>1, <3>1, <3>2
  <2>4. QED
      BY <2>2, <2>3 DEF TurnIsFaithful
<1>2. QED
    BY <1>1, Invariance, PTL

\* Lines that are not a prompt task's last word: no other step writes "stop".
LEMMA OnlyTurnDoneStops ==
    ASSUME IInv, [Next]_vars, Len(down') > Len(down),
           down'[Len(down')].kind = "answer", down'[Len(down')].x = "stop"
    PROVE  TurnDone
<1>1. Len(down) \in Nat /\ down \in Seq(DownLine)
    BY EmptySeq DEF IInv, Shapes
<1>2. down' # down /\ down' # << >>
    BY <1>1, EmptySeq
<1>3. CASE AnswerHello
  <2> DEFINE m == Message("answer", 0, "answered")
  <2>1. m \in DownLine /\ m.x = "answered"
      BY Zeroes, AnswerLines
  <2>2. down' = Append(down, m)
      BY <1>3 DEF AnswerHello
  <2> HIDE DEF m
  <2>3. down'[Len(down')] = m
      BY <1>1, <2>1, <2>2, Appended
  <2>4. QED
      BY <2>1, <2>3
<1>4. CASE ReceivePrompt
  <2> DEFINE m == Message("answer", Head(up).n, "cancel")
  <2>1. up # << >> /\ down' = (down \o << >>) \o << m >>
      BY <1>2, <1>4 DEF ReceivePrompt, AnswerPrompt
  <2>2. m \in DownLine /\ m.x = "cancel"
      BY <2>1, UpTaken, UpFacts, AnswerLines DEF Replies
  <2> HIDE DEF m
  <2>3. down' = Append(down, m)
      BY <1>1, <2>1, <2>2, Joined
  <2>4. down'[Len(down')] = m
      BY <1>1, <2>2, <2>3, Appended
  <2>5. QED
      BY <2>2, <2>4
<1>5. CASE HandleRaises
    BY <1>5, SendsAnswer DEF HandleRaises
<1>6. CASE RuntimeCancels
    BY <1>6, SendsAnswer DEF RuntimeCancels
<1>7. CASE DrainTelemetry \/ SendText
  <2>1. PICK next \in { "running", "reply", "final" } : SendUpdate(next)
      BY <1>7 DEF DrainTelemetry, SendText
  <2>2. CASE srv' = "idle"
      BY <2>1, <2>2, SendUpdateFacts
  <2>3. CASE srv' # "idle"
    <3> DEFINE v == Message("update", srvTurn, << srvTurn, sent + 1 >>)
    <3>1. v \in DownLine /\ v.kind = "update"
        BY UpdateLines DEF IInv, Shapes
    <3>2. down' = down \o << v >>
        BY <2>1, <2>3 DEF SendUpdate, AnswerPrompt, Update
    <3> HIDE DEF v
    <3>3. down' = Append(down, v)
        BY <1>1, <3>1, <3>2, Joined
    <3>4. down'[Len(down')] = v
        BY <1>1, <3>1, <3>3, Appended
    <3>5. QED
        BY <3>1, <3>4
  <2>4. QED
      BY <2>2, <2>3
<1>8. CASE UNCHANGED vars
    BY <1>2, <1>8 DEF vars
<1>9. CASE Call \/ Consume \/ Die \/ FramingError \/ EndOfFile
    BY <1>2, <1>9 DEF Call, Consume, Die, FramingError, EndOfFile, Spawn, Spawned, NewSession,
       Opened, OpenFails, Prompt, PromptFails, Cancel, CloseSession, Aclose, YieldEvent,
       TakeSentinel, Finish
<1>10. CASE ReadLine
    BY <1>1, <1>10, Taken DEF ReadLine
<1>11. CASE ReceiveCancel \/ ToolHook \/ HandleYields
    BY <1>2, <1>11 DEF ReceiveCancel, ToolHook, HandleYields
<1>12. QED
    BY <1>3, <1>4, <1>5, <1>6, <1>7, <1>8, <1>9, <1>10, <1>11
    DEF Next, Read, Receive, PromptTask

\* A prompt is never answered with "stop" when a cancel has come since the last
\* answer: the server's event and the runtime's flag are cleared and looked at in
\* different places, and no order of a cancel, the updates and the agent's end makes
\* both miss it.
THEOREM CancelHolds == Spec => CancelNotLost
<1>1. IInv /\ [Next]_vars =>
        [ /\ Len(down') > Len(down)
          /\ down'[Len(down')].kind = "answer" /\ down'[Len(down')].x = "stop"
          => ~ asked ]_vars
    BY OnlyTurnDoneStops DEF IInv, AskedIsSeen, TurnDone, CancelSeen
<1>2. QED
    BY <1>1, Invariance, PTL DEF Spec, CancelNotLost
=============================================================================

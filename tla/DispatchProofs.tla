--------------------------- MODULE DispatchProofs ---------------------------
(***************************************************************************)
(* Proofs about Dispatch, for every set of turns, agents and sessions,     *)
(* every routing and every concurrency limit.                              *)
(***************************************************************************)
EXTENDS Dispatch, FiniteSetTheorems, TLAPS

(***************************************************************************)
(* Queues.  A queue of waiters has no duplicates; entering, leaving at the *)
(* head and leaving from the middle are the only things done to it.        *)
(***************************************************************************)
Distinct(q) == \A i, j \in 1 .. Len(q) : q[i] = q[j] => i = j
Holds(q, t) == \E i \in 1 .. Len(q) : q[i] = t

\* Joining a queue one is not in.
LEMMA AppendQueue ==
    ASSUME NEW q \in Seq(Turn), NEW t \in Turn, Distinct(q), ~Holds(q, t)
    PROVE  /\ Append(q, t) \in Seq(Turn) /\ Distinct(Append(q, t))
           /\ \A u \in Turn : Holds(Append(q, t), u) <=> Holds(q, u) \/ u = t
<1> DEFINE r == Append(q, t)
<1>1. /\ r \in Seq(Turn) /\ Len(r) = Len(q) + 1 /\ Len(q) \in Nat
      /\ \A i \in 1 .. Len(q) : r[i] = q[i]
      /\ r[Len(q) + 1] = t
    OBVIOUS
<1> HIDE DEF r
<1>2. \A i \in 1 .. Len(r) : i \in 1 .. Len(q) \/ i = Len(q) + 1
    BY <1>1
<1>3. Distinct(r)
    BY <1>1, <1>2 DEF Distinct, Holds
<1>4. ASSUME NEW u \in Turn PROVE Holds(r, u) <=> Holds(q, u) \/ u = t
  <2>1. Len(q) + 1 \in 1 .. Len(r) /\ \A i \in 1 .. Len(q) : i \in 1 .. Len(r)
      BY <1>1
  <2>2. QED
      BY <1>1, <1>2, <2>1 DEF Holds
<1>5. QED
    BY <1>1, <1>3, <1>4 DEF r

\* Leaving at the head.
LEMMA TailQueue ==
    ASSUME NEW q \in Seq(Turn), q # <<>>, Distinct(q)
    PROVE  /\ Head(q) \in Turn /\ Holds(q, Head(q))
           /\ Tail(q) \in Seq(Turn) /\ Distinct(Tail(q))
           /\ \A u \in Turn : Holds(Tail(q), u) <=> Holds(q, u) /\ u # Head(q)
<1> DEFINE r == Tail(q)
<1>1. /\ r \in Seq(Turn) /\ Len(q) \in Nat \ {0} /\ Len(r) = Len(q) - 1
      /\ \A i \in 1 .. Len(r) : r[i] = q[i + 1]
      /\ Head(q) = q[1] /\ Head(q) \in Turn
    OBVIOUS
<1> HIDE DEF r
<1>2. Holds(q, Head(q))
    BY <1>1 DEF Holds
<1>3. Distinct(r)
  <2> SUFFICES ASSUME NEW i \in 1 .. Len(r), NEW j \in 1 .. Len(r), r[i] = r[j]
               PROVE  i = j
      BY DEF Distinct
  <2>1. i + 1 \in 1 .. Len(q) /\ j + 1 \in 1 .. Len(q) /\ q[i + 1] = q[j + 1]
      BY <1>1
  <2>2. i + 1 = j + 1
      BY <2>1 DEF Distinct
  <2>3. QED
      BY <2>2, <1>1
<1>4. ASSUME NEW u \in Turn PROVE Holds(r, u) <=> Holds(q, u) /\ u # Head(q)
  <2>1. ASSUME NEW i \in 1 .. Len(r), r[i] = u PROVE Holds(q, u) /\ u # Head(q)
    <3>1. i + 1 \in 1 .. Len(q) /\ q[i + 1] = u /\ i + 1 # 1 /\ 1 \in 1 .. Len(q)
        BY <1>1, <2>1
    <3>2. QED
        BY <1>1, <3>1 DEF Holds, Distinct
  <2>2. ASSUME NEW i \in 1 .. Len(q), q[i] = u, u # Head(q) PROVE Holds(r, u)
    <3>1. i - 1 \in 1 .. Len(r) /\ r[i - 1] = q[(i - 1) + 1] /\ (i - 1) + 1 = i
        BY <1>1, <2>2
    <3>2. QED
        BY <2>2, <3>1 DEF Holds
  <2>3. QED
      BY <2>1, <2>2 DEF Holds
<1>5. QED
    BY <1>1, <1>2, <1>3, <1>4 DEF r

\* What deque.remove leaves at each position: q without its position p.
Closed(q, r, p) ==
    /\ Len(r) = Len(q) - 1
    /\ \A i \in 1 .. Len(r) : r[i] = IF i < p THEN q[i] ELSE q[i + 1]

\* Taking the first t out of a queue closes the gap it leaves.
LEMMA WithoutAt ==
    ASSUME NEW q \in Seq(Turn), NEW t \in Turn, Distinct(q), Holds(q, t)
    PROVE  /\ Without(q, t) \in Seq(Turn)
           /\ \E p \in 1 .. Len(q) : q[p] = t /\ Closed(q, Without(q, t), p)
<1> DEFINE First(i) == q[i] = t /\ \A k \in 1 .. i - 1 : q[k] # t
           p == CHOOSE i \in 1 .. Len(q) : First(i)
           r == [i \in 1 .. Len(q) - 1 |-> IF i < p THEN q[i] ELSE q[i + 1]]
<1>1. PICK x \in 1 .. Len(q) : q[x] = t
    BY DEF Holds
<1>2. First(x)
  <2>1. ASSUME NEW k \in 1 .. x - 1 PROVE q[k] # t
    <3>1. k \in 1 .. Len(q) /\ k # x
        BY <1>1
    <3>2. QED
        BY <1>1, <3>1 DEF Distinct
  <2>2. QED
      BY <1>1, <2>1
<1>3. p \in 1 .. Len(q) /\ First(p)
    BY <1>2
<1>4. Without(q, t) = r
    BY DEF Without, Holds
<1>5. q[p] = t /\ p \in 1 .. Len(q) /\ Len(q) \in Nat
    BY <1>3
<1> HIDE DEF p
<1>6. r \in Seq(Turn) /\ Closed(q, r, p)
  <2>1. Len(q) - 1 \in Nat
      BY <1>5
  <2>2. \A i \in 1 .. Len(q) - 1 : r[i] \in Turn
      BY <1>5
  <2>3. r \in [1 .. Len(q) - 1 -> Turn]
      BY <2>2
  <2>4. QED
      BY <2>1, <2>3 DEF Closed
<1>7. QED
    BY <1>4, <1>5, <1>6

\* Every entry left behind comes from a position other than p, in the order of
\* the positions, and every other position is left behind.
LEMMA ClosedFrom ==
    ASSUME NEW q \in Seq(Turn), NEW r \in Seq(Turn), NEW p \in 1 .. Len(q), Closed(q, r, p)
    PROVE  /\ \A i \in 1 .. Len(r) : \E k \in 1 .. Len(q) :
                  k = (IF i < p THEN i ELSE i + 1) /\ r[i] = q[k] /\ k # p
           /\ \A k \in 1 .. Len(q) : k # p => \E i \in 1 .. Len(r) : r[i] = q[k]
<1>1. /\ Len(q) \in Nat /\ Len(r) = Len(q) - 1 /\ p \in Nat
      /\ \A i \in 1 .. Len(r) : r[i] = IF i < p THEN q[i] ELSE q[i + 1]
    BY DEF Closed
<1>2. ASSUME NEW k \in 1 .. Len(q), k # p
      PROVE  \E i \in 1 .. Len(r) : r[i] = q[k]
  <2>1. CASE k < p
    <3>1. k \in 1 .. Len(r)
        BY <1>1, <2>1
    <3>2. QED
        BY <1>1, <2>1, <3>1
  <2>2. CASE k > p
    <3>1. k - 1 \in 1 .. Len(r) /\ ~(k - 1 < p) /\ (k - 1) + 1 = k
        BY <1>1, <2>2
    <3>2. QED
        BY <1>1, <3>1
  <2>3. k < p \/ k > p
    <3>1. k \in Int /\ p \in Int
        BY <1>1
    <3>2. QED
        BY <1>2, <3>1
  <2>4. QED
      BY <2>1, <2>2, <2>3
<1>3. ASSUME NEW i \in 1 .. Len(r)
      PROVE  \E k \in 1 .. Len(q) : k = (IF i < p THEN i ELSE i + 1) /\ r[i] = q[k] /\ k # p
  <2>1. CASE i < p
      BY <1>1, <2>1
  <2>2. CASE ~(i < p)
    <3>1. i + 1 \in 1 .. Len(q) /\ i + 1 # p
        BY <1>1, <2>2
    <3>2. QED
        BY <1>1, <2>2, <3>1
  <2>3. QED
      BY <2>1, <2>2
<1>4. QED
    BY <1>2, <1>3

\* Leaving from wherever one is.
LEMMA WithoutQueue ==
    ASSUME NEW q \in Seq(Turn), NEW t \in Turn, Distinct(q)
    PROVE  /\ Without(q, t) \in Seq(Turn) /\ Distinct(Without(q, t))
           /\ \A u \in Turn : Holds(Without(q, t), u) <=> Holds(q, u) /\ u # t
<1>1. CASE ~Holds(q, t)
  <2>1. Without(q, t) = q
      BY <1>1 DEF Without, Holds
  <2>2. QED
      BY <1>1, <2>1 DEF Holds
<1>2. CASE Holds(q, t)
  <2> DEFINE r == Without(q, t)
  <2>1. r \in Seq(Turn) /\ \E p \in 1 .. Len(q) : q[p] = t /\ Closed(q, r, p)
      BY <1>2, WithoutAt
  <2> HIDE DEF r
  <2>2. PICK p \in 1 .. Len(q) : q[p] = t /\ Closed(q, r, p)
      BY <2>1
  <2>3. /\ \A i \in 1 .. Len(r) : \E k \in 1 .. Len(q) :
                  k = (IF i < p THEN i ELSE i + 1) /\ r[i] = q[k] /\ k # p
        /\ \A k \in 1 .. Len(q) : k # p => \E i \in 1 .. Len(r) : r[i] = q[k]
      BY <2>1, <2>2, ClosedFrom
  <2>4. Distinct(r)
    <3> SUFFICES ASSUME NEW i \in 1 .. Len(r), NEW j \in 1 .. Len(r), r[i] = r[j]
                 PROVE  i = j
        BY DEF Distinct
    <3>1. PICK k \in 1 .. Len(q) : k = (IF i < p THEN i ELSE i + 1) /\ r[i] = q[k]
        BY <2>3
    <3>2. PICK m \in 1 .. Len(q) : m = (IF j < p THEN j ELSE j + 1) /\ r[j] = q[m]
        BY <2>3
    <3>3. k = m
        BY <3>1, <3>2 DEF Distinct
    <3>4. i \in Int /\ j \in Int /\ p \in Int
        OBVIOUS
    <3>5. QED
        BY <3>1, <3>2, <3>3, <3>4
  <2>5. ASSUME NEW u \in Turn PROVE Holds(r, u) <=> Holds(q, u) /\ u # t
    <3>1. ASSUME NEW i \in 1 .. Len(r), r[i] = u PROVE Holds(q, u) /\ u # t
      <4>1. PICK k \in 1 .. Len(q) : r[i] = q[k] /\ k # p
          BY <2>3
      <4>2. QED
          BY <2>2, <3>1, <4>1 DEF Holds, Distinct
    <3>2. ASSUME NEW k \in 1 .. Len(q), q[k] = u, u # t PROVE Holds(r, u)
        BY <2>2, <2>3, <3>2 DEF Holds
    <3>3. QED
        BY <3>1, <3>2 DEF Holds
  <2>6. QED
      BY <2>1, <2>4, <2>5 DEF r
<1>3. QED
    BY <1>1, <1>2

-----------------------------------------------------------------------------
(***************************************************************************)
(* The inductive invariant.  LaneExclusion needs the queues to hold nobody *)
(* but waiters, and the waiters' lanes to be known; CounterExact needs the *)
(* agents that run to be known, since the history is kept for those only.  *)
(***************************************************************************)
LanesKnown == \A t \in Turn : phase[t] # "idle" => lane[t] \in Lanes
RanKnown == \A t \in Running : ran[t] \in Agent
SemQueue ==
    /\ Distinct(semQ)
    /\ \A t \in Turn : Holds(semQ, t) <=> phase[t] = "sem"
LockQueues ==
    \A l \in Lanes :
        /\ Distinct(lockQ[l])
        /\ \A t \in Turn : Holds(lockQ[l], t) <=> phase[t] = "lock" /\ lane[t] = l

Inv == /\ TypeOK /\ LanesKnown /\ RanKnown /\ SemQueue /\ LockQueues
       /\ LaneExclusion /\ CounterExact

\* The agent _resolve_agent_id returns is an agent or None.
LEMMA ResolvedType ==
    ASSUME NEW t \in Turn, TypeOK
    PROVE  ResolveAgentId(t) \in Agent \cup {NoAgent}
BY DispatchConstants DEF ResolveAgentId, TypeOK

\* The lane a call picks on arrival is one of the registry's lanes.
LEMMA LaneType ==
    ASSUME NEW t \in Turn, TypeOK
    PROVE  LaneFor(t) \in Lanes
BY ResolvedType, DispatchConstants DEF LaneFor, Lanes

\* Adding a running turn, or removing one, moves the count by one.
LEMMA RunningCount ==
    ASSUME NEW t \in Turn
    PROVE  /\ IsFiniteSet(Running) /\ Cardinality(Running) \in Nat
           /\ t \notin Running => Cardinality(Running \cup {t}) = Cardinality(Running) + 1
           /\ t \in Running => Cardinality(Running \ {t}) = Cardinality(Running) - 1
           /\ t \in Running => Cardinality(Running) > 0
<1>1. Running \subseteq Turn /\ IsFiniteSet(Turn)
    BY DispatchConstants DEF Running
<1>2. IsFiniteSet(Running) /\ Cardinality(Running) \in Nat
    BY <1>1, FS_Subset, FS_CardinalityType
<1>3. t \notin Running => Cardinality(Running \cup {t}) = Cardinality(Running) + 1
    BY <1>2, FS_AddElement
<1>4. t \in Running => Cardinality(Running \ {t}) = Cardinality(Running) - 1
    BY <1>2, FS_RemoveElement
<1>5. t \in Running => Cardinality(Running) > 0
    BY <1>2, FS_EmptySet
<1>6. QED
    BY <1>2, <1>3, <1>4, <1>5

\* A call that goes from one phase to another enters or leaves Running alone.
LEMMA PhaseStep ==
    ASSUME TypeOK, NEW t \in Turn,
           NEW x \in {"idle", "sem", "lock", "running"} \cup Ended,
           phase' = [phase EXCEPT ![t] = x]
    PROVE  /\ phase' \in [Turn -> {"idle", "sem", "lock", "running"} \cup Ended]
           /\ phase'[t] = x
           /\ \A u \in Turn : u # t => phase'[u] = phase[u]
           /\ Running' = IF x = "running" THEN Running \cup {t} ELSE Running \ {t}
<1>1. phase \in [Turn -> {"idle", "sem", "lock", "running"} \cup Ended]
    BY DEF TypeOK
<1>2. \A u \in Turn : phase'[u] = IF u = t THEN x ELSE phase[u]
    BY <1>1
<1>3. phase' \in [Turn -> {"idle", "sem", "lock", "running"} \cup Ended]
    BY <1>1
<1>4. Running' = { u \in Turn : phase'[u] = "running" }
    BY DEF Running
<1>5. Running' = IF x = "running" THEN Running \cup {t} ELSE Running \ {t}
    BY <1>2, <1>4 DEF Running
<1>6. QED
    BY <1>2, <1>3, <1>5

\* The body under the lock starts the turn or drops it; the counter follows.
LEMMA LockedBody ==
    ASSUME TypeOK, RanKnown, CounterExact, NEW t \in Turn, t \notin Running,
           DispatchLocked(t)
    PROVE  /\ phase' = [phase EXCEPT ![t] = "dropped"]
                 \/ phase' = [phase EXCEPT ![t] = "running"]
           /\ ran' \in [Turn -> Agent \cup {NoAgent}]
           /\ inFlight' \in Nat
           /\ history' \in [Agent \X Session -> Seq(Turn \X {"in", "out"})]
           /\ RanKnown' /\ CounterExact'
<1> DEFINE a == ResolveAgentId(t)
<1>1. CASE /\ phase' = [phase EXCEPT ![t] = "dropped"]
           /\ UNCHANGED << ran, inFlight, history >>
  <2>1. Running' = Running \ {t}
      BY <1>1, PhaseStep DEF Ended
  <2>2. Running' = Running
      BY <2>1
  <2>3. RanKnown' /\ CounterExact'
      BY <1>1, <2>2 DEF RanKnown, CounterExact
  <2>4. QED
      BY <1>1, <2>3 DEF TypeOK
<1>2. CASE /\ a # NoAgent /\ a \in agents
           /\ phase' = [phase EXCEPT ![t] = "running"]
           /\ ran' = [ran EXCEPT ![t] = a]
           /\ inFlight' = inFlight + 1
           /\ history' = [history EXCEPT ![<< a, SessionOf[t] >>] = Append(@, In(t))]
  <2>1. a \in Agent /\ SessionOf[t] \in Session
      BY <1>2, DispatchConstants DEF TypeOK
  <2> HIDE DEF a
  <2>2. ran' \in [Turn -> Agent \cup {NoAgent}] /\ ran'[t] = a
        /\ \A u \in Turn : u # t => ran'[u] = ran[u]
      BY <1>2, <2>1 DEF TypeOK
  <2>3. Running' = Running \cup {t}
      BY <1>2, PhaseStep
  <2>4. RanKnown'
      BY <2>1, <2>2, <2>3 DEF RanKnown, Running
  <2>5. CounterExact' /\ inFlight' \in Nat
    <3>1. Cardinality(Running \cup {t}) = Cardinality(Running) + 1
        BY RunningCount
    <3>2. Cardinality(Running)' = Cardinality(Running \cup {t})
        BY <2>3
    <3>3. inFlight = Cardinality(Running) /\ inFlight \in Nat
        BY DEF CounterExact, TypeOK
    <3>4. inFlight' = Cardinality(Running)'
        BY <1>2, <3>1, <3>2, <3>3
    <3>5. QED
        BY <1>2, <3>3, <3>4 DEF CounterExact
  <2>6. history' \in [Agent \X Session -> Seq(Turn \X {"in", "out"})]
    <3>1. In(t) \in Turn \X {"in", "out"}
        BY DEF In
    <3>2. << a, SessionOf[t] >> \in Agent \X Session
        BY <2>1
    <3>3. QED
        BY <1>2, <3>1, <3>2 DEF TypeOK
  <2>7. QED
      BY <1>2, <2>2, <2>4, <2>5, <2>6
<1>3. QED
    BY <1>1, <1>2 DEF DispatchLocked

\* What taking or joining a lane's lock leaves for the caller to combine.
AfterLock(t, l) ==
    /\ \/ phase' = [phase EXCEPT ![t] = "dropped"]
       \/ phase' = [phase EXCEPT ![t] = "running"]
       \/ phase' = [phase EXCEPT ![t] = "lock"]
    /\ ran' \in [Turn -> Agent \cup {NoAgent}]
    /\ inFlight' \in Nat
    /\ history' \in [Agent \X Session -> Seq(Turn \X {"in", "out"})]
    /\ lockQ' \in [Lanes -> Seq(Turn)]
    /\ queuedAt' \in [Lanes -> BOOLEAN]
    /\ RanKnown' /\ CounterExact' /\ LaneExclusion' /\ LockQueues'

\* Nobody else runs on a lane whose lock was free.
LEMMA ExclusionKept ==
    ASSUME TypeOK, LaneExclusion, NEW t \in Turn, NEW l \in Lanes,
           NEW x \in {"sem", "lock", "running"} \cup Ended,
           phase' = [phase EXCEPT ![t] = x],
           lane' = [lane EXCEPT ![t] = l],
           x = "running" => ~Locked(l)
    PROVE  LaneExclusion'
<1>1. Running' = IF x = "running" THEN Running \cup {t} ELSE Running \ {t}
    BY PhaseStep
<1>2. lane'[t] = l /\ \A u \in Turn : u # t => lane'[u] = lane[u]
    BY DEF TypeOK
<1>3. \A u \in Running : u \in Turn
    BY DEF Running
<1>4. x = "running" => \A u \in Running : lane[u] # l
    BY DEF Locked
<1>5. QED
    BY <1>1, <1>2, <1>3, <1>4 DEF LaneExclusion

\* Joining the lock's queue, or taking the free lock, from outside the queues.
LEMMA LockStep ==
    ASSUME Inv, NEW t \in Turn, phase[t] \in {"idle", "sem"}, NEW l \in Lanes,
           NEW q \in BOOLEAN, lane' = [lane EXCEPT ![t] = l], AcquireLock(t, l, q)
    PROVE  AfterLock(t, l)
<1> USE DEF Inv
<1>1. t \notin Running /\ phase[t] # "lock"
    BY DEF Running
<1>2. lane'[t] = l /\ \A u \in Turn : u # t => lane'[u] = lane[u]
    BY DEF TypeOK
<1>3. \A m \in Lanes : ~Holds(lockQ[m], t)
    BY <1>1 DEF LockQueues
<1>4. CASE /\ ~Locked(l)
           /\ DispatchLocked(t)
           /\ queuedAt' = [queuedAt EXCEPT ![l] = FALSE]
           /\ UNCHANGED lockQ
  <2>1. /\ phase' = [phase EXCEPT ![t] = "dropped"]
                 \/ phase' = [phase EXCEPT ![t] = "running"]
        /\ ran' \in [Turn -> Agent \cup {NoAgent}]
        /\ inFlight' \in Nat
        /\ history' \in [Agent \X Session -> Seq(Turn \X {"in", "out"})]
        /\ RanKnown' /\ CounterExact'
      BY <1>1, <1>4, LockedBody
  <2>2. PICK x \in {"dropped", "running"} : phase' = [phase EXCEPT ![t] = x]
      BY <2>1
  <2>3. phase'[t] = x /\ \A u \in Turn : u # t => phase'[u] = phase[u]
      BY <2>2, PhaseStep DEF Ended
  <2>4. LaneExclusion'
      BY <1>4, <2>2, ExclusionKept DEF Ended
  <2>5. LockQueues'
    <3> SUFFICES ASSUME NEW m \in Lanes
                 PROVE  /\ Distinct(lockQ[m])
                        /\ \A u \in Turn :
                              Holds(lockQ[m], u) <=> phase'[u] = "lock" /\ lane'[u] = m
        BY <1>4 DEF LockQueues, Distinct, Holds
    <3>1. QED
        BY <1>2, <1>3, <2>3 DEF LockQueues
  <2>6. lockQ' \in [Lanes -> Seq(Turn)] /\ queuedAt' \in [Lanes -> BOOLEAN]
      BY <1>4 DEF TypeOK
  <2>7. QED
      BY <2>1, <2>4, <2>5, <2>6 DEF AfterLock
<1>5. CASE /\ phase' = [phase EXCEPT ![t] = "lock"]
           /\ lockQ' = [lockQ EXCEPT ![l] = Append(@, t)]
           /\ queuedAt' = [queuedAt EXCEPT ![l] = q]
           /\ UNCHANGED << ran, inFlight, history >>
  <2>1. /\ phase'[t] = "lock" /\ \A u \in Turn : u # t => phase'[u] = phase[u]
        /\ Running' = Running
    <3>1. /\ phase'[t] = "lock" /\ \A u \in Turn : u # t => phase'[u] = phase[u]
          /\ Running' = Running \ {t}
        BY <1>5, PhaseStep
    <3>2. QED
        BY <1>1, <3>1
  <2>2. LaneExclusion'
      BY <1>5, ExclusionKept
  <2>3. RanKnown' /\ CounterExact'
      BY <1>5, <2>1 DEF RanKnown, CounterExact
  <2>4. /\ Append(lockQ[l], t) \in Seq(Turn) /\ Distinct(Append(lockQ[l], t))
        /\ \A u \in Turn : Holds(Append(lockQ[l], t), u) <=> Holds(lockQ[l], u) \/ u = t
    <3>1. lockQ[l] \in Seq(Turn) /\ Distinct(lockQ[l])
        BY DEF TypeOK, LockQueues
    <3>2. QED
        BY <1>3, <3>1, AppendQueue
  <2>5. /\ lockQ' \in [Lanes -> Seq(Turn)]
        /\ \A m \in Lanes : lockQ'[m] = IF m = l THEN Append(lockQ[l], t) ELSE lockQ[m]
      BY <1>5, <2>4 DEF TypeOK
  <2>6. LockQueues'
    <3> SUFFICES ASSUME NEW m \in Lanes
                 PROVE  /\ Distinct(lockQ'[m])
                        /\ \A u \in Turn :
                              Holds(lockQ'[m], u) <=> phase'[u] = "lock" /\ lane'[u] = m
        BY DEF LockQueues, Distinct, Holds
    <3>1. CASE m = l
      <4>1. lockQ'[m] = Append(lockQ[l], t)
          BY <2>5, <3>1
      <4>2. \A u \in Turn : Holds(lockQ[l], u) <=> phase[u] = "lock" /\ lane[u] = l
          BY DEF LockQueues
      <4>3. \A u \in Turn : phase'[u] = "lock" /\ lane'[u] = m
                                <=> Holds(lockQ[l], u) \/ u = t
          BY <1>2, <2>1, <3>1, <4>2
      <4>4. QED
          BY <2>4, <4>1, <4>3
    <3>2. CASE m # l
      <4>1. lockQ'[m] = lockQ[m]
          BY <2>5, <3>2
      <4>2. /\ Distinct(lockQ[m])
            /\ \A u \in Turn : Holds(lockQ[m], u) <=> phase[u] = "lock" /\ lane[u] = m
          BY DEF LockQueues
      <4>3. \A u \in Turn : phase'[u] = "lock" /\ lane'[u] = m <=> Holds(lockQ[m], u)
          BY <1>2, <1>3, <2>1, <3>2, <4>2
      <4>4. QED
          BY <4>1, <4>2, <4>3
    <3>3. QED
        BY <3>1, <3>2
  <2>7. queuedAt' \in [Lanes -> BOOLEAN]
      BY <1>5 DEF TypeOK
  <2>8. QED
      BY <1>5, <2>2, <2>3, <2>5, <2>6, <2>7 DEF AfterLock, TypeOK
<1>6. QED
    BY <1>4, <1>5 DEF AcquireLock

\* The semaphore's queue is untouched by a step between other phases.
LEMMA SemKept ==
    ASSUME TypeOK, SemQueue, NEW t \in Turn, phase[t] # "sem", semQ' = semQ,
           \A u \in Turn : u # t => phase'[u] = phase[u], phase'[t] # "sem"
    PROVE  SemQueue'
<1>1. Distinct(semQ) /\ \A u \in Turn : Holds(semQ, u) <=> phase'[u] = "sem"
    BY DEF SemQueue
<1>2. QED
    BY <1>1 DEF SemQueue, Distinct, Holds

\* ... and a step from or to "sem" changes it by that one waiter.
LEMMA SemMoved ==
    ASSUME NEW t \in Turn, SemQueue, \A u \in Turn : u # t => phase'[u] = phase[u],
           Distinct(semQ'),
           \/ phase'[t] = "sem" /\ \A u \in Turn : Holds(semQ', u) <=> Holds(semQ, u) \/ u = t
           \/ phase'[t] # "sem" /\ \A u \in Turn : Holds(semQ', u) <=> Holds(semQ, u) /\ u # t
    PROVE  SemQueue'
<1>1. \A u \in Turn : Holds(semQ, u) <=> phase[u] = "sem"
    BY DEF SemQueue
<1>2. \A u \in Turn : Holds(semQ', u) <=> phase'[u] = "sem"
    BY <1>1
<1>3. QED
    BY <1>2 DEF SemQueue, Distinct, Holds

\* A waiter that leaves a lane's queue and its phase leaves the others alone.
LEMMA QueueLeft ==
    ASSUME TypeOK, LockQueues, NEW t \in Turn, lane[t] \in Lanes, NEW r,
           lane' = [lane EXCEPT ![t] = lane[t]],
           phase'[t] # "lock", \A u \in Turn : u # t => phase'[u] = phase[u],
           Distinct(r), \A u \in Turn : Holds(r, u) <=> Holds(lockQ[lane[t]], u) /\ u # t,
           \A m \in Lanes : lockQ'[m] = IF m = lane[t] THEN r ELSE lockQ[m]
    PROVE  LockQueues'
<1>1. \A u \in Turn : lane'[u] = lane[u]
    BY DEF TypeOK
<1> SUFFICES ASSUME NEW m \in Lanes
             PROVE  /\ Distinct(lockQ'[m])
                    /\ \A u \in Turn :
                          Holds(lockQ'[m], u) <=> phase'[u] = "lock" /\ lane'[u] = m
    BY DEF LockQueues, Distinct, Holds
<1>2. /\ Distinct(lockQ[m])
      /\ \A u \in Turn : Holds(lockQ[m], u) <=> phase[u] = "lock" /\ lane[u] = m
    BY DEF LockQueues
<1>3. CASE m = lane[t]
  <2>1. lockQ'[m] = r
      BY <1>3
  <2>2. \A u \in Turn : Holds(r, u) <=> phase'[u] = "lock" /\ lane'[u] = m
      BY <1>1, <1>2, <1>3
  <2>3. QED
      BY <2>1, <2>2
<1>4. CASE m # lane[t]
  <2>1. lockQ'[m] = lockQ[m]
      BY <1>4
  <2>2. \A u \in Turn : Holds(lockQ[m], u) <=> phase'[u] = "lock" /\ lane'[u] = m
      BY <1>1, <1>2, <1>4
  <2>3. QED
      BY <1>2, <2>1, <2>2
<1>5. QED
    BY <1>3, <1>4

\* A step that gives t a phase and a known lane keeps every lane known.
LEMMA LanesKept ==
    ASSUME LanesKnown, TypeOK, NEW t \in Turn, NEW l \in Lanes,
           lane' = [lane EXCEPT ![t] = l],
           \A u \in Turn : u # t => phase'[u] = phase[u]
    PROVE  LanesKnown' /\ lane' \in [Turn -> Lanes \cup {NoLane}]
BY DEF LanesKnown, TypeOK

\* dispatch_with_outcome keeps the invariant.
LEMMA ArriveInv ==
    ASSUME Inv, NEW t \in Turn, Arrive(t)
    PROVE  Inv'
<1> USE DEF Inv
<1> DEFINE l == LaneFor(t)
           q == queuedAt[l] \/ Locked(l)
<1>1. l \in Lanes /\ q \in BOOLEAN
    BY LaneType DEF TypeOK
<1>2. phase[t] = "idle" /\ lane' = [lane EXCEPT ![t] = l]
    BY DEF Arrive
<1>3. /\ agents' \in SUBSET Agent /\ changes' \in 0 .. MaxRegistryChanges
      /\ arrived' \in Seq(Turn)
    BY DEF Arrive, TypeOK
<1>4. pending' \in [Lanes -> Nat]
    BY <1>1 DEF Arrive, StageMessage, TypeOK
<1>5. CASE AcquireLock(t, l, q) /\ UNCHANGED semQ
  <2>1. AfterLock(t, l)
      BY <1>1, <1>2, <1>5, LockStep
  <2>2. PICK x \in {"dropped", "running", "lock"} : phase' = [phase EXCEPT ![t] = x]
      BY <2>1 DEF AfterLock
  <2>3. /\ phase' \in [Turn -> {"idle", "sem", "lock", "running"} \cup Ended]
        /\ phase'[t] = x /\ \A u \in Turn : u # t => phase'[u] = phase[u]
      BY <2>2, PhaseStep DEF Ended
  <2>4. SemQueue'
      BY <1>2, <1>5, <2>3, SemKept
  <2>5. LanesKnown' /\ lane' \in [Turn -> Lanes \cup {NoLane}]
      BY <1>1, <1>2, <2>3, LanesKept
  <2>6. TypeOK'
      BY <1>3, <1>4, <1>5, <2>1, <2>3, <2>5 DEF AfterLock, TypeOK, Ended
  <2>7. QED
      BY <2>1, <2>4, <2>5, <2>6 DEF AfterLock
<1>6. CASE /\ phase' = [phase EXCEPT ![t] = "sem"]
           /\ semQ' = Append(semQ, t)
           /\ queuedAt' = [queuedAt EXCEPT ![l] = q]
           /\ UNCHANGED << ran, inFlight, history, lockQ >>
  <2>1. /\ phase' \in [Turn -> {"idle", "sem", "lock", "running"} \cup Ended]
        /\ phase'[t] = "sem" /\ \A u \in Turn : u # t => phase'[u] = phase[u]
        /\ Running' = Running \ {t}
      BY <1>6, PhaseStep
  <2>2. Running' = Running
      BY <1>2, <2>1 DEF Running
  <2>3. RanKnown' /\ CounterExact'
      BY <1>6, <2>2 DEF RanKnown, CounterExact
  <2>4. LaneExclusion'
      BY <1>1, <1>2, <1>6, ExclusionKept
  <2>5. LanesKnown' /\ lane' \in [Turn -> Lanes \cup {NoLane}]
      BY <1>1, <1>2, <2>1, LanesKept
  <2>6. semQ' \in Seq(Turn) /\ SemQueue'
    <3>1. semQ \in Seq(Turn) /\ Distinct(semQ) /\ ~Holds(semQ, t)
        BY <1>2 DEF TypeOK, SemQueue
    <3>2. /\ semQ' \in Seq(Turn) /\ Distinct(semQ')
          /\ \A u \in Turn : Holds(semQ', u) <=> Holds(semQ, u) \/ u = t
        BY <1>6, <3>1, AppendQueue
    <3>3. QED
        BY <2>1, <3>2, SemMoved
  <2>7. LockQueues'
    <3>1. \A u \in Turn, m \in Lanes :
              phase'[u] = "lock" /\ lane'[u] = m <=> phase[u] = "lock" /\ lane[u] = m
        BY <1>2, <2>1 DEF TypeOK
    <3>2. \A m \in Lanes :
              /\ Distinct(lockQ[m])
              /\ \A u \in Turn : Holds(lockQ[m], u) <=> phase'[u] = "lock" /\ lane'[u] = m
        BY <3>1 DEF LockQueues
    <3>3. QED
        BY <1>6, <3>2 DEF LockQueues, Distinct, Holds
  <2>8. TypeOK'
    <3>1. queuedAt' \in [Lanes -> BOOLEAN]
        BY <1>1, <1>6 DEF TypeOK
    <3>2. QED
        BY <1>3, <1>4, <1>6, <2>1, <2>5, <2>6, <3>1 DEF TypeOK, Ended
  <2>9. QED
      BY <2>3, <2>4, <2>5, <2>6, <2>7, <2>8
<1>7. QED
    BY <1>5, <1>6 DEF Arrive

\* A semaphore waiter that resumes keeps the invariant.
LEMMA GrantSemInv ==
    ASSUME Inv, NEW t \in Turn, GrantSem(t)
    PROVE  Inv'
<1> USE DEF Inv
<1>1. semQ \in Seq(Turn) /\ semQ # <<>> /\ t = Head(semQ) /\ Distinct(semQ)
    BY DEF GrantSem, TypeOK, SemQueue
<1>2. /\ Holds(semQ, t)
      /\ Tail(semQ) \in Seq(Turn) /\ Distinct(Tail(semQ))
      /\ \A u \in Turn : Holds(Tail(semQ), u) <=> Holds(semQ, u) /\ u # t
    BY <1>1, TailQueue
<1>3. phase[t] = "sem" /\ lane[t] \in Lanes
    BY <1>2 DEF SemQueue, LanesKnown
<1>4. lane' = [lane EXCEPT ![t] = lane[t]] /\ queuedAt[lane[t]] \in BOOLEAN
    BY <1>3 DEF GrantSem, TypeOK
<1>5. AfterLock(t, lane[t])
  <2>1. AcquireLock(t, lane[t], queuedAt[lane[t]])
      BY DEF GrantSem
  <2>2. QED
      BY <1>3, <1>4, <2>1, LockStep
<1>6. PICK x \in {"dropped", "running", "lock"} : phase' = [phase EXCEPT ![t] = x]
    BY <1>5 DEF AfterLock
<1>7. /\ phase' \in [Turn -> {"idle", "sem", "lock", "running"} \cup Ended]
      /\ phase'[t] = x /\ \A u \in Turn : u # t => phase'[u] = phase[u]
    BY <1>6, PhaseStep DEF Ended
<1>8. SemQueue' /\ semQ' \in Seq(Turn)
  <2>1. semQ' = Tail(semQ)
      BY DEF GrantSem
  <2>2. Distinct(semQ') /\ \A u \in Turn : Holds(semQ', u) <=> Holds(semQ, u) /\ u # t
      BY <1>2, <2>1
  <2>3. phase'[t] # "sem"
      BY <1>7
  <2>4. QED
      BY <1>2, <1>7, <2>1, <2>2, <2>3, SemMoved
<1>9. LanesKnown' /\ lane' \in [Turn -> Lanes \cup {NoLane}]
    BY <1>3, <1>4, <1>7, LanesKept
<1>10. TypeOK'
    BY <1>5, <1>7, <1>8, <1>9 DEF AfterLock, GrantSem, TypeOK, Ended
<1>11. QED
    BY <1>5, <1>8, <1>9, <1>10 DEF AfterLock

\* A lock waiter that resumes keeps the invariant.
LEMMA GrantLockInv ==
    ASSUME Inv, NEW t \in Turn, GrantLock(t)
    PROVE  Inv'
<1> USE DEF Inv
<1> DEFINE l == lane[t]
<1>1. phase[t] = "lock" /\ l \in Lanes /\ t \notin Running /\ ~Locked(l)
    BY DEF GrantLock, LanesKnown, Running
<1>2. lane' = [lane EXCEPT ![t] = l]
    BY DEF GrantLock, TypeOK
<1>3. lockQ[l] \in Seq(Turn) /\ lockQ[l] # <<>> /\ t = Head(lockQ[l]) /\ Distinct(lockQ[l])
    BY <1>1 DEF GrantLock, TypeOK, LockQueues
<1>4. /\ Tail(lockQ[l]) \in Seq(Turn) /\ Distinct(Tail(lockQ[l]))
      /\ \A u \in Turn : Holds(Tail(lockQ[l]), u) <=> Holds(lockQ[l], u) /\ u # t
    BY <1>3, TailQueue
<1>5. /\ phase' = [phase EXCEPT ![t] = "dropped"]
            \/ phase' = [phase EXCEPT ![t] = "running"]
      /\ ran' \in [Turn -> Agent \cup {NoAgent}]
      /\ inFlight' \in Nat
      /\ history' \in [Agent \X Session -> Seq(Turn \X {"in", "out"})]
      /\ RanKnown' /\ CounterExact'
  <2>1. DispatchLocked(t)
      BY DEF GrantLock
  <2>2. QED
      BY <1>1, <2>1, LockedBody
<1>6. PICK x \in {"dropped", "running"} : phase' = [phase EXCEPT ![t] = x]
    BY <1>5
<1>7. /\ phase' \in [Turn -> {"idle", "sem", "lock", "running"} \cup Ended]
      /\ phase'[t] = x /\ \A u \in Turn : u # t => phase'[u] = phase[u]
    BY <1>6, PhaseStep DEF Ended
<1>8. LaneExclusion'
    BY <1>1, <1>2, <1>6, ExclusionKept DEF Ended
<1>9. LanesKnown' /\ lane' \in [Turn -> Lanes \cup {NoLane}]
    BY <1>1, <1>2, <1>7, LanesKept
<1>10. SemQueue'
  <2>1. semQ' = semQ
      BY DEF GrantLock
  <2>2. QED
      BY <1>1, <1>7, <2>1, SemKept
<1>11. /\ lockQ' \in [Lanes -> Seq(Turn)]
       /\ \A m \in Lanes : lockQ'[m] = IF m = l THEN Tail(lockQ[l]) ELSE lockQ[m]
    BY <1>1, <1>4 DEF GrantLock, TypeOK
<1>12. LockQueues'
    BY <1>1, <1>2, <1>4, <1>7, <1>11, QueueLeft
<1>13. queuedAt' \in [Lanes -> BOOLEAN]
    BY <1>1 DEF GrantLock, TypeOK
<1>14. TypeOK'
    BY <1>5, <1>7, <1>9, <1>11, <1>13 DEF GrantLock, TypeOK, Ended
<1>15. QED
    BY <1>5, <1>8, <1>9, <1>10, <1>12, <1>14

\* A call that stops running gives its count back, and nobody else's.
LEMMA StopCounts ==
    ASSUME TypeOK, RanKnown, CounterExact, NEW t \in Turn, NEW x \in Ended,
           phase' = [phase EXCEPT ![t] = x], ran' = ran,
           inFlight' = IF t \in Running THEN inFlight - 1 ELSE inFlight
    PROVE  RanKnown' /\ CounterExact' /\ inFlight' \in Nat
<1>1. Running' = Running \ {t}
    BY PhaseStep DEF Ended
<1>2. RanKnown'
    BY <1>1 DEF RanKnown
<1>3. inFlight = Cardinality(Running) /\ inFlight \in Nat
    BY DEF CounterExact, TypeOK
<1>4. Cardinality(Running)' = Cardinality(Running \ {t})
    BY <1>1
<1>5. CASE t \in Running
  <2>1. Cardinality(Running \ {t}) = Cardinality(Running) - 1 /\ Cardinality(Running) > 0
      BY <1>5, RunningCount
  <2>2. QED
      BY <1>2, <1>3, <1>4, <1>5, <2>1 DEF CounterExact
<1>6. CASE t \notin Running
  <2>1. Running \ {t} = Running
      BY <1>6
  <2>2. QED
      BY <1>2, <1>3, <1>4, <1>6, <2>1 DEF CounterExact
<1>7. QED
    BY <1>5, <1>6

\* The end of a turn keeps the invariant.
LEMMA FinishInv ==
    ASSUME Inv, NEW t \in Turn, Finish(t)
    PROVE  Inv'
<1> USE DEF Inv
<1>1. /\ t \in Running /\ phase[t] = "running" /\ lane[t] \in Lanes
      /\ phase' = [phase EXCEPT ![t] = "done"]
      /\ inFlight' = inFlight - 1
      /\ UNCHANGED << agents, changes, lane, ran, arrived, semQ, lockQ, queuedAt,
                      pending, history >>
    BY DEF Finish, Running, LanesKnown
<1>2. /\ phase' \in [Turn -> {"idle", "sem", "lock", "running"} \cup Ended]
      /\ phase'[t] = "done" /\ \A u \in Turn : u # t => phase'[u] = phase[u]
    BY <1>1, PhaseStep DEF Ended
<1>3. RanKnown' /\ CounterExact' /\ inFlight' \in Nat
    BY <1>1, StopCounts DEF Ended
<1>4. lane' = [lane EXCEPT ![t] = lane[t]]
    BY <1>1 DEF TypeOK
<1>5. LaneExclusion'
    BY <1>1, <1>4, ExclusionKept DEF Ended
<1>6. LanesKnown' /\ lane' \in [Turn -> Lanes \cup {NoLane}]
    BY <1>1, <1>2, <1>4, LanesKept
<1>7. SemQueue'
    BY <1>1, <1>2, SemKept
<1>8. LockQueues'
  <2>1. \A u \in Turn : phase'[u] = "lock" <=> phase[u] = "lock"
      BY <1>1, <1>2
  <2>2. \A m \in Lanes :
            /\ Distinct(lockQ[m])
            /\ \A u \in Turn : Holds(lockQ[m], u) <=> phase'[u] = "lock" /\ lane[u] = m
      BY <2>1 DEF LockQueues
  <2>3. QED
      BY <1>1, <2>2 DEF LockQueues, Distinct, Holds
<1>9. TypeOK'
    BY <1>1, <1>2, <1>3 DEF TypeOK, Ended
<1>10. QED
    BY <1>3, <1>5, <1>6, <1>7, <1>8, <1>9

\* Cancelling a call, wherever it waits or runs, keeps the invariant.
LEMMA CancelInv ==
    ASSUME Inv, NEW t \in Turn, Cancel(t)
    PROVE  Inv'
<1> USE DEF Inv
<1> DEFINE l == lane[t]
<1>1. /\ phase[t] \in {"sem", "lock", "running"} /\ l \in Lanes
      /\ phase' = [phase EXCEPT ![t] = "cancelled"]
      /\ semQ' = Without(semQ, t)
      /\ lockQ' = [lockQ EXCEPT ![l] = Without(@, t)]
      /\ inFlight' = IF t \in Running THEN inFlight - 1 ELSE inFlight
      /\ UNCHANGED << agents, changes, lane, ran, arrived, queuedAt, pending,
                      history >>
    BY DEF Cancel, LanesKnown
<1>2. /\ phase' \in [Turn -> {"idle", "sem", "lock", "running"} \cup Ended]
      /\ phase'[t] = "cancelled" /\ \A u \in Turn : u # t => phase'[u] = phase[u]
    BY <1>1, PhaseStep DEF Ended
<1>3. RanKnown' /\ CounterExact' /\ inFlight' \in Nat
    BY <1>1, StopCounts DEF Ended
<1>4. lane' = [lane EXCEPT ![t] = l]
    BY <1>1 DEF TypeOK
<1>5. LaneExclusion'
    BY <1>1, <1>4, ExclusionKept DEF Ended
<1>6. LanesKnown' /\ lane' \in [Turn -> Lanes \cup {NoLane}]
    BY <1>1, <1>2, <1>4, LanesKept
<1>7. semQ' \in Seq(Turn) /\ SemQueue'
  <2>1. semQ \in Seq(Turn) /\ Distinct(semQ)
      BY DEF TypeOK, SemQueue
  <2>2. /\ semQ' \in Seq(Turn) /\ Distinct(semQ')
        /\ \A u \in Turn : Holds(semQ', u) <=> Holds(semQ, u) /\ u # t
      BY <1>1, <2>1, WithoutQueue
  <2>3. QED
      BY <1>2, <2>2, SemMoved
<1>8. /\ Without(lockQ[l], t) \in Seq(Turn) /\ Distinct(Without(lockQ[l], t))
      /\ \A u \in Turn : Holds(Without(lockQ[l], t), u) <=> Holds(lockQ[l], u) /\ u # t
  <2>1. lockQ[l] \in Seq(Turn) /\ Distinct(lockQ[l])
      BY <1>1 DEF TypeOK, LockQueues
  <2>2. QED
      BY <2>1, WithoutQueue
<1>9. /\ lockQ' \in [Lanes -> Seq(Turn)]
      /\ \A m \in Lanes : lockQ'[m] = IF m = l THEN Without(lockQ[l], t) ELSE lockQ[m]
    BY <1>1, <1>8 DEF TypeOK
<1>10. LockQueues'
    BY <1>1, <1>2, <1>4, <1>8, <1>9, QueueLeft
<1>11. TypeOK'
    BY <1>1, <1>2, <1>3, <1>7, <1>9 DEF TypeOK, Ended
<1>12. QED
    BY <1>3, <1>5, <1>6, <1>7, <1>10, <1>11

\* Steps that leave the calls, their lanes and the queues alone.
LEMMA BystanderInv ==
    ASSUME Inv, UNCHANGED << phase, lane, ran, semQ, lockQ, inFlight >>, TypeOK'
    PROVE  Inv'
<1> USE DEF Inv
<1>1. Running' = Running
    BY DEF Running
<1>2. RanKnown' /\ CounterExact' /\ LaneExclusion'
    BY <1>1 DEF RanKnown, CounterExact, LaneExclusion
<1>3. SemQueue' /\ LockQueues' /\ LanesKnown'
    BY DEF SemQueue, LockQueues, LanesKnown, Distinct, Holds
<1>4. QED
    BY <1>2, <1>3

\* An outbound message keeps the invariant.
LEMMA EmitInv ==
    ASSUME Inv, NEW t \in Turn, Emit(t)
    PROVE  Inv'
<1> DEFINE c == << ran[t], SessionOf[t] >>
<1>1. t \in Running /\ history' = [history EXCEPT ![c] = Append(@, Out(t))]
    BY DEF Emit
<1>2. c \in Agent \X Session /\ Out(t) \in Turn \X {"in", "out"}
    BY <1>1, DispatchConstants DEF Inv, RanKnown, Out
<1>3. history' \in [Agent \X Session -> Seq(Turn \X {"in", "out"})]
    BY <1>1, <1>2 DEF Inv, TypeOK
<1>4. TypeOK'
    BY <1>3 DEF Emit, Inv, TypeOK, Ended
<1>5. QED
    BY <1>4, BystanderInv DEF Emit

-----------------------------------------------------------------------------
\* Dispatcher and LaneRegistry keep Inv, for any number of turns and agents
\* and any routing: the invariant the theorems below are read off.
THEOREM Invariance == Spec => []Inv
<1>1. Init => Inv
  <2> SUFFICES ASSUME Init PROVE Inv
      OBVIOUS
  <2>1. \A t \in Turn : phase[t] = "idle"
      BY DEF Init
  <2>2. Running = {}
      BY <2>1 DEF Running
  <2>3. RanKnown /\ LaneExclusion /\ LanesKnown
      BY <2>1, <2>2 DEF RanKnown, LaneExclusion, LanesKnown
  <2>4. CounterExact
      BY <2>2, FS_EmptySet DEF Init, CounterExact
  <2>5. TypeOK
    <3>1. agents \in SUBSET Agent /\ changes \in 0 .. MaxRegistryChanges /\ inFlight \in Nat
        BY DispatchConstants DEF Init
    <3>2. phase \in [Turn -> {"idle", "sem", "lock", "running"} \cup Ended]
        BY DEF Init
    <3>3. lane \in [Turn -> Lanes \cup {NoLane}] /\ ran \in [Turn -> Agent \cup {NoAgent}]
        BY DEF Init
    <3>4. arrived \in Seq(Turn) /\ semQ \in Seq(Turn) /\ lockQ \in [Lanes -> Seq(Turn)]
        BY DEF Init
    <3>5. /\ queuedAt \in [Lanes -> BOOLEAN] /\ pending \in [Lanes -> Nat]
          /\ history \in [Agent \X Session -> Seq(Turn \X {"in", "out"})]
        BY DEF Init
    <3>6. QED
        BY <3>1, <3>2, <3>3, <3>4, <3>5 DEF TypeOK
  <2>6. SemQueue
      BY <2>1 DEF Init, SemQueue, Distinct, Holds
  <2>7. LockQueues
    <3>1. \A l \in Lanes : lockQ[l] = <<>>
        BY DEF Init
    <3>2. QED
        BY <2>1, <3>1 DEF LockQueues, Distinct, Holds
  <2>8. QED
      BY <2>3, <2>4, <2>5, <2>6, <2>7 DEF Inv
<1>2. Inv /\ [Next]_vars => Inv'
  <2> SUFFICES ASSUME Inv, [Next]_vars PROVE Inv'
      OBVIOUS
  <2>1. ASSUME NEW t \in Turn,
               Arrive(t) \/ GrantSem(t) \/ GrantLock(t) \/ Emit(t) \/ Finish(t) \/ Cancel(t)
        PROVE  Inv'
      BY <2>1, ArriveInv, GrantSemInv, GrantLockInv, EmitInv, FinishInv, CancelInv
  <2>2. ASSUME NEW a \in Agent, CreateAgent(a) \/ DeleteAgent(a) PROVE Inv'
    <3>1. TypeOK'
        BY <2>2, DispatchConstants DEF CreateAgent, DeleteAgent, Inv, TypeOK, Ended
    <3>2. QED
        BY <2>2, <3>1, BystanderInv DEF CreateAgent, DeleteAgent
  <2>3. CASE UNCHANGED vars
    <3>1. TypeOK'
        BY <2>3 DEF vars, Inv, TypeOK, Ended
    <3>2. QED
        BY <2>3, <3>1, BystanderInv DEF vars
  <2>4. QED
      BY <2>1, <2>2, <2>3 DEF Next
<1>3. QED
    BY <1>1, <1>2, PTL DEF Spec

\* The fields of dispatcher and lanes keep their types: the in-flight counter,
\* in particular, is never negative.
THEOREM TypeCorrect == Spec => []TypeOK
BY Invariance, PTL DEF Inv

\* LaneRegistry.run admits one turn per lane, whatever is cancelled and however
\* many permits the semaphore has.
THEOREM LanesExclude == Spec => []LaneExclusion
BY Invariance, PTL DEF Inv

\* _in_flight_count is the number of running turns.
THEOREM CounterHolds == Spec => []CounterExact
BY Invariance, PTL DEF Inv

\* A waiting call stands in exactly the queue that will wake it, and a call
\* that does not wait stands in none.
THEOREM WaitersAreQueued == Spec => []NoLostWaiter
<1>1. Inv => NoLostWaiter
  <2> SUFFICES ASSUME Inv, NEW t \in Turn
               PROVE  /\ phase[t] = "sem" <=> \E i \in DOMAIN semQ : semQ[i] = t
                      /\ \A l \in Lanes :
                            (phase[t] = "lock" /\ lane[t] = l)
                               <=> \E i \in DOMAIN lockQ[l] : lockQ[l][i] = t
      BY DEF NoLostWaiter
  <2>1. phase[t] = "sem" <=> \E i \in DOMAIN semQ : semQ[i] = t
    <3>1. DOMAIN semQ = 1 .. Len(semQ)
        BY DEF Inv, TypeOK
    <3>2. QED
        BY <3>1 DEF Inv, SemQueue, Holds
  <2>2. ASSUME NEW l \in Lanes
        PROVE  (phase[t] = "lock" /\ lane[t] = l)
                  <=> \E i \in DOMAIN lockQ[l] : lockQ[l][i] = t
    <3>1. DOMAIN lockQ[l] = 1 .. Len(lockQ[l])
        BY DEF Inv, TypeOK
    <3>2. QED
        BY <3>1 DEF Inv, LockQueues, Holds
  <2>3. QED
      BY <2>1, <2>2
<1>2. QED
    BY <1>1, Invariance, PTL

-----------------------------------------------------------------------------
(***************************************************************************)
(* One turn per conversation, as long as the registry is not changed: then *)
(* the agent resolved under the lock is the one the lane was named after.  *)
(***************************************************************************)
StableLanes ==
    changes = 0 =>
        \A t \in Turn : /\ phase[t] # "idle" => lane[t] = LaneFor(t)
                        /\ t \in Running => ran[t] = ResolveAgentId(t) /\ ran[t] # NoAgent

\* What a step of call t does to the lanes and agents of the calls.
TurnStep(t) ==
    /\ agents' = agents /\ changes' = changes
    /\ \A u \in Turn \ {t} : phase'[u] = phase[u] /\ lane'[u] = lane[u] /\ ran'[u] = ran[u]
    /\ lane'[t] = IF phase[t] = "idle" THEN LaneFor(t) ELSE lane[t]
    /\ phase'[t] = "running" =>
          \/ phase[t] = "running" /\ ran'[t] = ran[t]
          \/ ran'[t] = ResolveAgentId(t) /\ ran'[t] # NoAgent

\* The body under the lock records the agent it resolves.
LEMMA LockedAgent ==
    ASSUME TypeOK, NEW t \in Turn, DispatchLocked(t)
    PROVE  /\ \A u \in Turn \ {t} : phase'[u] = phase[u] /\ ran'[u] = ran[u]
           /\ phase'[t] = "running" => ran'[t] = ResolveAgentId(t) /\ ran'[t] # NoAgent
BY DEF DispatchLocked, TypeOK

\* So does taking or joining the lock.
LEMMA AcquiredAgent ==
    ASSUME TypeOK, NEW t \in Turn, NEW l, NEW q, AcquireLock(t, l, q)
    PROVE  /\ \A u \in Turn \ {t} : phase'[u] = phase[u] /\ ran'[u] = ran[u]
           /\ phase'[t] = "running" => ran'[t] = ResolveAgentId(t) /\ ran'[t] # NoAgent
<1>1. CASE DispatchLocked(t)
    BY <1>1, LockedAgent
<1>2. CASE phase' = [phase EXCEPT ![t] = "lock"] /\ ran' = ran
    BY <1>2 DEF TypeOK
<1>3. QED
    BY <1>1, <1>2 DEF AcquireLock

\* Every step of a call is a TurnStep of that call.
LEMMA StepsAreTurnSteps ==
    ASSUME Inv, NEW t \in Turn,
           Arrive(t) \/ GrantSem(t) \/ GrantLock(t) \/ Emit(t) \/ Finish(t) \/ Cancel(t)
    PROVE  TurnStep(t)
<1> USE DEF Inv
<1>1. CASE Arrive(t)
  <2>1. /\ agents' = agents /\ changes' = changes /\ phase[t] = "idle"
        /\ lane' = [lane EXCEPT ![t] = LaneFor(t)]
      BY <1>1 DEF Arrive
  <2>2. lane'[t] = LaneFor(t) /\ \A u \in Turn \ {t} : lane'[u] = lane[u]
      BY <2>1 DEF TypeOK
  <2>3. CASE \E q : AcquireLock(t, LaneFor(t), q)
    <3>1. PICK q : AcquireLock(t, LaneFor(t), q)
        BY <2>3
    <3>2. QED
        BY <2>1, <2>2, <3>1, AcquiredAgent DEF TurnStep
  <2>4. CASE phase' = [phase EXCEPT ![t] = "sem"] /\ ran' = ran
      BY <2>1, <2>2, <2>4 DEF TurnStep, TypeOK
  <2>5. QED
      BY <1>1, <2>3, <2>4 DEF Arrive
<1>2. CASE GrantSem(t)
  <2>1. semQ \in Seq(Turn) /\ semQ # <<>> /\ t = Head(semQ) /\ Distinct(semQ)
      BY <1>2 DEF GrantSem, TypeOK, SemQueue
  <2>2. phase[t] = "sem"
      BY <2>1, TailQueue DEF SemQueue
  <2>3. AcquireLock(t, lane[t], queuedAt[lane[t]])
      BY <1>2 DEF GrantSem
  <2>4. /\ \A u \in Turn \ {t} : phase'[u] = phase[u] /\ ran'[u] = ran[u]
        /\ phase'[t] = "running" => ran'[t] = ResolveAgentId(t) /\ ran'[t] # NoAgent
      BY <2>3, AcquiredAgent
  <2>5. QED
      BY <1>2, <2>2, <2>4 DEF GrantSem, TurnStep
<1>3. CASE GrantLock(t)
  <2>1. /\ \A u \in Turn \ {t} : phase'[u] = phase[u] /\ ran'[u] = ran[u]
        /\ phase'[t] = "running" => ran'[t] = ResolveAgentId(t) /\ ran'[t] # NoAgent
      BY <1>3, LockedAgent DEF GrantLock
  <2>2. QED
      BY <1>3, <2>1 DEF GrantLock, TurnStep
<1>4. CASE Emit(t)
    BY <1>4 DEF Emit, TurnStep, Running
<1>5. CASE Finish(t)
    BY <1>5 DEF Finish, TurnStep, Running, TypeOK
<1>6. CASE Cancel(t)
    BY <1>6 DEF Cancel, TurnStep, TypeOK
<1>7. QED
    BY <1>1, <1>2, <1>3, <1>4, <1>5, <1>6

\* While the registry is unchanged, lanes keep the names of the agents.
LEMMA StableKept ==
    Inv /\ StableLanes /\ [Next]_vars => StableLanes'
<1> SUFFICES ASSUME Inv, StableLanes, [Next]_vars, changes' = 0, NEW u \in Turn
             PROVE  /\ phase'[u] # "idle" => lane'[u] = LaneFor(u)'
                    /\ phase'[u] = "running" => /\ ran'[u] = ResolveAgentId(u)'
                                                /\ ran'[u] # NoAgent
    BY DEF StableLanes, Running
<1>1. changes \in Nat
    BY DEF Inv, TypeOK
<1>2. ASSUME agents' = agents
      PROVE  LaneFor(u)' = LaneFor(u) /\ ResolveAgentId(u)' = ResolveAgentId(u)
    BY <1>2 DEF LaneFor, ResolveAgentId
<1>3. ASSUME NEW t \in Turn, TurnStep(t)
      PROVE  /\ phase'[u] # "idle" => lane'[u] = LaneFor(u)'
             /\ phase'[u] = "running" => /\ ran'[u] = ResolveAgentId(u)'
                                         /\ ran'[u] # NoAgent
  <2>1. changes = 0 /\ LaneFor(u)' = LaneFor(u) /\ ResolveAgentId(u)' = ResolveAgentId(u)
      BY <1>2, <1>3 DEF TurnStep
  <2>2. /\ phase[u] # "idle" => lane[u] = LaneFor(u)
        /\ phase[u] = "running" => ran[u] = ResolveAgentId(u) /\ ran[u] # NoAgent
      BY <2>1 DEF StableLanes, Running
  <2>3. QED
      BY <1>3, <2>1, <2>2 DEF TurnStep
<1>4. ASSUME NEW a \in Agent, CreateAgent(a) \/ DeleteAgent(a) PROVE FALSE
    BY <1>1, <1>4 DEF CreateAgent, DeleteAgent
<1>5. CASE UNCHANGED vars
    BY <1>2, <1>5 DEF vars, StableLanes, Running
<1>6. QED
    BY <1>3, <1>4, <1>5, StepsAreTurnSteps DEF Next

\* Two turns of one conversation are then two turns of one lane.
LEMMA StableExclude ==
    Inv /\ StableLanes => OneTurnPerStableSession
<1> SUFFICES ASSUME Inv, StableLanes, changes = 0, NEW t \in Running, NEW u \in Running,
                    ran[t] = ran[u], SessionOf[t] = SessionOf[u]
             PROVE  t = u
    BY DEF OneTurnPerStableSession, OneTurnPerSession
<1>1. /\ lane[t] = LaneFor(t) /\ ran[t] = ResolveAgentId(t) /\ ran[t] # NoAgent
      /\ lane[u] = LaneFor(u) /\ ran[u] = ResolveAgentId(u)
    BY DEF StableLanes, Running
<1>2. lane[t] = lane[u]
    BY <1>1 DEF LaneFor
<1>3. QED
    BY <1>2 DEF Inv, LaneExclusion

\* Startup leaves no call with a lane.
LEMMA StableInit == Init => StableLanes
BY DEF Init, StableLanes, Running

\* lanes.py's claim, restricted to a registry nobody changed since startup: at
\* most one in-flight turn per (agent_id, session_key).
THEOREM StableSessionsExclude == Spec => []OneTurnPerStableSession
<1>1. Spec => [](Inv /\ StableLanes)
    BY StableInit, StableKept, Invariance, PTL DEF Spec
<1>2. QED
    BY <1>1, StableExclude, PTL

-----------------------------------------------------------------------------
(***************************************************************************)
(* Arrival order.  A call that overtakes another does so in one of the two *)
(* queues, so both are kept in the order of arrival; and because a call    *)
(* waits in both, one that stands in the semaphore's queue is ahead of     *)
(* everybody who arrived after it, wherever they are.                      *)
(***************************************************************************)
Prec(a, t, u) == \E i, j \in 1 .. Len(a) : i < j /\ a[i] = t /\ a[j] = u
Sorted(a, q) == \A i, j \in 1 .. Len(q) : i < j => Prec(a, q[i], q[j])

ArrivedOnce ==
    /\ Distinct(arrived)
    /\ \A t \in Turn : Holds(arrived, t) <=> phase[t] # "idle"
QueuesSorted ==
    /\ Sorted(arrived, semQ)
    /\ \A l \in Lanes : Sorted(arrived, lockQ[l])
SemFirst ==
    \A t, u \in Turn :
        (phase[t] = "sem" /\ Prec(arrived, t, u)) => phase[u] \in {"sem", "cancelled"}
LockFirst ==
    \A t, u \in Turn :
        (phase[t] = "lock" /\ lane[t] = lane[u] /\ Prec(arrived, t, u))
            => phase[u] \notin {"running", "done", "dropped"}

InOrder == ArrivedOnce /\ QueuesSorted /\ SemFirst /\ LockFirst

\* Of two entries of a list without duplicates one comes first, and not both.
LEMMA Precedence ==
    ASSUME NEW a \in Seq(Turn), Distinct(a), NEW t \in Turn, NEW u \in Turn
    PROVE  /\ Prec(a, t, u) => Holds(a, t) /\ Holds(a, u) /\ t # u /\ ~Prec(a, u, t)
           /\ (Holds(a, t) /\ Holds(a, u) /\ t # u) => Prec(a, t, u) \/ Prec(a, u, t)
<1>1. ASSUME Prec(a, t, u)
      PROVE  Holds(a, t) /\ Holds(a, u) /\ t # u /\ ~Prec(a, u, t)
  <2>1. PICK i \in 1 .. Len(a), j \in 1 .. Len(a) : i < j /\ a[i] = t /\ a[j] = u
      BY <1>1 DEF Prec
  <2>2. i \in Int /\ j \in Int
      OBVIOUS
  <2>3. t # u
      BY <2>1, <2>2 DEF Distinct
  <2>4. ASSUME NEW k \in 1 .. Len(a), NEW m \in 1 .. Len(a), k < m, a[k] = u, a[m] = t
        PROVE  FALSE
    <3>1. k = j /\ m = i
        BY <2>1, <2>4 DEF Distinct
    <3>2. QED
        BY <2>1, <2>2, <2>4, <3>1
  <2>5. QED
      BY <2>1, <2>3, <2>4 DEF Holds, Prec
<1>2. ASSUME Holds(a, t), Holds(a, u), t # u
      PROVE  Prec(a, t, u) \/ Prec(a, u, t)
  <2>1. PICK i \in 1 .. Len(a) : a[i] = t
      BY <1>2 DEF Holds
  <2>2. PICK j \in 1 .. Len(a) : a[j] = u
      BY <1>2 DEF Holds
  <2>3. i < j \/ j < i
    <3>1. i # j /\ i \in Int /\ j \in Int
        BY <1>2, <2>1, <2>2
    <3>2. QED
        BY <3>1
  <2>4. QED
      BY <2>1, <2>2, <2>3 DEF Prec
<1>3. QED
    BY <1>1, <1>2

\* An arrival comes after everyone, and changes no earlier order.
LEMMA PrecAppend ==
    ASSUME NEW a \in Seq(Turn), NEW t \in Turn, NEW u \in Turn, NEW v \in Turn
    PROVE  Prec(Append(a, t), u, v) <=> Prec(a, u, v) \/ (v = t /\ Holds(a, u))
<1> DEFINE r == Append(a, t)
<1>1. /\ Len(r) = Len(a) + 1 /\ Len(a) \in Nat
      /\ \A i \in 1 .. Len(a) : r[i] = a[i]
      /\ r[Len(a) + 1] = t
    OBVIOUS
<1> HIDE DEF r
<1>2. /\ \A i \in 1 .. Len(a) : i \in 1 .. Len(r) /\ i < Len(a) + 1
      /\ Len(a) + 1 \in 1 .. Len(r)
    BY <1>1
<1>3. ASSUME NEW i \in 1 .. Len(r), NEW j \in 1 .. Len(r), i < j
      PROVE  i \in 1 .. Len(a) /\ (j \in 1 .. Len(a) \/ j = Len(a) + 1)
    BY <1>1, <1>3
<1>4. ASSUME Prec(r, u, v) PROVE Prec(a, u, v) \/ (v = t /\ Holds(a, u))
  <2>1. PICK i \in 1 .. Len(r), j \in 1 .. Len(r) : i < j /\ r[i] = u /\ r[j] = v
      BY <1>4 DEF Prec
  <2>2. QED
      BY <1>1, <1>3, <2>1 DEF Prec, Holds
<1>5. ASSUME Prec(a, u, v) PROVE Prec(r, u, v)
  <2>1. PICK i \in 1 .. Len(a), j \in 1 .. Len(a) : i < j /\ a[i] = u /\ a[j] = v
      BY <1>5 DEF Prec
  <2>2. QED
      BY <1>1, <1>2, <2>1 DEF Prec
<1>6. ASSUME v = t, Holds(a, u) PROVE Prec(r, u, v)
  <2>1. PICK i \in 1 .. Len(a) : a[i] = u
      BY <1>6 DEF Holds
  <2>2. QED
      BY <1>1, <1>2, <1>6, <2>1 DEF Prec
<1>7. QED
    BY <1>4, <1>5, <1>6 DEF r

\* A queue in arrival order stays so when a later call joins it ...
LEMMA SortedAppend ==
    ASSUME NEW a, NEW q \in Seq(Turn), NEW t \in Turn, Sorted(a, q),
           \A u \in Turn : Holds(q, u) => Prec(a, u, t)
    PROVE  Sorted(a, Append(q, t))
<1> DEFINE r == Append(q, t)
<1>1. /\ Len(r) = Len(q) + 1 /\ Len(q) \in Nat
      /\ \A i \in 1 .. Len(q) : r[i] = q[i] /\ q[i] \in Turn
      /\ r[Len(q) + 1] = t
    OBVIOUS
<1> HIDE DEF r
<1> SUFFICES ASSUME NEW i \in 1 .. Len(r), NEW j \in 1 .. Len(r), i < j
             PROVE  Prec(a, r[i], r[j])
    BY DEF Sorted, r
<1>2. i \in 1 .. Len(q) /\ (j \in 1 .. Len(q) \/ j = Len(q) + 1)
    BY <1>1
<1>3. CASE j \in 1 .. Len(q)
    BY <1>1, <1>2, <1>3 DEF Sorted
<1>4. CASE j = Len(q) + 1
    BY <1>1, <1>2, <1>4 DEF Holds
<1>5. QED
    BY <1>2, <1>3, <1>4

\* ... when its head leaves, which arrived before the others ...
LEMMA SortedTail ==
    ASSUME NEW a, NEW q \in Seq(Turn), q # <<>>, Sorted(a, q)
    PROVE  /\ Sorted(a, Tail(q))
           /\ \A u \in Turn : Holds(q, u) => u = Head(q) \/ Prec(a, Head(q), u)
<1> DEFINE r == Tail(q)
<1>1. /\ Len(q) \in Nat \ {0} /\ Len(r) = Len(q) - 1
      /\ \A i \in 1 .. Len(r) : r[i] = q[i + 1]
      /\ Head(q) = q[1]
    OBVIOUS
<1> HIDE DEF r
<1>2. Sorted(a, r)
  <2> SUFFICES ASSUME NEW i \in 1 .. Len(r), NEW j \in 1 .. Len(r), i < j
               PROVE  Prec(a, r[i], r[j])
      BY DEF Sorted
  <2>1. i + 1 \in 1 .. Len(q) /\ j + 1 \in 1 .. Len(q) /\ i + 1 < j + 1
      BY <1>1
  <2>2. QED
      BY <1>1, <2>1 DEF Sorted
<1>3. ASSUME NEW i \in 1 .. Len(q) PROVE q[i] = Head(q) \/ Prec(a, Head(q), q[i])
  <2>1. 1 \in 1 .. Len(q) /\ (i = 1 \/ 1 < i)
      BY <1>1
  <2>2. QED
      BY <1>1, <2>1 DEF Sorted
<1>4. QED
    BY <1>2, <1>3 DEF Holds, r

\* ... and when a waiter is taken out of it.
LEMMA SortedWithout ==
    ASSUME NEW a, NEW q \in Seq(Turn), NEW t \in Turn, Distinct(q), Sorted(a, q)
    PROVE  Sorted(a, Without(q, t))
<1>1. CASE ~Holds(q, t)
  <2>1. Without(q, t) = q
      BY <1>1 DEF Without, Holds
  <2>2. QED
      BY <2>1
<1>2. CASE Holds(q, t)
  <2> DEFINE r == Without(q, t)
  <2>1. r \in Seq(Turn) /\ \E p \in 1 .. Len(q) : q[p] = t /\ Closed(q, r, p)
      BY <1>2, WithoutAt
  <2> HIDE DEF r
  <2>2. PICK p \in 1 .. Len(q) : Closed(q, r, p)
      BY <2>1
  <2>3. \A i \in 1 .. Len(r) : \E k \in 1 .. Len(q) :
            k = (IF i < p THEN i ELSE i + 1) /\ r[i] = q[k] /\ k # p
    <3>1. r \in Seq(Turn)
        BY <2>1
    <3>2. QED
        BY <2>2, <3>1, ClosedFrom
  <2> SUFFICES ASSUME NEW i \in 1 .. Len(r), NEW j \in 1 .. Len(r), i < j
               PROVE  Prec(a, r[i], r[j])
      BY DEF Sorted, r
  <2>4. PICK k \in 1 .. Len(q) : k = (IF i < p THEN i ELSE i + 1) /\ r[i] = q[k]
      BY <2>3
  <2>5. PICK m \in 1 .. Len(q) : m = (IF j < p THEN j ELSE j + 1) /\ r[j] = q[m]
      BY <2>3
  <2>6. i \in Int /\ j \in Int /\ p \in Int
      OBVIOUS
  <2>7. k < m
      BY <2>4, <2>5, <2>6
  <2>8. QED
      BY <2>4, <2>5, <2>7 DEF Sorted
<1>3. QED
    BY <1>1, <1>2

\* A step of a call that has arrived: what it may do to the call's phase, given
\* who arrived before it and still waits.
Moves(t) ==
    /\ arrived' = arrived /\ lane' = lane
    /\ \A u \in Turn : u # t => phase'[u] = phase[u]
    /\ phase[t] # "idle" /\ phase'[t] # "idle"
    /\ phase'[t] = "sem" => phase[t] = "sem"
    /\ phase'[t] = "lock" => phase[t] \in {"sem", "lock"}
    /\ phase'[t] \notin {"sem", "cancelled"} =>
          \A u \in Turn : phase[u] = "sem" => ~Prec(arrived, u, t)
    /\ phase'[t] \in {"running", "done", "dropped"} =>
          \A u \in Turn : (phase[u] = "lock" /\ lane[u] = lane[t]) => ~Prec(arrived, u, t)

\* Such a step lets nobody be overtaken.
LEMMA MovesInOrder ==
    ASSUME Inv, InOrder, NEW t \in Turn, Moves(t)
    PROVE  ArrivedOnce' /\ SemFirst' /\ LockFirst'
<1>1. arrived \in Seq(Turn) /\ Distinct(arrived)
    BY DEF Inv, TypeOK, InOrder, ArrivedOnce
<1>2. /\ arrived' = arrived /\ lane' = lane
      /\ \A u \in Turn : u # t => phase'[u] = phase[u]
    BY DEF Moves
<1>3. \A u, v \in Turn : Prec(arrived, u, v) => u # v
    BY <1>1, Precedence
<1>4. ArrivedOnce'
  <2>1. \A u \in Turn : Holds(arrived, u) <=> phase'[u] # "idle"
      BY <1>2 DEF Moves, InOrder, ArrivedOnce
  <2>2. Distinct(arrived') /\ \A u \in Turn : Holds(arrived', u) <=> phase'[u] # "idle"
      BY <1>1, <1>2, <2>1
  <2>3. QED
      BY <2>2 DEF ArrivedOnce, Distinct, Holds
<1>5. ASSUME NEW u \in Turn, NEW v \in Turn, Prec(arrived, u, v), phase'[u] = "sem"
      PROVE  phase'[v] \in {"sem", "cancelled"}
  <2>1. phase[u] = "sem"
      BY <1>2, <1>5 DEF Moves
  <2>2. phase[v] \in {"sem", "cancelled"}
      BY <1>5, <2>1 DEF InOrder, SemFirst
  <2>3. CASE v = t
      BY <1>5, <2>1, <2>3 DEF Moves
  <2>4. QED
      BY <1>2, <2>2, <2>3
<1>6. ASSUME NEW u \in Turn, NEW v \in Turn, Prec(arrived, u, v), phase'[u] = "lock",
             lane[u] = lane[v]
      PROVE  phase'[v] \notin {"running", "done", "dropped"}
  <2>1. CASE u = t
    <3>1. phase[t] \in {"sem", "lock"} /\ phase'[v] = phase[v]
        BY <1>2, <1>3, <1>6, <2>1 DEF Moves
    <3>2. phase[v] \in {"sem", "cancelled"} \/ phase[v] \notin {"running", "done", "dropped"}
        BY <1>6, <2>1, <3>1 DEF InOrder, SemFirst, LockFirst
    <3>3. QED
        BY <3>1, <3>2
  <2>2. CASE u # t
    <3>1. phase[u] = "lock" /\ phase[v] \notin {"running", "done", "dropped"}
        BY <1>2, <1>6, <2>2 DEF InOrder, LockFirst
    <3>2. CASE v = t
        BY <1>6, <3>1, <3>2 DEF Moves
    <3>3. QED
        BY <1>2, <3>1, <3>2
  <2>3. QED
      BY <2>1, <2>2
<1>7. SemFirst'
  <2>1. \A u, v \in Turn : (phase'[u] = "sem" /\ Prec(arrived', u, v))
                               => phase'[v] \in {"sem", "cancelled"}
      BY <1>2, <1>5
  <2>2. QED
      BY <2>1 DEF SemFirst, Prec
<1>8. LockFirst'
  <2>1. \A u, v \in Turn :
            (phase'[u] = "lock" /\ lane'[u] = lane'[v] /\ Prec(arrived', u, v))
                => phase'[v] \notin {"running", "done", "dropped"}
      BY <1>2, <1>6
  <2>2. QED
      BY <2>1 DEF LockFirst, Prec
<1>9. QED
    BY <1>4, <1>7, <1>8

\* Queues sorted by the arrivals so far, in a form the steps can establish.
LEMMA QueuesStep ==
    ASSUME NEW a, arrived' = a, Sorted(a, semQ'), \A l \in Lanes : Sorted(a, lockQ'[l])
    PROVE  QueuesSorted'
<1>1. Sorted(arrived', semQ') /\ \A l \in Lanes : Sorted(arrived', lockQ'[l])
    OBVIOUS
<1>2. QED
    BY <1>1 DEF QueuesSorted, Sorted, Prec

\* The first waiter of the semaphore overtakes nobody.
LEMMA GrantSemOrder ==
    ASSUME Inv, InOrder, NEW t \in Turn, GrantSem(t)
    PROVE  InOrder'
<1> DEFINE l == lane[t]
<1>1. /\ semQ \in Seq(Turn) /\ semQ # <<>> /\ t = Head(semQ) /\ semQ' = Tail(semQ)
      /\ Distinct(semQ) /\ AcquireLock(t, l, queuedAt[l])
      /\ arrived' = arrived /\ lane' = lane
    BY DEF GrantSem, Inv, TypeOK, SemQueue
<1>2. phase[t] = "sem" /\ l \in Lanes
    BY <1>1, TailQueue DEF Inv, SemQueue, LanesKnown
<1>3. /\ Sorted(arrived, Tail(semQ))
      /\ \A u \in Turn : phase[u] = "sem" => u = t \/ Prec(arrived, t, u)
  <2>1. Sorted(arrived, semQ) /\ \A u \in Turn : phase[u] = "sem" => Holds(semQ, u)
      BY DEF Inv, SemQueue, InOrder, QueuesSorted
  <2>2. /\ Sorted(arrived, Tail(semQ))
        /\ \A u \in Turn : Holds(semQ, u) => u = Head(semQ) \/ Prec(arrived, Head(semQ), u)
      BY <1>1, <2>1, SortedTail
  <2>3. QED
      BY <1>1, <2>1, <2>2
<1>4. arrived \in Seq(Turn) /\ Distinct(arrived)
    BY DEF Inv, TypeOK, InOrder, ArrivedOnce
<1>5. \A u \in Turn : phase[u] = "sem" => ~Prec(arrived, u, t)
    BY <1>3, <1>4, Precedence
<1>6. lockQ[l] \in Seq(Turn) /\ \A m \in Lanes : Sorted(arrived, lockQ[m])
    BY <1>2 DEF Inv, TypeOK, InOrder, QueuesSorted
<1>7. \A u \in Turn : Holds(lockQ[l], u) <=> phase[u] = "lock" /\ lane[u] = l
    BY <1>2 DEF Inv, LockQueues
<1>8. CASE lockQ[l] = <<>> /\ DispatchLocked(t) /\ lockQ' = lockQ
  <2>1. /\ phase'[t] \in {"running", "dropped"}
        /\ \A u \in Turn : u # t => phase'[u] = phase[u]
      BY <1>8 DEF DispatchLocked, Inv, TypeOK
  <2>2. \A u \in Turn : ~(phase[u] = "lock" /\ lane[u] = l)
      BY <1>7, <1>8 DEF Holds
  <2>3. Moves(t)
      BY <1>1, <1>2, <1>5, <2>1, <2>2 DEF Moves
  <2>4. QueuesSorted'
      BY <1>1, <1>3, <1>6, <1>8, QueuesStep
  <2>5. QED
      BY <2>3, <2>4, MovesInOrder DEF InOrder
<1>9. CASE phase' = [phase EXCEPT ![t] = "lock"] /\ lockQ' = [lockQ EXCEPT ![l] = Append(@, t)]
  <2>1. phase'[t] = "lock" /\ \A u \in Turn : u # t => phase'[u] = phase[u]
      BY <1>9 DEF Inv, TypeOK
  <2>2. Moves(t)
      BY <1>1, <1>2, <1>5, <2>1 DEF Moves
  <2>3. \A u \in Turn : Holds(lockQ[l], u) => Prec(arrived, u, t)
    <3> SUFFICES ASSUME NEW u \in Turn, phase[u] = "lock" PROVE Prec(arrived, u, t)
        BY <1>7
    <3>1. Holds(arrived, t) /\ Holds(arrived, u) /\ t # u
        BY <1>2 DEF InOrder, ArrivedOnce
    <3>2. ~Prec(arrived, t, u)
        BY <1>2 DEF InOrder, SemFirst
    <3>3. QED
        BY <1>4, <3>1, <3>2, Precedence
  <2>4. Sorted(arrived, Append(lockQ[l], t))
      BY <1>2, <1>6, <2>3, SortedAppend
  <2>5. \A m \in Lanes : Sorted(arrived, lockQ'[m])
      BY <1>6, <1>9, <2>4 DEF Inv, TypeOK
  <2>6. QueuesSorted'
      BY <1>1, <1>3, <2>5, QueuesStep
  <2>7. QED
      BY <2>2, <2>6, MovesInOrder DEF InOrder
<1>10. QED
    BY <1>1, <1>8, <1>9 DEF AcquireLock

\* Nor does the first waiter of a lane's lock.
LEMMA GrantLockOrder ==
    ASSUME Inv, InOrder, NEW t \in Turn, GrantLock(t)
    PROVE  InOrder'
<1> DEFINE l == lane[t]
<1>1. phase[t] = "lock" /\ l \in Lanes
    BY DEF GrantLock, Inv, LanesKnown
<1>2. /\ lockQ[l] \in Seq(Turn) /\ lockQ[l] # <<>> /\ t = Head(lockQ[l])
      /\ arrived' = arrived /\ lane' = lane /\ semQ' = semQ
      /\ lockQ' = [lockQ EXCEPT ![l] = Tail(@)]
    BY <1>1 DEF GrantLock, Inv, TypeOK
<1>3. arrived \in Seq(Turn) /\ Distinct(arrived)
    BY DEF Inv, TypeOK, InOrder, ArrivedOnce
<1>4. Sorted(arrived, semQ) /\ \A m \in Lanes : Sorted(arrived, lockQ[m])
    BY DEF InOrder, QueuesSorted
<1>5. /\ Sorted(arrived, Tail(lockQ[l]))
      /\ \A u \in Turn : Holds(lockQ[l], u) => u = t \/ Prec(arrived, t, u)
    BY <1>1, <1>2, <1>4, SortedTail
<1>6. \A u \in Turn : (phase[u] = "lock" /\ lane[u] = l) => ~Prec(arrived, u, t)
  <2>1. \A u \in Turn : (phase[u] = "lock" /\ lane[u] = l) => u = t \/ Prec(arrived, t, u)
      BY <1>1, <1>5 DEF Inv, LockQueues
  <2>2. QED
      BY <1>3, <2>1, Precedence
<1>7. \A u \in Turn : phase[u] = "sem" => ~Prec(arrived, u, t)
    BY <1>1 DEF InOrder, SemFirst
<1>8. /\ phase'[t] \in {"running", "dropped"}
      /\ \A u \in Turn : u # t => phase'[u] = phase[u]
    BY DEF GrantLock, DispatchLocked, Inv, TypeOK
<1>9. Moves(t)
    BY <1>1, <1>2, <1>6, <1>7, <1>8 DEF Moves
<1>10. \A m \in Lanes : Sorted(arrived, lockQ'[m])
    BY <1>2, <1>4, <1>5 DEF Inv, TypeOK
<1>11. QueuesSorted'
    BY <1>2, <1>4, <1>10, QueuesStep
<1>12. QED
    BY <1>9, <1>11, MovesInOrder DEF InOrder

\* A cancelled call leaves the order of the others.
LEMMA CancelOrder ==
    ASSUME Inv, InOrder, NEW t \in Turn, Cancel(t)
    PROVE  InOrder'
<1> DEFINE l == lane[t]
<1>1. /\ phase[t] # "idle" /\ l \in Lanes
      /\ phase' = [phase EXCEPT ![t] = "cancelled"]
      /\ semQ' = Without(semQ, t) /\ lockQ' = [lockQ EXCEPT ![l] = Without(@, t)]
      /\ arrived' = arrived /\ lane' = lane
    BY DEF Cancel, Inv, LanesKnown
<1>2. phase'[t] = "cancelled" /\ \A u \in Turn : u # t => phase'[u] = phase[u]
    BY <1>1 DEF Inv, TypeOK
<1>3. Moves(t)
    BY <1>1, <1>2 DEF Moves
<1>4. Sorted(arrived, semQ) /\ \A m \in Lanes : Sorted(arrived, lockQ[m])
    BY DEF InOrder, QueuesSorted
<1>5. Sorted(arrived, Without(semQ, t))
  <2>1. semQ \in Seq(Turn) /\ Distinct(semQ)
      BY DEF Inv, TypeOK, SemQueue
  <2>2. QED
      BY <1>4, <2>1, SortedWithout
<1>6. Sorted(arrived, Without(lockQ[l], t))
  <2>1. lockQ[l] \in Seq(Turn) /\ Distinct(lockQ[l]) /\ Sorted(arrived, lockQ[l])
      BY <1>1, <1>4 DEF Inv, TypeOK, LockQueues
  <2>2. QED
      BY <2>1, SortedWithout
<1>7. \A m \in Lanes : Sorted(arrived, lockQ'[m])
    BY <1>1, <1>4, <1>6 DEF Inv, TypeOK
<1>8. QueuesSorted'
    BY <1>1, <1>5, <1>7, QueuesStep
<1>9. QED
    BY <1>3, <1>8, MovesInOrder DEF InOrder

\* Nor does a turn that ends change it.
LEMMA FinishOrder ==
    ASSUME Inv, InOrder, NEW t \in Turn, Finish(t)
    PROVE  InOrder'
<1>1. /\ phase[t] = "running" /\ phase' = [phase EXCEPT ![t] = "done"]
      /\ arrived' = arrived /\ lane' = lane /\ semQ' = semQ /\ lockQ' = lockQ
    BY DEF Finish, Running
<1>2. phase'[t] = "done" /\ \A u \in Turn : u # t => phase'[u] = phase[u]
    BY <1>1 DEF Inv, TypeOK
<1>3. \A u \in Turn : phase[u] = "sem" => ~Prec(arrived, u, t)
    BY <1>1 DEF InOrder, SemFirst
<1>4. \A u \in Turn : (phase[u] = "lock" /\ lane[u] = lane[t]) => ~Prec(arrived, u, t)
    BY <1>1 DEF InOrder, LockFirst
<1>5. Moves(t)
    BY <1>1, <1>2, <1>3, <1>4 DEF Moves
<1>6. QueuesSorted'
    BY <1>1, QueuesStep DEF InOrder, QueuesSorted
<1>7. QED
    BY <1>5, <1>6, MovesInOrder DEF InOrder

\* An arrival takes its place behind everybody: it waits in the semaphore's
\* queue if anybody does, and in its lane's if anybody does.
LEMMA ArriveOrder ==
    ASSUME Inv, InOrder, NEW t \in Turn, Arrive(t)
    PROVE  InOrder'
<1> DEFINE l == LaneFor(t)
           a == Append(arrived, t)
<1>1. /\ phase[t] = "idle" /\ l \in Lanes /\ arrived' = a
      /\ lane' = [lane EXCEPT ![t] = l]
    BY LaneType DEF Arrive, Inv
<1>2. lane'[t] = l /\ \A u \in Turn : u # t => lane'[u] = lane[u]
    BY <1>1 DEF Inv, TypeOK
<1>3. arrived \in Seq(Turn) /\ Distinct(arrived) /\ ~Holds(arrived, t)
    BY <1>1 DEF Inv, TypeOK, InOrder, ArrivedOnce
<1>4. \A u, v \in Turn : Prec(a, u, v) <=> Prec(arrived, u, v) \/ (v = t /\ Holds(arrived, u))
    BY <1>3, PrecAppend
<1>5. Distinct(a) /\ \A u \in Turn : Holds(a, u) <=> Holds(arrived, u) \/ u = t
    BY <1>3, AppendQueue
<1>6. \A u, v \in Turn : Prec(arrived, u, v) => u # t /\ v # t
    BY <1>3, Precedence
<1> HIDE DEF a
<1>7. ASSUME NEW q \in Seq(Turn), Sorted(arrived, q) PROVE Sorted(a, q)
    BY <1>4, <1>7 DEF Sorted
<1>8. /\ semQ \in Seq(Turn) /\ \A m \in Lanes : lockQ[m] \in Seq(Turn)
      /\ Sorted(a, semQ) /\ \A m \in Lanes : Sorted(a, lockQ[m])
    BY <1>7 DEF Inv, TypeOK, InOrder, QueuesSorted
<1>9. /\ \A u \in Turn : Holds(semQ, u) <=> phase[u] = "sem"
      /\ \A u \in Turn : Holds(lockQ[l], u) <=> phase[u] = "lock" /\ lane[u] = l
    BY <1>1 DEF Inv, SemQueue, LockQueues
<1>10. \A u \in Turn : phase[u] # "idle" => Prec(a, u, t)
    BY <1>4 DEF InOrder, ArrivedOnce
<1>11. ASSUME phase'[t] # "idle", \A u \in Turn : u # t => phase'[u] = phase[u]
       PROVE  ArrivedOnce'
  <2>1. \A u \in Turn : Holds(a, u) <=> phase'[u] # "idle"
      BY <1>5, <1>11 DEF InOrder, ArrivedOnce
  <2>2. Distinct(arrived') /\ \A u \in Turn : Holds(arrived', u) <=> phase'[u] # "idle"
      BY <1>1, <1>5, <2>1
  <2>3. QED
      BY <2>2 DEF ArrivedOnce, Distinct, Holds
<1>12. ASSUME NEW x \in {"sem", "lock", "running", "dropped"},
              phase' = [phase EXCEPT ![t] = x],
              x # "sem" => \A u \in Turn : phase[u] # "sem",
              x \in {"running", "dropped"} =>
                  \A u \in Turn : ~(phase[u] = "lock" /\ lane[u] = l)
       PROVE  ArrivedOnce' /\ SemFirst' /\ LockFirst'
  <2>1. phase'[t] = x /\ \A u \in Turn : u # t => phase'[u] = phase[u]
      BY <1>12 DEF Inv, TypeOK
  <2>2. ArrivedOnce'
      BY <1>11, <2>1
  <2>3. ASSUME NEW u \in Turn, NEW v \in Turn, Prec(a, u, v)
        PROVE  u # t /\ (v = t \/ Prec(arrived, u, v))
      BY <1>3, <1>4, <1>6, <2>3
  <2>4. ASSUME NEW u \in Turn, NEW v \in Turn, Prec(a, u, v), phase'[u] = "sem"
        PROVE  phase'[v] \in {"sem", "cancelled"}
    <3>1. u # t /\ (v = t \/ Prec(arrived, u, v)) /\ phase[u] = "sem"
        BY <2>1, <2>3, <2>4
    <3>2. CASE v = t
        BY <1>12, <2>1, <3>1, <3>2
    <3>3. CASE v # t
        BY <2>1, <3>1, <3>3 DEF InOrder, SemFirst
    <3>4. QED
        BY <3>2, <3>3
  <2>5. ASSUME NEW u \in Turn, NEW v \in Turn, Prec(a, u, v), phase'[u] = "lock",
               lane'[u] = lane'[v]
        PROVE  phase'[v] \notin {"running", "done", "dropped"}
    <3>1. u # t /\ (v = t \/ Prec(arrived, u, v)) /\ phase[u] = "lock"
        BY <2>1, <2>3, <2>5
    <3>2. CASE v = t
      <4>1. lane[u] = l
          BY <1>2, <2>5, <3>1, <3>2
      <4>2. QED
          BY <1>12, <2>1, <3>1, <3>2, <4>1
    <3>3. CASE v # t
        BY <1>2, <2>1, <2>5, <3>1, <3>3 DEF InOrder, LockFirst
    <3>4. QED
        BY <3>2, <3>3
  <2>6. SemFirst'
    <3>1. \A u, v \in Turn : (phase'[u] = "sem" /\ Prec(arrived', u, v))
                                 => phase'[v] \in {"sem", "cancelled"}
        BY <1>1, <2>4 DEF a
    <3>2. QED
        BY <3>1 DEF SemFirst, Prec
  <2>7. LockFirst'
    <3>1. \A u, v \in Turn :
              (phase'[u] = "lock" /\ lane'[u] = lane'[v] /\ Prec(arrived', u, v))
                  => phase'[v] \notin {"running", "done", "dropped"}
        BY <1>1, <2>5 DEF a
    <3>2. QED
        BY <3>1 DEF LockFirst, Prec
  <2>8. QED
      BY <2>2, <2>6, <2>7
<1>13. arrived' = a
    BY <1>1 DEF a
<1>14. CASE /\ semQ = <<>> /\ semQ' = semQ /\ lockQ[l] = <<>> /\ lockQ' = lockQ
            /\ DispatchLocked(t)
  <2>1. PICK x \in {"running", "dropped"} : phase' = [phase EXCEPT ![t] = x]
      BY <1>14 DEF DispatchLocked
  <2>2. /\ \A u \in Turn : phase[u] # "sem"
        /\ \A u \in Turn : ~(phase[u] = "lock" /\ lane[u] = l)
      BY <1>9, <1>14 DEF Holds
  <2>3. ArrivedOnce' /\ SemFirst' /\ LockFirst'
      BY <1>12, <2>1, <2>2
  <2>4. QueuesSorted'
      BY <1>8, <1>13, <1>14, QueuesStep
  <2>5. QED
      BY <2>3, <2>4 DEF InOrder
<1>15. CASE /\ semQ = <<>> /\ semQ' = semQ
            /\ phase' = [phase EXCEPT ![t] = "lock"]
            /\ lockQ' = [lockQ EXCEPT ![l] = Append(@, t)]
  <2>1. \A u \in Turn : phase[u] # "sem"
      BY <1>9, <1>15 DEF Holds
  <2>2. ArrivedOnce' /\ SemFirst' /\ LockFirst'
      BY <1>12, <1>15, <2>1
  <2>3. Sorted(a, Append(lockQ[l], t))
    <3>1. \A u \in Turn : Holds(lockQ[l], u) => Prec(a, u, t)
        BY <1>9, <1>10
    <3>2. QED
        BY <1>1, <1>8, <3>1, SortedAppend
  <2>4. \A m \in Lanes : Sorted(a, lockQ'[m])
      BY <1>8, <1>15, <2>3 DEF Inv, TypeOK
  <2>5. QueuesSorted'
      BY <1>8, <1>13, <1>15, <2>4, QueuesStep
  <2>6. QED
      BY <2>2, <2>5 DEF InOrder
<1>16. CASE /\ phase' = [phase EXCEPT ![t] = "sem"]
            /\ semQ' = Append(semQ, t) /\ lockQ' = lockQ
  <2>1. ArrivedOnce' /\ SemFirst' /\ LockFirst'
      BY <1>12, <1>16
  <2>2. Sorted(a, semQ')
    <3>1. \A u \in Turn : Holds(semQ, u) => Prec(a, u, t)
        BY <1>9, <1>10
    <3>2. QED
        BY <1>8, <1>16, <3>1, SortedAppend
  <2>3. QueuesSorted'
      BY <1>8, <1>13, <1>16, <2>2, QueuesStep
  <2>4. QED
      BY <2>1, <2>3 DEF InOrder
<1>17. QED
    BY <1>14, <1>15, <1>16 DEF Arrive, AcquireLock

\* Steps that leave the calls and the queues alone keep the order.
LEMMA BystanderOrder ==
    ASSUME InOrder, UNCHANGED << phase, lane, arrived, semQ, lockQ >>
    PROVE  InOrder'
BY DEF InOrder, ArrivedOnce, QueuesSorted, SemFirst, LockFirst, Prec, Sorted, Distinct, Holds

\* Startup has no arrivals.
LEMMA OrderInit == Init => InOrder
<1> SUFFICES ASSUME Init PROVE InOrder
    OBVIOUS
<1>1. /\ arrived = <<>> /\ semQ = <<>> /\ \A l \in Lanes : lockQ[l] = <<>>
      /\ \A t \in Turn : phase[t] = "idle"
    BY DEF Init
<1>2. ArrivedOnce
    BY <1>1 DEF ArrivedOnce, Distinct, Holds
<1>3. QueuesSorted
    BY <1>1 DEF QueuesSorted, Sorted
<1>4. SemFirst /\ LockFirst
    BY <1>1 DEF SemFirst, LockFirst
<1>5. QED
    BY <1>2, <1>3, <1>4 DEF InOrder

\* No step disturbs the order of arrival.
LEMMA OrderKept == Inv /\ InOrder /\ [Next]_vars => InOrder'
<1> SUFFICES ASSUME Inv, InOrder, [Next]_vars PROVE InOrder'
    OBVIOUS
<1>1. ASSUME NEW t \in Turn,
             Arrive(t) \/ GrantSem(t) \/ GrantLock(t) \/ Emit(t) \/ Finish(t) \/ Cancel(t)
      PROVE  InOrder'
  <2>1. CASE Emit(t)
      BY <2>1, BystanderOrder DEF Emit
  <2>2. QED
      BY <1>1, <2>1, ArriveOrder, GrantSemOrder, GrantLockOrder, FinishOrder, CancelOrder
<1>2. ASSUME NEW a \in Agent, CreateAgent(a) \/ DeleteAgent(a) PROVE InOrder'
    BY <1>2, BystanderOrder DEF CreateAgent, DeleteAgent
<1>3. CASE UNCHANGED vars
    BY <1>3, BystanderOrder DEF vars
<1>4. QED
    BY <1>1, <1>2, <1>3 DEF Next

\* lanes.py's "run in arrival order": no call runs, or has run, while an earlier
\* call of its lane waits for the semaphore or for the lane.
THEOREM ArrivalHolds == Spec => []ArrivalOrder
<1>1. Inv /\ InOrder => ArrivalOrder
  <2> SUFFICES ASSUME Inv, InOrder, NEW i \in DOMAIN arrived, NEW j \in DOMAIN arrived,
                      i < j, lane[arrived[i]] = lane[arrived[j]],
                      phase[arrived[j]] \in {"running", "done", "dropped"}
               PROVE  phase[arrived[i]] \notin {"sem", "lock"}
      BY DEF ArrivalOrder
  <2>1. i \in 1 .. Len(arrived) /\ j \in 1 .. Len(arrived)
      BY DEF Inv, TypeOK
  <2>2. arrived[i] \in Turn /\ arrived[j] \in Turn /\ Prec(arrived, arrived[i], arrived[j])
      BY <2>1 DEF Inv, TypeOK, Prec
  <2>3. QED
      BY <2>2 DEF InOrder, SemFirst, LockFirst
<1>2. Spec => [](Inv /\ InOrder)
    BY OrderInit, OrderKept, Invariance, PTL DEF Spec
<1>3. QED
    BY <1>1, <1>2, PTL

-----------------------------------------------------------------------------
(***************************************************************************)
(* Histories.  A turn's entries stay together because nobody else writes   *)
(* to its conversation between its first entry and its end: the last entry *)
(* of a conversation with a running turn is that turn's, and a call that   *)
(* has not started has no entry anywhere.                                  *)
(***************************************************************************)
Speaker(h, i) == h[i][1]
Contiguous(h) ==
    \A i, j \in 1 .. Len(h) :
        i < j /\ Speaker(h, i) = Speaker(h, j) =>
            \A k \in i .. j : Speaker(h, k) = Speaker(h, i)

Conversation(t) == << ran[t], SessionOf[t] >>
Spoken == {"running", "done", "cancelled"}

Told ==
    \A c \in Agent \X Session :
        \A i \in 1 .. Len(history[c]) : phase[Speaker(history[c], i)] \in Spoken
Latest ==
    changes = 0 =>
        \A t \in Running :
            LET h == history[Conversation(t)]
            IN  Len(h) > 0 /\ Speaker(h, Len(h)) = t
Undivided == changes = 0 => \A c \in Agent \X Session : Contiguous(history[c])

Histories == Told /\ Latest /\ Undivided

\* An entry by the last speaker, or by one who has not spoken, keeps every
\* speaker's entries together.
LEMMA ContiguousAppend ==
    ASSUME NEW h \in Seq(Turn \X {"in", "out"}), NEW e \in Turn \X {"in", "out"},
           Contiguous(h),
           \/ \A i \in 1 .. Len(h) : Speaker(h, i) # e[1]
           \/ Len(h) > 0 /\ Speaker(h, Len(h)) = e[1]
    PROVE  Contiguous(Append(h, e))
<1> DEFINE r == Append(h, e)
           n == Len(h)
<1>1. /\ Len(r) = n + 1 /\ n \in Nat
      /\ \A i \in 1 .. n : Speaker(r, i) = Speaker(h, i)
      /\ Speaker(r, n + 1) = e[1]
    BY DEF Speaker
<1> HIDE DEF r, n
<1> SUFFICES ASSUME NEW i \in 1 .. Len(r), NEW j \in 1 .. Len(r), i < j,
                    Speaker(r, i) = Speaker(r, j), NEW k \in i .. j
             PROVE  Speaker(r, k) = Speaker(r, i)
    BY DEF Contiguous, r
<1>2. i \in 1 .. n /\ (j \in 1 .. n \/ j = n + 1) /\ (k \in 1 .. n \/ k = n + 1)
    BY <1>1
<1>3. \A x, y \in 1 .. n : (x < y /\ Speaker(h, x) = Speaker(h, y)) =>
          \A z \in x .. y : Speaker(h, z) = Speaker(h, x)
    BY DEF Contiguous, n
<1>4. CASE j \in 1 .. n
  <2>1. k \in 1 .. n
      BY <1>1, <1>2, <1>4
  <2>2. QED
      BY <1>1, <1>2, <1>3, <1>4, <2>1
<1>5. CASE j = n + 1
  <2>1. Speaker(r, i) = e[1] /\ Speaker(h, i) = e[1]
      BY <1>1, <1>2, <1>5
  <2>2. n > 0 /\ Speaker(h, n) = e[1]
      BY <1>2, <2>1 DEF n
  <2>3. \A z \in i .. n : Speaker(h, z) = Speaker(h, i)
    <3>1. i = n \/ i < n
        BY <1>1, <1>2
    <3>2. CASE i = n
        BY <1>1, <3>2
    <3>3. CASE i < n
      <4>1. n \in 1 .. n
          BY <1>1, <2>2
      <4>2. QED
          BY <1>2, <1>3, <2>1, <2>2, <3>3, <4>1
    <3>4. QED
        BY <3>1, <3>2, <3>3
  <2>4. CASE k \in 1 .. n
    <3>1. k \in i .. n
        BY <1>1, <2>4
    <3>2. QED
        BY <1>1, <2>1, <2>3, <2>4, <3>1
  <2>5. CASE k = n + 1
      BY <1>1, <2>1, <2>5
  <2>6. QED
      BY <1>2, <2>4, <2>5
<1>6. QED
    BY <1>2, <1>4, <1>5

\* A step that writes nothing: no call starts, and who has spoken stays on.
Silent ==
    /\ history' = history
    /\ changes' = 0 => changes = 0
    /\ \A u \in Turn : phase[u] \in Spoken => phase'[u] \in Spoken
    /\ \A u \in Turn : phase'[u] = "running" => phase[u] = "running" /\ ran'[u] = ran[u]

\* A step in which the running turn t writes to its conversation: its first
\* entry as it starts, or a later one.
Writes(t) ==
    /\ changes' = changes
    /\ t \in Running'
    /\ \A u \in Turn : u # t => phase'[u] = phase[u] /\ ran'[u] = ran[u]
    /\ \/ phase[t] \notin Spoken
       \/ phase[t] = "running" /\ ran'[t] = ran[t]
    /\ \E d \in {"in", "out"} :
          history' = [history EXCEPT ![<< ran'[t], SessionOf[t] >>] = Append(@, << t, d >>)]

\* Silence keeps the histories.
LEMMA SilentKeeps ==
    ASSUME Inv, Histories, Silent
    PROVE  Histories'
<1>1. Told'
  <2>1. \A c \in Agent \X Session : \A i \in 1 .. Len(history[c]) :
            Speaker(history[c], i) \in Turn
      BY DEF Inv, TypeOK, Speaker
  <2>2. \A c \in Agent \X Session : \A i \in 1 .. Len(history[c]) :
            phase'[Speaker(history[c], i)] \in Spoken
      BY <2>1 DEF Histories, Told, Silent
  <2>3. QED
      BY <2>2 DEF Told, Silent, Speaker
<1>2. Latest'
  <2> SUFFICES ASSUME changes' = 0, NEW t \in Running'
               PROVE  LET h == history'[<< ran'[t], SessionOf[t] >>]
                      IN  Len(h) > 0 /\ Speaker(h, Len(h)) = t
      BY DEF Latest, Conversation, Speaker
  <2>1. t \in Running /\ ran'[t] = ran[t] /\ history' = history /\ changes = 0
      BY DEF Silent, Running
  <2>2. QED
      BY <2>1 DEF Histories, Latest, Conversation
<1>3. Undivided'
  <2> SUFFICES ASSUME changes' = 0, NEW c \in Agent \X Session
               PROVE  Contiguous(history'[c])
      BY DEF Undivided, Contiguous, Speaker
  <2>1. QED
      BY DEF Histories, Undivided, Silent
<1>4. QED
    BY <1>1, <1>2, <1>3 DEF Histories

\* So does a turn that writes, if it is the only one of its conversation.
LEMMA WritesKeep ==
    ASSUME Inv, Histories, NEW t \in Turn, Writes(t), RanKnown', OneTurnPerStableSession'
    PROVE  Histories'
<1>1. PICK d \in {"in", "out"} :
          history' = [history EXCEPT ![<< ran'[t], SessionOf[t] >>] = Append(@, << t, d >>)]
    BY DEF Writes
<1>2. PICK c \in Agent \X Session : c = << ran'[t], SessionOf[t] >>
  <2>1. ran'[t] \in Agent /\ SessionOf[t] \in Session
      BY DispatchConstants DEF Writes, RanKnown
  <2>2. QED
      BY <2>1
<1>3. PICK e \in Turn \X {"in", "out"} : e = << t, d >>
    OBVIOUS
<1>4. PICK h \in Seq(Turn \X {"in", "out"}) : h = history[c]
    BY DEF Inv, TypeOK
<1>5. /\ history'[c] = Append(h, e)
      /\ \A b \in Agent \X Session : b # c => history'[b] = history[b]
    BY <1>1, <1>2, <1>3, <1>4 DEF Inv, TypeOK
<1>6. e[1] = t
    BY <1>3
<1>7. /\ Len(Append(h, e)) = Len(h) + 1 /\ Len(h) \in Nat
      /\ \A i \in 1 .. Len(h) : Speaker(Append(h, e), i) = Speaker(h, i)
      /\ Speaker(Append(h, e), Len(h) + 1) = t
    BY <1>6 DEF Speaker
<1>8. phase'[t] = "running" /\ changes' = changes
    BY DEF Writes, Running
<1>9. \A b \in Agent \X Session : \A i \in 1 .. Len(history[b]) :
          Speaker(history[b], i) \in Turn /\ phase[Speaker(history[b], i)] \in Spoken
  <2>1. \A b \in Agent \X Session : \A i \in 1 .. Len(history[b]) :
            Speaker(history[b], i) \in Turn
      BY DEF Inv, TypeOK, Speaker
  <2>2. QED
      BY <2>1 DEF Histories, Told
<1>10. \A u \in Turn : phase[u] \in Spoken => phase'[u] \in Spoken
    BY <1>8 DEF Writes, Spoken
<1>11. Told'
  <2>1. ASSUME NEW b \in Agent \X Session, NEW i \in 1 .. Len(history'[b])
        PROVE  phase'[Speaker(history'[b], i)] \in Spoken
    <3>1. CASE b # c
        BY <1>5, <1>9, <1>10, <2>1, <3>1
    <3>2. CASE b = c
      <4>1. i \in 1 .. Len(h) \/ i = Len(h) + 1
          BY <1>5, <1>7, <2>1, <3>2
      <4>2. CASE i \in 1 .. Len(h)
          BY <1>4, <1>5, <1>7, <1>9, <1>10, <3>2, <4>2
      <4>3. CASE i = Len(h) + 1
          BY <1>5, <1>7, <1>8, <3>2, <4>3 DEF Spoken
      <4>4. QED
          BY <4>1, <4>2, <4>3
    <3>3. QED
        BY <3>1, <3>2
  <2>2. QED
      BY <2>1 DEF Told, Speaker
<1>12. Latest'
  <2> SUFFICES ASSUME changes' = 0, NEW u \in Running'
               PROVE  LET g == history'[<< ran'[u], SessionOf[u] >>]
                      IN  Len(g) > 0 /\ Speaker(g, Len(g)) = u
      BY DEF Latest, Conversation, Speaker
  <2>1. CASE u = t
    <3>1. history'[<< ran'[u], SessionOf[u] >>] = Append(h, e)
        BY <1>2, <1>5, <2>1
    <3>2. Len(Append(h, e)) > 0 /\ Speaker(Append(h, e), Len(Append(h, e))) = t
        BY <1>7
    <3>3. QED
        BY <2>1, <3>1, <3>2
  <2>2. CASE u # t
    <3>1. u \in Turn /\ u \in Running /\ ran'[u] = ran[u] /\ t \in Running'
        BY <2>2 DEF Writes, Running
    <3>2. ~(ran'[u] = ran'[t] /\ SessionOf[u] = SessionOf[t])
        BY <2>2, <3>1 DEF OneTurnPerStableSession, OneTurnPerSession
    <3>3. PICK b \in Agent \X Session : b = << ran'[u], SessionOf[u] >> /\ b # c
      <4>1. ran'[u] \in Agent /\ SessionOf[u] \in Session
          BY <3>1, DispatchConstants DEF RanKnown
      <4>2. << ran'[u], SessionOf[u] >> # << ran'[t], SessionOf[t] >>
          BY <3>2
      <4>3. << ran'[u], SessionOf[u] >> \in Agent \X Session
          BY <4>1
      <4>4. << ran'[u], SessionOf[u] >> # c
          BY <1>2, <4>2
      <4>5. QED
          BY <4>3, <4>4
    <3>4. history'[b] = history[b] /\ b = Conversation(u)
        BY <1>5, <3>1, <3>3 DEF Conversation
    <3>5. Len(history[b]) > 0 /\ Speaker(history[b], Len(history[b])) = u
        BY <1>8, <3>1, <3>4 DEF Histories, Latest
    <3>6. QED
        BY <3>3, <3>4, <3>5
  <2>3. QED
      BY <2>1, <2>2
<1>13. ASSUME changes' = 0 PROVE Contiguous(Append(h, e))
  <2>1. Contiguous(h)
      BY <1>4, <1>8, <1>13 DEF Histories, Undivided
  <2>2. CASE phase[t] \notin Spoken
    <3>1. \A i \in 1 .. Len(h) : Speaker(h, i) # e[1]
        BY <1>4, <1>6, <1>9, <2>2
    <3>2. QED
        BY <2>1, <3>1, ContiguousAppend
  <2>3. CASE phase[t] = "running" /\ ran'[t] = ran[t]
    <3>1. t \in Running /\ c = Conversation(t)
        BY <1>2, <2>3 DEF Running, Conversation
    <3>2. Len(h) > 0 /\ Speaker(h, Len(h)) = e[1]
        BY <1>4, <1>6, <1>8, <1>13, <3>1 DEF Histories, Latest
    <3>3. QED
        BY <2>1, <3>2, ContiguousAppend
  <2>4. QED
      BY <2>2, <2>3 DEF Writes
<1>14. Undivided'
  <2> SUFFICES ASSUME changes' = 0, NEW b \in Agent \X Session
               PROVE  Contiguous(history'[b])
      BY DEF Undivided, Contiguous, Speaker
  <2>1. CASE b = c
      BY <1>5, <1>13, <2>1
  <2>2. CASE b # c
      BY <1>5, <1>8, <2>2 DEF Histories, Undivided
  <2>3. QED
      BY <2>1, <2>2
<1>15. QED
    BY <1>11, <1>12, <1>14 DEF Histories

\* The body under the lock writes the turn's first entry, or is silent.
LEMMA LockedBodySpeaks ==
    ASSUME Inv, NEW t \in Turn, phase[t] \notin Spoken, changes' = changes, DispatchLocked(t)
    PROVE  Silent \/ Writes(t)
<1> USE DEF Inv
<1> DEFINE a == ResolveAgentId(t)
<1>1. CASE /\ phase' = [phase EXCEPT ![t] = "dropped"]
           /\ UNCHANGED << ran, inFlight, history >>
    BY <1>1 DEF Silent, Spoken, TypeOK
<1>2. CASE /\ phase' = [phase EXCEPT ![t] = "running"]
           /\ ran' = [ran EXCEPT ![t] = a]
           /\ history' = [history EXCEPT ![<< a, SessionOf[t] >>] = Append(@, In(t))]
  <2>1. /\ phase'[t] = "running" /\ ran'[t] = a
        /\ \A u \in Turn : u # t => phase'[u] = phase[u] /\ ran'[u] = ran[u]
      BY <1>2 DEF TypeOK
  <2>2. t \in Running'
      BY <2>1 DEF Running
  <2> HIDE DEF a
  <2>3. QED
      BY <1>2, <2>1, <2>2 DEF Writes, In
<1>3. QED
    BY <1>1, <1>2 DEF DispatchLocked

\* Every step is silent or has one turn write to its conversation.
LEMMA StepsSpeak ==
    ASSUME Inv, [Next]_vars
    PROVE  Silent \/ \E t \in Turn : Writes(t)
<1> USE DEF Inv
<1>1. ASSUME NEW t \in Turn, phase[t] \notin Spoken, changes' = changes,
             NEW l, NEW q, AcquireLock(t, l, q)
      PROVE  Silent \/ Writes(t)
  <2>1. CASE DispatchLocked(t)
      BY <1>1, <2>1, LockedBodySpeaks
  <2>2. CASE /\ phase' = [phase EXCEPT ![t] = "lock"]
             /\ UNCHANGED << ran, inFlight, history >>
      BY <1>1, <2>2 DEF Silent, Spoken, TypeOK
  <2>3. QED
      BY <1>1, <2>1, <2>2 DEF AcquireLock
<1>2. ASSUME NEW t \in Turn, Arrive(t) PROVE Silent \/ Writes(t)
  <2>1. phase[t] \notin Spoken /\ changes' = changes
      BY <1>2 DEF Arrive, Spoken
  <2>2. CASE /\ phase' = [phase EXCEPT ![t] = "sem"]
             /\ UNCHANGED << ran, inFlight, history, lockQ >>
      BY <2>1, <2>2 DEF Silent, Spoken, TypeOK
  <2>3. CASE \E q : AcquireLock(t, LaneFor(t), q)
      BY <1>1, <2>1, <2>3
  <2>4. QED
      BY <1>2, <2>2, <2>3 DEF Arrive
<1>3. ASSUME NEW t \in Turn, GrantSem(t) PROVE Silent \/ Writes(t)
  <2>1. semQ \in Seq(Turn) /\ semQ # <<>> /\ t = Head(semQ) /\ Distinct(semQ)
      BY <1>3 DEF GrantSem, TypeOK, SemQueue
  <2>2. phase[t] = "sem"
      BY <2>1, TailQueue DEF SemQueue
  <2>3. QED
      BY <1>1, <1>3, <2>2 DEF GrantSem, Spoken
<1>4. ASSUME NEW t \in Turn, GrantLock(t) PROVE Silent \/ Writes(t)
    BY <1>4, LockedBodySpeaks DEF GrantLock, Spoken
<1>5. ASSUME NEW t \in Turn, Emit(t) PROVE Writes(t)
    BY <1>5 DEF Emit, Writes, Out, Running
<1>6. ASSUME NEW t \in Turn, Finish(t) \/ Cancel(t) PROVE Silent
    BY <1>6 DEF Finish, Cancel, Silent, Spoken, Running, TypeOK
<1>7. ASSUME NEW a \in Agent, CreateAgent(a) \/ DeleteAgent(a) PROVE Silent
    BY <1>7, DispatchConstants DEF CreateAgent, DeleteAgent, Silent, TypeOK
<1>8. CASE UNCHANGED vars
    BY <1>8 DEF vars, Silent
<1>9. QED
    BY <1>2, <1>3, <1>4, <1>5, <1>6, <1>7, <1>8 DEF Next

\* dispatch.py's "don't interleave history writes": while the registry is
\* unchanged, the entries of one turn follow each other in its conversation.
THEOREM HistoriesHold == Spec => []HistoryContiguous
<1>1. Init => Histories
    BY DEF Init, Histories, Told, Latest, Undivided, Contiguous, Running
<1>2. Inv /\ Histories /\ [Next]_vars /\ Inv' /\ StableLanes' => Histories'
  <2> SUFFICES ASSUME Inv, Histories, [Next]_vars, Inv', StableLanes' PROVE Histories'
      OBVIOUS
  <2>1. OneTurnPerStableSession' /\ RanKnown'
      BY StableExclude, PTL DEF Inv
  <2>2. QED
      BY <2>1, StepsSpeak, SilentKeeps, WritesKeep
<1>3. Inv /\ Histories => HistoryContiguous
  <2>1. ASSUME Inv, NEW c \in Agent \X Session PROVE DOMAIN history[c] = 1 .. Len(history[c])
      BY <2>1 DEF Inv, TypeOK
  <2>2. SUFFICES ASSUME Inv, Histories, changes = 0, NEW c \in Agent \X Session
                 PROVE  \A i, j \in DOMAIN history[c] :
                           i < j /\ history[c][i][1] = history[c][j][1] =>
                               \A k \in i .. j : history[c][k][1] = history[c][i][1]
      BY DEF HistoryContiguous
  <2>3. DOMAIN history[c] = 1 .. Len(history[c])
      BY <2>1, <2>2
  <2>4. Contiguous(history[c])
    <3>1. Undivided
        BY <2>2 DEF Histories
    <3>2. QED
        BY <2>2, <3>1 DEF Undivided
  <2>5. \A i, j \in 1 .. Len(history[c]) :
            i < j /\ history[c][i][1] = history[c][j][1] =>
                \A k \in i .. j : history[c][k][1] = history[c][i][1]
      BY <2>4 DEF Contiguous, Speaker
  <2>6. QED
      BY <2>3, <2>5
<1>4. Spec => [](Inv /\ StableLanes)
    BY StableInit, StableKept, Invariance, PTL DEF Spec
<1>5. Spec => [](Inv /\ Histories)
    BY <1>1, <1>2, <1>4, Invariance, PTL DEF Spec
<1>6. QED
    BY <1>3, <1>5, PTL
=============================================================================

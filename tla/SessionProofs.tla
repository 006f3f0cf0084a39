--------------------------- MODULE SessionProofs ---------------------------
(***************************************************************************)
(* Proofs about Session: the lists the model is shown keep their rounds,   *)
(* what was delivered is in the file, and what the file shows is           *)
(* remembered, for any number of messages, compactions, clears and crashes *)
(* and any length of the compaction's tail.                                *)
(***************************************************************************)
EXTENDS Session, FiniteSetTheorems, WellFoundedInduction, TLAPS

(***************************************************************************)
(* The inductive invariant.                                                *)
(***************************************************************************)
\* handle() holds a session and a history of its own.
Holding == pc \in { "assembling", "running", "returned", "refiring", "compacting",
                    "recording", "empty" }

Typed ==
    /\ TypeOK
    /\ pc # "idle" => turn \in 1 .. MaxTurns
    /\ pc = "refiring" => final = "call" /\ fires < MaxAutoFires

\* Calls are followed by their results or, when a turn ended with them, by a message;
\* results follow calls; only the first message may be a summary.
Paired(msgs) ==
    \A i \in 1 .. Len(msgs) :
        /\ msgs[i].use =>
              /\ msgs[i].role = "assistant"
              /\ i < Len(msgs) => msgs[i + 1].role \in { "tool", "user" }
        /\ msgs[i].role = "tool" => i > 1 /\ msgs[i - 1].use
        /\ msgs[i].role = "system" => i = 1

\* Whatever follows a turn that ended with unanswered calls is of a later turn.
Resumed(msgs) ==
    \A i, j \in 1 .. Len(msgs) :
        i < j /\ msgs[i].use /\ msgs[i + 1].role = "user" => msgs[i].turn < msgs[j].turn

\* Calls in the session are of this turn or, before its message has joined it, of an
\* earlier one.
Dated ==
    \A i \in 1 .. Len(session) : session[i].use =>
        session[i].turn <= turn /\ (pc = "prelude" => session[i].turn < turn)

Chronicle == Paired(session) /\ Resumed(session) /\ Dated

\* The user has the last word in the session until the turn's messages join it.
Asking ==
    pc \in { "assembling", "running", "returned", "refiring" } =>
        /\ Len(session) > 0
        /\ session[Len(session)].role = "user" /\ session[Len(session)].turn = turn

\* What a turn appends begins with the model and alternates; only its last calls may
\* lack their results.
Alternates(msgs) ==
    /\ Paired(msgs)
    /\ \A i \in 1 .. Len(msgs) :
          /\ msgs[i].use /\ i < Len(msgs) => msgs[i + 1].role = "tool"
          /\ msgs[i].role # "system"
          /\ i = 1 => msgs[i].role = "assistant"
          /\ i > 1 => msgs[i].role # msgs[i - 1].role

OfTurn(msgs, t) == \A i \in 1 .. Len(msgs) : msgs[i].turn = t

FreshOK ==
    /\ Alternates(fresh) /\ OfTurn(fresh, turn)
    /\ Len(fresh) > 0 => fresh[Len(fresh)].role # "assistant"
    /\ pc = "idle" => Len(fresh) = 0

AppendedOK ==
    /\ Alternates(appended) /\ OfTurn(appended, turn)
    /\ final = "call" => Len(appended) > 0 /\ appended[Len(appended)].role = "assistant"
    /\ final = "both" =>
          Len(appended) > 0 /\ appended[Len(appended)].use /\ appended[Len(appended)].text
    /\ pc = "idle" => Len(appended) = 0

\* Entries of the file: no tool blocks, and a reply comes after the message it answers.
Plain(h) == \A i \in 1 .. Len(h) : ~ h[i].use /\ h[i].role \in { "user", "assistant" }

Reply(m) == m.role = "assistant" /\ m.text

Asks(m, t) == m.role = "user" /\ m.text /\ m.turn = t

Prefaced(h) ==
    \A i \in 1 .. Len(h) : Reply(h[i]) => \E k \in 1 .. i - 1 : Asks(h[k], h[i].turn)

Recorded(h) == \A t \in delivered : \E i \in 1 .. Len(h) : Reply(h[i]) /\ h[i].turn = t

\* The turns the model can still know of.
Known ==
    hooked \cup summarised
    \cup { t \in 0 .. MaxTurns :
              \E j \in 1 .. Len(session) : session[j].role = "user" /\ session[j].turn = t }

Remembered(h) == \A i \in 1 .. Len(h) : Reply(h[i]) => h[i].turn \in Known

Files ==
    /\ Plain(file) /\ Prefaced(file) /\ Recorded(file)
    /\ Plain(hist) /\ Prefaced(hist)
    /\ live => Remembered(file)

\* What a turn that holds a session can count on.
Grounds ==
    /\ live /\ Recorded(hist) /\ Remembered(hist)
    /\ turn \in Known
    /\ \E k \in 1 .. Len(hist) : Asks(hist[k], turn)

Held == Holding => Grounds

IInv ==
    /\ Typed /\ Chronicle /\ Asking /\ FreshOK /\ AppendedOK
    /\ RequestKeepsRounds /\ Files /\ Held

-----------------------------------------------------------------------------
(* Positions and their ranks. *)

LEMMA Least ==
    ASSUME NEW T \in SUBSET Nat, T # {}
    PROVE  \E x \in T : \A y \in T : x <= y
<1> DEFINE R == { ss \in Nat \X Nat : ss[1] < ss[2] }
<1>1. IsWellFoundedOn(R, Nat)
    BY NatLessThanWellFounded, Zenon DEF OpToRel
<1>2. PICK x \in T : \A y \in T : ~ (<< y, x >> \in R)
  <2> HIDE DEF R
  <2>1. T \subseteq Nat
      OBVIOUS
  <2>2. QED
      BY <1>1, <2>1, WFMin
<1>3. \A y \in T : ~ (y < x)
    BY <1>2
<1>4. QED
    BY <1>3

LEMMA RankFacts ==
    ASSUME NEW n \in Nat, NEW S \in SUBSET (1 .. n)
    PROVE  /\ Cardinality(S) \in Nat /\ Rank(S, 0) = 0 /\ Rank(S, n) = Cardinality(S)
           /\ \A i \in 0 .. n : Rank(S, i) \in 0 .. Cardinality(S)
           /\ \A i \in 1 .. n : Rank(S, i) = IF i \in S THEN Rank(S, i - 1) + 1 ELSE Rank(S, i - 1)
           /\ \A i, j \in 0 .. n : i <= j => Rank(S, i) <= Rank(S, j)
<1> DEFINE Upto(i) == { j \in S : j <= i }
<1>0. \A j \in S : j \in Nat /\ 1 <= j /\ j <= n
    OBVIOUS
<1>1. IsFiniteSet(S) /\ Cardinality(S) \in Nat
  <2>1. IsFiniteSet(1 .. n)
      BY FS_Interval
  <2>2. QED
      BY <2>1, FS_Subset, FS_CardinalityType
<1>2. \A i : Upto(i) \in SUBSET S
    OBVIOUS
<1>3. \A i : IsFiniteSet(Upto(i)) /\ Cardinality(Upto(i)) \in Nat
              /\ Cardinality(Upto(i)) <= Cardinality(S)
  <2> SUFFICES ASSUME NEW i
               PROVE  IsFiniteSet(Upto(i)) /\ Cardinality(Upto(i)) \in Nat
                      /\ Cardinality(Upto(i)) <= Cardinality(S)
      OBVIOUS
  <2> HIDE DEF Upto
  <2>1. IsFiniteSet(Upto(i)) /\ Cardinality(Upto(i)) <= Cardinality(S)
      BY <1>1, <1>2, FS_Subset
  <2>2. QED
      BY <2>1, FS_CardinalityType
<1>4. Upto(0) = {} /\ Upto(n) = S
  <2>1. \A j \in S : ~ (j <= 0) /\ j <= n
      BY <1>0
  <2>2. QED
      BY <2>1, Zenon
<1>5. Rank(S, 0) = 0 /\ Rank(S, n) = Cardinality(S)
    BY <1>4, FS_EmptySet DEF Rank
<1>6. \A i \in 0 .. n : Rank(S, i) \in 0 .. Cardinality(S)
    BY <1>1, <1>3 DEF Rank
<1>7. ASSUME NEW i \in 1 .. n
      PROVE  Rank(S, i) = IF i \in S THEN Rank(S, i - 1) + 1 ELSE Rank(S, i - 1)
  <2>0. \A j \in S : (j <= i <=> j <= i - 1 \/ j = i) /\ (j <= i - 1 => j # i)
      BY <1>0
  <2>1. i \in S => Upto(i) = Upto(i - 1) \cup { i } /\ i \notin Upto(i - 1)
      BY <2>0, Zenon
  <2>2. i \notin S => Upto(i) = Upto(i - 1)
      BY <2>0, Zenon
  <2>3. IsFiniteSet(Upto(i - 1))
      BY <1>3
  <2> HIDE DEF Upto
  <2>4. i \notin Upto(i - 1) =>
           Cardinality(Upto(i - 1) \cup { i }) = Cardinality(Upto(i - 1)) + 1
      BY <2>3, FS_AddElement
  <2>5. Rank(S, i) = Cardinality(Upto(i)) /\ Rank(S, i - 1) = Cardinality(Upto(i - 1))
      BY DEF Rank, Upto
  <2>6. QED
      BY <2>1, <2>2, <2>4, <2>5
<1>8. ASSUME NEW i \in 0 .. n, NEW j \in 0 .. n, i <= j
      PROVE  Rank(S, i) <= Rank(S, j)
  <2>0. \A x \in S : x <= i => x <= j
      BY <1>0, <1>8
  <2>1. Upto(i) \in SUBSET Upto(j)
      BY <2>0, Zenon
  <2>2. IsFiniteSet(Upto(j))
      BY <1>3
  <2> HIDE DEF Upto
  <2>3. Cardinality(Upto(i)) <= Cardinality(Upto(j))
      BY <2>1, <2>2, FS_Subset
  <2>4. QED
      BY <2>3 DEF Rank, Upto
<1>9. QED
    BY <1>1, <1>5, <1>6, <1>7, <1>8

LEMMA RankFirst ==
    ASSUME NEW n \in Nat, NEW S \in SUBSET (1 .. n), NEW k \in 1 .. Cardinality(S)
    PROVE  \E i \in S : Rank(S, i) = k
<1>1. /\ Cardinality(S) \in Nat /\ Rank(S, 0) = 0 /\ Rank(S, n) = Cardinality(S)
      /\ \A i \in 0 .. n : Rank(S, i) \in 0 .. Cardinality(S)
      /\ \A i \in 1 .. n : Rank(S, i) = IF i \in S THEN Rank(S, i - 1) + 1 ELSE Rank(S, i - 1)
    BY RankFacts
<1> DEFINE T == { i \in 0 .. n : Rank(S, i) >= k }
<1>2. T \in SUBSET Nat /\ n \in T
    BY <1>1
<1>3. PICK x \in T : \A y \in T : x <= y
  <2> HIDE DEF T
  <2>1. T # {}
      BY <1>2
  <2>2. QED
      BY <1>2, <2>1, Least
<1>4. x \in 0 .. n /\ Rank(S, x) >= k
    OBVIOUS
<1>5. x # 0
    BY <1>1, <1>4
<1>6. x \in 1 .. n /\ x - 1 \in 0 .. n
    BY <1>4, <1>5
<1>7. ~ (Rank(S, x - 1) >= k)
  <2>1. x - 1 \notin T
      BY <1>3, <1>6
  <2>2. QED
      BY <1>6, <2>1
<1>8. x \in S /\ Rank(S, x) = k
  <2>1. Rank(S, x) \in Nat /\ Rank(S, x - 1) \in Nat /\ k \in Nat
      BY <1>1, <1>4, <1>6
  <2>2. Rank(S, x) = IF x \in S THEN Rank(S, x - 1) + 1 ELSE Rank(S, x - 1)
      BY <1>1, <1>6
  <2>3. QED
      BY <1>4, <1>7, <2>1, <2>2
<1>9. QED
    BY <1>8

\* The last position that has a rank.
LEMMA RankLast ==
    ASSUME NEW n \in Nat, NEW S \in SUBSET (1 .. n), NEW k \in 1 .. Cardinality(S)
    PROVE  \E i \in 1 .. n : Rank(S, i) = k /\ (i = n \/ i + 1 \in S)
<1>1. /\ Cardinality(S) \in Nat /\ Rank(S, 0) = 0 /\ Rank(S, n) = Cardinality(S)
      /\ \A i \in 0 .. n : Rank(S, i) \in 0 .. Cardinality(S)
      /\ \A i \in 1 .. n : Rank(S, i) = IF i \in S THEN Rank(S, i - 1) + 1 ELSE Rank(S, i - 1)
    BY RankFacts
<1>2. CASE k = Cardinality(S)
  <2>1. n # 0
      BY <1>1, <1>2
  <2>2. n \in 1 .. n
      BY <2>1
  <2>3. QED
      BY <1>1, <1>2, <2>2
<1>3. CASE k # Cardinality(S)
  <2>1. k + 1 \in 1 .. Cardinality(S)
      BY <1>1, <1>3
  <2>2. PICK h \in S : Rank(S, h) = k + 1
      BY <2>1, RankFirst
  <2>3. h \in 1 .. n /\ h - 1 \in 0 .. n
      OBVIOUS
  <2>4. Rank(S, h - 1) = k
    <3>1. Rank(S, h) = Rank(S, h - 1) + 1 /\ Rank(S, h - 1) \in Nat
        BY <1>1, <2>3
    <3>2. QED
        BY <2>2, <3>1
  <2>5. h - 1 # 0
      BY <1>1, <2>4
  <2>6. h - 1 \in 1 .. n /\ (h - 1) + 1 = h
      BY <2>3, <2>5
  <2>7. QED
      BY <2>4, <2>6
<1>4. QED
    BY <1>2, <1>3

LEMMA AtPositionsFacts ==
    ASSUME NEW M, NEW msgs \in Seq(M), NEW S \in SUBSET (1 .. Len(msgs))
    PROVE  /\ AtPositions(msgs, S) \in Seq(M)
           /\ \A i \in S : /\ Rank(S, i) \in 1 .. Len(AtPositions(msgs, S))
                          /\ AtPositions(msgs, S)[Rank(S, i)] = msgs[i]
           /\ \A k \in 1 .. Len(AtPositions(msgs, S)) :
                  \E i \in S : Rank(S, i) = k /\ AtPositions(msgs, S)[k] = msgs[i]
           /\ \A i, j \in S : i < j => Rank(S, i) < Rank(S, j)
<1> DEFINE n == Len(msgs)
           out == AtPositions(msgs, S)
<1>0. n \in Nat
    OBVIOUS
<1>1. /\ Cardinality(S) \in Nat
      /\ \A i \in 0 .. n : Rank(S, i) \in 0 .. Cardinality(S)
      /\ \A i \in 1 .. n : Rank(S, i) = IF i \in S THEN Rank(S, i - 1) + 1 ELSE Rank(S, i - 1)
      /\ \A i, j \in 0 .. n : i <= j => Rank(S, i) <= Rank(S, j)
    BY <1>0, RankFacts
<1>2. ASSUME NEW i \in S, NEW j \in S, i < j
      PROVE  Rank(S, i) < Rank(S, j)
  <2>1. i \in 0 .. n /\ j \in 1 .. n /\ j - 1 \in 0 .. n /\ i <= j - 1
      BY <1>2
  <2>2. Rank(S, i) <= Rank(S, j - 1) /\ Rank(S, j) = Rank(S, j - 1) + 1
        /\ Rank(S, i) \in Nat /\ Rank(S, j - 1) \in Nat
      BY <1>1, <2>1
  <2>3. QED
      BY <2>2
<1>3. ASSUME NEW k \in 1 .. Cardinality(S)
      PROVE  \E i \in S : Rank(S, i) = k /\ out[k] = msgs[i]
  <2>1. \E i \in S : Rank(S, i) = k
      BY <1>0, RankFirst
  <2>2. PICK i \in S : i = CHOOSE j \in S : Rank(S, j) = k
      BY <2>1
  <2>3. Rank(S, i) = k
      BY <2>1, <2>2
  <2>4. out[k] = msgs[i]
      BY <2>2 DEF AtPositions
  <2>5. QED
      BY <2>3, <2>4
<1>4. out \in Seq(M) /\ Len(out) = Cardinality(S)
  <2>1. \A k \in 1 .. Cardinality(S) : out[k] \in M
      BY <1>3
  <2>2. out = [ k \in 1 .. Cardinality(S) |-> out[k] ]
      BY DEF AtPositions
  <2> HIDE DEF out
  <2>3. out \in [ 1 .. Cardinality(S) -> M ]
      BY <2>1, <2>2
  <2>4. PICK m \in Nat : m = Cardinality(S)
      BY <1>1
  <2>5. out \in [ 1 .. m -> M ]
      BY <2>3, <2>4
  <2>6. out \in Seq(M) /\ Len(out) = m
      BY <2>5
  <2>7. QED
      BY <2>4, <2>6
<1>5. ASSUME NEW i \in S
      PROVE  Rank(S, i) \in 1 .. Cardinality(S) /\ out[Rank(S, i)] = msgs[i]
  <2>1. i \in 1 .. n /\ i - 1 \in 0 .. n /\ i \in 0 .. n
      OBVIOUS
  <2>2. Rank(S, i) = Rank(S, i - 1) + 1 /\ Rank(S, i - 1) \in Nat /\ Rank(S, i) <= Cardinality(S)
      BY <1>1, <2>1
  <2>3. Rank(S, i) \in 1 .. Cardinality(S)
      BY <1>1, <2>2
  <2>4. PICK j \in S : Rank(S, j) = Rank(S, i) /\ out[Rank(S, i)] = msgs[j]
      BY <1>3, <2>3
  <2>5. j = i
    <3>1. ~ (i < j) /\ ~ (j < i)
        BY <1>2, <2>2, <2>4
    <3>2. i \in Nat /\ j \in Nat
        OBVIOUS
    <3>3. QED
        BY <3>1, <3>2
  <2>6. QED
      BY <2>3, <2>4, <2>5
<1> HIDE DEF n, out
<1>6. QED
    BY <1>2, <1>3, <1>4, <1>5 DEF out

-----------------------------------------------------------------------------
(* Merging. *)

\* out is msgs merged, H the heads of its runs: the messages of a run share their role,
\* calls of one are the run's, and its turn is that of the last.
Merges(msgs, out, H) ==
    /\ H \in SUBSET (1 .. Len(msgs)) /\ out \in Seq(Message) /\ Len(out) = Cardinality(H)
    /\ \A i \in 1 .. Len(msgs) :
           /\ Rank(H, i) \in 1 .. Len(out)
           /\ out[Rank(H, i)].role = msgs[i].role
           /\ msgs[i].use => out[Rank(H, i)].use
    /\ \A k \in 1 .. Len(out) :
           /\ \E h \in H : Rank(H, h) = k
           /\ out[k].use => \E i \in 1 .. Len(msgs) : Rank(H, i) = k /\ msgs[i].use
           /\ \E l \in 1 .. Len(msgs) : /\ Rank(H, l) = k /\ out[k].turn = msgs[l].turn
                                        /\ l < Len(msgs) => Rank(H, l + 1) # k

LEMMA MergeFacts ==
    ASSUME NEW msgs \in Seq(Message),
           NEW out, out = MergeConsecutiveSameRole(msgs),
           NEW H, H = Heads(msgs)
    PROVE  Merges(msgs, out, H)
<1> DEFINE n == Len(msgs)
<1>0. n \in Nat /\ DOMAIN msgs = 1 .. n
    OBVIOUS
<1>1. /\ H \in SUBSET (1 .. n)
      /\ \A i \in 1 .. n : i \in H <=> i = 1 \/ ~ Joins(msgs[i - 1], msgs[i])
    BY <1>0 DEF Heads
<1>2. /\ Cardinality(H) \in Nat /\ Rank(H, 0) = 0
      /\ \A i \in 0 .. n : Rank(H, i) \in 0 .. Cardinality(H)
      /\ \A i \in 1 .. n : Rank(H, i) = IF i \in H THEN Rank(H, i - 1) + 1 ELSE Rank(H, i - 1)
      /\ \A i, j \in 0 .. n : i <= j => Rank(H, i) <= Rank(H, j)
    BY <1>0, <1>1, RankFacts
<1>3. ASSUME NEW i \in 1 .. n
      PROVE  Rank(H, i) \in 1 .. Cardinality(H)
  <2>1. 1 \in 1 .. n /\ 1 - 1 = 0 /\ 1 \in 0 .. n /\ i \in 0 .. n /\ 1 <= i
      BY <1>0
  <2>2. Rank(H, 1) = 1
      BY <1>1, <1>2, <2>1
  <2>3. Rank(H, 1) <= Rank(H, i) /\ Rank(H, i) \in 0 .. Cardinality(H)
      BY <1>2, <2>1
  <2>4. QED
      BY <1>2, <2>2, <2>3
\* Within a run every message has the role of the first.
<1>4. ASSUME NEW h \in H, NEW i \in 1 .. n, Rank(H, i) = Rank(H, h)
      PROVE  h <= i /\ msgs[i].role = msgs[h].role
  <2>1. h \in 1 .. n /\ h - 1 \in 0 .. n /\ h \in 0 .. n
      BY <1>1
  <2>2. Rank(H, h) = Rank(H, h - 1) + 1 /\ Rank(H, h - 1) \in Nat
      BY <1>2, <2>1
  <2>3. ASSUME NEW j \in 1 .. n, Rank(H, j) = Rank(H, h)
        PROVE  h <= j
    <3>1. j \in 0 .. n /\ (~ (h <= j) => j <= h - 1)
        BY <2>1
    <3>2. j <= h - 1 => Rank(H, j) <= Rank(H, h - 1)
        BY <1>2, <2>1, <3>1
    <3>3. QED
        BY <2>2, <2>3, <3>1, <3>2
  <2> DEFINE Bad == { j \in 1 .. n : Rank(H, j) = Rank(H, h) /\ msgs[j].role # msgs[h].role }
  <2>4. Bad = {}
    <3>1. SUFFICES ASSUME Bad # {} PROVE FALSE
        OBVIOUS
    <3>2. Bad \in SUBSET Nat
        OBVIOUS
    <3>3. PICK x \in Bad : \A y \in Bad : x <= y
      <4> HIDE DEF Bad
      <4>1. QED
          BY <3>1, <3>2, Least
    <3>4. x \in 1 .. n /\ Rank(H, x) = Rank(H, h) /\ msgs[x].role # msgs[h].role
        OBVIOUS
    <3>5. h <= x /\ x # h
        BY <2>3, <3>4
    <3>6. x - 1 \in 1 .. n /\ h <= x - 1 /\ x # 1 /\ ~ (x <= x - 1)
          /\ x - 1 \in 0 .. n /\ h \in 0 .. n
        BY <2>1, <3>4, <3>5
    <3>7. Rank(H, h) <= Rank(H, x - 1) /\ Rank(H, x - 1) \in Nat
        BY <1>2, <3>6
    <3>8. x \notin H /\ Rank(H, x - 1) = Rank(H, h)
      <4>1. Rank(H, x) = IF x \in H THEN Rank(H, x - 1) + 1 ELSE Rank(H, x - 1)
          BY <1>2, <3>4
      <4>2. Rank(H, h) \in Nat
          BY <2>2
      <4>3. QED
          BY <3>4, <3>7, <4>1, <4>2
    <3>9. msgs[x - 1].role = msgs[x].role
        BY <1>1, <3>4, <3>6, <3>8 DEF Joins
    <3>10. x - 1 \in Bad
        BY <3>4, <3>6, <3>8, <3>9
    <3>11. QED
        BY <3>3, <3>6, <3>10
  <2>5. QED
      BY <1>4, <2>3, <2>4
<1>5. ASSUME NEW k \in 1 .. Cardinality(H)
      PROVE  /\ out[k] \in Message
             /\ \E h \in H : Rank(H, h) = k /\ out[k].role = msgs[h].role
             /\ out[k].use <=> \E i \in 1 .. n : Rank(H, i) = k /\ msgs[i].use
             /\ \E l \in 1 .. n : /\ Rank(H, l) = k /\ out[k].turn = msgs[l].turn
                                  /\ l < n => Rank(H, l + 1) # k
  <2> DEFINE run == { i \in 1 .. n : Rank(H, i) = k }
  <2>1. PICK h \in H : Rank(H, h) = k
      BY <1>0, <1>1, RankFirst
  <2>a. \E l \in 1 .. n : Rank(H, l) = k /\ (l = n \/ l + 1 \in H)
    <3> HIDE DEF n, run
    <3>1. \A S \in SUBSET (1 .. n) : \A r \in 1 .. Cardinality(S) :
             \E l \in 1 .. n : Rank(S, l) = r /\ (l = n \/ l + 1 \in S)
        BY <1>0, RankLast
    <3>2. H \in SUBSET (1 .. n)
        BY <1>1
    <3>3. QED
        BY <3>1, <3>2, Zenon
  <2>2. PICK l \in 1 .. n : Rank(H, l) = k /\ (l = n \/ l + 1 \in H)
      BY <2>a
  <2>3. l \in run /\ l + 1 \notin run
    <3>1. CASE l = n
        BY <2>2, <3>1
    <3>2. CASE l + 1 \in H
      <4>1. l + 1 \in 1 .. n /\ (l + 1) - 1 = l
          BY <1>1, <3>2
      <4>2. Rank(H, l + 1) = Rank(H, l) + 1
          BY <1>2, <3>2, <4>1
      <4>3. k \in Nat /\ k + 1 # k
          OBVIOUS
      <4>4. QED
          BY <2>2, <4>2, <4>3
    <3>3. QED
        BY <2>2, <3>1, <3>2
  <2>4. PICK last \in run : /\ last = CHOOSE i \in run : i + 1 \notin run
                            /\ last + 1 \notin run
      BY <2>3
  <2>5. last \in 1 .. n /\ Rank(H, last) = k /\ (last < n => Rank(H, last + 1) # k)
      BY <2>4
  <2>6. msgs[last].role = msgs[h].role
      BY <1>4, <2>1, <2>5
  <2>7. RunOf(msgs, k) = run
      BY <1>0 DEF RunOf
  <2> HIDE DEF run
  <2>8. out[k] = Msg(msgs[last].role, \E i \in run : msgs[i].use, \E i \in run : msgs[i].text,
                     msgs[last].turn)
      BY <2>4, <2>7 DEF MergeConsecutiveSameRole, Merged
  <2>9. msgs[last] \in Message
      BY <2>5
  <2>10. out[k] \in Message /\ out[k].role = msgs[last].role
         /\ out[k].turn = msgs[last].turn
         /\ (out[k].use <=> \E i \in run : msgs[i].use)
      BY <2>8, <2>9 DEF Msg, Message
  <2>11. QED
      BY <2>1, <2>5, <2>6, <2>10 DEF run
<1>6. out \in Seq(Message) /\ Len(out) = Cardinality(H)
  <2>1. out = [ k \in 1 .. Cardinality(H) |-> out[k] ]
      BY DEF MergeConsecutiveSameRole
  <2>2. \A k \in 1 .. Cardinality(H) : out[k] \in Message
      BY <1>5
  <2>3. out \in [ 1 .. Cardinality(H) -> Message ]
      BY <2>1, <2>2
  <2>4. QED
      BY <1>2, <2>3
<1>7. ASSUME NEW i \in 1 .. n
      PROVE  out[Rank(H, i)].role = msgs[i].role /\ (msgs[i].use => out[Rank(H, i)].use)
  <2>1. PICK k \in 1 .. Cardinality(H) : k = Rank(H, i)
      BY <1>3
  <2>2. PICK h \in H : Rank(H, h) = k /\ out[k].role = msgs[h].role
      BY <1>5
  <2>3. msgs[i].role = msgs[h].role
      BY <1>4, <2>1, <2>2
  <2>4. msgs[i].use => out[k].use
      BY <1>5, <2>1
  <2>5. QED
      BY <2>1, <2>2, <2>3, <2>4
<1> HIDE DEF n
<1>8. QED
    BY <1>1, <1>3, <1>5, <1>6, <1>7 DEF n, Merges

\* A session in which calls and results stay together, unanswered calls end their turn
\* and a user has the last word keeps its rounds when it is merged.
LEMMA MergeKeeps ==
    ASSUME NEW msgs \in Seq(Message), Paired(msgs), Resumed(msgs),
           Len(msgs) > 0, msgs[Len(msgs)].role = "user",
           NEW out, out = MergeConsecutiveSameRole(msgs)
    PROVE  out \in Seq(Message) /\ KeepsRounds(out) /\ Last(out).role = "user"
<1> DEFINE H == Heads(msgs)
           n == Len(msgs)
<1>1. /\ H \in SUBSET (1 .. n) /\ out \in Seq(Message) /\ Len(out) = Cardinality(H)
      /\ \A i \in 1 .. n : /\ Rank(H, i) \in 1 .. Len(out)
                           /\ out[Rank(H, i)].role = msgs[i].role
                           /\ msgs[i].use => out[Rank(H, i)].use
      /\ \A k \in 1 .. Len(out) :
             /\ \E h \in H : Rank(H, h) = k
             /\ out[k].use => \E i \in 1 .. n : Rank(H, i) = k /\ msgs[i].use
             /\ \E l \in 1 .. n : /\ Rank(H, l) = k /\ out[k].turn = msgs[l].turn
                                  /\ l < n => Rank(H, l + 1) # k
  <2>1. Merges(msgs, out, H)
      BY MergeFacts
  <2>2. QED
      BY <2>1 DEF Merges
<1>2. n \in Nat /\ n \in 1 .. n /\ 1 \in 1 .. n /\ \A i \in 1 .. n : i \in Nat
    OBVIOUS
<1>3. /\ Rank(H, 0) = 0 /\ Rank(H, n) = Cardinality(H)
      /\ \A i \in 0 .. n : Rank(H, i) \in 0 .. Cardinality(H)
      /\ \A i \in 1 .. n : Rank(H, i) = IF i \in H THEN Rank(H, i - 1) + 1 ELSE Rank(H, i - 1)
      /\ \A i, j \in 0 .. n : i <= j => Rank(H, i) <= Rank(H, j)
    BY <1>1, <1>2, RankFacts
<1>4. \A i \in 1 .. n : i \in H <=> i = 1 \/ ~ Joins(msgs[i - 1], msgs[i])
    BY DEF Heads
<1>5. Len(out) \in Nat /\ Len(out) >= 1 /\ Len(out) \in 1 .. Len(out)
    BY <1>1, <1>2
<1> HIDE DEF H, n
<1>6. out # << >> /\ Last(out) = out[Len(out)]
    BY <1>1, <1>5 DEF Last
<1>7. out[Len(out)].role = "user"
  <2>1. Rank(H, n) = Len(out)
      BY <1>1, <1>3
  <2>2. out[Rank(H, n)].role = msgs[n].role
      BY <1>1, <1>2
  <2>3. QED
      BY <2>1, <2>2 DEF n
<1>8. \A i \in 1 .. n :
          /\ msgs[i].use =>
                msgs[i].role = "assistant" /\ i < n /\ msgs[i + 1].role \in { "tool", "user" }
          /\ msgs[i].role = "tool" => i > 1 /\ msgs[i - 1].use
          /\ msgs[i].role = "system" => i = 1
    BY DEF Paired, n
<1>9. ASSUME NEW k \in 1 .. Len(out), out[k].use
      PROVE  Answered(out, k) \/ CutShort(out, k)
  <2>1. PICK i \in 1 .. n : Rank(H, i) = k /\ msgs[i].use
      BY <1>1, <1>9
  <2>2. msgs[i].role = "assistant" /\ i + 1 \in 1 .. n /\ (i + 1) - 1 = i
        /\ msgs[i + 1].role \in { "tool", "user" }
      BY <1>2, <1>8, <2>1
  <2>3. i + 1 \in H
      BY <1>4, <2>2 DEF Joins
  <2>4. Rank(H, i + 1) = k + 1
      BY <1>3, <2>1, <2>2, <2>3
  <2>5. k + 1 \in 1 .. Len(out) /\ out[k + 1].role = msgs[i + 1].role /\ k < Len(out)
    <3>1. Rank(H, i + 1) \in 1 .. Len(out) /\ out[Rank(H, i + 1)].role = msgs[i + 1].role
        BY <1>1, <2>2
    <3>2. QED
        BY <1>5, <2>4, <3>1
  \* The message with the calls is the last of its run.
  <2>6. out[k].turn = msgs[i].turn
    <3>1. PICK l \in 1 .. n : /\ Rank(H, l) = k /\ out[k].turn = msgs[l].turn
                              /\ l < n => Rank(H, l + 1) # k
        BY <1>1
    <3>2. ~ (i < l)
      <4>1. i < l => i + 1 \in 0 .. n /\ l \in 0 .. n /\ i + 1 <= l
          BY <1>2
      <4>2. i < l => Rank(H, i + 1) <= Rank(H, l)
          BY <1>3, <4>1
      <4>3. QED
          BY <1>5, <2>4, <3>1, <4>2
    <3>3. ~ (l < i)
      <4>1. l < i => l < n /\ l + 1 \in 0 .. n /\ l \in 0 .. n /\ i \in 0 .. n
                     /\ l <= l + 1 /\ l + 1 <= i
          BY <1>2
      <4>2. l < i => Rank(H, l) <= Rank(H, l + 1) /\ Rank(H, l + 1) <= Rank(H, i)
                     /\ Rank(H, l + 1) \in Nat
          BY <1>3, <1>5, <4>1
      <4>3. QED
          BY <1>5, <2>1, <3>1, <4>1, <4>2
    <3>4. QED
        BY <1>2, <3>1, <3>2, <3>3
  <2>7. CASE msgs[i + 1].role = "tool"
      BY <2>5, <2>7 DEF Answered
  <2>8. CASE msgs[i + 1].role = "user"
    <3>1. PICK l \in 1 .. n : Rank(H, l) = k + 1 /\ out[k + 1].turn = msgs[l].turn
        BY <1>1, <2>5
    <3>2. i < l
      <4>1. ~ (i < l) => l \in 0 .. n /\ i \in 0 .. n /\ l <= i
          BY <1>2
      <4>2. ~ (i < l) => Rank(H, l) <= Rank(H, i)
          BY <1>3, <4>1
      <4>3. QED
          BY <1>5, <2>1, <3>1, <4>2
    <3>3. msgs[i].turn < msgs[l].turn
        BY <2>1, <2>8, <3>2 DEF Resumed, n
    <3>4. QED
        BY <2>5, <2>6, <2>8, <3>1, <3>3 DEF CutShort
  <2>9. QED
      BY <2>2, <2>7, <2>8
<1>10. ASSUME NEW k \in 1 .. Len(out), NEW h \in H, Rank(H, h) = k, h # 1
       PROVE  k > 1 /\ h - 1 \in 1 .. n /\ Rank(H, h - 1) = k - 1
  <2>1. h \in 1 .. n /\ h - 1 \in 1 .. n /\ h - 1 \in 0 .. n
      BY <1>1, <1>2, <1>10
  <2>2. Rank(H, h) = Rank(H, h - 1) + 1 /\ Rank(H, h - 1) \in 1 .. Len(out)
      BY <1>1, <1>3, <2>1
  <2>3. QED
      BY <1>10, <2>1, <2>2
<1>11. ASSUME NEW k \in 1 .. Len(out), out[k].role = "tool"
       PROVE  k > 1 /\ out[k - 1].use
  <2>1. PICK h \in H : Rank(H, h) = k
      BY <1>1
  <2>2. h \in 1 .. n /\ msgs[h].role = "tool"
      BY <1>1, <1>11, <2>1
  <2>3. h > 1 /\ msgs[h - 1].use
      BY <1>8, <2>2
  <2>4. k > 1 /\ h - 1 \in 1 .. n /\ Rank(H, h - 1) = k - 1
      BY <1>10, <2>1, <2>3
  <2>5. QED
      BY <1>1, <2>3, <2>4
<1>12. ASSUME NEW k \in 1 .. Len(out), k > 1
       PROVE  out[k].role # out[k - 1].role
  <2>1. PICK h \in H : Rank(H, h) = k
      BY <1>1
  <2>2. h \in 1 .. n /\ h # 1
    <3>1. h = 1 => Rank(H, h) = Rank(H, 0) + 1
        BY <1>2, <1>3
    <3>2. QED
        BY <1>1, <1>3, <1>12, <2>1, <3>1
  <2>3. h - 1 \in 1 .. n /\ Rank(H, h - 1) = k - 1
      BY <1>10, <2>1, <2>2
  <2>4. out[k].role = msgs[h].role /\ out[k - 1].role = msgs[h - 1].role
      BY <1>1, <2>1, <2>2, <2>3
  <2>5. ~ Joins(msgs[h - 1], msgs[h])
      BY <1>4, <2>2
  <2>6. msgs[h].role = "tool" => msgs[h - 1].role = "assistant"
      BY <1>8, <2>2, <2>3
  <2>7. msgs[h].role # "system"
      BY <1>8, <2>2
  <2>8. msgs[h].role \in { "user", "assistant", "tool", "system" }
    <3>1. msgs[h] \in Message
        BY <2>2 DEF n
    <3>2. QED
        BY <3>1 DEF Message
  <2>9. QED
      BY <2>4, <2>5, <2>6, <2>7, <2>8 DEF Joins
<1>13. KeepsRounds(out)
    BY <1>6, <1>7, <1>9, <1>11, <1>12 DEF KeepsRounds
<1>14. QED
    BY <1>1, <1>6, <1>7, <1>13

-----------------------------------------------------------------------------
(* Lists of messages. *)

LEMMA Constructors ==
    ASSUME NEW t \in 0 .. MaxTurns, NEW b \in BOOLEAN
    PROVE  /\ User(t) \in Message /\ Asst(b, t) \in Message /\ Calls(b, t) \in Message
           /\ Results(t) \in Message /\ Summary \in Message
           /\ User(t).role = "user" /\ ~ User(t).use /\ User(t).text /\ User(t).turn = t
           /\ Asst(b, t).role = "assistant" /\ ~ Asst(b, t).use /\ Asst(b, t).text = b
           /\ Asst(b, t).turn = t
           /\ Calls(b, t).role = "assistant" /\ Calls(b, t).use /\ Calls(b, t).text = b
           /\ Calls(b, t).turn = t
           /\ Results(t).role = "tool" /\ ~ Results(t).use /\ Results(t).turn = t
           /\ Summary.role = "system" /\ ~ Summary.use
<1>1. 0 \in 0 .. MaxTurns
    BY SessionConstants
<1>2. QED
    BY <1>1 DEF User, Asst, Calls, Results, Summary, Msg, Message

LEMMA Concat ==
    ASSUME NEW s \in Seq(Message), NEW t \in Seq(Message), NEW u, u = s \o t
    PROVE  /\ u \in Seq(Message) /\ Len(u) = Len(s) + Len(t)
           /\ Len(s) \in Nat /\ Len(t) \in Nat
           /\ \A i \in 1 .. Len(s) : i \in 1 .. Len(u) /\ u[i] = s[i]
           /\ \A i \in 1 .. Len(t) : Len(s) + i \in 1 .. Len(u) /\ u[Len(s) + i] = t[i]
           /\ \A i \in 1 .. Len(u) :
                  i \in 1 .. Len(s) \/ (i - Len(s) \in 1 .. Len(t) /\ u[i] = t[i - Len(s)])
    OBVIOUS

LEMMA Prefix ==
    ASSUME NEW M, NEW s \in Seq(M), NEW m \in 0 .. Len(s)
    PROVE  /\ SubSeq(s, 1, m) \in Seq(M) /\ Len(SubSeq(s, 1, m)) = m
           /\ \A i \in 1 .. m : SubSeq(s, 1, m)[i] = s[i]
    OBVIOUS

LEMMA AppendFacts ==
    ASSUME NEW s \in Seq(Message), NEW m \in Message, NEW u, u = Append(s, m)
    PROVE  /\ u \in Seq(Message) /\ Len(u) = Len(s) + 1 /\ Len(s) \in Nat
           /\ \A i \in 1 .. Len(s) : i \in 1 .. Len(u) /\ u[i] = s[i]
           /\ u[Len(s) + 1] = m /\ Len(s) + 1 \in 1 .. Len(u)
           /\ \A i \in 1 .. Len(u) : i \in 1 .. Len(s) \/ i = Len(s) + 1
    OBVIOUS

\* Calls and results stay together in a longer list whose first part ends with no call.
LEMMA PairedConcat ==
    ASSUME NEW s \in Seq(Message), NEW t \in Seq(Message), Paired(s), Paired(t),
           Len(s) > 0 => ~ s[Len(s)].use,
           \A i \in 1 .. Len(t) : t[i].role # "system"
    PROVE  Paired(s \o t)
<1> DEFINE u == s \o t
<1>1. /\ Len(u) = Len(s) + Len(t) /\ Len(s) \in Nat /\ Len(t) \in Nat
      /\ \A i \in 1 .. Len(s) : i \in 1 .. Len(u) /\ u[i] = s[i]
      /\ \A i \in 1 .. Len(t) : Len(s) + i \in 1 .. Len(u) /\ u[Len(s) + i] = t[i]
      /\ \A i \in 1 .. Len(u) :
             i \in 1 .. Len(s) \/ (i - Len(s) \in 1 .. Len(t) /\ u[i] = t[i - Len(s)])
  <2> HIDE DEF u
  <2>1. u = s \o t
      BY DEF u
  <2>2. QED
      BY <2>1, Concat
<1> HIDE DEF u
<1>2. ASSUME NEW i \in 1 .. Len(u)
      PROVE  /\ u[i].use => /\ u[i].role = "assistant"
                            /\ i < Len(u) => u[i + 1].role \in { "tool", "user" }
             /\ u[i].role = "tool" => i > 1 /\ u[i - 1].use
             /\ u[i].role = "system" => i = 1
  <2>1. CASE i \in 1 .. Len(s)
    <3>1. /\ s[i].use => /\ s[i].role = "assistant"
                         /\ i < Len(s) => s[i + 1].role \in { "tool", "user" }
          /\ s[i].role = "tool" => i > 1 /\ s[i - 1].use
          /\ s[i].role = "system" => i = 1
        BY <2>1 DEF Paired
    <3>2. i < Len(s) => i + 1 \in 1 .. Len(s)
        BY <1>1, <2>1
    <3>3. i > 1 => i - 1 \in 1 .. Len(s)
        BY <1>1, <2>1
    <3>4. s[i].use => i < Len(s)
      <4>1. ~ (i < Len(s)) => i = Len(s)
          BY <1>1, <2>1
      <4>2. QED
          BY <1>1, <2>1, <4>1
    <3>5. QED
        BY <1>1, <2>1, <3>1, <3>2, <3>3, <3>4
  <2>2. CASE i \notin 1 .. Len(s)
    <3>1. PICK k \in 1 .. Len(t) : k = i - Len(s) /\ u[i] = t[k]
        BY <1>1, <2>2
    <3>2. /\ t[k].use => /\ t[k].role = "assistant"
                         /\ k < Len(t) => t[k + 1].role \in { "tool", "user" }
          /\ t[k].role = "tool" => k > 1 /\ t[k - 1].use
          /\ t[k].role # "system"
        BY DEF Paired
    <3>3. i + 1 = Len(s) + (k + 1) /\ i - 1 = Len(s) + (k - 1)
        BY <1>1, <3>1
    <3>4. (i < Len(u) => k < Len(t)) /\ (k < Len(t) => k + 1 \in 1 .. Len(t))
        BY <1>1, <3>1
    <3>5. k > 1 => k - 1 \in 1 .. Len(t) /\ i > 1
        BY <1>1, <3>1
    <3>6. k < Len(t) => u[i + 1] = t[k + 1]
        BY <1>1, <3>3, <3>4
    <3>7. k > 1 => u[i - 1] = t[k - 1]
        BY <1>1, <3>3, <3>5
    <3>8. QED
        BY <3>1, <3>2, <3>4, <3>5, <3>6, <3>7
  <2>3. QED
      BY <2>1, <2>2
<1>3. Paired(u)
    BY <1>2 DEF Paired
<1>4. QED
    BY <1>3 DEF u

LEMMA AlternatesConcat ==
    ASSUME NEW s \in Seq(Message), NEW t \in Seq(Message), Alternates(s), Alternates(t),
           Len(s) > 0 => s[Len(s)].role # "assistant"
    PROVE  Alternates(s \o t)
<1> DEFINE u == s \o t
<1>1. /\ Len(u) = Len(s) + Len(t) /\ Len(s) \in Nat /\ Len(t) \in Nat
      /\ \A i \in 1 .. Len(s) : i \in 1 .. Len(u) /\ u[i] = s[i]
      /\ \A i \in 1 .. Len(u) :
             i \in 1 .. Len(s) \/ (i - Len(s) \in 1 .. Len(t) /\ u[i] = t[i - Len(s)])
  <2> HIDE DEF u
  <2>1. u = s \o t
      BY DEF u
  <2>2. QED
      BY <2>1, Concat
<1>2. Paired(u)
  <2>1. Paired(s) /\ Paired(t) /\ \A i \in 1 .. Len(t) : t[i].role # "system"
      BY DEF Alternates
  <2>2. Len(s) > 0 => ~ s[Len(s)].use
    <3>1. Len(s) > 0 => Len(s) \in 1 .. Len(s)
        BY <1>1
    <3>2. QED
        BY <2>1, <3>1 DEF Paired
  <2>3. QED
      BY <2>1, <2>2, PairedConcat
<1> HIDE DEF u
<1>3. ASSUME NEW i \in 1 .. Len(u)
      PROVE  /\ u[i].use /\ i < Len(u) => u[i + 1].role = "tool"
             /\ u[i].role # "system"
             /\ i = 1 => u[i].role = "assistant"
             /\ i > 1 => u[i].role # u[i - 1].role
  <2>1. CASE i \in 1 .. Len(s)
    <3>1. /\ s[i].use /\ i < Len(s) => s[i + 1].role = "tool"
          /\ s[i].use => s[i].role = "assistant"
          /\ s[i].role # "system"
          /\ i = 1 => s[i].role = "assistant"
          /\ i > 1 => s[i].role # s[i - 1].role
        BY <2>1 DEF Alternates, Paired
    <3>2. i > 1 => i - 1 \in 1 .. Len(s)
        BY <1>1, <2>1
    <3>3. s[i].use => i + 1 \in 1 .. Len(s) /\ i < Len(s)
      <4>1. ~ (i < Len(s)) => i = Len(s) /\ Len(s) > 0
          BY <1>1, <2>1
      <4>2. QED
          BY <1>1, <2>1, <3>1, <4>1
    <3>4. QED
        BY <1>1, <2>1, <3>1, <3>2, <3>3
  <2>2. CASE i \notin 1 .. Len(s)
    <3>1. PICK k \in 1 .. Len(t) : k = i - Len(s) /\ u[i] = t[k]
        BY <1>1, <2>2
    <3>2. /\ t[k].use /\ k < Len(t) => t[k + 1].role = "tool"
          /\ t[k].role # "system"
          /\ k = 1 => t[k].role = "assistant"
          /\ k > 1 => t[k].role # t[k - 1].role
        BY DEF Alternates
    <3>a. i < Len(u) => /\ k < Len(t)
                        /\ i + 1 \in 1 .. Len(u) /\ i + 1 \notin 1 .. Len(s)
                        /\ (i + 1) - Len(s) = k + 1
        BY <1>1, <2>2, <3>1
    <3>b. i < Len(u) => k < Len(t) /\ u[i + 1] = t[k + 1]
        BY <1>1, <3>a
    <3>c. u[i].use /\ i < Len(u) => u[i + 1].role = "tool"
        BY <3>1, <3>2, <3>b
    <3>3. CASE k > 1
      <4>1. i - 1 \in 1 .. Len(u) /\ i - 1 \notin 1 .. Len(s) /\ (i - 1) - Len(s) = k - 1
            /\ i # 1
          BY <1>1, <3>1, <3>3
      <4>2. u[i - 1] = t[k - 1]
          BY <1>1, <4>1
      <4>3. QED
          BY <3>1, <3>2, <3>3, <3>c, <4>1, <4>2
    <3>4. CASE ~ (k > 1)
      <4>1. k = 1 /\ i = Len(s) + 1
          BY <1>1, <3>1, <3>4
      <4>2. i > 1 => Len(s) > 0 /\ i - 1 = Len(s) /\ Len(s) \in 1 .. Len(s)
          BY <1>1, <4>1
      <4>3. i > 1 => u[i - 1].role # "assistant"
          BY <1>1, <4>2
      <4>4. QED
          BY <3>1, <3>2, <3>c, <4>1, <4>3
    <3>5. QED
        BY <3>3, <3>4
  <2>3. QED
      BY <2>1, <2>2
<1>4. Alternates(u)
    BY <1>2, <1>3 DEF Alternates
<1>5. QED
    BY <1>4 DEF u

LEMMA OfTurnConcat ==
    ASSUME NEW s \in Seq(Message), NEW m \in Seq(Message), NEW t, OfTurn(s, t), OfTurn(m, t)
    PROVE  OfTurn(s \o m, t)
<1>1. PICK u : u = s \o m
    OBVIOUS
<1>2. \A i \in 1 .. Len(u) :
          \/ i \in 1 .. Len(s) /\ u[i] = s[i]
          \/ (i - Len(s) \in 1 .. Len(m) /\ u[i] = m[i - Len(s)])
    BY <1>1, Concat
<1>3. OfTurn(u, t)
    BY <1>2 DEF OfTurn
<1>4. QED
    BY <1>1, <1>3

LEMMA RoundFacts ==
    ASSUME NEW t \in 0 .. MaxTurns, NEW r \in Rounds(t)
    PROVE  /\ OfTurn(r, t)
           /\ r \in Seq(Message) /\ Alternates(r) /\ Len(r) > 0 /\ r[Len(r)].role # "assistant"
<1>1. /\ Calls(TRUE, t) \in Message /\ Calls(FALSE, t) \in Message
      /\ Results(t) \in Message /\ User(t) \in Message /\ Asst(FALSE, t) \in Message
    BY Constructors
<1>2. /\ \A b \in BOOLEAN :
             Calls(b, t).role = "assistant" /\ Calls(b, t).use /\ Calls(b, t).turn = t
      /\ Results(t).role = "tool" /\ ~ Results(t).use /\ Results(t).turn = t
      /\ User(t).role = "user" /\ ~ User(t).use /\ User(t).turn = t
      /\ Asst(FALSE, t).role = "assistant" /\ ~ Asst(FALSE, t).use /\ Asst(FALSE, t).turn = t
  <2>1. \A b \in BOOLEAN :
           /\ Calls(b, t).role = "assistant" /\ Calls(b, t).use /\ Calls(b, t).turn = t
           /\ Results(t).role = "tool" /\ ~ Results(t).use /\ Results(t).turn = t
           /\ User(t).role = "user" /\ ~ User(t).use /\ User(t).turn = t
           /\ Asst(b, t).role = "assistant" /\ ~ Asst(b, t).use /\ Asst(b, t).turn = t
      BY Constructors
  <2>2. QED
      BY <2>1
\* A short list is looked at entry by entry.
<1>3. ASSUME NEW m1, NEW m2, r = << m1, m2 >>, m1 \in Message, m2 \in Message,
             m1.role = "assistant", m2.role \in { "tool", "user" }, ~ m2.use,
             m1.use <=> m2.role = "tool", m1.turn = t, m2.turn = t
      PROVE  /\ OfTurn(r, t)
             /\ r \in Seq(Message) /\ Alternates(r) /\ Len(r) > 0 /\ r[Len(r)].role # "assistant"
  <2>1. r \in Seq(Message) /\ Len(r) = 2 /\ r[1] = m1 /\ r[2] = m2
      BY <1>3
  <2>2. \A i \in 1 .. Len(r) : i = 1 \/ i = 2
      BY <2>1
  <2>3. Paired(r)
      BY <1>3, <2>1, <2>2 DEF Paired
  <2>4. QED
      BY <1>3, <2>1, <2>2, <2>3 DEF Alternates, OfTurn
<1>4. ASSUME NEW m1, NEW m2, NEW m3, r = << m1, m2, m3 >>,
             m1 \in Message, m2 \in Message, m3 \in Message,
             m1.role = "assistant", m1.use, m2.role = "tool", ~ m2.use,
             m3.role = "user", ~ m3.use, m1.turn = t, m2.turn = t, m3.turn = t
      PROVE  /\ OfTurn(r, t)
             /\ r \in Seq(Message) /\ Alternates(r) /\ Len(r) > 0 /\ r[Len(r)].role # "assistant"
  <2>1. r \in Seq(Message) /\ Len(r) = 3 /\ r[1] = m1 /\ r[2] = m2 /\ r[3] = m3
      BY <1>4
  <2>2. \A i \in 1 .. Len(r) : i = 1 \/ i = 2 \/ i = 3
      BY <2>1
  <2>3. Paired(r)
      BY <1>4, <2>1, <2>2 DEF Paired
  <2>4. QED
      BY <1>4, <2>1, <2>2, <2>3 DEF Alternates, OfTurn
<1>5. CASE r = << Asst(FALSE, t), User(t) >>
    BY <1>1, <1>2, <1>3, <1>5
<1>6. CASE r = << Calls(TRUE, t), Results(t) >>
    BY <1>1, <1>2, <1>3, <1>6
<1>7. CASE r = << Calls(FALSE, t), Results(t), User(t) >>
    BY <1>1, <1>2, <1>4, <1>7
<1>8. QED
    BY <1>5, <1>6, <1>7 DEF Rounds

\* A closing is one message of the model, or none.
LEMMA ClosingFacts ==
    ASSUME NEW t \in 0 .. MaxTurns, NEW c \in Closings(t)
    PROVE  /\ c.msgs \in Seq(Message)
           /\ c.final \in { "text", "call", "both", "calls", "empty" }
           /\ Alternates(c.msgs) /\ OfTurn(c.msgs, t)
           /\ c.final = "call" =>
                 Len(c.msgs) > 0 /\ c.msgs[Len(c.msgs)].role = "assistant"
           /\ c.final = "both" =>
                 Len(c.msgs) > 0 /\ c.msgs[Len(c.msgs)].use /\ c.msgs[Len(c.msgs)].text
<1>1. \A b \in BOOLEAN :
          /\ Asst(b, t) \in Message /\ Asst(b, t).role = "assistant" /\ Asst(b, t).turn = t
          /\ Calls(b, t) \in Message /\ Calls(b, t).role = "assistant" /\ Calls(b, t).turn = t
          /\ Calls(b, t).use /\ Calls(b, t).text = b
    BY Constructors
<1>2. Alternates(<< >>) /\ OfTurn(<< >>, t) /\ << >> \in Seq(Message)
    BY DEF Alternates, Paired, OfTurn
<1>3. ASSUME NEW m \in Message, m.role = "assistant", m.turn = t
      PROVE  /\ << m >> \in Seq(Message) /\ Alternates(<< m >>) /\ OfTurn(<< m >>, t)
             /\ Len(<< m >>) > 0 /\ << m >>[Len(<< m >>)] = m
    BY <1>3 DEF Alternates, Paired, OfTurn
<1>4. \/ c.msgs = << >> /\ c.final = "text"
      \/ \E b \in BOOLEAN :
             c.msgs = << Asst(b, t) >> /\ c.final \in { "text", "call", "empty" }
      \/ c.msgs = << Calls(TRUE, t) >> /\ c.final = "both"
      \/ c.msgs = << Calls(FALSE, t) >> /\ c.final = "calls"
  <2>1. \/ c = [msgs |-> << >>, final |-> "text"]
        \/ c = [msgs |-> << Asst(TRUE, t) >>, final |-> "text"]
        \/ c = [msgs |-> << Asst(TRUE, t) >>, final |-> "call"]
        \/ c = [msgs |-> << Calls(TRUE, t) >>, final |-> "both"]
        \/ c = [msgs |-> << Calls(FALSE, t) >>, final |-> "calls"]
        \/ c = [msgs |-> << Asst(FALSE, t) >>, final |-> "empty"]
      BY DEF Closings
  <2>2. ASSUME NEW m, NEW f, c = [msgs |-> m, final |-> f]
        PROVE  c.msgs = m /\ c.final = f
      BY <2>2
  <2>3. QED
      BY <2>1, <2>2
<1>5. CASE c.msgs = << >> /\ c.final = "text"
    BY <1>2, <1>5
<1>6. ASSUME NEW b \in BOOLEAN,
             c.msgs = << Asst(b, t) >>, c.final \in { "text", "call", "empty" }
      PROVE  /\ c.msgs \in Seq(Message) /\ Alternates(c.msgs) /\ OfTurn(c.msgs, t)
             /\ Len(c.msgs) > 0 /\ c.msgs[Len(c.msgs)].role = "assistant"
    BY <1>1, <1>3, <1>6
<1>7. ASSUME NEW b \in BOOLEAN, c.msgs = << Calls(b, t) >>
      PROVE  /\ c.msgs \in Seq(Message) /\ Alternates(c.msgs) /\ OfTurn(c.msgs, t)
             /\ Len(c.msgs) > 0 /\ c.msgs[Len(c.msgs)].use
             /\ c.msgs[Len(c.msgs)].text = b
    BY <1>1, <1>3, <1>7
<1>8. QED
    BY <1>4, <1>5, <1>6, <1>7

\* The written call gives way to a real one and its results.
LEMMA FiredFacts ==
    ASSUME NEW t \in 0 .. MaxTurns, appended \in Seq(Message), Alternates(appended),
           OfTurn(appended, t), Len(appended) > 0, appended[Len(appended)].role = "assistant",
           NEW f, f = Fired(t)
    PROVE  /\ f \in Seq(Message) /\ Alternates(f) /\ OfTurn(f, t)
           /\ Len(f) > 0 /\ f[Len(f)].role = "tool"
<1> DEFINE n == Len(appended)
           s == SubSeq(appended, 1, n - 1)
           p == << Calls(TRUE, t), Results(t) >>
<1>1. n \in Nat /\ n \in 1 .. n
    OBVIOUS
<1>2. f = s \o p
    BY DEF Fired, Front
<1>3. s \in Seq(Message) /\ Len(s) = n - 1 /\ \A i \in 1 .. n - 1 : s[i] = appended[i]
  <2>1. n - 1 \in 0 .. Len(appended)
      BY <1>1
  <2>2. PICK m \in 0 .. Len(appended) : m = n - 1
      BY <2>1
  <2> HIDE DEF n
  <2>3. QED
      BY <2>2, Prefix
<1>4. p \in Seq(Message) /\ Len(p) = 2 /\ p[2].role = "tool" /\ Alternates(p) /\ OfTurn(p, t)
  <2>1. p \in Rounds(t)
      BY DEF Rounds
  <2>2. p \in Seq(Message) /\ Alternates(p) /\ OfTurn(p, t)
      BY <2>1, RoundFacts
  <2>3. Results(t).role = "tool"
      BY DEF Results, Msg
  <2>4. QED
      BY <2>2, <2>3
<1>5. \A i \in 1 .. n :
          /\ appended[i].use => /\ appended[i].role = "assistant"
                                /\ i < n => appended[i + 1].role = "tool"
          /\ appended[i].role = "tool" => i > 1 /\ appended[i - 1].use
          /\ appended[i].role # "system"
          /\ i = 1 => appended[i].role = "assistant"
          /\ i > 1 => appended[i].role # appended[i - 1].role
    BY DEF Alternates, Paired
<1> HIDE DEF n, s, p
<1>6. ASSUME NEW i \in 1 .. Len(s)
      PROVE  /\ s[i].use => s[i].role = "assistant"
             /\ s[i].use /\ i < Len(s) => s[i + 1].role = "tool"
             /\ s[i].role = "tool" => i > 1 /\ s[i - 1].use
             /\ s[i].role # "system"
             /\ i = 1 => s[i].role = "assistant"
             /\ i > 1 => s[i].role # s[i - 1].role
  <2>1. i \in 1 .. n - 1 /\ i \in 1 .. n
      BY <1>1, <1>3
  <2>2. s[i] = appended[i] /\ (i > 1 => s[i - 1] = appended[i - 1])
      BY <1>1, <1>3, <2>1
  <2>3. i < Len(s) => i + 1 \in 1 .. n - 1 /\ i < n
      BY <1>1, <1>3, <2>1
  <2>4. i < Len(s) => s[i + 1] = appended[i + 1]
      BY <1>3, <2>3
  <2>5. QED
      BY <1>5, <2>1, <2>2, <2>3, <2>4
<1>7. Alternates(s) /\ OfTurn(s, t)
  <2>1. Alternates(s)
      BY <1>6 DEF Alternates, Paired
  <2>2. \A i \in 1 .. Len(s) : i \in 1 .. Len(appended) /\ s[i] = appended[i]
      BY <1>1, <1>3 DEF n
  <2>3. QED
      BY <2>1, <2>2 DEF OfTurn
<1>8. Len(s) > 0 => s[Len(s)].role # "assistant"
  <2>1. SUFFICES ASSUME Len(s) > 0 PROVE s[Len(s)].role # "assistant"
      OBVIOUS
  <2>2. n > 1 /\ n - 1 \in 1 .. n - 1 /\ Len(s) = n - 1
      BY <1>1, <1>3, <2>1
  <2>3. s[Len(s)] = appended[n - 1]
      BY <1>3, <2>2
  <2>4. appended[n].role # appended[n - 1].role
      BY <1>1, <1>5, <2>2
  <2>5. QED
      BY <2>3, <2>4 DEF n
<1>9. Alternates(f) /\ OfTurn(f, t)
  <2>1. Alternates(f)
      BY <1>2, <1>3, <1>4, <1>7, <1>8, AlternatesConcat
  <2>2. QED
      BY <1>2, <1>3, <1>4, <1>7, <2>1, OfTurnConcat
<1>10. f \in Seq(Message) /\ Len(f) = Len(s) + 2 /\ Len(s) \in Nat /\ f[Len(s) + 2] = p[2]
  <2>1. 2 \in 1 .. Len(p)
      BY <1>4
  <2>2. f \in Seq(Message) /\ Len(f) = Len(s) + Len(p) /\ Len(s) \in Nat
        /\ \A i \in 1 .. Len(p) : f[Len(s) + i] = p[i]
    <3>1. s \in Seq(Message) /\ p \in Seq(Message)
        BY <1>3, <1>4
    <3>2. QED
        BY <1>2, <3>1, Concat
  <2>3. QED
      BY <1>4, <2>1, <2>2
<1>11. QED
    BY <1>4, <1>9, <1>10

\* A list that keeps its rounds, with the user's word last, still keeps them when an
\* alternating one that ends with results follows it.
LEMMA KeepsConcat ==
    ASSUME NEW s \in Seq(Message), NEW t \in Seq(Message), KeepsRounds(s), Len(s) > 0,
           s[Len(s)].role = "user", Alternates(t), Len(t) > 0, t[Len(t)].role = "tool",
           NEW u, u = s \o t
    PROVE  KeepsRounds(u)
<1>1. /\ Len(u) = Len(s) + Len(t) /\ Len(s) \in Nat /\ Len(t) \in Nat
      /\ \A i \in 1 .. Len(s) : i \in 1 .. Len(u) /\ u[i] = s[i]
      /\ \A i \in 1 .. Len(t) : Len(s) + i \in 1 .. Len(u) /\ u[Len(s) + i] = t[i]
      /\ \A i \in 1 .. Len(u) :
             i \in 1 .. Len(s) \/ (i - Len(s) \in 1 .. Len(t) /\ u[i] = t[i - Len(s)])
      /\ u \in Seq(Message)
    BY Concat
<1>2. /\ \A i \in 1 .. Len(s) :
             /\ s[i].use => Answered(s, i) \/ CutShort(s, i)
             /\ s[i].role = "tool" => i > 1 /\ s[i - 1].use
             /\ i > 1 => s[i].role # s[i - 1].role
    BY DEF KeepsRounds
<1>3. \A k \in 1 .. Len(t) :
          /\ t[k].use => t[k].role = "assistant"
          /\ t[k].use /\ k < Len(t) => t[k + 1].role = "tool"
          /\ t[k].role = "tool" => k > 1 /\ t[k - 1].use
          /\ k = 1 => t[k].role = "assistant"
          /\ k > 1 => t[k].role # t[k - 1].role
    BY DEF Alternates, Paired
<1>4. Last(u).role \in { "user", "tool" } /\ u # << >>
  <2>1. Len(t) \in 1 .. Len(t)
      BY <1>1
  <2>2. u[Len(s) + Len(t)] = t[Len(t)]
      BY <1>1, <2>1
  <2>3. Len(u) > 0
      BY <1>1
  <2>4. u # << >>
      BY <2>3
  <2>5. QED
      BY <1>1, <2>2, <2>4 DEF Last
<1>5. ASSUME NEW i \in 1 .. Len(u)
      PROVE  /\ u[i].use => Answered(u, i) \/ CutShort(u, i)
             /\ u[i].role = "tool" => i > 1 /\ u[i - 1].use
             /\ i > 1 => u[i].role # u[i - 1].role
  <2>1. CASE i \in 1 .. Len(s)
    <3>1. i < Len(s) => i + 1 \in 1 .. Len(s) /\ i < Len(u)
        BY <1>1, <2>1
    <3>2. i > 1 => i - 1 \in 1 .. Len(s)
        BY <1>1, <2>1
    <3>3. u[i].use => Answered(u, i) \/ CutShort(u, i)
      <4>1. s[i].use => i < Len(s) /\ (Answered(s, i) \/ CutShort(s, i))
          BY <1>2, <2>1 DEF Answered, CutShort
      <4>2. u[i] = s[i]
          BY <1>1, <2>1
      <4>3. i < Len(s) => u[i + 1] = s[i + 1] /\ i < Len(u)
          BY <1>1, <3>1
      <4>4. QED
          BY <4>1, <4>2, <4>3 DEF Answered, CutShort
    <3>4. QED
        BY <1>1, <1>2, <2>1, <3>2, <3>3
  <2>2. CASE i \notin 1 .. Len(s)
    <3>1. PICK k \in 1 .. Len(t) : k = i - Len(s) /\ u[i] = t[k]
        BY <1>1, <2>2
    <3>2. i + 1 = Len(s) + (k + 1) /\ i - 1 = Len(s) + (k - 1)
      <4>1. Len(s) \in Nat /\ Len(t) \in Nat
          BY <1>1
      <4>2. k = i - Len(s)
          BY <3>1
      <4>3. QED
          BY <4>1, <4>2
    <3>3. k < Len(t) => k + 1 \in 1 .. Len(t) /\ i < Len(u)
        BY <1>1, <3>1
    <3>4. k > 1 => k - 1 \in 1 .. Len(t) /\ i > 1
        BY <1>1, <3>1
    <3>5. k < Len(t) => u[i + 1] = t[k + 1]
        BY <1>1, <3>2, <3>3
    <3>6. k > 1 => u[i - 1] = t[k - 1]
        BY <1>1, <3>2, <3>4
    <3>7. k = 1 => i - 1 = Len(s) /\ Len(s) \in 1 .. Len(s)
        BY <1>1, <3>2
    <3>8. k = 1 => u[i - 1].role = "user" /\ u[i].role = "assistant"
        BY <1>1, <1>3, <3>1, <3>7
    <3>9. k = 1 \/ k > 1
        OBVIOUS
    <3>10. t[k].use => k < Len(t)
      <4>1. ~ (k < Len(t)) => k = Len(t)
          BY <1>1
      <4>2. QED
          BY <1>3, <4>1
    <3>11. u[i].use => Answered(u, i)
        BY <1>3, <3>1, <3>3, <3>5, <3>10 DEF Answered
    <3>12. u[i].role = "tool" => i > 1 /\ u[i - 1].use
        BY <1>3, <3>1, <3>4, <3>6
    <3>13. i > 1 => u[i].role # u[i - 1].role
      <4>1. k > 1 => u[i].role # u[i - 1].role
          BY <1>3, <3>1, <3>6
      <4>2. QED
          BY <3>8, <3>9, <4>1
    <3>14. QED
        BY <3>11, <3>12, <3>13
  <2>3. QED
      BY <2>1, <2>2
<1>6. QED
    BY <1>4, <1>5 DEF KeepsRounds

-----------------------------------------------------------------------------
(* The session a turn finds, the tail a compaction keeps, the entries of a turn. *)

LEMMA EnsureFacts ==
    ASSUME session \in Seq(Message), file \in Seq(Message), Paired(session), Resumed(session),
           Plain(file), Prefaced(file), NEW e, e = EnsureSession
    PROVE  /\ e \in Seq(Message) /\ Paired(e) /\ Resumed(e)
           /\ live => e = session
           /\ ~ live => \A i \in 1 .. Len(e) : ~ e[i].use
           /\ ~ live => \A i \in 1 .. Len(file) : Reply(file[i]) =>
                 \E j \in 1 .. Len(e) : e[j].role = "user" /\ e[j].turn = file[i].turn
<1>1. CASE live
    BY <1>1 DEF EnsureSession
<1>2. CASE ~ live
  <2> DEFINE S == { i \in DOMAIN file : file[i].text }
             a == AtPositions(file, S)
             d == DropTrailingUsers(a)
             c == Cardinality(d)
  <2>1. S \in SUBSET (1 .. Len(file)) /\ \A i \in S : i \in Nat
      OBVIOUS
  <2>2. /\ a \in Seq(Message)
        /\ \A i \in S : Rank(S, i) \in 1 .. Len(a) /\ a[Rank(S, i)] = file[i]
        /\ \A k \in 1 .. Len(a) : \E i \in S : Rank(S, i) = k /\ a[k] = file[i]
        /\ \A i, j \in S : i < j => Rank(S, i) < Rank(S, j)
    <3> HIDE DEF S
    <3>1. QED
        BY <2>1, AtPositionsFacts
  <2>3. e = SubSeq(a, 1, c)
      BY <1>2 DEF EnsureSession, RepairIncompleteTurn
  <2>4. Plain(a)
    <3> HIDE DEF a
    <3>1. QED
        BY <2>1, <2>2 DEF Plain
  <2> HIDE DEF a
  <2>5. d = { i \in 1 .. Len(a) : \E j \in 1 .. Len(a) : a[j].role # "user" /\ i <= j }
    <3>1. DOMAIN a = 1 .. Len(a)
        BY <2>2
    <3>2. QED
        BY <3>1, Zenon DEF DropTrailingUsers
  <2>6. d \in SUBSET (1 .. Len(a))
      BY <2>5
  <2>7. IsFiniteSet(1 .. Len(a)) /\ Cardinality(1 .. Len(a)) = Len(a) /\ Len(a) \in Nat
    <3>1. Len(a) \in Nat
        BY <2>2
    <3>2. PICK l \in Nat : l = Len(a)
        BY <3>1
    <3>3. IsFiniteSet(1 .. l) /\ Cardinality(1 .. l) = l
        BY FS_Interval
    <3>4. QED
        BY <3>2, <3>3
  <2> HIDE DEF d, c
  <2>8. c \in Nat /\ c <= Len(a)
    <3>1. IsFiniteSet(d) /\ Cardinality(d) <= Cardinality(1 .. Len(a))
        BY <2>6, <2>7, FS_Subset
    <3>2. QED
        BY <2>7, <3>1, FS_CardinalityType DEF c
  <2>9. e \in Seq(Message) /\ Len(e) = c /\ \A k \in 1 .. c : e[k] = a[k]
      BY <2>2, <2>3, <2>8
  <2>10. Paired(e) /\ Resumed(e) /\ \A i \in 1 .. Len(e) : ~ e[i].use
    <3>1. \A k \in 1 .. Len(e) : ~ e[k].use /\ e[k].role \in { "user", "assistant" }
        BY <2>4, <2>8, <2>9 DEF Plain
    <3>2. QED
        BY <3>1 DEF Paired, Resumed
  <2>11. ASSUME NEW i \in 1 .. Len(file), Reply(file[i])
         PROVE  \E j \in 1 .. Len(e) : e[j].role = "user" /\ e[j].turn = file[i].turn
    <3>1. PICK k \in 1 .. i - 1 : Asks(file[k], file[i].turn)
        BY <2>11 DEF Prefaced
    <3>2. k \in S /\ i \in S /\ k < i
        BY <2>11, <3>1 DEF Asks, Reply
    <3>3. Rank(S, k) < Rank(S, i) /\ Rank(S, i) \in 1 .. Len(a) /\ a[Rank(S, i)] = file[i]
          /\ Rank(S, k) \in 1 .. Len(a) /\ a[Rank(S, k)] = file[k]
        BY <2>2, <3>2
    <3> HIDE DEF S
    <3>4. PICK ri \in 1 .. Len(a) : ri = Rank(S, i)
        BY <3>3
    <3>5. 1 .. ri \in SUBSET d
      <4>1. a[ri].role # "user"
          BY <2>11, <3>3, <3>4 DEF Reply
      <4>2. \A x \in 1 .. ri : x \in 1 .. Len(a) /\ x <= ri
          BY <2>7
      <4>3. QED
          BY <2>5, <4>1, <4>2
    <3>6. ri <= c
      <4>1. IsFiniteSet(d)
          BY <2>6, <2>7, FS_Subset
      <4>2. Cardinality(1 .. ri) <= Cardinality(d)
          BY <3>5, <4>1, FS_Subset
      <4>3. Cardinality(1 .. ri) = ri
          BY FS_Interval
      <4>4. QED
          BY <4>2, <4>3 DEF c
    <3>7. Rank(S, k) \in 1 .. Len(e) /\ e[Rank(S, k)] = file[k]
        BY <2>7, <2>8, <2>9, <3>3, <3>4, <3>6
    <3>8. QED
        BY <3>1, <3>7 DEF Asks
  <2>12. QED
      BY <1>2, <2>9, <2>10, <2>11
<1>3. QED
    BY <1>1, <1>2

\* new is old with the messages of the turns in gone replaced by a summary: its calls are
\* calls of old, and a user's message is lost only with its turn.
Compacts(old, new, gone) ==
    /\ new \in Seq(Message) /\ Paired(new) /\ Resumed(new) /\ gone \subseteq 0 .. MaxTurns
    /\ \A i \in 1 .. Len(new) : new[i].use =>
          \E x \in 1 .. Len(old) : old[x].use /\ old[x].turn = new[i].turn
    /\ \A j \in 1 .. Len(old) : old[j].role = "user" =>
          \/ old[j].turn \in gone
          \/ \E k \in 1 .. Len(new) : new[k].role = "user" /\ new[k].turn = old[j].turn

LEMMA CompactFacts ==
    ASSUME session \in Seq(Message), Paired(session), Resumed(session),
           TailStarts(session) # {},
           NEW s, s = << Summary >> \o CompactTail(session),
           NEW gone,
           gone = TurnsOf(SubSeq(session, 1, Len(session) - Len(CompactTail(session))))
    PROVE  Compacts(session, s, gone)
<1> DEFINE n == Len(session)
           T == TailStarts(session)
           tail == CompactTail(session)
<1>1. n \in Nat
    OBVIOUS
<1>2. T \in SUBSET Nat /\ T \in SUBSET (2 .. n)
      /\ \A i \in T : ~ (session[i - 1].use /\ session[i].role = "tool")
    BY DEF TailStarts, Boundary
<1> HIDE DEF T
<1>3. \E i \in T : \A j \in T : i <= j
    BY <1>2, Least DEF T
<1>4. PICK b \in T : b = CHOOSE i \in T : \A j \in T : i <= j
    BY <1>3
<1>5. b \in 2 .. n /\ ~ (session[b - 1].use /\ session[b].role = "tool")
    BY <1>2
<1>6. tail = SubSeq(session, b, n)
    BY <1>4 DEF CompactTail, T
<1>7. b \in Nat /\ 2 <= b /\ b <= n /\ b - 1 \in 1 .. n
    BY <1>1, <1>5
<1>8. /\ tail \in Seq(Message) /\ Len(tail) = n - b + 1
      /\ \A i \in 1 .. n - b + 1 : tail[i] = session[i + b - 1]
  <2> HIDE DEF tail
  <2>1. n = Len(session)
      OBVIOUS
  <2>2. SubSeq(session, b, n) \in Seq(Message)
        /\ Len(SubSeq(session, b, n)) = n - b + 1
        /\ \A i \in 1 .. n - b + 1 : SubSeq(session, b, n)[i] = session[i + b - 1]
      BY <1>7, <2>1
  <2>3. QED
      BY <1>6, <2>2
<1>9. \A i \in 1 .. n :
          /\ session[i].use => /\ session[i].role = "assistant"
                               /\ i < n => session[i + 1].role \in { "tool", "user" }
          /\ session[i].role = "tool" => i > 1 /\ session[i - 1].use
          /\ session[i].role = "system" => i = 1
          /\ session[i] \in Message
    BY DEF Paired
<1> HIDE DEF n, tail
<1>10. ASSUME NEW i \in 1 .. Len(tail)
       PROVE  /\ tail[i].use => /\ tail[i].role = "assistant"
                                /\ i < Len(tail) => tail[i + 1].role \in { "tool", "user" }
              /\ tail[i].role = "tool" => i > 1 /\ tail[i - 1].use
              /\ tail[i].role # "system"
  <2>0. Len(tail) \in Nat /\ Len(tail) = n - b + 1
      BY <1>1, <1>7, <1>8
  <2>1. PICK x \in 1 .. n : x = i + b - 1 /\ tail[i] = session[x] /\ x # 1
    <3>1. i + b - 1 \in 1 .. n /\ i + b - 1 # 1 /\ i \in 1 .. n - b + 1
        BY <1>1, <1>7, <2>0
    <3>2. QED
        BY <1>8, <3>1
  <2>2. i < Len(tail) <=> x < n
      BY <1>1, <1>7, <1>8, <2>1
  <2>3. i < Len(tail) => tail[i + 1] = session[x + 1]
    <3>1. i < Len(tail) => i + 1 \in 1 .. n - b + 1 /\ (i + 1) + b - 1 = x + 1
        BY <1>1, <1>7, <1>8, <2>1
    <3>2. QED
        BY <1>8, <3>1
  <2>4. i > 1 => tail[i - 1] = session[x - 1]
    <3>1. i > 1 => i - 1 \in 1 .. n - b + 1 /\ (i - 1) + b - 1 = x - 1
        BY <1>1, <1>7, <1>8, <2>1
    <3>2. QED
        BY <1>8, <3>1
  <2>5. ~ (i > 1) => x = b
      BY <1>7, <2>0, <2>1
  <2>6. tail[i].role = "tool" => i > 1
      BY <1>5, <1>9, <2>1, <2>5
  <2>7. tail[i].use => /\ tail[i].role = "assistant"
                       /\ i < Len(tail) => tail[i + 1].role \in { "tool", "user" }
      BY <1>9, <2>1, <2>2, <2>3
  <2>8. tail[i].role = "tool" => i > 1 /\ tail[i - 1].use
      BY <1>9, <2>1, <2>4, <2>6
  <2>9. tail[i].role # "system"
      BY <1>9, <2>1
  <2>10. QED
      BY <2>7, <2>8, <2>9
<1>11. << Summary >> \in Seq(Message) /\ Paired(<< Summary >>) /\ Len(<< Summary >>) = 1
      /\ ~ << Summary >>[1].use
  <2>1. Summary \in Message /\ Summary.role = "system" /\ ~ Summary.use
    <3>1. 0 \in 0 .. MaxTurns /\ TRUE \in BOOLEAN
        BY SessionConstants
    <3>2. QED
        BY <3>1, Constructors
  <2>2. QED
      BY <2>1 DEF Paired
<1>12. Paired(tail) /\ \A i \in 1 .. Len(tail) : tail[i].role # "system"
    BY <1>10 DEF Paired
<1>13. /\ Paired(s) /\ s \in Seq(Message)
       /\ \A i \in 1 .. Len(tail) : 1 + i \in 1 .. Len(s) /\ s[1 + i] = tail[i]
       /\ Len(s) = 1 + Len(tail) /\ s[1] = << Summary >>[1]
  <2>1. s = << Summary >> \o tail
      BY DEF tail
  <2>2. tail \in Seq(Message)
      BY <1>8
  <2>3. Paired(s)
      BY <1>11, <1>12, <2>1, <2>2, PairedConcat
  <2> DEFINE one == << Summary >>
  <2>4. /\ s \in Seq(Message) /\ Len(s) = Len(one) + Len(tail)
        /\ \A i \in 1 .. Len(one) : s[i] = one[i]
        /\ \A i \in 1 .. Len(tail) : Len(one) + i \in 1 .. Len(s) /\ s[Len(one) + i] = tail[i]
    <3>1. one \in Seq(Message) /\ s = one \o tail
        BY <1>11, <2>1
    <3>2. \A u : u = one \o tail =>
             /\ u \in Seq(Message) /\ Len(u) = Len(one) + Len(tail)
             /\ \A i \in 1 .. Len(one) : u[i] = one[i]
             /\ \A i \in 1 .. Len(tail) :
                    Len(one) + i \in 1 .. Len(u) /\ u[Len(one) + i] = tail[i]
      <4> HIDE DEF one
      <4>1. one \in Seq(Message)
          BY <3>1
      <4>2. QED
          BY <2>2, <4>1, Concat
    <3> HIDE DEF one
    <3>3. QED
        BY <3>1, <3>2
  <2>5. QED
    <3>1. Len(one) = 1 /\ 1 \in 1 .. Len(one)
        BY <1>11
    <3>2. \A i \in 1 .. Len(tail) : 1 + i \in 1 .. Len(s) /\ s[1 + i] = tail[i]
        BY <2>4, <3>1
    <3>3. Len(s) = 1 + Len(tail) /\ s[1] = one[1]
        BY <2>4, <3>1
    <3>4. QED
        BY <2>3, <2>4, <3>2, <3>3
<1>14. gone = { session[i].turn : i \in 1 .. b - 1 }
  <2>1. PICK m \in 0 .. n : m = b - 1
      BY <1>1, <1>7
  <2>2. n - Len(tail) = m
      BY <1>1, <1>7, <1>8, <2>1
  <2>3. gone = TurnsOf(SubSeq(session, 1, m))
      BY <2>2 DEF n, tail
  <2>4. /\ SubSeq(session, 1, m) \in Seq(Message) /\ Len(SubSeq(session, 1, m)) = m
        /\ \A i \in 1 .. m : SubSeq(session, 1, m)[i] = session[i]
      BY Prefix DEF n
  <2>5. gone = { SubSeq(session, 1, m)[i].turn : i \in 1 .. m }
    <3>1. DOMAIN SubSeq(session, 1, m) = 1 .. m
        BY <2>4
    <3>2. QED
        BY <2>3, <3>1, Zenon DEF TurnsOf
  <2>6. QED
      BY <2>1, <2>4, <2>5
<1>15. gone \subseteq 0 .. MaxTurns
  <2>1. \A i \in 1 .. b - 1 : session[i].turn \in 0 .. MaxTurns
      BY <1>1, <1>7, <1>9 DEF Message
  <2>2. QED
      BY <1>14, <2>1
<1>16. ASSUME NEW j \in 1 .. n, session[j].role = "user"
       PROVE  \/ session[j].turn \in gone
              \/ \E k \in 1 .. Len(s) : s[k].role = "user" /\ s[k].turn = session[j].turn
  <2>1. CASE j <= b - 1
    <3>1. j \in 1 .. b - 1
        BY <1>7, <2>1
    <3>2. QED
        BY <1>14, <3>1
  <2>2. CASE ~ (j <= b - 1)
    <3>1. PICK i \in 1 .. Len(tail) : i = j - b + 1 /\ i + b - 1 = j
        BY <1>1, <1>7, <1>8, <2>2
    <3>2. 1 + i \in 1 .. Len(s) /\ s[1 + i] = session[j]
        BY <1>8, <1>13, <3>1
    <3>3. QED
        BY <1>16, <3>2
  <2>3. QED
      BY <2>1, <2>2
\* A message of the new session with calls is one of the old, with the same successors.
<1>17. ASSUME NEW i \in 1 .. Len(s), s[i].use
       PROVE  \E x \in 1 .. n : x = i + b - 2 /\ s[i] = session[x]
  <2>1. i # 1
      BY <1>11, <1>13, <1>17
  <2>2. PICK k \in 1 .. Len(tail) : k = i - 1 /\ s[i] = tail[k]
    <3>1. Len(tail) \in Nat /\ Len(s) = 1 + Len(tail)
      <4>1. tail \in Seq(Message)
          BY <1>8
      <4>2. Len(tail) \in Nat
          BY <4>1
      <4>3. QED
          BY <1>13, <4>2
    <3>2. i - 1 \in 1 .. Len(tail) /\ 1 + (i - 1) = i
        BY <2>1, <3>1
    <3>3. QED
        BY <1>13, <3>2
  <2>3. k + b - 1 \in 1 .. n /\ k + b - 1 = i + b - 2 /\ tail[k] = session[k + b - 1]
      BY <1>1, <1>7, <1>8, <2>2
  <2>4. QED
      BY <2>2, <2>3
<1>18. ASSUME NEW j \in 1 .. Len(s), j # 1
       PROVE  j + b - 2 \in 1 .. n /\ s[j] = session[j + b - 2]
  <2>1. Len(tail) \in Nat /\ Len(s) = 1 + Len(tail)
    <3>1. tail \in Seq(Message)
        BY <1>8
    <3>2. Len(tail) \in Nat
        BY <3>1
    <3>3. QED
        BY <1>13, <3>2
  <2>2. PICK k \in 1 .. Len(tail) : k = j - 1 /\ 1 + k = j
      BY <1>18, <2>1
  <2>3. k + b - 1 \in 1 .. n /\ k + b - 1 = j + b - 2 /\ tail[k] = session[k + b - 1]
      BY <1>1, <1>7, <1>8, <2>2
  <2>4. s[j] = tail[k]
      BY <1>13, <2>2
  <2>5. QED
      BY <2>3, <2>4
<1>19. Resumed(s)
  <2>1. ASSUME NEW i \in 1 .. Len(s), NEW j \in 1 .. Len(s), i < j, s[i].use,
               s[i + 1].role = "user"
        PROVE  s[i].turn < s[j].turn
    <3>1. PICK x \in 1 .. n : x = i + b - 2 /\ s[i] = session[x]
        BY <1>17, <2>1
    <3>2. i + 1 \in 1 .. Len(s) /\ i + 1 # 1 /\ j # 1
        BY <2>1
    <3>3. s[i + 1] = session[x + 1]
      <4>1. (i + 1) + b - 2 = x + 1
          BY <1>7, <3>1
      <4>2. QED
          BY <1>18, <3>2, <4>1
    <3>4. PICK y \in 1 .. n : y = j + b - 2 /\ s[j] = session[y]
        BY <1>18, <3>2
    <3>5. x < y
        BY <1>7, <2>1, <3>1, <3>4
    <3>6. QED
        BY <2>1, <3>1, <3>3, <3>4, <3>5 DEF Resumed, n
  <2>2. QED
      BY <2>1 DEF Resumed
<1>20. QED
    BY <1>13, <1>15, <1>16, <1>17, <1>19 DEF n, Compacts

LEMMA ToolEntriesFacts ==
    ASSUME appended \in Seq(Message), turn \in 0 .. MaxTurns, NEW e, e = ToolEntries
    PROVE  /\ e \in Seq(Message) /\ Plain(e)
           /\ \A i \in 1 .. Len(e) : e[i].turn = turn
           /\ \A j \in 1 .. Len(appended) : appended[j].use /\ appended[j].text =>
                 \E i \in 1 .. Len(e) : Reply(e[i])
<1> DEFINE S == { i \in DOMAIN appended : appended[i].use }
           calls == AtPositions(appended, S)
<1>1. S \in SUBSET (1 .. Len(appended))
    OBVIOUS
<1>2. /\ calls \in Seq(Message)
      /\ \A j \in S : \E i \in 1 .. Len(calls) : calls[i] = appended[j]
  <2> HIDE DEF S
  <2>1. QED
      BY <1>1, AtPositionsFacts
<1>3. e = [ i \in DOMAIN calls |-> Asst(calls[i].text, turn) ]
    BY DEF ToolEntries
<1> HIDE DEF calls
<1>4. DOMAIN calls = 1 .. Len(calls) /\ Len(calls) \in Nat
    BY <1>2
<1>5. ASSUME NEW i \in 1 .. Len(calls)
      PROVE  e[i] \in Message /\ e[i].role = "assistant" /\ ~ e[i].use /\ e[i].turn = turn
             /\ e[i].text = calls[i].text
  <2>1. calls[i].text \in BOOLEAN
    <3>1. calls[i] \in Message
        BY <1>2
    <3>2. QED
        BY <3>1 DEF Message
  <2>2. PICK b \in BOOLEAN : b = calls[i].text
      BY <2>1
  <2>3. e[i] = Asst(b, turn)
      BY <1>3, <1>4, <2>2
  <2>4. QED
      BY <2>2, <2>3, Constructors
<1>6. e \in [ 1 .. Len(calls) -> Message ]
    BY <1>3, <1>4, <1>5
<1>7. e \in Seq(Message) /\ Len(e) = Len(calls)
    BY <1>4, <1>6
<1>8. ASSUME NEW j \in 1 .. Len(appended), appended[j].use, appended[j].text
      PROVE  \E i \in 1 .. Len(e) : Reply(e[i])
  <2>1. j \in S
      BY <1>8
  <2>2. PICK i \in 1 .. Len(calls) : calls[i] = appended[j]
      BY <1>2, <2>1
  <2>3. QED
      BY <1>5, <1>7, <1>8, <2>2 DEF Reply
<1>9. QED
    BY <1>5, <1>7, <1>8 DEF Plain

-----------------------------------------------------------------------------
(* The steps. *)

\* The end of handle(), which leaves none of its locals behind.
LEMMA EndedFacts ==
    ASSUME Ended
    PROVE  /\ Asking' /\ FreshOK' /\ AppendedOK' /\ RequestKeepsRounds' /\ Held'
           /\ Plain(hist') /\ Prefaced(hist')
           /\ hist' \in Seq(Message) /\ request' \in Seq(Message)
           /\ fresh' \in Seq(Message) /\ appended' \in Seq(Message)
           /\ pc' = "idle" /\ final' = "none" /\ fires' \in 0 .. MaxAutoFires
<1>1. hist' = << >> /\ fresh' = << >> /\ appended' = << >> /\ request' = << >>
      /\ pc' = "idle" /\ final' = "none" /\ fires' = 0
    BY DEF Ended
<1>2. << >> \in Seq(Message) /\ Len(<< >>) = 0
    OBVIOUS
<1>3. FreshOK'
    BY <1>1, <1>2 DEF FreshOK, Alternates, Paired, OfTurn
<1>4. AppendedOK'
    BY <1>1, <1>2 DEF AppendedOK, Alternates, Paired, OfTurn
<1>5. Asking' /\ RequestKeepsRounds' /\ Held'
    BY <1>1 DEF Asking, RequestKeepsRounds, Held, Holding
<1>6. Plain(hist') /\ Prefaced(hist')
    BY <1>1, <1>2 DEF Plain, Prefaced
<1>7. 0 \in 0 .. MaxAutoFires
    BY SessionConstants
<1>8. QED
    BY <1>1, <1>2, <1>3, <1>4, <1>5, <1>6, <1>7

\* The session and the turn stay as they are.
LEMMA ChronicleKept ==
    ASSUME UNCHANGED << session, turn >>, pc' = "prelude" => pc = "prelude"
    PROVE  Chronicle => Chronicle'
<1>1. Dated => Dated'
    BY DEF Dated
<1>2. QED
    BY <1>1 DEF Chronicle

\* A step of handle() that touches neither the stores nor what it knows of them.
LEMMA Unmoved ==
    ASSUME UNCHANGED << live, session, summarised, file, hist, turn, observed >>,
           pc' = "prelude" => pc = "prelude"
    PROVE  /\ Files => Files'
           /\ Grounds => Grounds'
           /\ Chronicle => Chronicle'
<1>1. Known' = Known
    BY DEF Known, observed
<1>2. Files => Files'
    BY <1>1 DEF Files, Recorded, Remembered, observed
<1>3. Grounds => Grounds'
    BY <1>1 DEF Grounds, Recorded, Remembered, observed
<1>4. Chronicle => Chronicle'
    BY ChronicleKept
<1>5. QED
    BY <1>2, <1>3, <1>4

LEMMA InitInv == Init => IInv
<1> SUFFICES ASSUME Init PROVE IInv
    OBVIOUS
<1>1. << >> \in Seq(Message) /\ Len(<< >>) = 0
    OBVIOUS
<1>2. Typed
  <2>1. 0 \in 0 .. MaxTurns /\ 0 \in 0 .. MaxAutoFires /\ 0 \in 0 .. MaxCrashes
        /\ 0 \in 0 .. MaxClears
      BY SessionConstants
  <2>2. pc = "idle"
      BY DEF Init
  <2>3. TypeOK
      BY <1>1, <2>1 DEF Init, TypeOK
  <2>4. QED
      BY <2>2, <2>3 DEF Typed
<1>3. Chronicle /\ Asking /\ FreshOK /\ AppendedOK
    BY <1>1 DEF Init, Chronicle, Paired, Resumed, Dated, Asking, FreshOK, AppendedOK, Alternates,
                OfTurn
<1>4. RequestKeepsRounds /\ Held
    BY DEF Init, RequestKeepsRounds, Held, Holding
<1>5. Files
    BY <1>1 DEF Init, Files, Plain, Prefaced, Recorded
<1>6. QED
    BY <1>2, <1>3, <1>4, <1>5 DEF IInv

LEMMA ArriveInv == IInv /\ Arrive => IInv'
<1> SUFFICES ASSUME IInv, Arrive PROVE IInv'
    OBVIOUS
<1> USE DEF stores, call, result, observed, bounds
<1>1. Typed'
  <2>1. turn' \in 0 .. MaxTurns /\ turn' \in 1 .. MaxTurns
      BY SessionConstants DEF IInv, Typed, TypeOK, Arrive
  <2>2. QED
      BY <2>1 DEF IInv, Typed, TypeOK, Arrive
<1>2. FreshOK' /\ AppendedOK'
  <2>1. /\ Len(fresh) = 0 /\ Len(appended) = 0 /\ pc' = "prelude"
        /\ UNCHANGED << fresh, appended, final >>
      BY DEF IInv, Arrive, FreshOK, AppendedOK
  <2>2. FreshOK'
      BY <2>1 DEF IInv, FreshOK, OfTurn
  <2>3. AppendedOK'
      BY <2>1 DEF IInv, AppendedOK, OfTurn
  <2>4. QED
      BY <2>2, <2>3
\* What the session holds is of earlier turns.
<1>7. Chronicle'
  <2>1. turn' = turn + 1 /\ session' = session /\ turn \in Nat /\ session \in Seq(Message)
      BY SessionConstants DEF IInv, Typed, TypeOK, Arrive
  <2>2. ASSUME NEW i \in 1 .. Len(session), session[i].use
        PROVE  session[i].turn <= turn' /\ session[i].turn < turn'
    <3>1. session[i] \in Message
        BY <2>1
    <3>2. session[i].turn \in Int
        BY <3>1, SessionConstants DEF Message
    <3>3. session[i].turn <= turn
        BY <2>2 DEF IInv, Chronicle, Dated
    <3>4. QED
        BY <2>1, <3>2, <3>3
  <2>3. Dated'
      BY <2>1, <2>2 DEF Dated
  <2>4. QED
      BY <2>1, <2>3 DEF IInv, Chronicle
<1>3. Asking' /\ RequestKeepsRounds' /\ Held'
    BY DEF Arrive, Asking, RequestKeepsRounds, Held, Holding
<1>4. Known' = Known
    BY DEF Known, Arrive
<1>5. Files'
    BY <1>4 DEF IInv, Files, Arrive, Recorded, Remembered
<1>6. QED
    BY <1>1, <1>2, <1>3, <1>5, <1>7 DEF IInv

\* The turn ends and the stores stay as they are: swallowed, raised, cancelled.
LEMMA EndsInv ==
    ASSUME IInv, Ended, UNCHANGED << stores, turn, observed, bounds >>
    PROVE  IInv'
<1> USE DEF stores, observed, bounds
<1>1. /\ Asking' /\ FreshOK' /\ AppendedOK' /\ RequestKeepsRounds' /\ Held'
      /\ Plain(hist') /\ Prefaced(hist')
      /\ hist' \in Seq(Message) /\ request' \in Seq(Message)
      /\ fresh' \in Seq(Message) /\ appended' \in Seq(Message)
      /\ pc' = "idle" /\ final' = "none" /\ fires' \in 0 .. MaxAutoFires
    BY EndedFacts
<1>2. Typed'
    BY <1>1 DEF IInv, Typed, TypeOK
<1>3. Known' = Known
    BY DEF Known
<1>4. Files'
    BY <1>1, <1>3 DEF IInv, Files, Recorded, Remembered
<1>5. Chronicle'
    BY <1>1, ChronicleKept DEF IInv
<1>6. QED
    BY <1>1, <1>2, <1>4, <1>5 DEF IInv

LEMMA HookRepliesInv == IInv /\ HookReplies => IInv'
<1> SUFFICES ASSUME IInv, HookReplies PROVE IInv'
    OBVIOUS
<1> USE DEF observed, bounds
<1> DEFINE p == << User(turn), Asst(TRUE, turn) >>
<1>1. /\ Asking' /\ FreshOK' /\ AppendedOK' /\ RequestKeepsRounds' /\ Held'
      /\ Plain(hist') /\ Prefaced(hist')
      /\ hist' \in Seq(Message) /\ request' \in Seq(Message)
      /\ fresh' \in Seq(Message) /\ appended' \in Seq(Message)
      /\ pc' = "idle" /\ final' = "none" /\ fires' \in 0 .. MaxAutoFires
    BY EndedFacts DEF HookReplies
<1>2. /\ turn \in 1 .. MaxTurns /\ turn \in 0 .. MaxTurns /\ file \in Seq(Message)
      /\ Plain(file) /\ Prefaced(file) /\ Recorded(file)
      /\ live => Remembered(file)
    BY DEF IInv, Typed, TypeOK, HookReplies, Files
<1>3. /\ User(turn) \in Message /\ Asst(TRUE, turn) \in Message
      /\ Asks(User(turn), turn) /\ ~ User(turn).use /\ User(turn).role = "user"
      /\ Reply(Asst(TRUE, turn)) /\ ~ Asst(TRUE, turn).use /\ Asst(TRUE, turn).turn = turn
    BY <1>2, Constructors DEF Asks, Reply
<1>4. p \in Seq(Message) /\ Len(p) = 2 /\ p[1] = User(turn) /\ p[2] = Asst(TRUE, turn)
  <2>1. ASSUME NEW a \in Message, NEW b \in Message
        PROVE  /\ << a, b >> \in Seq(Message) /\ Len(<< a, b >>) = 2
               /\ << a, b >>[1] = a /\ << a, b >>[2] = b
      OBVIOUS
  <2>2. QED
      BY <1>3, <2>1
<1> HIDE DEF p
<1>5. /\ file' \in Seq(Message) /\ Len(file) \in Nat /\ Len(file') = Len(file) + 2
      /\ \A i \in 1 .. Len(file) : i \in 1 .. Len(file') /\ file'[i] = file[i]
      /\ Len(file) + 1 \in 1 .. Len(file') /\ file'[Len(file) + 1] = User(turn)
      /\ Len(file) + 2 \in 1 .. Len(file') /\ file'[Len(file) + 2] = Asst(TRUE, turn)
      /\ \A i \in 1 .. Len(file') :
             i \in 1 .. Len(file) \/ i = Len(file) + 1 \/ i = Len(file) + 2
  <2>1. file' = file \o p
      BY DEF HookReplies, p
  <2>2. /\ file' \in Seq(Message) /\ Len(file') = Len(file) + Len(p) /\ Len(file) \in Nat
        /\ \A i \in 1 .. Len(file) : i \in 1 .. Len(file') /\ file'[i] = file[i]
        /\ \A i \in 1 .. Len(p) : Len(file) + i \in 1 .. Len(file') /\ file'[Len(file) + i] = p[i]
    <3>1. \A u : u = file \o p =>
             /\ u \in Seq(Message) /\ Len(u) = Len(file) + Len(p) /\ Len(file) \in Nat
             /\ \A i \in 1 .. Len(file) : i \in 1 .. Len(u) /\ u[i] = file[i]
             /\ \A i \in 1 .. Len(p) : Len(file) + i \in 1 .. Len(u) /\ u[Len(file) + i] = p[i]
      <4>1. file \in Seq(Message) /\ p \in Seq(Message)
          BY <1>2, <1>4
      <4>2. QED
          BY <4>1, Concat
    <3>2. QED
        BY <2>1, <3>1
  <2>3. 1 \in 1 .. Len(p) /\ 2 \in 1 .. Len(p)
      BY <1>4
  <2>4. \A i \in 1 .. Len(file') :
            i \in 1 .. Len(file) \/ i = Len(file) + 1 \/ i = Len(file) + 2
      BY <1>4, <2>2
  <2>5. QED
      BY <1>4, <2>2, <2>3, <2>4
<1>6. Typed'
    BY <1>1, <1>2, <1>5 DEF IInv, Typed, TypeOK, HookReplies
<1>7. hooked' = hooked \cup { turn } /\ delivered' = delivered \cup { turn }
      /\ UNCHANGED << live, session, summarised >>
    BY DEF HookReplies
<1>8. Known \subseteq Known' /\ turn \in Known'
    BY <1>7 DEF Known
<1>9. Plain(file')
  <2>1. ASSUME NEW i \in 1 .. Len(file')
        PROVE  ~ file'[i].use /\ file'[i].role \in { "user", "assistant" }
    <3>1. CASE i \in 1 .. Len(file)
        BY <1>2, <1>5, <3>1 DEF Plain
    <3>2. CASE i \notin 1 .. Len(file)
        BY <1>3, <1>5, <3>2 DEF Reply
    <3>3. QED
        BY <3>1, <3>2
  <2>2. QED
      BY <2>1 DEF Plain
<1>10. ASSUME NEW i \in 1 .. Len(file'), Reply(file'[i])
       PROVE  /\ \E k \in 1 .. i - 1 : Asks(file'[k], file'[i].turn)
              /\ live => file'[i].turn \in Known'
  <2>1. CASE i \in 1 .. Len(file)
    <3>1. PICK k \in 1 .. i - 1 : Asks(file[k], file[i].turn)
        BY <1>2, <1>5, <1>10, <2>1 DEF Prefaced
    <3>2. k \in 1 .. Len(file)
        BY <1>5, <2>1
    <3>3. live => file[i].turn \in Known
        BY <1>2, <1>5, <1>10, <2>1 DEF Remembered
    <3>4. QED
        BY <1>5, <1>8, <2>1, <3>1, <3>2, <3>3
  <2>2. CASE i \notin 1 .. Len(file)
    <3>1. i = Len(file) + 2
        BY <1>3, <1>5, <1>10, <2>2 DEF Reply
    <3>2. Len(file) + 1 \in 1 .. i - 1
        BY <1>5, <3>1
    <3>3. QED
        BY <1>3, <1>5, <1>8, <3>1, <3>2
  <2>3. QED
      BY <2>1, <2>2
<1>11. Recorded(file)'
  <2>1. ASSUME NEW t \in delivered'
        PROVE  \E i \in 1 .. Len(file') : Reply(file'[i]) /\ file'[i].turn = t
    <3>1. CASE t = turn
        BY <1>3, <1>5, <3>1
    <3>2. CASE t # turn
      <4>1. t \in delivered
          BY <1>7, <3>2
      <4>2. PICK i \in 1 .. Len(file) : Reply(file[i]) /\ file[i].turn = t
          BY <1>2, <4>1 DEF Recorded
      <4>3. QED
          BY <1>5, <4>2
    <3>3. QED
        BY <3>1, <3>2
  <2>2. QED
      BY <2>1 DEF Recorded
<1>12. Files'
  <2>1. Prefaced(file')
      BY <1>10 DEF Prefaced
  <2>2. live' => Remembered(file)'
      BY <1>7, <1>10 DEF Remembered
  <2>3. QED
      BY <1>1, <1>9, <1>11, <2>1, <2>2 DEF Files
<1>13. Chronicle'
    BY <1>1, ChronicleKept DEF IInv, HookReplies
<1>14. QED
    BY <1>1, <1>6, <1>12, <1>13 DEF IInv

LEMMA HookSwallowsInv == IInv /\ HookSwallows => IInv'
    BY EndsInv DEF HookSwallows

LEMMA RaiseInv == IInv /\ Raise => IInv'
    BY EndsInv DEF Raise

LEMMA CancelInv == IInv /\ Cancel => IInv'
    BY EndsInv DEF Cancel

LEMMA EnsureEarlyInv == IInv /\ EnsureEarly => IInv'
<1> SUFFICES ASSUME IInv, EnsureEarly PROVE IInv'
    OBVIOUS
<1> USE DEF call, result, observed, bounds
<1>1. session \in Seq(Message) /\ file \in Seq(Message) /\ Paired(session)
      /\ Resumed(session) /\ Plain(file) /\ Prefaced(file)
    BY DEF IInv, Typed, TypeOK, Files, Chronicle
<1>2. /\ session' \in Seq(Message) /\ Paired(session') /\ Resumed(session')
      /\ \A i \in 1 .. Len(session') : ~ session'[i].use
      /\ \A i \in 1 .. Len(file) : Reply(file[i]) =>
            \E j \in 1 .. Len(session') :
                session'[j].role = "user" /\ session'[j].turn = file[i].turn
  <2>1. ~ live /\ session' = EnsureSession
      BY DEF EnsureEarly
  <2>2. QED
      BY <1>1, <2>1, EnsureFacts
<1>3. Typed'
    BY <1>2 DEF IInv, Typed, TypeOK, EnsureEarly
<1>4. FreshOK' /\ AppendedOK'
    BY DEF IInv, EnsureEarly, FreshOK, AppendedOK
<1>5. Asking' /\ RequestKeepsRounds' /\ Held'
    BY DEF EnsureEarly, Asking, RequestKeepsRounds, Held, Holding
<1>6. Remembered(file)'
  <2>1. ASSUME NEW i \in 1 .. Len(file), Reply(file[i])
        PROVE  file[i].turn \in Known'
    <3>1. file[i].turn \in 0 .. MaxTurns
      <4>1. file[i] \in Message
          BY <1>1
      <4>2. QED
          BY <4>1 DEF Message
    <3>2. PICK j \in 1 .. Len(session') :
             session'[j].role = "user" /\ session'[j].turn = file[i].turn
        BY <1>2, <2>1
    <3>3. QED
        BY <3>1, <3>2 DEF Known
  <2>2. file' = file
      BY DEF EnsureEarly
  <2>3. QED
      BY <2>1, <2>2 DEF Remembered
<1>7. Files'
    BY <1>6 DEF IInv, Files, EnsureEarly, Recorded
<1>8. Chronicle'
    BY <1>2 DEF Chronicle, Dated
<1>9. QED
    BY <1>3, <1>4, <1>5, <1>7, <1>8 DEF IInv

LEMMA BeginInv == IInv /\ Begin => IInv'
<1> SUFFICES ASSUME IInv, Begin PROVE IInv'
    OBVIOUS
<1> USE DEF call, result, observed, bounds
<1> DEFINE e == EnsureSession
<1>1. session \in Seq(Message) /\ file \in Seq(Message) /\ Paired(session)
      /\ Resumed(session) /\ Plain(file) /\ Prefaced(file) /\ Recorded(file)
      /\ turn \in 1 .. MaxTurns /\ turn \in 0 .. MaxTurns
    BY DEF IInv, Typed, TypeOK, Files, Begin, Chronicle
<1>2. live => Remembered(file)
    BY DEF IInv, Files
<1>3. /\ e \in Seq(Message) /\ Paired(e) /\ Resumed(e)
      /\ live => e = session
      /\ ~ live => \A i \in 1 .. Len(e) : ~ e[i].use
      /\ ~ live => \A i \in 1 .. Len(file) : Reply(file[i]) =>
            \E j \in 1 .. Len(e) : e[j].role = "user" /\ e[j].turn = file[i].turn
    BY <1>1, EnsureFacts
<1> HIDE DEF e
<1>4. /\ User(turn) \in Message /\ Asks(User(turn), turn) /\ ~ User(turn).use
      /\ User(turn).role = "user" /\ User(turn).turn = turn
      /\ ~ Reply(User(turn))
  <2>1. TRUE \in BOOLEAN
      OBVIOUS
  <2>2. QED
      BY <1>1, <2>1, Constructors DEF Asks, Reply
<1>5. live' /\ session' = Append(e, User(turn)) /\ hist' = Append(file, User(turn))
      /\ file' = hist' /\ pc' = "assembling"
      /\ UNCHANGED << summarised, turn, request, fresh, appended, final, fires, delivered, hooked,
                      crashes, clears >>
    BY DEF Begin, e
<1>7. /\ session' \in Seq(Message) /\ Len(session') = Len(e) + 1 /\ Len(e) \in Nat
      /\ \A i \in 1 .. Len(e) : i \in 1 .. Len(session') /\ session'[i] = e[i]
      /\ session'[Len(e) + 1] = User(turn) /\ Len(e) + 1 \in 1 .. Len(session')
      /\ \A i \in 1 .. Len(session') : i \in 1 .. Len(e) \/ i = Len(e) + 1
    BY <1>3, <1>4, <1>5, AppendFacts
<1>8. /\ hist' \in Seq(Message) /\ Len(hist') = Len(file) + 1 /\ Len(file) \in Nat
      /\ \A i \in 1 .. Len(file) : i \in 1 .. Len(hist') /\ hist'[i] = file[i]
      /\ hist'[Len(file) + 1] = User(turn) /\ Len(file) + 1 \in 1 .. Len(hist')
      /\ \A i \in 1 .. Len(hist') : i \in 1 .. Len(file) \/ i = Len(file) + 1
    BY <1>1, <1>4, <1>5, AppendFacts
<1>9. Typed'
    BY <1>1, <1>5, <1>7, <1>8 DEF IInv, Typed, TypeOK
<1>10. FreshOK' /\ AppendedOK'
    BY <1>5 DEF IInv, FreshOK, AppendedOK
<1>11. Asking' /\ RequestKeepsRounds'
    BY <1>4, <1>5, <1>7 DEF Asking, RequestKeepsRounds
<1>12. Chronicle'
  \* Calls of the session are of earlier turns: the new message may follow them.
  <2>1. ASSUME NEW i \in 1 .. Len(e), e[i].use
        PROVE  e[i].turn < turn /\ e[i].turn <= turn
    <3>1. live /\ e = session
        BY <1>3, <2>1
    <3>2. pc = "prelude"
        BY DEF Begin
    <3>3. session[i].turn < turn /\ session[i].turn <= turn
        BY <2>1, <3>1, <3>2 DEF IInv, Chronicle, Dated
    <3>4. QED
        BY <3>1, <3>3
  <2>2. ASSUME NEW i \in 1 .. Len(session')
        PROVE  /\ session'[i].use =>
                     /\ session'[i].role = "assistant"
                     /\ i < Len(session') => session'[i + 1].role \in { "tool", "user" }
               /\ session'[i].role = "tool" => i > 1 /\ session'[i - 1].use
               /\ session'[i].role = "system" => i = 1
               /\ session'[i].use => i \in 1 .. Len(e)
    <3>1. CASE i \in 1 .. Len(e)
      <4>1. /\ e[i].use => /\ e[i].role = "assistant"
                           /\ i < Len(e) => e[i + 1].role \in { "tool", "user" }
            /\ e[i].role = "tool" => i > 1 /\ e[i - 1].use
            /\ e[i].role = "system" => i = 1
          BY <1>3, <3>1 DEF Paired
      <4>2. (i < Len(e) => i + 1 \in 1 .. Len(e)) /\ (~ (i < Len(e)) => i + 1 = Len(e) + 1)
          BY <1>7, <3>1
      <4>3. i > 1 => i - 1 \in 1 .. Len(e)
          BY <1>7, <3>1
      <4>4. (i < Len(e) => session'[i + 1] = e[i + 1])
            /\ (~ (i < Len(e)) => session'[i + 1] = User(turn))
          BY <1>7, <4>2
      <4>5. QED
          BY <1>4, <1>7, <3>1, <4>1, <4>3, <4>4
    <3>2. CASE i = Len(e) + 1
        BY <1>4, <1>7, <3>2
    <3>3. QED
        BY <1>7, <3>1, <3>2
  <2>3. Paired(session')
      BY <2>2 DEF Paired
  <2>4. ASSUME NEW i \in 1 .. Len(session'), NEW j \in 1 .. Len(session'), i < j,
               session'[i].use, session'[i + 1].role = "user"
        PROVE  session'[i].turn < session'[j].turn
    <3>1. i \in 1 .. Len(e) /\ session'[i] = e[i]
        BY <1>7, <2>2, <2>4
    <3>2. CASE j \in 1 .. Len(e)
      <4>1. i + 1 \in 1 .. Len(e)
          BY <1>7, <2>4, <3>1, <3>2
      <4>2. session'[i + 1] = e[i + 1] /\ session'[j] = e[j]
          BY <1>7, <3>2, <4>1
      <4>3. QED
          BY <1>3, <2>4, <3>1, <3>2, <4>2 DEF Resumed
    <3>3. CASE j = Len(e) + 1
        BY <1>4, <1>7, <2>1, <2>4, <3>1, <3>3
    <3>4. QED
        BY <1>7, <3>2, <3>3
  <2>5. Resumed(session')
      BY <2>4 DEF Resumed
  <2>6. Dated'
    <3>1. ASSUME NEW i \in 1 .. Len(session'), session'[i].use
          PROVE  session'[i].turn <= turn
        BY <1>7, <2>1, <2>2, <3>1
    <3>2. QED
        BY <1>5, <3>1 DEF Dated
  <2>7. QED
      BY <2>3, <2>5, <2>6 DEF Chronicle
<1>13. ASSUME NEW i \in 1 .. Len(file), Reply(file[i])
       PROVE  file[i].turn \in Known'
  <2>1. file[i].turn \in 0 .. MaxTurns
    <3>1. file[i] \in Message
        BY <1>1
    <3>2. QED
        BY <3>1 DEF Message
  <2>2. CASE live
    <3>1. file[i].turn \in Known
        BY <1>2, <1>13, <2>2 DEF Remembered
    <3>2. Known \subseteq Known'
        BY <1>3, <1>5, <1>7, <2>2 DEF Known
    <3>3. QED
        BY <3>1, <3>2
  <2>3. CASE ~ live
    <3>1. PICK j \in 1 .. Len(e) : e[j].role = "user" /\ e[j].turn = file[i].turn
        BY <1>3, <1>13, <2>3
    <3>2. QED
        BY <1>7, <2>1, <3>1 DEF Known
  <2>4. QED
      BY <2>2, <2>3
<1>14. turn' \in Known'
    BY <1>1, <1>4, <1>5, <1>7 DEF Known
<1>15. ASSUME NEW i \in 1 .. Len(hist'), Reply(hist'[i])
       PROVE  /\ i \in 1 .. Len(file) /\ hist'[i] = file[i]
              /\ hist'[i].turn \in Known'
              /\ \E k \in 1 .. i - 1 : Asks(hist'[k], hist'[i].turn)
  <2>1. i \in 1 .. Len(file) /\ hist'[i] = file[i]
      BY <1>4, <1>8, <1>15
  <2>2. PICK k \in 1 .. i - 1 : Asks(file[k], file[i].turn)
      BY <1>1, <1>15, <2>1 DEF Prefaced
  <2>3. k \in 1 .. Len(file)
      BY <1>8, <2>1
  <2>4. hist'[k] = file[k]
      BY <1>8, <2>3
  <2>5. QED
      BY <1>13, <1>15, <2>1, <2>2, <2>4
<1>16. Plain(hist') /\ Prefaced(hist')
  <2>1. Plain(hist')
      BY <1>1, <1>4, <1>8 DEF Plain
  <2>2. QED
      BY <1>15, <2>1 DEF Prefaced
<1>17. Recorded(hist)' /\ Remembered(hist)'
  <2>1. Recorded(hist)'
      BY <1>1, <1>5, <1>8 DEF Recorded
  <2>2. QED
      BY <1>15, <2>1 DEF Remembered
<1>18. Files'
    BY <1>5, <1>16, <1>17 DEF Files, Recorded, Remembered
<1>19. Held'
  <2>1. \E k \in 1 .. Len(hist') : Asks(hist'[k], turn')
      BY <1>4, <1>5, <1>8
  <2>2. QED
      BY <1>5, <1>14, <1>17, <2>1 DEF Held, Grounds
<1>20. QED
    BY <1>9, <1>10, <1>11, <1>12, <1>18, <1>19 DEF IInv

LEMMA AssembleInv == IInv /\ Assemble => IInv'
<1> SUFFICES ASSUME IInv, Assemble PROVE IInv'
    OBVIOUS
<1> USE DEF stores, result, observed, bounds
<1>1. /\ session \in Seq(Message) /\ Paired(session) /\ Resumed(session)
      /\ Len(session) > 0 /\ session[Len(session)].role = "user"
      /\ session[Len(session)].turn = turn
    BY DEF IInv, Typed, TypeOK, Asking, Assemble, Chronicle
<1>2. pc = "assembling" /\ pc' = "running" /\ request' = MergeConsecutiveSameRole(session)
    BY DEF Assemble
<1>3. request' \in Seq(Message) /\ KeepsRounds(request')
    BY <1>1, <1>2, MergeKeeps
<1>4. Typed'
    BY <1>2, <1>3 DEF IInv, Typed, TypeOK, Assemble
<1>5. Asking' /\ FreshOK' /\ AppendedOK'
    BY <1>1, <1>2 DEF IInv, Assemble, Asking, FreshOK, AppendedOK
<1>6. RequestKeepsRounds'
    BY <1>3 DEF RequestKeepsRounds
<1>7. Files' /\ Chronicle' /\ (Grounds => Grounds')
    BY Unmoved DEF IInv, Assemble
<1>8. Held'
    BY <1>2, <1>7 DEF IInv, Held, Holding
<1>9. QED
    BY <1>4, <1>5, <1>6, <1>7, <1>8 DEF IInv

LEMMA RoundInv == IInv /\ Round => IInv'
<1> SUFFICES ASSUME IInv, Round PROVE IInv'
    OBVIOUS
<1> USE DEF stores, result, observed, bounds
<1>1. fresh \in Seq(Message) /\ FreshOK /\ turn \in 0 .. MaxTurns
    BY DEF IInv, Typed, TypeOK
<1>2. PICK r \in Rounds(turn) : fresh' = fresh \o r
    BY DEF Round
<1>3. /\ r \in Seq(Message) /\ Alternates(r) /\ OfTurn(r, turn)
      /\ Len(r) > 0 /\ r[Len(r)].role # "assistant"
    BY <1>1, RoundFacts
<1>4. /\ Alternates(fresh) /\ OfTurn(fresh, turn)
      /\ (Len(fresh) > 0 => fresh[Len(fresh)].role # "assistant")
    BY <1>1 DEF FreshOK
<1>5. Alternates(fresh') /\ OfTurn(fresh', turn)
  <2>1. Alternates(fresh')
      BY <1>1, <1>2, <1>3, <1>4, AlternatesConcat
  <2>2. QED
      BY <1>1, <1>2, <1>3, <1>4, <2>1, OfTurnConcat
<1>6. /\ fresh' \in Seq(Message) /\ Len(fresh') = Len(fresh) + Len(r)
      /\ Len(fresh) \in Nat /\ Len(r) \in Nat
      /\ \A i \in 1 .. Len(r) : fresh'[Len(fresh) + i] = r[i]
  <2>1. fresh \in Seq(Message) /\ r \in Seq(Message)
      BY <1>1, <1>3
  <2>2. QED
      BY <1>2, <2>1, Concat
<1>7. fresh'[Len(fresh')].role # "assistant"
  <2>1. Len(r) \in 1 .. Len(r)
      BY <1>3, <1>6
  <2>2. QED
      BY <1>3, <1>6, <2>1
<1>9. pc' = pc /\ pc # "idle" /\ UNCHANGED << appended, final, session, request, turn >>
    BY DEF Round
<1>8. FreshOK'
    BY <1>5, <1>7, <1>9 DEF FreshOK
<1>10. Typed'
    BY <1>6 DEF IInv, Typed, TypeOK, Round
<1>11. Asking' /\ AppendedOK' /\ RequestKeepsRounds'
    BY <1>9 DEF IInv, Asking, AppendedOK, RequestKeepsRounds
<1>12. Files' /\ Chronicle' /\ (Grounds => Grounds')
    BY Unmoved DEF IInv, Round
<1>13. Held'
    BY <1>9, <1>12 DEF IInv, Held, Holding
<1>14. QED
    BY <1>8, <1>10, <1>11, <1>12, <1>13 DEF IInv

\* A turn that returns: what it had before, then this call's rounds, then its closing.
LEMMA ReturnsInv ==
    ASSUME IInv, pc \in { "running", "refiring" }, pc' = "returned",
           NEW before \in Seq(Message), Alternates(before), OfTurn(before, turn),
           Len(before) > 0 => before[Len(before)].role # "assistant",
           NEW c \in Closings(turn), appended' = before \o c.msgs, final' = c.final,
           fires' \in 0 .. MaxAutoFires, request' = << >>, fresh' = << >>,
           UNCHANGED << stores, turn, hist, observed, bounds >>
    PROVE  IInv'
<1> USE DEF stores, observed, bounds
<1>0. turn \in 0 .. MaxTurns /\ turn \in 1 .. MaxTurns
    BY DEF IInv, Typed, TypeOK
<1>1. /\ c.msgs \in Seq(Message) /\ c.final \in { "text", "call", "both", "calls", "empty" }
      /\ Alternates(c.msgs) /\ OfTurn(c.msgs, turn)
      /\ c.final = "call" => Len(c.msgs) > 0 /\ c.msgs[Len(c.msgs)].role = "assistant"
      /\ c.final = "both" =>
            Len(c.msgs) > 0 /\ c.msgs[Len(c.msgs)].use /\ c.msgs[Len(c.msgs)].text
    BY <1>0, ClosingFacts
<1>2. PICK m \in Seq(Message) : m = c.msgs
    BY <1>1
<1>3. Alternates(appended') /\ OfTurn(appended', turn)
  <2>1. Alternates(appended')
      BY <1>1, <1>2, AlternatesConcat
  <2>2. QED
      BY <1>1, <1>2, <2>1, OfTurnConcat
<1>4. /\ appended' \in Seq(Message) /\ Len(appended') = Len(before) + Len(m)
      /\ Len(before) \in Nat /\ Len(m) \in Nat
      /\ \A i \in 1 .. Len(m) : appended'[Len(before) + i] = m[i]
    BY <1>2, Concat
<1>5. Len(m) > 0 => Len(appended') > 0 /\ appended'[Len(appended')] = m[Len(m)]
  <2>1. SUFFICES ASSUME Len(m) > 0
                 PROVE  Len(appended') > 0 /\ appended'[Len(appended')] = m[Len(m)]
      OBVIOUS
  <2>2. Len(m) \in 1 .. Len(m)
      BY <1>4, <2>1
  <2>3. Len(appended') > 0
      BY <1>4, <2>1
  <2>4. appended'[Len(before) + Len(m)] = m[Len(m)]
      BY <1>4, <2>2
  <2>5. QED
      BY <1>4, <2>3, <2>4
<1>6. AppendedOK'
    BY <1>1, <1>2, <1>3, <1>5 DEF AppendedOK
<1>7. << >> \in Seq(Message) /\ Len(<< >>) = 0
    OBVIOUS
<1>8. FreshOK'
    BY <1>7 DEF FreshOK, Alternates, Paired, OfTurn
<1>9. Typed'
    BY <1>0, <1>1, <1>4, <1>7 DEF IInv, Typed, TypeOK
<1>10. Asking' /\ RequestKeepsRounds'
    BY DEF IInv, Asking, RequestKeepsRounds
<1>11. Files' /\ Chronicle' /\ (Grounds => Grounds')
    BY Unmoved DEF IInv
<1>12. Held'
    BY <1>11 DEF IInv, Held, Holding
<1>13. QED
    BY <1>6, <1>8, <1>9, <1>10, <1>11, <1>12 DEF IInv

LEMMA TurnReturnsInv == IInv /\ TurnReturns => IInv'
<1> SUFFICES ASSUME IInv, TurnReturns PROVE IInv'
    OBVIOUS
<1>1. PICK c \in Closings(turn) : appended' = fresh \o c.msgs /\ final' = c.final
    BY DEF TurnReturns
<1>2. fresh \in Seq(Message) /\ Alternates(fresh) /\ OfTurn(fresh, turn)
      /\ (Len(fresh) > 0 => fresh[Len(fresh)].role # "assistant")
      /\ fires' \in 0 .. MaxAutoFires
    BY DEF IInv, Typed, TypeOK, FreshOK, TurnReturns
<1>3. QED
    BY <1>1, <1>2, ReturnsInv DEF TurnReturns

LEMMA RerunReturnsInv == IInv /\ RerunReturns => IInv'
<1> SUFFICES ASSUME IInv, RerunReturns PROVE IInv'
    OBVIOUS
<1> DEFINE f == Fired(turn)
<1>1. PICK c \in Closings(turn) : appended' = (f \o fresh) \o c.msgs /\ final' = c.final
    BY DEF RerunReturns
<1>2. /\ fresh \in Seq(Message) /\ Alternates(fresh) /\ OfTurn(fresh, turn)
      /\ Len(fresh) > 0 => fresh[Len(fresh)].role # "assistant"
    BY DEF IInv, Typed, TypeOK, FreshOK
<1>3. fires' \in 0 .. MaxAutoFires
  <2>1. fires \in 0 .. MaxAutoFires /\ fires < MaxAutoFires /\ fires' = fires + 1
      BY DEF IInv, Typed, TypeOK, RerunReturns
  <2>2. QED
      BY <2>1, SessionConstants
<1>4. /\ f \in Seq(Message) /\ Alternates(f) /\ OfTurn(f, turn)
      /\ Len(f) > 0 /\ f[Len(f)].role = "tool"
  <2>1. /\ appended \in Seq(Message) /\ Alternates(appended) /\ OfTurn(appended, turn)
        /\ Len(appended) > 0
        /\ appended[Len(appended)].role = "assistant" /\ turn \in 0 .. MaxTurns
      BY DEF IInv, Typed, TypeOK, AppendedOK, RerunReturns
  <2>2. QED
      BY <2>1, FiredFacts
<1> HIDE DEF f
<1>5. PICK b : b = f \o fresh
    OBVIOUS
<1>6. b \in Seq(Message) /\ Alternates(b) /\ OfTurn(b, turn)
      /\ (Len(b) > 0 => b[Len(b)].role # "assistant")
  <2>1. Alternates(b) /\ OfTurn(b, turn)
    <3>1. Alternates(b)
        BY <1>2, <1>4, <1>5, AlternatesConcat
    <3>2. QED
        BY <1>2, <1>4, <1>5, <3>1, OfTurnConcat
  <2>2. /\ b \in Seq(Message) /\ Len(b) = Len(f) + Len(fresh)
        /\ Len(f) \in Nat /\ Len(fresh) \in Nat
        /\ \A i \in 1 .. Len(f) : b[i] = f[i]
        /\ \A i \in 1 .. Len(fresh) : b[Len(f) + i] = fresh[i]
    <3>1. f \in Seq(Message) /\ fresh \in Seq(Message)
        BY <1>2, <1>4
    <3>2. QED
        BY <1>5, <3>1, Concat
  <2>3. CASE Len(fresh) = 0
    <3>1. Len(b) = Len(f) /\ Len(f) \in 1 .. Len(f)
        BY <1>4, <2>2, <2>3
    <3>2. QED
        BY <1>4, <2>1, <2>2, <3>1
  <2>4. CASE Len(fresh) # 0
    <3>1. Len(fresh) \in 1 .. Len(fresh) /\ Len(fresh) > 0
        BY <2>2, <2>4
    <3>2. b[Len(b)] = fresh[Len(fresh)]
        BY <2>2, <3>1
    <3>3. QED
        BY <1>2, <2>1, <2>2, <3>1, <3>2
  <2>5. QED
      BY <2>3, <2>4
<1>7. appended' = b \o c.msgs /\ final' = c.final
    BY <1>1, <1>5
<1>8. QED
    BY <1>3, <1>6, <1>7, ReturnsInv DEF RerunReturns

LEMMA AutoFireInv == IInv /\ AutoFire => IInv'
<1> SUFFICES ASSUME IInv, AutoFire PROVE IInv'
    OBVIOUS
<1> USE DEF stores, result, observed, bounds
<1> DEFINE m == MergeConsecutiveSameRole(session)
           f == Fired(turn)
<1>1. /\ session \in Seq(Message) /\ Paired(session) /\ Resumed(session)
      /\ Len(session) > 0 /\ session[Len(session)].role = "user"
    BY DEF IInv, Typed, TypeOK, Asking, AutoFire, Chronicle
<1>2. m \in Seq(Message) /\ KeepsRounds(m) /\ Last(m).role = "user"
    BY <1>1, MergeKeeps
<1>3. f \in Seq(Message) /\ Alternates(f) /\ Len(f) > 0 /\ f[Len(f)].role = "tool"
  <2>1. /\ appended \in Seq(Message) /\ Alternates(appended) /\ OfTurn(appended, turn)
        /\ Len(appended) > 0
        /\ appended[Len(appended)].role = "assistant" /\ turn \in 0 .. MaxTurns
      BY DEF IInv, Typed, TypeOK, AppendedOK, AutoFire
  <2>2. QED
      BY <2>1, FiredFacts
<1>4. request' = m \o f
    BY DEF AutoFire
<1> HIDE DEF m, f
<1>5. Len(m) > 0 /\ m[Len(m)].role = "user"
  <2>1. m # << >>
      BY <1>2 DEF KeepsRounds
  <2>2. QED
      BY <1>2, <2>1 DEF Last
<1>6. \A u : u = m \o f => KeepsRounds(u) /\ u \in Seq(Message)
  <2>1. \A u : u = m \o f => KeepsRounds(u)
      BY <1>2, <1>3, <1>5, KeepsConcat
  <2>2. m \in Seq(Message) /\ f \in Seq(Message)
      BY <1>2, <1>3
  <2>3. \A u : u = m \o f => u \in Seq(Message)
      BY <2>2, Concat
  <2>4. QED
      BY <2>1, <2>3
<1>7. request' \in Seq(Message) /\ KeepsRounds(request')
    BY <1>4, <1>6
<1>8. pc = "returned" /\ pc' = "refiring" /\ final = "call" /\ fires < MaxAutoFires
      /\ UNCHANGED << stores, turn, hist, fresh, result, observed, bounds >>
    BY DEF AutoFire
<1>9. Typed'
    BY <1>7, <1>8 DEF IInv, Typed, TypeOK
<1>10. Asking' /\ FreshOK' /\ AppendedOK'
    BY <1>8 DEF IInv, Asking, FreshOK, AppendedOK
<1>11. RequestKeepsRounds'
    BY <1>7 DEF RequestKeepsRounds
<1>12. Files' /\ Chronicle' /\ (Grounds => Grounds')
    BY <1>8, Unmoved DEF IInv
<1>13. Held'
    BY <1>8, <1>12 DEF IInv, Held, Holding
<1>14. QED
    BY <1>9, <1>10, <1>11, <1>12, <1>13 DEF IInv

LEMMA RerunFailsInv == IInv /\ RerunFails => IInv'
<1> SUFFICES ASSUME IInv, RerunFails PROVE IInv'
    OBVIOUS
<1> USE DEF stores, observed, bounds
<1>1. pc = "refiring" /\ pc' = "returned" /\ request' = << >> /\ fresh' = << >>
      /\ fires' = MaxAutoFires
      /\ UNCHANGED << stores, turn, hist, appended, final, observed, bounds >>
    BY DEF RerunFails
<1>2. << >> \in Seq(Message) /\ Len(<< >>) = 0 /\ MaxAutoFires \in 0 .. MaxAutoFires
    BY SessionConstants
<1>3. Typed'
    BY <1>1, <1>2 DEF IInv, Typed, TypeOK
<1>4. FreshOK'
    BY <1>1, <1>2 DEF FreshOK, Alternates, Paired, OfTurn
<1>5. Asking' /\ AppendedOK' /\ RequestKeepsRounds'
    BY <1>1 DEF IInv, Asking, AppendedOK, RequestKeepsRounds
<1>6. Files' /\ Chronicle' /\ (Grounds => Grounds')
    BY <1>1, Unmoved DEF IInv
<1>7. Held'
    BY <1>1, <1>6 DEF IInv, Held, Holding
<1>8. QED
    BY <1>3, <1>4, <1>5, <1>6, <1>7 DEF IInv

\* A step after which the session still knows every turn it knew.
LEMMA KnownGrows ==
    ASSUME IInv, Holding, Known \subseteq Known',
           UNCHANGED << live, file, hist, turn, observed >>
    PROVE  Files' /\ Grounds'
<1>1. Files /\ Grounds
    BY DEF IInv, Held
<1>2. delivered' = delivered
    BY DEF observed
<1>3. Files'
  <2>1. live' => Remembered(file)'
    <3>1. live' => Remembered(file)
        BY <1>1 DEF Files
    <3>2. QED
        BY <3>1 DEF Remembered
  <2>2. QED
      BY <1>1, <1>2, <2>1 DEF Files, Recorded
<1>4. Grounds'
  <2>1. Remembered(hist)'
      BY <1>1 DEF Grounds, Remembered
  <2>2. QED
      BY <1>1, <1>2, <2>1 DEF Grounds, Recorded
<1>5. QED
    BY <1>3, <1>4

\* The messages of a turn join a session that its own message ends.
LEMMA ExtendedFacts ==
    ASSUME session \in Seq(Message), appended \in Seq(Message), turn \in Nat, Chronicle,
           Alternates(appended), OfTurn(appended, turn),
           Len(session) > 0, session[Len(session)].role = "user",
           session[Len(session)].turn = turn,
           session' = session \o appended, turn' = turn, pc' = "compacting"
    PROVE  Chronicle'
<1> DEFINE n == Len(session)
<1>0. n \in Nat /\ n \in 1 .. n
    OBVIOUS
<1>1. /\ Len(session') = n + Len(appended) /\ Len(appended) \in Nat
      /\ \A i \in 1 .. n : i \in 1 .. Len(session') /\ session'[i] = session[i]
      /\ \A i \in 1 .. Len(session') :
             i \in 1 .. n \/ (i - n \in 1 .. Len(appended) /\ session'[i] = appended[i - n])
    BY Concat
<1>2. Paired(session) /\ Resumed(session) /\ Dated
    BY DEF Chronicle
<1>3. ~ session[n].use
    BY <1>0, <1>2 DEF Paired
<1>4. Paired(session')
  <2>1. Paired(appended) /\ \A i \in 1 .. Len(appended) : appended[i].role # "system"
      BY DEF Alternates
  <2>2. QED
      BY <1>2, <1>3, <2>1, PairedConcat
<1> HIDE DEF n
\* Unanswered calls of the session are of earlier turns; the turn's own are its last.
<1>5. ASSUME NEW i \in 1 .. Len(session'), NEW j \in 1 .. Len(session'), i < j,
             session'[i].use, session'[i + 1].role = "user"
      PROVE  session'[i].turn < session'[j].turn
  <2>1. CASE i \in 1 .. n
    <3>1. i # n
        BY <1>1, <1>3, <1>5, <2>1
    <3>2. i + 1 \in 1 .. n /\ i < n
        BY <1>0, <2>1, <3>1
    <3>3. session[i].use /\ session[i + 1].role = "user"
        BY <1>1, <1>5, <2>1, <3>2
    <3>4. CASE j \in 1 .. n
      <4>1. session'[j] = session[j] /\ session'[i] = session[i]
          BY <1>1, <2>1, <3>4
      <4>2. QED
          BY <1>2, <1>5, <2>1, <3>3, <3>4, <4>1 DEF Resumed, n
    <3>5. CASE j \notin 1 .. n
      <4>1. session[i].turn < session[n].turn
          BY <1>0, <1>2, <2>1, <3>2, <3>3 DEF Resumed, n
      <4>2. session'[j].turn = turn
          BY <1>1, <3>5 DEF OfTurn
      <4>3. session'[i] = session[i]
          BY <1>1, <2>1
      <4>4. QED
          BY <4>1, <4>2, <4>3 DEF n
    <3>6. QED
        BY <3>4, <3>5
  <2>2. CASE i \notin 1 .. n
    <3>1. PICK k \in 1 .. Len(appended) : k = i - n /\ session'[i] = appended[k]
        BY <1>1, <2>2
    <3>2. k < Len(appended)
        BY <1>0, <1>1, <1>5, <3>1
    <3>3. /\ i + 1 \in 1 .. Len(session') /\ i + 1 \notin 1 .. n /\ (i + 1) - n = k + 1
          /\ k + 1 \in 1 .. Len(appended)
        BY <1>0, <1>1, <3>1, <3>2
    <3>4. session'[i + 1] = appended[k + 1]
        BY <1>1, <3>3
    <3>5. appended[k + 1].role = "tool"
        BY <1>5, <3>1, <3>2 DEF Alternates
    <3>6. QED
        BY <1>5, <3>4, <3>5
  <2>3. QED
      BY <2>1, <2>2
<1>6. ASSUME NEW i \in 1 .. Len(session'), session'[i].use
      PROVE  session'[i].turn <= turn
  <2>1. CASE i \in 1 .. n
      BY <1>1, <1>2, <1>6, <2>1 DEF Dated, n
  <2>2. CASE i \notin 1 .. n
    <3>1. i - n \in 1 .. Len(appended) /\ session'[i] = appended[i - n]
        BY <1>1, <2>2
    <3>2. session'[i].turn = turn
        BY <3>1 DEF OfTurn
    <3>3. QED
        BY <3>2
  <2>3. QED
      BY <2>1, <2>2
<1>7. Resumed(session') /\ Dated'
  <2>1. Resumed(session')
      BY <1>5 DEF Resumed
  <2>2. Dated'
      BY <1>6 DEF Dated
  <2>3. QED
      BY <2>1, <2>2
<1>8. QED
    BY <1>4, <1>7 DEF Chronicle

LEMMA ExtendInv == IInv /\ Extend => IInv'
<1> SUFFICES ASSUME IInv, Extend PROVE IInv'
    OBVIOUS
<1> USE DEF call, result, observed, bounds
<1>1. pc = "returned" /\ pc' = "compacting" /\ session' = session \o appended
      /\ UNCHANGED << live, summarised, file, turn, hist, call, result, observed, bounds >>
    BY DEF Extend
<1>2. /\ session \in Seq(Message) /\ appended \in Seq(Message)
      /\ Chronicle /\ Alternates(appended) /\ OfTurn(appended, turn)
      /\ Len(session) > 0 /\ session[Len(session)].role = "user"
      /\ session[Len(session)].turn = turn /\ turn \in Nat
    BY <1>1, SessionConstants DEF IInv, Typed, TypeOK, AppendedOK, Asking
<1>3. Chronicle'
    BY <1>1, <1>2, ExtendedFacts
<1>4. /\ session' \in Seq(Message)
      /\ \A i \in 1 .. Len(session) : i \in 1 .. Len(session') /\ session'[i] = session[i]
  <2>1. session \in Seq(Message) /\ appended \in Seq(Message)
      BY <1>2
  <2>2. QED
      BY <1>1, <2>1, Concat
<1>5. Typed'
    BY <1>1, <1>4 DEF IInv, Typed, TypeOK
<1>6. Asking' /\ FreshOK' /\ AppendedOK' /\ RequestKeepsRounds'
    BY <1>1 DEF IInv, Asking, FreshOK, AppendedOK, RequestKeepsRounds
<1>7. Known \subseteq Known'
    BY <1>1, <1>4 DEF Known
<1>8. Files' /\ Grounds'
    BY <1>1, <1>7, KnownGrows DEF Holding
<1>9. QED
    BY <1>3, <1>5, <1>6, <1>8 DEF IInv, Held

LEMMA NotCompactedInv == IInv /\ NotCompacted => IInv'
<1> SUFFICES ASSUME IInv, NotCompacted PROVE IInv'
    OBVIOUS
<1> USE DEF stores, call, result, observed, bounds
<1>1. pc = "compacting" /\ pc' = "recording"
      /\ UNCHANGED << stores, turn, hist, call, result, observed, bounds >>
    BY DEF NotCompacted
<1>2. Typed'
    BY <1>1 DEF IInv, Typed, TypeOK
<1>3. Asking' /\ FreshOK' /\ AppendedOK' /\ RequestKeepsRounds'
    BY <1>1 DEF IInv, Asking, FreshOK, AppendedOK, RequestKeepsRounds
<1>4. Files' /\ Chronicle' /\ (Grounds => Grounds')
    BY <1>1, Unmoved DEF IInv
<1>5. Held'
    BY <1>1, <1>4 DEF IInv, Held, Holding
<1>6. QED
    BY <1>2, <1>3, <1>4, <1>5 DEF IInv

LEMMA CompactedInv == IInv /\ Compacted => IInv'
<1> SUFFICES ASSUME IInv, Compacted PROVE IInv'
    OBVIOUS
<1> USE DEF call, result, observed, bounds
<1>1. pc = "compacting" /\ pc' = "recording" /\ TailStarts(session) # {}
      /\ session' = << Summary >> \o CompactTail(session)
      /\ UNCHANGED << live, file, turn, hist, call, result, observed, bounds >>
    BY DEF Compacted
<1>2. PICK gone :
        /\ gone = TurnsOf(SubSeq(session, 1, Len(session) - Len(CompactTail(session))))
        /\ summarised' = summarised \cup gone
    BY DEF Compacted
<1>3. session \in Seq(Message) /\ Paired(session) /\ Resumed(session)
    BY DEF IInv, Typed, TypeOK, Chronicle
<1>4. /\ session' \in Seq(Message) /\ Paired(session') /\ Resumed(session')
      /\ gone \subseteq 0 .. MaxTurns
      /\ \A i \in 1 .. Len(session') : session'[i].use =>
            \E x \in 1 .. Len(session) : session[x].use /\ session[x].turn = session'[i].turn
      /\ \A j \in 1 .. Len(session) : session[j].role = "user" =>
            \/ session[j].turn \in gone
            \/ \E k \in 1 .. Len(session') :
                   session'[k].role = "user" /\ session'[k].turn = session[j].turn
  <2>1. Compacts(session, session', gone)
      BY <1>1, <1>2, <1>3, CompactFacts
  <2>2. QED
      BY <2>1 DEF Compacts
<1>5. Typed'
    BY <1>1, <1>2, <1>4 DEF IInv, Typed, TypeOK
<1>6. Asking' /\ FreshOK' /\ AppendedOK' /\ RequestKeepsRounds'
    BY <1>1 DEF IInv, Asking, FreshOK, AppendedOK, RequestKeepsRounds
<1>7. Known \subseteq Known'
  <2>1. hooked' = hooked
      BY <1>1
  <2>2. ASSUME NEW t \in 0 .. MaxTurns,
               NEW j \in 1 .. Len(session), session[j].role = "user", session[j].turn = t
        PROVE  t \in Known'
      BY <1>2, <1>4, <2>2 DEF Known
  <2>3. hooked \cup summarised \subseteq Known'
      BY <1>2, <2>1 DEF Known
  <2>4. QED
      BY <2>2, <2>3 DEF Known
<1>8. Files' /\ Grounds'
    BY <1>1, <1>7, KnownGrows DEF Holding
<1>9. Chronicle'
  <2>1. Dated'
      BY <1>1, <1>4 DEF IInv, Chronicle, Dated
  <2>2. QED
      BY <1>4, <2>1 DEF Chronicle
<1>10. QED
    BY <1>5, <1>6, <1>8, <1>9 DEF IInv, Held

\* A history with the message of the turn, to which its reply may be added.
Sound(h) ==
    /\ h \in Seq(Message) /\ Plain(h) /\ Prefaced(h) /\ Recorded(h) /\ Remembered(h)
    /\ \E k \in 1 .. Len(h) : Asks(h[k], turn)

\* What saving the reply makes of it.
Told(g) ==
    /\ g \in Seq(Message) /\ Plain(g) /\ Prefaced(g) /\ Remembered(g)
    /\ \A t \in delivered \cup { turn } : \E i \in 1 .. Len(g) : Reply(g[i]) /\ g[i].turn = t

\* What the file gets for the turn's calls leaves its other entries as they were; the
\* reply that stands beside calls is the entry of these.
LEMMA EntriesFacts ==
    ASSUME IInv, Holding, NEW h, h = hist \o ToolEntries
    PROVE  /\ Sound(h)
           /\ final = "both" => \E i \in 1 .. Len(h) : Reply(h[i]) /\ h[i].turn = turn
<1>1. /\ hist \in Seq(Message) /\ Plain(hist) /\ Prefaced(hist) /\ Grounds
      /\ appended \in Seq(Message) /\ turn \in 0 .. MaxTurns
    BY DEF IInv, Typed, TypeOK, Files, Held
<1>2. PICK e : e = ToolEntries
    OBVIOUS
<1>3. /\ e \in Seq(Message) /\ Plain(e)
      /\ \A i \in 1 .. Len(e) : e[i].turn = turn
      /\ \A j \in 1 .. Len(appended) : appended[j].use /\ appended[j].text =>
            \E i \in 1 .. Len(e) : Reply(e[i])
    BY <1>1, <1>2, ToolEntriesFacts
<1>4. h = hist \o e
    BY <1>2
<1>5. /\ h \in Seq(Message) /\ Len(h) = Len(hist) + Len(e)
      /\ Len(hist) \in Nat /\ Len(e) \in Nat
      /\ \A i \in 1 .. Len(hist) : i \in 1 .. Len(h) /\ h[i] = hist[i]
      /\ \A i \in 1 .. Len(e) : Len(hist) + i \in 1 .. Len(h) /\ h[Len(hist) + i] = e[i]
      /\ \A i \in 1 .. Len(h) :
             i \in 1 .. Len(hist) \/ (i - Len(hist) \in 1 .. Len(e) /\ h[i] = e[i - Len(hist)])
  <2>1. hist \in Seq(Message) /\ e \in Seq(Message)
      BY <1>1, <1>3
  <2>2. QED
      BY <1>4, <2>1, Concat
<1>6. PICK a \in 1 .. Len(hist) : Asks(hist[a], turn)
    BY <1>1 DEF Grounds
<1>7. Asks(h[a], turn) /\ a \in 1 .. Len(h)
    BY <1>5, <1>6
<1>8. Plain(h)
  <2>1. ASSUME NEW i \in 1 .. Len(h)
        PROVE  ~ h[i].use /\ h[i].role \in { "user", "assistant" }
    <3>1. CASE i \in 1 .. Len(hist)
        BY <1>1, <1>5, <3>1 DEF Plain
    <3>2. CASE i \notin 1 .. Len(hist)
        BY <1>3, <1>5, <3>2 DEF Plain
    <3>3. QED
        BY <3>1, <3>2
  <2>2. QED
      BY <2>1 DEF Plain
<1>9. ASSUME NEW i \in 1 .. Len(h), Reply(h[i])
      PROVE  h[i].turn \in Known /\ \E k \in 1 .. i - 1 : Asks(h[k], h[i].turn)
  <2>1. CASE i \in 1 .. Len(hist)
    <3>1. PICK k \in 1 .. i - 1 : Asks(hist[k], hist[i].turn)
        BY <1>1, <1>5, <1>9, <2>1 DEF Prefaced
    <3>2. k \in 1 .. Len(hist)
        BY <1>5, <2>1
    <3>3. hist[i].turn \in Known
        BY <1>1, <1>5, <1>9, <2>1 DEF Grounds, Remembered
    <3>4. QED
        BY <1>5, <2>1, <3>1, <3>2, <3>3
  <2>2. CASE i \notin 1 .. Len(hist)
    <3>1. h[i].turn = turn
        BY <1>3, <1>5, <2>2
    <3>2. a \in 1 .. i - 1
        BY <1>5, <1>6, <2>2
    <3>3. QED
        BY <1>1, <1>7, <3>1, <3>2 DEF Grounds
  <2>3. QED
      BY <2>1, <2>2
<1>10. Recorded(h)
  <2>1. ASSUME NEW t \in delivered
        PROVE  \E i \in 1 .. Len(h) : Reply(h[i]) /\ h[i].turn = t
    <3>1. PICK i \in 1 .. Len(hist) : Reply(hist[i]) /\ hist[i].turn = t
        BY <1>1 DEF Grounds, Recorded
    <3>2. QED
        BY <1>5, <3>1
  <2>2. QED
      BY <2>1 DEF Recorded
<1>11. Sound(h)
    BY <1>5, <1>7, <1>8, <1>9, <1>10 DEF Sound, Prefaced, Remembered
<1>12. ASSUME final = "both"
       PROVE  \E i \in 1 .. Len(h) : Reply(h[i]) /\ h[i].turn = turn
  <2>1. /\ Len(appended) > 0 /\ appended[Len(appended)].use
        /\ appended[Len(appended)].text
      BY <1>12 DEF IInv, AppendedOK
  <2>2. Len(appended) \in 1 .. Len(appended)
      BY <1>1, <2>1
  <2>3. PICK i \in 1 .. Len(e) : Reply(e[i]) /\ e[i].turn = turn
      BY <1>3, <2>1, <2>2
  <2>4. QED
      BY <1>5, <2>3
<1>13. QED
    BY <1>11, <1>12

\* The reply goes last.
LEMMA ReplyFacts ==
    ASSUME turn \in 0 .. MaxTurns, turn \in Known,
           NEW h, Sound(h),
           NEW g, g = Append(h, Asst(TRUE, turn))
    PROVE  Told(g)
<1>0. /\ h \in Seq(Message) /\ Plain(h) /\ Prefaced(h) /\ Recorded(h) /\ Remembered(h)
      /\ \E k \in 1 .. Len(h) : Asks(h[k], turn)
    BY DEF Sound
<1>1. PICK m \in Message : /\ m = Asst(TRUE, turn) /\ Reply(m) /\ ~ m.use
                           /\ m.role = "assistant" /\ m.turn = turn
  <2>1. TRUE \in BOOLEAN
      OBVIOUS
  <2>2. /\ Asst(TRUE, turn) \in Message /\ Asst(TRUE, turn).role = "assistant"
        /\ ~ Asst(TRUE, turn).use /\ Asst(TRUE, turn).text = TRUE
        /\ Asst(TRUE, turn).turn = turn
      BY <2>1, Constructors
  <2>3. Reply(Asst(TRUE, turn))
      BY <2>2 DEF Reply
  <2>4. QED
      BY <2>2, <2>3
<1>2. /\ g \in Seq(Message) /\ Len(g) = Len(h) + 1 /\ Len(h) \in Nat
      /\ \A i \in 1 .. Len(h) : i \in 1 .. Len(g) /\ g[i] = h[i]
      /\ g[Len(h) + 1] = m /\ Len(h) + 1 \in 1 .. Len(g)
      /\ \A i \in 1 .. Len(g) : i \in 1 .. Len(h) \/ i = Len(h) + 1
  <2>1. g = Append(h, m)
      BY <1>1
  <2>2. QED
      BY <1>0, <2>1, AppendFacts
<1>3. Plain(g)
    BY <1>0, <1>1, <1>2 DEF Plain
<1>4. ASSUME NEW i \in 1 .. Len(g), Reply(g[i])
      PROVE  g[i].turn \in Known /\ \E k \in 1 .. i - 1 : Asks(g[k], g[i].turn)
  <2>1. CASE i \in 1 .. Len(h)
    <3>1. PICK k \in 1 .. i - 1 : Asks(h[k], h[i].turn)
        BY <1>0, <1>2, <1>4, <2>1 DEF Prefaced
    <3>2. k \in 1 .. Len(h)
        BY <1>2, <2>1
    <3>3. h[i].turn \in Known
        BY <1>0, <1>2, <1>4, <2>1 DEF Remembered
    <3>4. QED
        BY <1>2, <2>1, <3>1, <3>2, <3>3
  <2>2. CASE i \notin 1 .. Len(h)
    <3>1. i = Len(h) + 1 /\ g[i].turn = turn
        BY <1>1, <1>2, <2>2
    <3>2. PICK k \in 1 .. Len(h) : Asks(h[k], turn)
        BY <1>0
    <3>3. k \in 1 .. i - 1 /\ g[k] = h[k]
        BY <1>2, <3>1
    <3>4. QED
        BY <3>1, <3>2, <3>3
  <2>3. QED
      BY <2>1, <2>2
<1>5. ASSUME NEW t \in delivered \cup { turn }
      PROVE  \E i \in 1 .. Len(g) : Reply(g[i]) /\ g[i].turn = t
  <2>1. CASE t = turn
      BY <1>1, <1>2, <2>1
  <2>2. CASE t # turn
    <3>1. t \in delivered
        BY <2>2
    <3>2. PICK i \in 1 .. Len(h) : Reply(h[i]) /\ h[i].turn = t
        BY <1>0, <3>1 DEF Recorded
    <3>3. QED
        BY <1>2, <3>2
  <2>3. QED
      BY <2>1, <2>2
<1>6. QED
    BY <1>2, <1>3, <1>4, <1>5 DEF Told, Prefaced, Remembered

\* The turn ends and its file is saved: with the reply, which is yielded, or without one.
LEMMA SavedInv ==
    ASSUME IInv, Holding, Ended,
           \/ Told(file') /\ delivered' = delivered \cup { turn }
           \/ Sound(file') /\ delivered' = delivered,
           UNCHANGED << live, session, summarised, turn, hooked, bounds >>
    PROVE  IInv'
<1>1. /\ Asking' /\ FreshOK' /\ AppendedOK' /\ RequestKeepsRounds' /\ Held'
      /\ Plain(hist') /\ Prefaced(hist')
      /\ hist' \in Seq(Message) /\ request' \in Seq(Message)
      /\ fresh' \in Seq(Message) /\ appended' \in Seq(Message)
      /\ pc' = "idle" /\ final' = "none" /\ fires' \in 0 .. MaxAutoFires
    BY EndedFacts
<1>2. turn \in 0 .. MaxTurns /\ turn \in 1 .. MaxTurns
    BY DEF IInv, Typed, TypeOK, Holding
<1>3. /\ file' \in Seq(Message) /\ Plain(file') /\ Prefaced(file') /\ Remembered(file')
      /\ \A t \in delivered' : \E i \in 1 .. Len(file') : Reply(file'[i]) /\ file'[i].turn = t
      /\ delivered' \subseteq delivered \cup { turn }
    BY DEF Told, Sound, Recorded
<1>4. Typed'
    BY <1>1, <1>2, <1>3 DEF IInv, Typed, TypeOK, bounds
<1>5. Known' = Known
    BY DEF Known
<1>6. Files'
  <2>1. Remembered(file)'
      BY <1>3, <1>5 DEF Remembered
  <2>2. Recorded(file)'
      BY <1>3 DEF Recorded
  <2>3. QED
      BY <1>1, <1>3, <2>1, <2>2 DEF Files
<1>7. Chronicle'
    BY <1>1, ChronicleKept DEF IInv
<1>8. QED
    BY <1>1, <1>4, <1>6, <1>7 DEF IInv

LEMMA RecordReplyInv == IInv /\ RecordReply => IInv'
<1> SUFFICES ASSUME IInv, RecordReply PROVE IInv'
    OBVIOUS
<1>1. PICK h : h = hist \o ToolEntries
    OBVIOUS
<1>2. Holding
    BY DEF RecordReply, Holding
<1>3. Sound(h)
    BY <1>1, <1>2, EntriesFacts
<1>4. turn \in 0 .. MaxTurns /\ turn \in Known
    BY <1>2 DEF IInv, Typed, TypeOK, Held, Grounds
<1>5. file' = h \o << Asst(TRUE, turn) >>
    BY <1>1 DEF RecordReply
<1>6. h \o << Asst(TRUE, turn) >> = Append(h, Asst(TRUE, turn))
  <2>1. Asst(TRUE, turn) \in Message
    <3>1. TRUE \in BOOLEAN
        OBVIOUS
    <3>2. QED
        BY <1>4, <3>1, Constructors
  <2>2. h \in Seq(Message)
      BY <1>3 DEF Sound
  <2>3. \A x \in Message : h \o << x >> = Append(h, x)
      BY <2>2
  <2>4. QED
      BY <2>1, <2>3
<1>7. Told(file')
    BY <1>3, <1>4, <1>5, <1>6, ReplyFacts
<1>8. QED
    BY <1>2, <1>7, SavedInv DEF RecordReply

LEMMA RecordReplyBesideCallsInv == IInv /\ RecordReplyBesideCalls => IInv'
<1> SUFFICES ASSUME IInv, RecordReplyBesideCalls PROVE IInv'
    OBVIOUS
<1>1. PICK h : h = hist \o ToolEntries
    OBVIOUS
<1>2. Holding
    BY DEF RecordReplyBesideCalls, Holding
<1>3. Sound(h) /\ \E i \in 1 .. Len(h) : Reply(h[i]) /\ h[i].turn = turn
    BY <1>1, <1>2, EntriesFacts DEF RecordReplyBesideCalls
<1>4. file' = h
    BY <1>1 DEF RecordReplyBesideCalls
<1>5. Told(file')
    BY <1>3, <1>4 DEF Sound, Told, Recorded
<1>6. QED
    BY <1>2, <1>5, SavedInv DEF RecordReplyBesideCalls

LEMMA RecordCallsOnlyInv == IInv /\ RecordCallsOnly => IInv'
<1> SUFFICES ASSUME IInv, RecordCallsOnly PROVE IInv'
    OBVIOUS
<1>1. PICK h : h = hist \o ToolEntries
    OBVIOUS
<1>2. Holding
    BY DEF RecordCallsOnly, Holding
<1>3. Sound(h)
    BY <1>1, <1>2, EntriesFacts
<1>4. file' = h /\ delivered' = delivered /\ hooked' = hooked
    BY <1>1 DEF RecordCallsOnly, observed
<1>5. QED
    BY <1>2, <1>3, <1>4, SavedInv DEF RecordCallsOnly

LEMMA RecordToolsInv == IInv /\ RecordTools => IInv'
<1> SUFFICES ASSUME IInv, RecordTools PROVE IInv'
    OBVIOUS
<1> USE DEF call, result, observed, bounds
<1>1. hist' = hist \o ToolEntries /\ file' = hist' /\ pc = "recording" /\ pc' = "empty"
      /\ UNCHANGED << live, session, summarised, turn, call, result, observed, bounds >>
    BY DEF RecordTools
<1>2. Holding
    BY <1>1 DEF Holding
<1>3. /\ hist' \in Seq(Message) /\ Plain(hist') /\ Prefaced(hist') /\ Recorded(hist')
      /\ Remembered(hist')
      /\ \E k \in 1 .. Len(hist') : Asks(hist'[k], turn)
    BY <1>1, <1>2, EntriesFacts DEF Sound
<1>4. Typed'
    BY <1>1, <1>3 DEF IInv, Typed, TypeOK
<1>5. Asking' /\ FreshOK' /\ AppendedOK' /\ RequestKeepsRounds' /\ Chronicle'
  <2>1. Asking' /\ FreshOK' /\ AppendedOK' /\ RequestKeepsRounds'
      BY <1>1 DEF IInv, Asking, FreshOK, AppendedOK, RequestKeepsRounds
  <2>2. Chronicle'
      BY <1>1, ChronicleKept DEF IInv
  <2>3. QED
      BY <2>1, <2>2
<1>6. Known' = Known
    BY <1>1 DEF Known
<1>7. Recorded(hist)' /\ Remembered(hist)' /\ Recorded(file)' /\ Remembered(file)'
    BY <1>1, <1>3, <1>6 DEF Recorded, Remembered
<1>8. Files'
    BY <1>1, <1>3, <1>7 DEF Files
<1>9. Held'
    BY <1>1, <1>2, <1>3, <1>6, <1>7 DEF IInv, Held, Grounds
<1>10. QED
    BY <1>4, <1>5, <1>8, <1>9 DEF IInv

LEMMA PlaceholderInv == IInv /\ Placeholder => IInv'
<1> SUFFICES ASSUME IInv, Placeholder PROVE IInv'
    OBVIOUS
<1>1. Holding
    BY DEF Placeholder, Holding
<1>2. Sound(hist) /\ turn \in 0 .. MaxTurns /\ turn \in Known
    BY <1>1 DEF Sound, IInv, Typed, TypeOK, Files, Held, Grounds
<1>3. file' = Append(hist, Asst(TRUE, turn))
    BY DEF Placeholder
<1>4. Told(file')
    BY <1>2, <1>3, ReplyFacts
<1>5. QED
    BY <1>1, <1>4, SavedInv DEF Placeholder

LEMMA ChatClearInv == IInv /\ ChatClear => IInv'
<1> SUFFICES ASSUME IInv, ChatClear PROVE IInv'
    OBVIOUS
<1> USE DEF call, result
<1>1. file' = << >> /\ delivered' = {} /\ clears' = clears + 1 /\ clears < MaxClears
      /\ UNCHANGED << live, session, summarised, pc, turn, hist, call, result, hooked, crashes >>
    BY DEF ChatClear
<1>2. << >> \in Seq(Message) /\ Len(<< >>) = 0
    OBVIOUS
<1>3. clears' \in 0 .. MaxClears
  <2>1. clears \in 0 .. MaxClears
      BY DEF IInv, Typed, TypeOK
  <2>2. QED
      BY <1>1, <2>1, SessionConstants
<1>4. Typed'
    BY <1>1, <1>2, <1>3 DEF IInv, Typed, TypeOK
<1>5. Asking' /\ FreshOK' /\ AppendedOK' /\ RequestKeepsRounds' /\ Chronicle'
  <2>1. Asking' /\ FreshOK' /\ AppendedOK' /\ RequestKeepsRounds'
      BY <1>1 DEF IInv, Asking, FreshOK, AppendedOK, RequestKeepsRounds
  <2>2. Chronicle'
      BY <1>1, ChronicleKept DEF IInv
  <2>3. QED
      BY <2>1, <2>2
<1>6. Known' = Known
    BY <1>1 DEF Known
<1>7. Files'
    BY <1>1, <1>2 DEF IInv, Files, Plain, Prefaced, Recorded, Remembered
<1>8. Grounds => Grounds'
    BY <1>1, <1>6 DEF Grounds, Recorded, Remembered
<1>9. Held'
    BY <1>1, <1>8 DEF IInv, Held, Holding
<1>10. QED
    BY <1>4, <1>5, <1>7, <1>9 DEF IInv

LEMMA CrashInv == IInv /\ Crash => IInv'
<1> SUFFICES ASSUME IInv, Crash PROVE IInv'
    OBVIOUS
<1> USE DEF observed
<1>1. /\ Asking' /\ FreshOK' /\ AppendedOK' /\ RequestKeepsRounds' /\ Held'
      /\ Plain(hist') /\ Prefaced(hist')
      /\ hist' \in Seq(Message) /\ request' \in Seq(Message)
      /\ fresh' \in Seq(Message) /\ appended' \in Seq(Message)
      /\ pc' = "idle" /\ final' = "none" /\ fires' \in 0 .. MaxAutoFires
    BY EndedFacts DEF Crash
<1>2. << >> \in Seq(Message) /\ Len(<< >>) = 0
    OBVIOUS
<1>3. crashes' \in 0 .. MaxCrashes
  <2>1. crashes \in 0 .. MaxCrashes /\ crashes < MaxCrashes /\ crashes' = crashes + 1
      BY DEF IInv, Typed, TypeOK, Crash
  <2>2. QED
      BY <2>1, SessionConstants
<1>4. live' = FALSE /\ session' = << >> /\ summarised' = {}
      /\ UNCHANGED << file, turn, observed, clears >>
    BY DEF Crash
<1>5. Typed'
    BY <1>1, <1>2, <1>3, <1>4 DEF IInv, Typed, TypeOK
<1>6. Chronicle'
    BY <1>2, <1>4 DEF Chronicle, Paired, Resumed, Dated
<1>7. Files'
    BY <1>1, <1>4 DEF IInv, Files, Recorded
<1>8. QED
    BY <1>1, <1>5, <1>6, <1>7 DEF IInv

LEMMA NextInv == IInv /\ [Next]_vars => IInv'
<1>1. IInv /\ Next => IInv'
    BY ArriveInv, HookRepliesInv, HookSwallowsInv, EnsureEarlyInv, BeginInv, RaiseInv, AssembleInv,
       RoundInv, TurnReturnsInv, AutoFireInv, RerunReturnsInv, RerunFailsInv, ExtendInv,
       NotCompactedInv, CompactedInv, RecordReplyInv, RecordReplyBesideCallsInv,
       RecordCallsOnlyInv, RecordToolsInv, PlaceholderInv, CancelInv, ChatClearInv, CrashInv
       DEF Next
<1>2. IInv /\ UNCHANGED vars => IInv'
  <2> SUFFICES ASSUME IInv, UNCHANGED vars PROVE IInv'
      OBVIOUS
  <2> USE DEF vars, stores, call, result, observed, bounds
  <2>1. Typed'
      BY DEF IInv, Typed, TypeOK
  <2>2. Asking' /\ FreshOK' /\ AppendedOK' /\ RequestKeepsRounds'
      BY DEF IInv, Asking, FreshOK, AppendedOK, RequestKeepsRounds
  <2>3. Files' /\ Chronicle' /\ (Grounds => Grounds')
      BY Unmoved DEF IInv
  <2>4. Held'
      BY <2>3 DEF IInv, Held, Holding
  <2>5. QED
      BY <2>1, <2>2, <2>3, <2>4 DEF IInv
<1>3. QED
    BY <1>1, <1>2

-----------------------------------------------------------------------------
\* What the proofs below rest on: the session keeps calls and results together, calls
\* that have none end their turn, the user has its last word while a turn runs, every
\* reply in the file follows the message it answers, and every turn the file or
\* handle()'s copy of it shows as answered is one the session, its summary or a hook
\* accounts for.
THEOREM Invariance == Spec => []IInv
<1>1. Init => IInv
    BY InitInv
<1>2. IInv /\ [Next]_vars => IInv'
    BY NextInv
<1>3. QED
    BY <1>1, <1>2, PTL DEF Spec

\* The stores, handle()'s locals and the counters of the model keep their shape.
THEOREM TypeCorrect == Spec => []TypeOK
<1>1. IInv => TypeOK
    BY DEF IInv, Typed
<1>2. QED
    BY Invariance, <1>1, PTL

\* Every list that run_agent_turn is called with keeps its rounds, whatever was cancelled,
\* cut short, compacted, cleared or rebuilt before, for any tail a compaction keeps and any
\* number of rounds: calls without results stand only where an earlier turn ended with
\* them, and no compaction, merge, auto-fire or restart makes others.
THEOREM RequestsHold == Spec => []RequestKeepsRounds
<1>1. IInv => RequestKeepsRounds
    BY DEF IInv
<1>2. QED
    BY Invariance, <1>1, PTL

\* A reply that left handle() is in the conversation's file until chat.clear.
THEOREM DeliveriesHold == Spec => []DeliveredIsRecorded
<1>1. IInv => DeliveredIsRecorded
  <2> SUFFICES ASSUME IInv PROVE DeliveredIsRecorded
      OBVIOUS
  <2>1. Recorded(file) /\ DOMAIN file = 1 .. Len(file)
      BY DEF IInv, Typed, TypeOK, Files
  <2>2. QED
      BY <2>1 DEF Recorded, Reply, DeliveredIsRecorded
<1>2. QED
    BY Invariance, <1>1, PTL

\* When a turn runs, every answered exchange of the file is in the session, in its
\* summary, or was a hook's.
THEOREM MemoryHolds == Spec => []NoAmnesia
<1>1. IInv => NoAmnesia
  <2> SUFFICES ASSUME IInv, pc = "running",
                      NEW i \in DOMAIN hist, hist[i].role = "assistant", hist[i].text
               PROVE  \/ hist[i].turn \in hooked \cup summarised
                      \/ \E j \in DOMAIN session :
                            session[j].role = "user" /\ session[j].turn = hist[i].turn
      BY DEF NoAmnesia
  <2>1. /\ DOMAIN hist = 1 .. Len(hist) /\ DOMAIN session = 1 .. Len(session)
        /\ Remembered(hist)
      BY DEF IInv, Typed, TypeOK, Held, Grounds, Holding
  <2>2. hist[i].turn \in Known
      BY <2>1 DEF Remembered, Reply
  <2>3. QED
      BY <2>1, <2>2 DEF Known
<1>2. QED
    BY Invariance, <1>1, PTL
=============================================================================

--------------------------- MODULE EmulatorProofs ----------------------------
(***************************************************************************)
(* For every memory, every number of threads, journal bound and            *)
(* instruction: a step back restores the state before the step, and code   *)
(* that was written and then executed is reported.                         *)
(*                                                                         *)
(* The invariant behind the first: the journal is a chain.  Undoing the    *)
(* writes of an entry leads from the state of the next entry, or from the  *)
(* current one, to the state before the entry's step.                      *)
(***************************************************************************)
EXTENDS Emulator, WellFoundedInduction, SequenceTheorems, TLAPS

Entries == [ctx : CpuStates, writes : Seq(Records)]

\* Entry i of the journal h leads back to snapshot i of t; the newest one
\* does so from memory m.
Chain(h, t, m, th) ==
    /\ Len(h) = Len(t)
    /\ \A i \in 1 .. Len(t) :
          /\ t[i].cpu = h[i].ctx /\ t[i].thread = th
          /\ t[i].exact =>
                /\ i < Len(t) => t[i + 1].exact
                /\ Revert(IF i < Len(t) THEN t[i + 1].mem ELSE m, h[i].writes) = t[i].mem

\* The memory the newest entry leads back from: in the middle of a step, the
\* one before it.
Settled == IF phase = "step" THEN Revert(mem, pending) ELSE mem

\* What a step in progress has saved.
InStep ==
    /\ phase # "step" => before = <<>> /\ pending = <<>>
    /\ phase = "step" =>
          /\ Len(before) = 1
          /\ before[1].cpu = cpu /\ before[1].thread = thread /\ before[1].exact
          /\ before[1].mem = Settled
    /\ phase = "run" => \A i \in 1 .. Len(trail) : ~trail[i].exact

\* Every cell in a journal is in the write log.
Logged ==
    /\ Recorded(pending) \subseteq written
    /\ \A i \in 1 .. Len(history) : Recorded(history[i].writes) \subseteq written

IInv ==
    /\ TypeOK
    /\ Chain(history, trail, Settled, thread)
    /\ InStep
    /\ Logged
    /\ DirtyIsWritten

------------------------------------------------------------------------------
(* Undoing writes                                                            *)

Less == {ss \in Nat \X Nat : ss[1] < ss[2]}

\* A non-empty set of naturals has a least element: where a CHOOSE asks for the
\* first position with a property, there is one.
LEMMA LeastOfSet ==
    ASSUME NEW T \in SUBSET Nat, T # {}
    PROVE  \E x \in T : \A y \in T : x <= y
<1>1. OpToRel(<, Nat) = Less
  BY DEF OpToRel, Less
<1>2. IsWellFoundedOn(Less, Nat)
  BY <1>1, NatLessThanWellFounded
<1>3. PICK x \in T : \A y \in T : ~(<<y, x>> \in Less)
  BY <1>2, WFMin
<1>4. \A m, n \in Nat : m < n => <<m, n>> \in Less
  BY DEF Less
<1>5. \A y \in T : ~(y < x)
  BY <1>3, <1>4
<1> QED BY <1>5

\* The write undone last exists, is the first one, and is the only first one.
LEMMA UndoneLastFacts ==
    ASSUME NEW w \in Seq(Records), NEW a \in Recorded(w)
    PROVE  /\ UndoneLast(w, a) \in 1 .. Len(w)
           /\ w[UndoneLast(w, a)].addr = a
           /\ \A j \in 1 .. UndoneLast(w, a) - 1 : w[j].addr # a
<1> DEFINE T == {k \in 1 .. Len(w) : w[k].addr = a}
<1>1. Len(w) \in Nat
  BY LenProperties
<1>2. T \in SUBSET Nat /\ T # {}
  BY <1>1 DEF Recorded
<1>3. PICK x \in T : \A y \in T : x <= y
  BY <1>2, LeastOfSet
<1>4. ASSUME NEW j \in 1 .. x - 1 PROVE w[j].addr # a
  <2>1. j \in 1 .. Len(w) /\ ~(x <= j)
    BY <1>1
  <2> QED BY <1>3, <2>1
<1>5. x \in 1 .. Len(w) /\ w[x].addr = a
  OBVIOUS
<1>6. \E k \in 1 .. Len(w) : w[k].addr = a /\ \A j \in 1 .. k - 1 : w[j].addr # a
  BY <1>4, <1>5
<1> QED BY <1>6 DEF UndoneLast

LEMMA UndoneLastUnique ==
    ASSUME NEW w \in Seq(Records), NEW a \in Recorded(w),
           NEW k \in 1 .. Len(w), w[k].addr = a, \A j \in 1 .. k - 1 : w[j].addr # a
    PROVE  UndoneLast(w, a) = k
<1> DEFINE u == UndoneLast(w, a)
<1>1. /\ u \in 1 .. Len(w) /\ w[u].addr = a
      /\ \A j \in 1 .. u - 1 : w[j].addr # a
  BY UndoneLastFacts
<1>2. Len(w) \in Nat
  BY LenProperties
<1> HIDE DEF u
<1>3. ~(u < k)
  <2>1. SUFFICES ASSUME u < k PROVE FALSE
    OBVIOUS
  <2>2. u \in 1 .. k - 1
    BY <1>1, <1>2, <2>1
  <2> QED BY <1>1, <2>2
<1>4. ~(k < u)
  <2>1. SUFFICES ASSUME k < u PROVE FALSE
    OBVIOUS
  <2>2. k \in 1 .. u - 1
    BY <1>1, <1>2, <2>1
  <2> QED BY <1>1, <2>2
<1>5. u = k
  BY <1>1, <1>2, <1>3, <1>4
<1> QED BY <1>5 DEF u

LEMMA RevertType ==
    ASSUME NEW m \in Memories, NEW w \in Seq(Records)
    PROVE  Revert(m, w) \in Memories
<1> SUFFICES ASSUME NEW a \in Mapped
             PROVE  (IF a \in Recorded(w) THEN w[UndoneLast(w, a)].old ELSE m[a]) \in Values
  BY DEF Revert, Memories
<1>1. CASE a \in Recorded(w)
  <2>1. UndoneLast(w, a) \in 1 .. Len(w)
    BY <1>1, UndoneLastFacts
  <2>2. w[UndoneLast(w, a)] \in Records
    BY <2>1, ElementOfSeq
  <2> QED BY <1>1, <2>2 DEF Records
<1>2. CASE a \notin Recorded(w)
  BY <1>2 DEF Memories
<1> QED BY <1>1, <1>2

LEMMA RevertNothing ==
    ASSUME NEW m \in Memories
    PROVE  Revert(m, <<>>) = m
<1>1. Recorded(<<>>) = {}
  BY DEF Recorded
<1> QED BY <1>1 DEF Revert, Memories

LEMMA RecordedAppend ==
    ASSUME NEW w \in Seq(Records), NEW r \in Records
    PROVE  Recorded(Append(w, r)) = Recorded(w) \cup {r.addr}
<1> DEFINE w2 == Append(w, r)
<1>1. /\ Len(w2) = Len(w) + 1 /\ w2[Len(w) + 1] = r
      /\ \A i \in 1 .. Len(w) : w2[i] = w[i]
  BY AppendProperties
<1>2. Len(w) \in Nat
  BY LenProperties
<1> HIDE DEF w2
<1>3. \A x : x \in Recorded(w2) <=> x \in Recorded(w) \/ x = r.addr
  <2> SUFFICES ASSUME NEW x
               PROVE  x \in Recorded(w2) <=> x \in Recorded(w) \/ x = r.addr
    OBVIOUS
  <2>1. ASSUME x \in Recorded(w2) PROVE x \in Recorded(w) \/ x = r.addr
    <3>1. PICK k \in 1 .. Len(w2) : x = w2[k].addr
      BY <2>1 DEF Recorded
    <3>2. CASE k \in 1 .. Len(w)
      BY <1>1, <3>1, <3>2 DEF Recorded
    <3>3. CASE k = Len(w) + 1
      BY <1>1, <3>1, <3>3
    <3> QED BY <1>1, <1>2, <3>2, <3>3
  <2>2. ASSUME x \in Recorded(w) PROVE x \in Recorded(w2)
    <3>1. PICK k \in 1 .. Len(w) : x = w[k].addr
      BY <2>2 DEF Recorded
    <3>2. k \in 1 .. Len(w2) /\ x = w2[k].addr
      BY <1>1, <1>2, <3>1
    <3> QED BY <3>2 DEF Recorded
  <2>3. ASSUME x = r.addr PROVE x \in Recorded(w2)
    <3>1. Len(w) + 1 \in 1 .. Len(w2) /\ x = w2[Len(w) + 1].addr
      BY <1>1, <1>2, <2>3
    <3> QED BY <3>1 DEF Recorded
  <2> QED BY <2>1, <2>2, <2>3
<1> QED BY <1>3 DEF w2

\* A store and its record cancel out.
LEMMA RevertStore ==
    ASSUME NEW m \in Memories, NEW w \in Seq(Records), NEW a \in Mapped, NEW v \in Values
    PROVE  Revert([m EXCEPT ![a] = v], Append(w, [addr |-> a, old |-> m[a]])) = Revert(m, w)
<1> DEFINE r == [addr |-> a, old |-> m[a]]
           w2 == Append(w, r)
           m2 == [m EXCEPT ![a] = v]
           Undone(q, s, c) == IF c \in Recorded(s) THEN s[UndoneLast(s, c)].old ELSE q[c]
<1>1. r \in Records
  BY DEF Records, Memories
<1>2. /\ w2 \in Seq(Records) /\ Len(w2) = Len(w) + 1 /\ w2[Len(w) + 1] = r
      /\ \A i \in 1 .. Len(w) : w2[i] = w[i]
  BY <1>1, AppendProperties
<1>3. Len(w) \in Nat
  BY LenProperties
<1>4. Recorded(w2) = Recorded(w) \cup {a}
  BY <1>1, RecordedAppend
<1> HIDE DEF r, w2
<1>5. ASSUME NEW c \in Mapped PROVE Undone(m2, w2, c) = Undone(m, w, c)
  <2>1. CASE c \in Recorded(w)
    <3>1. /\ UndoneLast(w, c) \in 1 .. Len(w)
          /\ w[UndoneLast(w, c)].addr = c
          /\ \A j \in 1 .. UndoneLast(w, c) - 1 : w[j].addr # c
      BY <2>1, UndoneLastFacts
    <3> DEFINE k == UndoneLast(w, c)
    <3>2. k \in 1 .. Len(w) /\ w[k].addr = c /\ \A j \in 1 .. k - 1 : w[j].addr # c
      BY <3>1
    <3> HIDE DEF k
    <3>3. k \in 1 .. Len(w2) /\ w2[k].addr = c
      BY <1>2, <1>3, <3>2
    <3>4. ASSUME NEW j \in 1 .. k - 1 PROVE w2[j].addr # c
      <4>1. j \in 1 .. Len(w)
        BY <1>3, <3>2
      <4> QED BY <1>2, <3>2, <4>1
    <3>5. c \in Recorded(w2)
      BY <1>4, <2>1
    <3>6. UndoneLast(w2, c) = k
      BY <1>2, <3>3, <3>4, <3>5, UndoneLastUnique
    <3>7. w2[k].old = w[k].old
      BY <1>2, <3>2
    <3> QED BY <2>1, <3>5, <3>6, <3>7 DEF k
  <2>2. CASE c \notin Recorded(w) /\ c = a
    <3> DEFINE k == Len(w) + 1
    <3>1. k \in 1 .. Len(w2) /\ w2[k].addr = c
      BY <1>2, <1>3, <2>2 DEF r
    <3>2. ASSUME NEW j \in 1 .. k - 1 PROVE w2[j].addr # c
      <4>1. j \in 1 .. Len(w)
        BY <1>3
      <4>2. w2[j] = w[j]
        BY <1>2, <4>1
      <4> QED BY <2>2, <4>1, <4>2 DEF Recorded
    <3>3. c \in Recorded(w2)
      BY <1>4, <2>2
    <3> HIDE DEF k
    <3>4. UndoneLast(w2, c) = k
      BY <1>2, <3>1, <3>2, <3>3, UndoneLastUnique
    <3>5. w2[k].old = m[c]
      BY <1>2, <2>2 DEF k, r
    <3> QED BY <2>2, <3>3, <3>4, <3>5
  <2>3. CASE c \notin Recorded(w) /\ c # a
    <3>1. c \notin Recorded(w2)
      BY <1>4, <2>3
    <3>2. m2[c] = m[c]
      BY <2>3 DEF Memories
    <3> QED BY <2>3, <3>1, <3>2
  <2> QED BY <2>1, <2>2, <2>3
<1>6. Revert(m2, w2) = Revert(m, w)
  BY <1>5 DEF Revert
<1> QED BY <1>6 DEF m2, w2, r

------------------------------------------------------------------------------
(* The journal as a chain                                                    *)

\* A finished step extends the chain.
LEMMA ChainAppend ==
    ASSUME NEW h \in Seq(Entries), NEW t \in Seq(Snapshots), NEW m, NEW m2, NEW th,
           NEW e \in Entries, NEW b \in Snapshots,
           Chain(h, t, m, th), b.cpu = e.ctx, b.thread = th, b.exact, b.mem = m,
           Revert(m2, e.writes) = m
    PROVE  Chain(Append(h, e), Append(t, b), m2, th)
<1> DEFINE h2 == Append(h, e)
           t2 == Append(t, b)
<1>1. /\ Len(h2) = Len(h) + 1 /\ h2[Len(h) + 1] = e
      /\ \A i \in 1 .. Len(h) : h2[i] = h[i]
  BY AppendProperties
<1>2. /\ Len(t2) = Len(t) + 1 /\ t2[Len(t) + 1] = b
      /\ \A i \in 1 .. Len(t) : t2[i] = t[i]
  BY AppendProperties
<1>3. Len(h) \in Nat /\ Len(t) \in Nat /\ Len(h) = Len(t)
  BY LenProperties DEF Chain
<1> HIDE DEF h2, t2
<1>4. ASSUME NEW i \in 1 .. Len(t2)
      PROVE  /\ t2[i].cpu = h2[i].ctx /\ t2[i].thread = th
             /\ t2[i].exact =>
                  /\ i < Len(t2) => t2[i + 1].exact
                  /\ Revert(IF i < Len(t2) THEN t2[i + 1].mem ELSE m2, h2[i].writes) = t2[i].mem
  <2>1. CASE i = Len(t) + 1
    BY <1>1, <1>2, <1>3, <2>1
  <2>2. CASE i \in 1 .. Len(t)
    <3>1. t2[i] = t[i] /\ h2[i] = h[i] /\ i < Len(t2)
      BY <1>1, <1>2, <1>3, <2>2
    <3>2. /\ t[i].cpu = h[i].ctx /\ t[i].thread = th
          /\ t[i].exact =>
               /\ i < Len(t) => t[i + 1].exact
               /\ Revert(IF i < Len(t) THEN t[i + 1].mem ELSE m, h[i].writes) = t[i].mem
      BY <2>2 DEF Chain
    <3>3. CASE i < Len(t)
      <4>1. i + 1 \in 1 .. Len(t)
        BY <1>3, <2>2, <3>3
      <4>2. t2[i + 1] = t[i + 1]
        BY <1>2, <4>1
      <4> QED BY <3>1, <3>2, <3>3, <4>2
    <3>4. CASE i = Len(t)
      <4>1. t2[i + 1] = b
        BY <1>2, <3>4
      <4>2. ~(i < Len(t))
        BY <1>3, <3>4
      <4> QED BY <3>1, <3>2, <4>1, <4>2
    <3> QED BY <1>3, <2>2, <3>3, <3>4
  <2> QED BY <1>2, <1>3, <2>1, <2>2
<1>5. Chain(h2, t2, m2, th)
  BY <1>1, <1>2, <1>3, <1>4 DEF Chain
<1> QED BY <1>5 DEF h2, t2

\* Forgetting the oldest step leaves a chain.
LEMMA ChainTail ==
    ASSUME NEW h \in Seq(Entries), NEW t \in Seq(Snapshots), NEW m, NEW th,
           Chain(h, t, m, th), Len(t) > 0
    PROVE  Chain(Tail(h), Tail(t), m, th)
<1>1. Len(h) \in Nat /\ Len(t) \in Nat /\ Len(h) = Len(t)
  BY LenProperties DEF Chain
<1>2. h # <<>> /\ t # <<>>
  BY <1>1, EmptySeq
<1> DEFINE h2 == Tail(h)
           t2 == Tail(t)
<1>3. Len(h2) = Len(h) - 1 /\ \A i \in 1 .. Len(h2) : h2[i] = h[i + 1]
  BY <1>1, <1>2, HeadTailProperties
<1>4. Len(t2) = Len(t) - 1 /\ \A i \in 1 .. Len(t2) : t2[i] = t[i + 1]
  BY <1>1, <1>2, HeadTailProperties
<1> HIDE DEF h2, t2
<1>5. ASSUME NEW i \in 1 .. Len(t2)
      PROVE  /\ t2[i].cpu = h2[i].ctx /\ t2[i].thread = th
             /\ t2[i].exact =>
                  /\ i < Len(t2) => t2[i + 1].exact
                  /\ Revert(IF i < Len(t2) THEN t2[i + 1].mem ELSE m, h2[i].writes) = t2[i].mem
  <2> DEFINE k == i + 1
  <2>1. k \in 1 .. Len(t) /\ (i < Len(t2) <=> k < Len(t))
    BY <1>1, <1>4
  <2>2. t2[i] = t[k] /\ h2[i] = h[k]
    BY <1>1, <1>3, <1>4
  <2>3. i < Len(t2) => t2[i + 1] = t[k + 1]
    <3>1. i < Len(t2) => i + 1 \in 1 .. Len(t2)
      BY <1>1, <1>4
    <3> QED BY <1>4, <3>1
  <2> HIDE DEF k
  <2>4. /\ t[k].cpu = h[k].ctx /\ t[k].thread = th
        /\ t[k].exact =>
             /\ k < Len(t) => t[k + 1].exact
             /\ Revert(IF k < Len(t) THEN t[k + 1].mem ELSE m, h[k].writes) = t[k].mem
    BY <2>1 DEF Chain
  <2> QED BY <2>1, <2>2, <2>3, <2>4
<1>6. Chain(h2, t2, m, th)
  BY <1>1, <1>3, <1>4, <1>5 DEF Chain
<1> QED BY <1>6 DEF h2, t2

\* Undoing the newest step leaves a chain from the memory it restored.
LEMMA ChainFront ==
    ASSUME NEW h \in Seq(Entries), NEW t \in Seq(Snapshots), NEW m, NEW m2, NEW th,
           Chain(h, t, m, th), Len(t) > 0,
           t[Len(t)].exact => m2 = t[Len(t)].mem
    PROVE  Chain(SubSeq(h, 1, Len(h) - 1), SubSeq(t, 1, Len(t) - 1), m2, th)
<1> DEFINE n == Len(t)
           h2 == SubSeq(h, 1, Len(h) - 1)
           t2 == SubSeq(t, 1, Len(t) - 1)
<1>1. Len(h) = n /\ n \in Nat /\ n > 0
  BY LenProperties DEF Chain
<1>2. Len(h2) = n - 1 /\ \A i \in 1 .. n - 1 : h2[i] = h[i]
  BY <1>1
<1>3. Len(t2) = n - 1 /\ \A i \in 1 .. n - 1 : t2[i] = t[i]
  BY <1>1
<1> HIDE DEF h2, t2
<1>4. ASSUME NEW i \in 1 .. n - 1
      PROVE  /\ t2[i].cpu = h2[i].ctx /\ t2[i].thread = th
             /\ t2[i].exact =>
                  /\ i < n - 1 => t2[i + 1].exact
                  /\ Revert(IF i < n - 1 THEN t2[i + 1].mem ELSE m2, h2[i].writes) = t2[i].mem
  <2>1. t2[i] = t[i] /\ h2[i] = h[i] /\ i \in 1 .. n /\ i < n
    BY <1>1, <1>2, <1>3
  <2>2. /\ t[i].cpu = h[i].ctx /\ t[i].thread = th
        /\ t[i].exact => t[i + 1].exact /\ Revert(t[i + 1].mem, h[i].writes) = t[i].mem
    BY <2>1 DEF Chain
  <2>3. CASE i < n - 1
    <3>1. i + 1 \in 1 .. n - 1
      BY <1>1, <2>3
    <3>2. t2[i + 1] = t[i + 1]
      BY <1>3, <3>1
    <3> QED BY <2>1, <2>2, <2>3, <3>2
  <2>4. CASE i = n - 1
    <3>1. i + 1 = n /\ ~(i < n - 1)
      BY <1>1, <2>4
    <3>2. t[i + 1].exact => m2 = t[i + 1].mem
      BY <3>1
    <3> QED BY <2>1, <2>2, <3>1, <3>2
  <2> QED BY <1>1, <2>3, <2>4
<1>5. Chain(h2, t2, m2, th)
  BY <1>1, <1>2, <1>3, <1>4 DEF Chain
<1> QED BY <1>5 DEF h2, t2

\* An empty journal is a chain.
LEMMA ChainEmpty ==
    ASSUME NEW m, NEW th
    PROVE  Chain(<<>>, <<>>, m, th)
BY EmptySeq DEF Chain

\* Cutting to the newest entries keeps types, the bound and membership.
LEMMA NewestFacts ==
    ASSUME NEW S, NEW q \in Seq(S), Len(q) <= MaxBack + 1
    PROVE  /\ Newest(q) \in Seq(S) /\ Len(Newest(q)) <= MaxBack
           /\ Newest(q) = q \/ (Newest(q) = Tail(q) /\ Len(q) > 0)
           /\ \A i \in 1 .. Len(Newest(q)) : \E j \in 1 .. Len(q) : Newest(q)[i] = q[j]
<1>1. MaxBack \in Nat \ {0} /\ Len(q) \in Nat
  BY EmulatorAssumption, LenProperties
<1>2. CASE Len(q) > MaxBack
  <2>1. Newest(q) = Tail(q) /\ Len(q) > 0
    BY <1>1, <1>2 DEF Newest
  <2>2. q # <<>>
    BY <2>1, EmptySeq
  <2>3. /\ Tail(q) \in Seq(S) /\ Len(Tail(q)) = Len(q) - 1
        /\ \A i \in 1 .. Len(Tail(q)) : Tail(q)[i] = q[i + 1]
    BY <2>2, HeadTailProperties
  <2>4. \A i \in 1 .. Len(Tail(q)) : i + 1 \in 1 .. Len(q)
    BY <1>1, <2>3
  <2>5. Len(Tail(q)) <= MaxBack
    BY <1>1, <2>3
  <2> QED BY <2>1, <2>3, <2>4, <2>5
<1>3. CASE ~(Len(q) > MaxBack)
  <2>1. Newest(q) = q
    BY <1>3 DEF Newest
  <2> QED BY <1>1, <1>3, <2>1
<1> QED BY <1>2, <1>3

\* Where nothing is exact the current memory does not matter.
LEMMA ChainInexact ==
    ASSUME NEW h, NEW t, NEW m, NEW m2, NEW th,
           Chain(h, t, m, th), \A i \in 1 .. Len(t) : ~t[i].exact
    PROVE  Chain(h, t, m2, th)
BY DEF Chain

------------------------------------------------------------------------------
(* The invariant is inductive                                                *)

LEMMA InitHolds == Init => IInv
<1> SUFFICES ASSUME Init PROVE IInv
  OBVIOUS
<1>1. /\ thread \in Threads /\ cpu = Seeded(thread, [pc |-> 0, sp |-> 0, base |-> 0])
      /\ mem \in Captured /\ image = mem
      /\ phase = "idle" /\ faulted = FALSE /\ pending = <<>>
      /\ history = <<>> /\ written = {} /\ wxEvents = <<>>
      /\ before = <<>> /\ trail = <<>> /\ steps = 0
  BY DEF Init
<1>2. /\ MaxAddr \in Nat /\ MaxBack \in Nat \ {0} /\ MaxSteps \in Nat
      /\ Captured \subseteq [Mapped -> Values]
      /\ Threads \subseteq [pc : Addr, sp : Addr, base : Addr \cup {Absent}]
  BY EmulatorAssumption
<1>3. thread \in [pc : Addr, sp : Addr, base : Addr \cup {Absent}] /\ 0 \in Addr
  BY <1>1, <1>2 DEF Addr
<1>4. cpu \in CpuStates
  BY <1>1, <1>3 DEF Seeded, CpuStates, Addr
<1>5. Len(<<>>) = 0
  BY EmptySeq
<1>6. TypeOK
  <2>1. mem \in Memories /\ image \in Memories
    BY <1>1, <1>2 DEF Memories
  <2>2. /\ pending \in Seq(Records) /\ history \in Seq([ctx : CpuStates, writes : Seq(Records)])
        /\ trail \in Seq(Snapshots) /\ before \in Seq(Snapshots) /\ wxEvents \in Seq(Addr)
    BY <1>1, EmptySeq
  <2>3. Len(before) <= 1 /\ Len(history) <= MaxBack /\ Len(trail) <= MaxBack
    BY <1>1, <1>2, <1>5
  <2>4. steps \in 0 .. MaxSteps /\ written \subseteq Addr
    BY <1>1, <1>2
  <2> QED BY <1>1, <1>4, <2>1, <2>2, <2>3, <2>4 DEF TypeOK
<1>7. Chain(history, trail, Settled, thread)
  BY <1>1, ChainEmpty
<1>8. InStep
  BY <1>1, <1>5 DEF InStep
<1>9. Logged /\ DirtyIsWritten
  BY <1>1, <1>5 DEF Logged, DirtyIsWritten, Recorded
<1> QED BY <1>6, <1>7, <1>8, <1>9 DEF IInv

\* Calls that drop the journal.
LEMMA DropKeeps ==
    ASSUME IInv, phase = "idle", thread' \in Threads, cpu' \in CpuStates,
           history' = <<>>, trail' = <<>>,
           UNCHANGED <<mem, phase, faulted, pending, written, wxEvents, image, before, steps>>
    PROVE  IInv'
<1>1. TypeOK /\ InStep /\ Logged /\ DirtyIsWritten
  BY DEF IInv
<1>2. /\ mem' = mem /\ phase' = phase /\ faulted' = faulted /\ pending' = pending
      /\ written' = written /\ wxEvents' = wxEvents /\ image' = image
      /\ before' = before /\ steps' = steps
  OBVIOUS
<1>3. Len(<<>>) = 0 /\ MaxBack \in Nat
  BY EmptySeq, EmulatorAssumption
<1>4. TypeOK'
  BY <1>1, <1>2, <1>3 DEF TypeOK
<1>5. Chain(history, trail, Settled, thread)'
  BY ChainEmpty
<1>6. InStep'
  BY <1>1, <1>2 DEF InStep
<1>7. Logged' /\ DirtyIsWritten'
  BY <1>1, <1>2, <1>3 DEF Logged, DirtyIsWritten
<1> QED BY <1>4, <1>5, <1>6, <1>7 DEF IInv

LEMMA SwitchThreadKeeps ==
    ASSUME IInv, NEW t \in Threads, SwitchThread(t)
    PROVE  IInv'
<1>1. /\ t \in [pc : Addr, sp : Addr, base : Addr \cup {Absent}]
      /\ cpu \in CpuStates
  BY EmulatorAssumption DEF IInv, TypeOK
<1>2. cpu' \in CpuStates
  BY <1>1 DEF SwitchThread, Seeded, CpuStates, Addr
<1> QED BY <1>2, DropKeeps DEF SwitchThread

LEMMA ResumeKeeps ==
    ASSUME IInv, NEW popCells \in 0 .. 1, ResumeFromSyscall(popCells)
    PROVE  IInv'
<1>1. cpu \in CpuStates /\ thread \in Threads
  BY DEF IInv, TypeOK
<1>2. Image \subseteq Addr /\ Mapped \subseteq Addr
  BY EmulatorAssumption
<1>3. PICK slot \in CallerSlots :
         cpu' = [cpu EXCEPT !.pc = mem[slot], !.sp = slot + 1 + popCells]
  BY DEF ResumeFromSyscall
<1>4. mem[slot] \in Addr /\ slot \in Addr
  BY <1>2 DEF CallerSlots
<1>5. slot + 1 + popCells \in Nat
  BY <1>4, EmulatorAssumption DEF Addr
<1>6. cpu' \in CpuStates
  <2> DEFINE n == slot + 1 + popCells
             p == mem[slot]
  <2>1. n \in Nat /\ p \in Addr /\ cpu' = [cpu EXCEPT !.pc = p, !.sp = n]
    BY <1>3, <1>4, <1>5
  <2> HIDE DEF n, p
  <2> QED BY <1>1, <2>1 DEF CpuStates
<1> QED BY <1>1, <1>6, DropKeeps DEF ResumeFromSyscall

LEMMA WriteRegKeeps ==
    ASSUME IInv, WriteReg
    PROVE  IInv'
<1>1. TypeOK /\ InStep /\ Logged /\ DirtyIsWritten /\ Chain(history, trail, Settled, thread)
  BY DEF IInv
<1>2. /\ phase = "idle" /\ cpu' \in Cpus
      /\ mem' = mem /\ thread' = thread /\ phase' = phase /\ faulted' = faulted
      /\ pending' = pending /\ history' = history /\ written' = written
      /\ wxEvents' = wxEvents /\ image' = image /\ before' = before
      /\ trail' = trail /\ steps' = steps
  BY DEF WriteReg
<1>3. cpu' \in CpuStates
  BY <1>2, EmulatorAssumption DEF CpuStates
<1>4. TypeOK'
  BY <1>1, <1>2, <1>3 DEF TypeOK
<1>5. Settled' = Settled
  BY <1>2 DEF Settled
<1>6. Chain(history, trail, Settled, thread)'
  BY <1>1, <1>2, <1>5
<1>7. InStep' /\ Logged' /\ DirtyIsWritten'
  BY <1>1, <1>2 DEF InStep, Logged, DirtyIsWritten
<1> QED BY <1>4, <1>6, <1>7 DEF IInv

LEMMA BeginStepKeeps ==
    ASSUME IInv, BeginStep
    PROVE  IInv'
<1>1. TypeOK /\ InStep /\ Logged /\ DirtyIsWritten /\ Chain(history, trail, Settled, thread)
  BY DEF IInv
<1>2. /\ phase = "idle" /\ phase' = "step" /\ steps < MaxSteps /\ steps' = steps + 1
      /\ faulted' = (cpu.pc \notin Mapped) /\ pending' = <<>> /\ before' = <<Snapshot>>
      /\ wxEvents' = (IF cpu.pc \in written /\ cpu.pc \notin Flagged
                      THEN Append(wxEvents, cpu.pc) ELSE wxEvents)
      /\ cpu' = cpu /\ mem' = mem /\ thread' = thread /\ history' = history
      /\ written' = written /\ image' = image /\ trail' = trail
  BY DEF BeginStep
<1>3. /\ cpu \in CpuStates /\ mem \in Memories /\ thread \in Threads
      /\ wxEvents \in Seq(Addr) /\ steps \in 0 .. MaxSteps /\ MaxSteps \in Nat
  BY <1>1, EmulatorAssumption DEF TypeOK
<1>4. Snapshot \in Snapshots
  BY <1>3 DEF Snapshot, Snapshots
<1>5. <<Snapshot>> \in Seq(Snapshots) /\ Len(<<Snapshot>>) = 1 /\ <<Snapshot>>[1] = Snapshot
  BY <1>4
<1>6. wxEvents' \in Seq(Addr)
  BY <1>2, <1>3, AppendProperties DEF CpuStates
<1>7. <<>> \in Seq(Records) /\ Recorded(<<>>) = {}
  BY EmptySeq DEF Recorded
<1>8. TypeOK'
  BY <1>1, <1>2, <1>3, <1>5, <1>6, <1>7 DEF TypeOK
<1>9. Settled = mem /\ Settled' = mem
  BY <1>2, <1>3, RevertNothing DEF Settled
<1>10. Chain(history, trail, Settled, thread)'
  BY <1>1, <1>2, <1>9
<1>11. InStep'
  BY <1>2, <1>5, <1>9 DEF InStep, Snapshot
<1>12. Logged' /\ DirtyIsWritten'
  BY <1>1, <1>2, <1>7 DEF Logged, DirtyIsWritten
<1> QED BY <1>8, <1>10, <1>11, <1>12 DEF IInv

LEMMA StoreKeeps ==
    ASSUME IInv, NEW a \in Addr, NEW v \in Values, Store(a, v)
    PROVE  IInv'
<1> DEFINE r == [addr |-> a, old |-> mem[a]]
<1>1. TypeOK /\ InStep /\ Logged /\ DirtyIsWritten /\ Chain(history, trail, Settled, thread)
  BY DEF IInv
<1>2. /\ phase \in {"step", "run"} /\ written' = written \cup {a}
      /\ cpu' = cpu /\ thread' = thread /\ phase' = phase /\ history' = history
      /\ wxEvents' = wxEvents /\ image' = image /\ before' = before
      /\ trail' = trail /\ steps' = steps
  BY DEF Store
<1>3. \/ /\ a \in Mapped /\ mem' = [mem EXCEPT ![a] = v] /\ faulted' = faulted
         /\ pending' = IF phase = "step" THEN Append(pending, r) ELSE pending
      \/ a \notin Mapped /\ faulted' = TRUE /\ mem' = mem /\ pending' = pending
  BY DEF Store
<1>4. mem \in Memories /\ pending \in Seq(Records) /\ faulted \in BOOLEAN
  BY <1>1 DEF TypeOK
<1>5. a \in Mapped => r \in Records
  BY <1>4 DEF Records, Memories
<1> HIDE DEF r
<1>6. mem' \in Memories
  BY <1>3, <1>4 DEF Memories
<1>7. pending' \in Seq(Records)
  BY <1>3, <1>4, <1>5, AppendProperties
<1>8. TypeOK'
  BY <1>1, <1>2, <1>3, <1>4, <1>6, <1>7 DEF TypeOK
<1>9. Recorded(pending') \subseteq written'
  <2>1. CASE pending' = pending
    BY <1>1, <1>2, <2>1 DEF Logged
  <2>2. CASE a \in Mapped /\ pending' = Append(pending, r)
    <3>1. Recorded(pending') = Recorded(pending) \cup {r.addr}
      BY <1>4, <1>5, <2>2, RecordedAppend
    <3>2. r.addr = a
      BY DEF r
    <3> QED BY <1>1, <1>2, <3>1, <3>2 DEF Logged
  <2> QED BY <1>3, <2>1, <2>2
<1>10. Logged'
  BY <1>1, <1>2, <1>9 DEF Logged
<1>11. DirtyIsWritten'
  <2>1. \A c \in Mapped : c # a => mem'[c] = mem[c]
    BY <1>3, <1>4 DEF Memories
  <2> QED BY <1>1, <1>2, <2>1 DEF DirtyIsWritten
<1>12. CASE phase = "step"
  <2>1. Settled' = Settled
    <3>1. CASE a \in Mapped
      <4>1. mem' = [mem EXCEPT ![a] = v] /\ pending' = Append(pending, r)
        BY <1>3, <1>12, <3>1
      <4>2. Revert(mem', pending') = Revert(mem, pending)
        BY <1>4, <3>1, <4>1, RevertStore DEF r
      <4> QED BY <1>2, <1>12, <4>2 DEF Settled
    <3>2. CASE a \notin Mapped
      BY <1>2, <1>3, <3>2 DEF Settled
    <3> QED BY <3>1, <3>2
  <2>2. Chain(history, trail, Settled, thread)'
    BY <1>1, <1>2, <2>1
  <2>3. InStep'
    BY <1>1, <1>2, <1>12, <2>1 DEF InStep
  <2> QED BY <1>8, <1>10, <1>11, <2>2, <2>3 DEF IInv
<1>13. CASE phase = "run"
  <2>1. before = <<>> /\ pending = <<>> /\ \A i \in 1 .. Len(trail) : ~trail[i].exact
    BY <1>1, <1>13 DEF InStep
  <2>2. pending' = pending
    BY <1>3, <1>13
  <2>3. Chain(history', trail', Settled', thread')
    BY <1>1, <1>2, <2>1, ChainInexact
  <2>4. InStep'
    BY <1>2, <1>13, <2>1, <2>2 DEF InStep
  <2> QED BY <1>8, <1>10, <1>11, <2>3, <2>4 DEF IInv
<1> QED BY <1>2, <1>12, <1>13

LEMMA EndStepKeeps ==
    ASSUME IInv, EndStep
    PROVE  IInv'
<1> DEFINE e == [ctx |-> cpu, writes |-> pending]
           b == before[1]
           h == Append(history, e)
           t == Append(trail, b)
<1>1. TypeOK /\ InStep /\ Logged /\ DirtyIsWritten /\ Chain(history, trail, Settled, thread)
  BY DEF IInv
<1>2. /\ phase = "step" /\ phase' = "idle" /\ faulted' = FALSE /\ pending' = <<>>
      /\ cpu' \in Cpus /\ history' = Newest(h)
      /\ trail' = Newest(trail \o before) /\ before' = <<>>
      /\ mem' = mem /\ thread' = thread /\ written' = written /\ wxEvents' = wxEvents
      /\ image' = image /\ steps' = steps
  BY DEF EndStep
<1>3. /\ cpu \in CpuStates /\ mem \in Memories /\ pending \in Seq(Records)
      /\ history \in Seq(Entries) /\ trail \in Seq(Snapshots) /\ before \in Seq(Snapshots)
      /\ Len(history) <= MaxBack /\ Len(trail) <= MaxBack
  BY <1>1 DEF TypeOK, Entries
<1>4. /\ Len(before) = 1 /\ b.cpu = cpu /\ b.thread = thread /\ b.exact /\ b.mem = Settled
  BY <1>1, <1>2 DEF InStep
<1>5. b \in Snapshots /\ e \in Entries
  <2>1. b \in Snapshots
    <3>1. 1 \in 1 .. Len(before)
      BY <1>4
    <3> QED BY <1>3, <3>1, ElementOfSeq
  <2>2. e \in Entries
    BY <1>3 DEF Entries
  <2> QED BY <2>1, <2>2
<1>6. trail \o before = t
  <2>1. before = <<b>>
    BY <1>3, <1>4
  <2> HIDE DEF b
  <2> QED BY <1>3, <1>5, <2>1, AppendIsConcat
<1>7. Revert(mem, e.writes) = Settled
  BY <1>2 DEF Settled
<1>8. e.ctx = cpu /\ e.writes = pending
  OBVIOUS
<1> HIDE DEF e, b
<1>9. Chain(h, t, mem, thread)
  BY <1>1, <1>3, <1>4, <1>5, <1>7, <1>8, ChainAppend
<1>10. MaxBack \in Nat /\ Len(history) \in Nat /\ Len(trail) \in Nat
  BY <1>3, LenProperties, EmulatorAssumption
<1>11. /\ h \in Seq(Entries) /\ Len(h) = Len(history) + 1 /\ h[Len(history) + 1] = e
       /\ \A i \in 1 .. Len(history) : h[i] = history[i]
  BY <1>3, <1>5, AppendProperties
<1>12. t \in Seq(Snapshots) /\ Len(t) = Len(trail) + 1
  BY <1>3, <1>5, AppendProperties
<1> HIDE DEF h, t
<1>13. /\ Newest(h) \in Seq(Entries) /\ Len(Newest(h)) <= MaxBack
       /\ \A i \in 1 .. Len(Newest(h)) : \E j \in 1 .. Len(h) : Newest(h)[i] = h[j]
  BY <1>3, <1>10, <1>11, NewestFacts
<1>14. Newest(t) \in Seq(Snapshots) /\ Len(Newest(t)) <= MaxBack
  BY <1>3, <1>10, <1>12, NewestFacts
<1>15. Chain(Newest(h), Newest(t), mem, thread)
  <2>1. Len(h) = Len(t)
    BY <1>9 DEF Chain
  <2>2. CASE Len(t) > MaxBack
    <3>1. Newest(h) = Tail(h) /\ Newest(t) = Tail(t)
      BY <2>1, <2>2 DEF Newest
    <3>2. Len(t) > 0
      BY <1>10, <1>12
    <3> QED BY <1>9, <1>11, <1>12, <3>1, <3>2, ChainTail
  <2>3. CASE ~(Len(t) > MaxBack)
    <3>1. Newest(h) = h /\ Newest(t) = t
      BY <2>1, <2>3 DEF Newest
    <3> QED BY <1>9, <3>1
  <2> QED BY <2>2, <2>3
<1>16. Settled' = mem
  BY <1>2 DEF Settled
<1>17. Chain(history, trail, Settled, thread)'
  BY <1>2, <1>6, <1>15, <1>16
<1>18. TypeOK'
  <2>1. cpu' \in CpuStates
    BY <1>2, EmulatorAssumption DEF CpuStates
  <2>2. pending' \in Seq(Records) /\ before' \in Seq(Snapshots) /\ Len(before') <= 1
    BY <1>2, EmptySeq
  <2>3. /\ history' \in Seq([ctx : CpuStates, writes : Seq(Records)])
        /\ trail' \in Seq(Snapshots) /\ Len(history') <= MaxBack /\ Len(trail') <= MaxBack
    BY <1>2, <1>6, <1>13, <1>14 DEF Entries
  <2> QED BY <1>1, <1>2, <2>1, <2>2, <2>3 DEF TypeOK
<1>19. InStep'
  BY <1>2 DEF InStep
<1>20. Logged'
  <2>1. Recorded(pending') \subseteq written'
    <3>1. Recorded(<<>>) = {}
      BY DEF Recorded
    <3> QED BY <1>2, <3>1
  <2>2. ASSUME NEW j \in 1 .. Len(h) PROVE Recorded(h[j].writes) \subseteq written
    <3>1. CASE j \in 1 .. Len(history)
      BY <1>1, <1>11, <3>1 DEF Logged
    <3>2. CASE j = Len(history) + 1
      BY <1>1, <1>8, <1>11, <3>2 DEF Logged
    <3> QED BY <1>10, <1>11, <3>1, <3>2
  <2>3. \A i \in 1 .. Len(history') : Recorded(history'[i].writes) \subseteq written'
    BY <1>2, <1>13, <2>2
  <2> QED BY <2>1, <2>3 DEF Logged
<1>21. DirtyIsWritten'
  BY <1>1, <1>2 DEF DirtyIsWritten
<1> QED BY <1>17, <1>18, <1>19, <1>20, <1>21 DEF IInv

LEMMA BeginRunKeeps ==
    ASSUME IInv, BeginRun
    PROVE  IInv'
<1>1. TypeOK /\ InStep /\ Logged /\ DirtyIsWritten /\ Chain(history, trail, Settled, thread)
  BY DEF IInv
<1>2. /\ phase = "idle" /\ phase' = "run" /\ steps < MaxSteps /\ steps' = steps + 1
      /\ trail' = [i \in 1 .. Len(trail) |-> [trail[i] EXCEPT !.exact = FALSE]]
      /\ cpu' = cpu /\ mem' = mem /\ thread' = thread /\ faulted' = faulted
      /\ pending' = pending /\ history' = history /\ written' = written
      /\ wxEvents' = wxEvents /\ image' = image /\ before' = before
  BY DEF BeginRun
<1>3. /\ trail \in Seq(Snapshots) /\ Len(trail) \in Nat /\ Len(trail) <= MaxBack
      /\ steps \in 0 .. MaxSteps /\ MaxSteps \in Nat
  BY <1>1, LenProperties, EmulatorAssumption DEF TypeOK
<1>4. ASSUME NEW i \in 1 .. Len(trail)
      PROVE  /\ trail[i] \in Snapshots /\ trail'[i] \in Snapshots
             /\ trail'[i].cpu = trail[i].cpu /\ trail'[i].thread = trail[i].thread
             /\ ~trail'[i].exact
  <2>1. trail[i] \in Snapshots
    BY <1>3, ElementOfSeq
  <2>2. trail'[i] = [trail[i] EXCEPT !.exact = FALSE]
    BY <1>2
  <2> QED BY <2>1, <2>2 DEF Snapshots
<1>5. trail' \in Seq(Snapshots) /\ Len(trail') = Len(trail)
  BY <1>2, <1>3, <1>4
<1>6. Chain(history, trail, Settled, thread)'
  <2>1. \A i \in 1 .. Len(trail) : trail[i].cpu = history[i].ctx /\ trail[i].thread = thread
    BY <1>1 DEF Chain
  <2>2. Len(history) = Len(trail)
    BY <1>1 DEF Chain
  <2> QED BY <1>2, <1>4, <1>5, <2>1, <2>2 DEF Chain
<1>7. TypeOK'
  BY <1>1, <1>2, <1>3, <1>5 DEF TypeOK
<1>8. InStep'
  BY <1>1, <1>2, <1>4, <1>5 DEF InStep
<1>9. Logged' /\ DirtyIsWritten'
  BY <1>1, <1>2 DEF Logged, DirtyIsWritten
<1> QED BY <1>6, <1>7, <1>8, <1>9 DEF IInv

LEMMA StubWriteKeeps ==
    ASSUME IInv, NEW a \in Mapped, NEW v \in Values, StubWrite(a, v)
    PROVE  IInv'
<1>1. TypeOK /\ InStep /\ Logged /\ DirtyIsWritten /\ Chain(history, trail, Settled, thread)
  BY DEF IInv
<1>2. /\ phase = "run" /\ mem' = [mem EXCEPT ![a] = v] /\ image' = [image EXCEPT ![a] = v]
      /\ cpu' = cpu /\ thread' = thread /\ phase' = phase /\ faulted' = faulted
      /\ pending' = pending /\ history' = history /\ written' = written
      /\ wxEvents' = wxEvents /\ before' = before /\ trail' = trail /\ steps' = steps
  BY DEF StubWrite
<1>3. mem \in Memories /\ image \in Memories
  BY <1>1 DEF TypeOK
<1>4. mem' \in Memories /\ image' \in Memories
  BY <1>2, <1>3 DEF Memories
<1>5. TypeOK'
  BY <1>1, <1>2, <1>4 DEF TypeOK
<1>6. \A i \in 1 .. Len(trail) : ~trail[i].exact
  BY <1>1, <1>2 DEF InStep
<1>7. Chain(history, trail, Settled', thread)
  BY <1>1, <1>6, ChainInexact
<1>8. Chain(history, trail, Settled, thread)'
  BY <1>2, <1>7
<1>9. InStep'
  BY <1>1, <1>2 DEF InStep
<1>10. \A c \in Mapped : mem'[c] # image'[c] => mem[c] # image[c]
  BY <1>2, <1>3 DEF Memories
<1>11. Logged' /\ DirtyIsWritten'
  BY <1>1, <1>2, <1>10 DEF Logged, DirtyIsWritten
<1> QED BY <1>5, <1>8, <1>9, <1>11 DEF IInv

LEMMA EndRunKeeps ==
    ASSUME IInv, EndRun
    PROVE  IInv'
<1>1. TypeOK /\ InStep /\ Logged /\ DirtyIsWritten /\ Chain(history, trail, Settled, thread)
  BY DEF IInv
<1>2. /\ phase = "run" /\ phase' = "idle" /\ faulted' = FALSE /\ cpu' \in Cpus
      /\ mem' = mem /\ thread' = thread /\ pending' = pending /\ history' = history
      /\ written' = written /\ wxEvents' = wxEvents /\ image' = image
      /\ before' = before /\ trail' = trail /\ steps' = steps
  BY DEF EndRun
<1>3. cpu' \in CpuStates
  BY <1>2, EmulatorAssumption DEF CpuStates
<1>4. TypeOK'
  BY <1>1, <1>2, <1>3 DEF TypeOK
<1>5. Settled' = Settled
  BY <1>2 DEF Settled
<1>6. Chain(history, trail, Settled, thread)'
  BY <1>1, <1>2, <1>5
<1>7. InStep' /\ Logged' /\ DirtyIsWritten'
  BY <1>1, <1>2 DEF InStep, Logged, DirtyIsWritten
<1> QED BY <1>4, <1>6, <1>7 DEF IInv

LEMMA StepBackKeeps ==
    ASSUME IInv, StepBack
    PROVE  /\ IInv'
           /\ LET undone == trail[Len(trail)] IN
              /\ cpu' = undone.cpu /\ thread' = undone.thread
              /\ undone.exact => mem' = undone.mem
<1> DEFINE n == Len(history)
           last == history[n]
           undone == trail[n]
<1>1. TypeOK /\ InStep /\ Logged /\ DirtyIsWritten /\ Chain(history, trail, Settled, thread)
  BY DEF IInv
<1>2. /\ phase = "idle" /\ history # <<>>
      /\ cpu' = last.ctx /\ mem' = Revert(mem, last.writes)
      /\ history' = SubSeq(history, 1, n - 1)
      /\ trail' = SubSeq(trail, 1, Len(trail) - 1)
      /\ thread' = thread /\ phase' = phase /\ faulted' = faulted /\ pending' = pending
      /\ written' = written /\ wxEvents' = wxEvents /\ image' = image
      /\ before' = before /\ steps' = steps
  BY DEF StepBack
<1>3. /\ history \in Seq(Entries) /\ trail \in Seq(Snapshots) /\ mem \in Memories
      /\ n <= MaxBack /\ MaxBack \in Nat
  BY <1>1, EmulatorAssumption DEF TypeOK, Entries
<1>4. n \in Nat /\ n > 0 /\ Len(trail) = n
  <2>1. n \in Nat /\ n # 0
    BY <1>2, <1>3, LenProperties, EmptySeq
  <2>2. Len(trail) = n
    BY <1>1 DEF Chain
  <2> QED BY <2>1, <2>2
<1>5. last \in Entries
  BY <1>3, <1>4, ElementOfSeq
<1>6. last.ctx \in CpuStates /\ last.writes \in Seq(Records)
  BY <1>5 DEF Entries
<1>7. Settled = mem /\ Settled' = mem'
  BY <1>2 DEF Settled
<1>8. /\ undone.cpu = last.ctx /\ undone.thread = thread
      /\ undone.exact => Revert(mem, last.writes) = undone.mem
  BY <1>1, <1>4, <1>7 DEF Chain
<1>9. undone.exact => mem' = undone.mem
  BY <1>2, <1>8
<1>10. Chain(SubSeq(history, 1, n - 1), SubSeq(trail, 1, Len(trail) - 1), mem', thread)
  BY <1>1, <1>3, <1>4, <1>9, ChainFront
<1>11. Chain(history, trail, Settled, thread)'
  BY <1>2, <1>7, <1>10
<1>12. /\ history' \in Seq(Entries) /\ Len(history') = n - 1
       /\ \A i \in 1 .. n - 1 : history'[i] = history[i]
  BY <1>2, <1>3, <1>4
<1>13. trail' \in Seq(Snapshots) /\ Len(trail') = n - 1
  BY <1>2, <1>3, <1>4
<1> HIDE DEF n, last, undone
<1>14. mem' \in Memories
  BY <1>2, <1>3, <1>6, RevertType
<1>15. TypeOK'
  <2>1. Len(history') <= MaxBack /\ Len(trail') <= MaxBack
    BY <1>3, <1>4, <1>12, <1>13
  <2> QED BY <1>1, <1>2, <1>6, <1>12, <1>13, <1>14, <2>1 DEF TypeOK, Entries
<1>16. InStep'
  BY <1>1, <1>2 DEF InStep
<1>17. Logged'
  <2>1. \A i \in 1 .. n - 1 : i \in 1 .. n
    BY <1>4
  <2>2. \A i \in 1 .. n : Recorded(history[i].writes) \subseteq written
    BY <1>1 DEF Logged, n
  <2> QED BY <1>1, <1>2, <1>12, <2>1, <2>2 DEF Logged
<1>18. DirtyIsWritten'
  <2>1. Recorded(last.writes) \subseteq written
    <3>1. n \in 1 .. n
      BY <1>4
    <3> QED BY <1>1, <3>1 DEF Logged, last, n
  <2>2. \A c \in Mapped : c \notin Recorded(last.writes) => mem'[c] = mem[c]
    BY <1>2 DEF Revert
  <2> QED BY <1>1, <1>2, <2>1, <2>2 DEF DirtyIsWritten
<1>19. IInv'
  BY <1>11, <1>15, <1>16, <1>17, <1>18 DEF IInv
<1> QED BY <1>2, <1>4, <1>8, <1>9, <1>19 DEF undone, n

LEMMA StutterKeeps ==
    ASSUME IInv, UNCHANGED emuVars
    PROVE  IInv'
<1>1. /\ cpu' = cpu /\ mem' = mem /\ thread' = thread /\ phase' = phase
      /\ faulted' = faulted /\ pending' = pending /\ history' = history
      /\ written' = written /\ wxEvents' = wxEvents /\ image' = image
      /\ before' = before /\ trail' = trail /\ steps' = steps
  BY DEF emuVars
<1>2. Settled' = Settled
  BY <1>1 DEF Settled
<1>3. TypeOK /\ InStep /\ Logged /\ DirtyIsWritten /\ Chain(history, trail, Settled, thread)
  BY DEF IInv
<1>4. TypeOK'
  BY <1>1, <1>3 DEF TypeOK
<1>5. Chain(history, trail, Settled, thread)'
  BY <1>1, <1>2, <1>3
<1>6. InStep'
  BY <1>1, <1>2, <1>3 DEF InStep
<1>7. Logged' /\ DirtyIsWritten'
  BY <1>1, <1>3 DEF Logged, DirtyIsWritten
<1> QED BY <1>4, <1>5, <1>6, <1>7 DEF IInv

LEMMA NextKeeps == IInv /\ [Next]_emuVars => IInv'
<1> SUFFICES ASSUME IInv, [Next]_emuVars PROVE IInv'
  OBVIOUS
<1>1. ASSUME NEW t \in Threads, SwitchThread(t) PROVE IInv'
  BY <1>1, SwitchThreadKeeps
<1>2. ASSUME NEW popCells \in 0 .. 1, ResumeFromSyscall(popCells) PROVE IInv'
  BY <1>2, ResumeKeeps
<1>3. CASE WriteReg
  BY <1>3, WriteRegKeeps
<1>4. CASE BeginStep
  BY <1>4, BeginStepKeeps
<1>5. CASE EndStep
  BY <1>5, EndStepKeeps
<1>6. CASE StepBack
  BY <1>6, StepBackKeeps
<1>7. ASSUME NEW a \in Addr, NEW v \in Values, Store(a, v) PROVE IInv'
  BY <1>7, StoreKeeps
<1>8. ASSUME NEW a \in Mapped, NEW v \in Values, StubWrite(a, v) PROVE IInv'
  BY <1>8, StubWriteKeeps
<1>9. CASE BeginRun
  BY <1>9, BeginRunKeeps
<1>10. CASE EndRun
  BY <1>10, EndRunKeeps
<1>11. CASE UNCHANGED emuVars
  BY <1>11, StutterKeeps
<1> QED BY <1>1, <1>2, <1>3, <1>4, <1>5, <1>6, <1>7, <1>8, <1>9, <1>10, <1>11 DEF Next

\* Only BeginStep starts a step.
LEMMA StepReports ==
    ASSUME IInv, [Next]_emuVars, phase = "idle", phase' = "step",
           cpu.pc \in Mapped, mem[cpu.pc] # image[cpu.pc]
    PROVE  \E i \in 1 .. Len(wxEvents') : wxEvents'[i] = cpu.pc
<1>1. BeginStep
  BY DEF Next, SwitchThread, ResumeFromSyscall, WriteReg, EndStep, StepBack, Store,
         StubWrite, BeginRun, EndRun, emuVars
<1>2. wxEvents' = (IF cpu.pc \in written /\ cpu.pc \notin Flagged
                   THEN Append(wxEvents, cpu.pc) ELSE wxEvents)
  BY <1>1 DEF BeginStep
<1>3. cpu.pc \in written /\ wxEvents \in Seq(Addr) /\ cpu.pc \in Addr
  BY DEF IInv, TypeOK, DirtyIsWritten, CpuStates
<1>4. CASE cpu.pc \in Flagged
  BY <1>2, <1>4 DEF Flagged
<1>5. CASE cpu.pc \notin Flagged
  <2>1. wxEvents' = Append(wxEvents, cpu.pc)
    BY <1>2, <1>3, <1>5
  <2>2. Len(wxEvents') = Len(wxEvents) + 1 /\ wxEvents'[Len(wxEvents) + 1] = cpu.pc
    BY <1>3, <2>1, AppendProperties
  <2>3. Len(wxEvents) + 1 \in 1 .. Len(wxEvents')
    BY <1>3, <2>2, LenProperties
  <2> QED BY <2>2, <2>3
<1> QED BY <1>4, <1>5

------------------------------------------------------------------------------
(* Theorems                                                                  *)

\* The inductive invariant: the journal is a chain back to the states before
\* the steps, and every cell in it is in the write log.
THEOREM EmulatorInvariant == Spec => []IInv
BY InitHolds, NextKeeps, PTL DEF Spec

\* Types, and the bound of the journal, with any number of threads.
THEOREM EmulatorTypeOK == Spec => []TypeOK
<1>1. IInv => TypeOK
  BY DEF IInv
<1> QED BY <1>1, EmulatorInvariant, PTL

\* The journal goes back over exactly the steps of the current thread that
\* were not undone, up to its bound, whatever the bound.
THEOREM EmulatorJournalDepth == Spec => []JournalDepth
<1>1. IInv => JournalDepth
  BY DEF IInv, Chain, JournalDepth
<1> QED BY <1>1, EmulatorInvariant, PTL

\* Every cell that differs from the capture, or from what a stub put there,
\* is in the write log.
THEOREM EmulatorDirtyIsWritten == Spec => []DirtyIsWritten
<1>1. IInv => DirtyIsWritten
  BY DEF IInv
<1> QED BY <1>1, EmulatorInvariant, PTL

\* A step back restores the registers, the thread and the memory from before
\* the step, with any number of writes of one instruction to one cell.
THEOREM EmulatorBackRestores == Spec => BackRestores
<1>1. IInv /\ [Next]_emuVars =>
        [StepBack =>
          LET undone == trail[Len(trail)] IN
          /\ cpu' = undone.cpu /\ thread' = undone.thread
          /\ undone.exact => mem' = undone.mem]_emuVars
  BY StepBackKeeps
<1> QED BY <1>1, EmulatorInvariant, PTL DEF Spec, BackRestores

\* Stepping onto a cell the code has changed is always reported.
THEOREM EmulatorNoUnpackMissed == Spec => NoUnpackMissed
<1>1. IInv /\ [Next]_emuVars =>
        [phase = "idle" /\ phase' = "step" /\ cpu.pc \in Mapped /\ mem[cpu.pc] # image[cpu.pc]
          => \E i \in 1 .. Len(wxEvents') : wxEvents'[i] = cpu.pc]_emuVars
  BY StepReports
<1> QED BY <1>1, EmulatorInvariant, PTL DEF Spec, NoUnpackMissed
==============================================================================

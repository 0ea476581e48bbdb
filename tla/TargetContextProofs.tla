-------------------------- MODULE TargetContextProofs --------------------------
(***************************************************************************)
(* For any target, host and command line, and whatever a collector finds   *)
(* and however much of it: a reader of os_detail reads what was found, or  *)
(* that it was truncated; what lies behind a closed gate stays out; a      *)
(* slice of a foreign target says nothing about the host; and a part that  *)
(* is missing leaves a trace.                                              *)
(*                                                                         *)
(* The argument follows the string.  A value comes back from its escaped   *)
(* form, which holds no semicolon; so a body of pairs splits where they    *)
(* were joined, and reads as these pairs; so the string, whose delimiter   *)
(* is found where it was put when the human part is plain, reads as the    *)
(* pairs that were kept; and these are all, or the first ones and a mark.  *)
(***************************************************************************)
EXTENDS TargetContext, FiniteSetTheorems, WellFoundedInduction, SequenceTheorems, TLAPS

------------------------------------------------------------------------------
(* Numbers and sequences                                                     *)

Less == {p \in Nat \X Nat : p[1] < p[2]}

\* Among natural numbers there is a least one.
LEMMA LeastOfSet ==
    ASSUME NEW T \in SUBSET Nat, T # {}
    PROVE  \E x \in T : \A y \in T : x <= y
<1>1. OpToRel(<, Nat) = Less
  BY DEF OpToRel, Less
<1>2. IsWellFoundedOn(Less, Nat)
  BY <1>1, NatLessThanWellFounded
<1>3. PICK x \in T : \A y \in T : ~(<<y, x>> \in Less)
  BY <1>2, WFMin
<1>4. \A m, n \in Nat : m < n => <<m, n>> \in Less
  BY DEF Less
<1>5. \A y \in T : ~(y < x)
  BY <1>3, <1>4
<1> QED BY <1>5

\* Min and Max are what they are taken for.
LEMMA MinIs ==
    ASSUME NEW T \in SUBSET Nat, NEW m \in T, \A x \in T : m <= x
    PROVE  Min(T) = m
<1>1. Min(T) \in T /\ \A x \in T : Min(T) <= x
  BY DEF Min
<1>2. Min(T) \in Nat /\ m \in Nat
  BY <1>1
<1> QED BY <1>1, <1>2

\* The greatest element of a set is its maximum.
LEMMA MaxIs ==
    ASSUME NEW T \in SUBSET Nat, NEW m \in T, \A x \in T : x <= m
    PROVE  Max(T) = m
<1>1. Max(T) \in T /\ \A x \in T : Max(T) >= x
  BY DEF Max
<1>2. Max(T) \in Nat /\ m \in Nat
  BY <1>1
<1> QED BY <1>1, <1>2

\* A set of numbers that is not empty has a least element.
LEMMA MinExists ==
    ASSUME NEW T \in SUBSET Nat, T # {}
    PROVE  Min(T) \in T /\ \A x \in T : Min(T) <= x
<1>1. PICK m \in T : \A x \in T : m <= x
  BY LeastOfSet
<1> QED BY <1>1, MinIs

\* A bounded one has a greatest.
LEMMA MaxExists ==
    ASSUME NEW d \in Nat, NEW T \in SUBSET (0 .. d), T # {}
    PROVE  Max(T) \in T /\ \A x \in T : x <= Max(T)
<1> DEFINE U == {y \in 0 .. d : d - y \in T}
<1>1. \A x \in T : x \in 0 .. d /\ d - x \in 0 .. d /\ d - (d - x) = x
  OBVIOUS
<1>2. \A x \in T : d - x \in U
  BY <1>1
<1>3. U # {} /\ U \in SUBSET Nat
  <2>1. U \in SUBSET Nat
    OBVIOUS
  <2> HIDE DEF U
  <2> QED BY <1>2, <2>1
<1>4. PICK u \in U : \A y \in U : u <= y
  BY <1>3, LeastOfSet
<1>6. d - u \in T /\ u \in 0 .. d
  OBVIOUS
<1> HIDE DEF U
<1>7. \A x \in T : x <= d - u
  BY <1>1, <1>2, <1>4, <1>6
<1>5. T \in SUBSET Nat
  OBVIOUS
<1> QED BY <1>5, <1>6, <1>7, MaxIs

\* A function on 1 .. n is a sequence.
LEMMA FunctionIsSeq ==
    ASSUME NEW S, NEW n \in Nat, NEW f, f = [k \in 1 .. n |-> f[k]], \A k \in 1 .. n : f[k] \in S
    PROVE  f \in Seq(S) /\ Len(f) = n /\ DOMAIN f = 1 .. n
<1>1. f \in [1 .. n -> S]
  OBVIOUS
<1> QED BY <1>1

\* A sequence is a function on the numbers up to its length.
LEMMA SeqFacts ==
    ASSUME NEW S, NEW s \in Seq(S)
    PROVE  /\ Len(s) \in Nat /\ DOMAIN s = 1 .. Len(s) /\ \A k \in 1 .. Len(s) : s[k] \in S
           /\ s = [k \in 1 .. Len(s) |-> s[k]]
  OBVIOUS

\* Sequences that agree everywhere are equal.
LEMMA EqualSeqs ==
    ASSUME NEW S, NEW T, NEW s \in Seq(S), NEW t \in Seq(T), Len(s) = Len(t),
           \A k \in 1 .. Len(s) : s[k] = t[k]
    PROVE  s = t
  BY SeqFacts

\* A sequence is one over any set that holds its elements.
LEMMA WiderSeq ==
    ASSUME NEW S, NEW T, NEW s \in Seq(S), \A k \in 1 .. Len(s) : s[k] \in T
    PROVE  s \in Seq(T)
  BY SeqFacts, FunctionIsSeq

\* Two sequences in a row, element by element.
LEMMA ConcatFacts ==
    ASSUME NEW S, NEW s \in Seq(S), NEW t \in Seq(S)
    PROVE  /\ s \o t \in Seq(S) /\ Len(s \o t) = Len(s) + Len(t)
           /\ \A i \in 1 .. Len(s) : (s \o t)[i] = s[i]
           /\ \A i \in 1 .. Len(t) : (s \o t)[Len(s) + i] = t[i]
           /\ \A i \in Len(s) + 1 .. Len(s) + Len(t) : (s \o t)[i] = t[i - Len(s)]
<1>1. Len(s) \in Nat /\ Len(t) \in Nat
  OBVIOUS
<1>2. s \o t \in Seq(S)
  OBVIOUS
<1>3. Len(s \o t) = Len(s) + Len(t)
  OBVIOUS
<1>4. \A i \in 1 .. Len(s) + Len(t) : (s \o t)[i] = IF i <= Len(s) THEN s[i] ELSE t[i - Len(s)]
  BY ConcatProperties
<1>5. \A i \in 1 .. Len(s) : (s \o t)[i] = s[i]
  BY <1>1, <1>4
<1>6. \A i \in 1 .. Len(t) : (s \o t)[Len(s) + i] = t[i]
  <2> TAKE i \in 1 .. Len(t)
  <2>1. Len(s) + i \in 1 .. Len(s) + Len(t) /\ ~(Len(s) + i <= Len(s)) /\ Len(s) + i - Len(s) = i
    BY <1>1
  <2> QED BY <1>4, <2>1
<1>7. \A i \in Len(s) + 1 .. Len(s) + Len(t) : (s \o t)[i] = t[i - Len(s)]
  BY <1>1, <1>4
<1> QED BY <1>2, <1>3, <1>5, <1>6, <1>7

\* A part of a sequence, element by element.
LEMMA SubSeqFacts ==
    ASSUME NEW S, NEW s \in Seq(S), NEW m \in 1 .. Len(s) + 1, NEW n \in m - 1 .. Len(s)
    PROVE  /\ SubSeq(s, m, n) \in Seq(S) /\ Len(SubSeq(s, m, n)) = n - m + 1
           /\ \A i \in 1 .. n - m + 1 : SubSeq(s, m, n)[i] = s[m + i - 1]
<1>1. Len(s) \in Nat /\ m \in Nat /\ n - m + 1 \in Nat /\ n \in Int
  BY SeqFacts
<1>2. SubSeq(s, m, n) = [i \in 1 .. n - m + 1 |-> s[m + i - 1]]
  BY <1>1
<1>3. \A i \in 1 .. n - m + 1 : m + i - 1 \in 1 .. Len(s)
  BY <1>1
<1>4. \A i \in 1 .. n - m + 1 : s[m + i - 1] \in S
  BY <1>3, SeqFacts
<1> DEFINE q == [i \in 1 .. n - m + 1 |-> s[m + i - 1]]
<1>5. q \in Seq(S) /\ Len(q) = n - m + 1
  <2>1. q = [i \in 1 .. n - m + 1 |-> q[i]] /\ \A i \in 1 .. n - m + 1 : q[i] \in S
    BY <1>4
  <2> HIDE DEF q
  <2> QED BY <1>1, <2>1, FunctionIsSeq
<1> QED BY <1>2, <1>5

\* Three sequences in a row, either way.
LEMMA ConcatAssoc ==
    ASSUME NEW S, NEW r \in Seq(S), NEW s \in Seq(S), NEW t \in Seq(S)
    PROVE  (r \o s) \o t = r \o (s \o t)
  BY ConcatAssociative

\* A sequence of one.
LEMMA OneFacts ==
    ASSUME NEW S, NEW x \in S
    PROVE  <<x>> \in Seq(S) /\ Len(<<x>>) = 1 /\ <<x>>[1] = x
  OBVIOUS

\* The empty sequence changes nothing.
LEMMA EmptyFacts ==
    ASSUME NEW S, NEW s \in Seq(S)
    PROVE  <<>> \in Seq(S) /\ Len(<<>>) = 0 /\ <<>> \o s = s /\ s \o <<>> = s /\ (s = <<>> <=> Len(s) = 0)
  OBVIOUS

------------------------------------------------------------------------------
(* The helpers on sequences                                                  *)

\* The elements of s that are in T, up to the n-th, taken from those up to the one before.
OneMore(g, n, s, T) ==
  IF n = 0 THEN <<>> ELSE IF s[n] \in T THEN Append(g[n - 1], s[n]) ELSE g[n - 1]

Keeps(g, m, s, T) == DOMAIN g = 0 .. m /\ \A n \in 0 .. m : g[n] = OneMore(g, n, s, T)

\* The recursion of Kept has a solution up to any length.
LEMMA KeeperExists ==
    ASSUME NEW s, NEW T, NEW m \in Nat
    PROVE  \E g : Keeps(g, m, s, T)
<1> DEFINE Bad == {n \in Nat : ~ \E g : Keeps(g, n, s, T)}
<1> SUFFICES ASSUME Bad # {} PROVE FALSE
  OBVIOUS
<1>1. PICK n \in Bad : \A k \in Bad : n <= k
  BY LeastOfSet
<1>2. n \in Nat /\ ~ \E g : Keeps(g, n, s, T)
  OBVIOUS
<1>3. CASE n = 0
  <2> DEFINE g == [k \in 0 .. 0 |-> <<>>]
  <2>1. Keeps(g, 0, s, T)
    BY DEF Keeps, OneMore
  <2> QED BY <1>2, <1>3, <2>1
<1>4. CASE n # 0
  <2>1. n - 1 \in Nat /\ ~(n <= n - 1)
    BY <1>2, <1>4
  <2>2. n - 1 \notin Bad
    BY <1>1, <2>1
  <2>3. PICK h : Keeps(h, n - 1, s, T)
    BY <2>1, <2>2
  <2> DEFINE g == [k \in 0 .. n |-> IF k = n THEN OneMore(h, n, s, T) ELSE h[k]]
  <2>4. \A k \in 0 .. n : k # n => g[k] = h[k]
    OBVIOUS
  <2>5. g[n] = OneMore(h, n, s, T) /\ DOMAIN g = 0 .. n
    BY <1>2
  <2> HIDE DEF g
  <2>6. ASSUME NEW k \in 0 .. n PROVE g[k] = OneMore(g, k, s, T)
    <3>1. k # 0 => k - 1 \in 0 .. n /\ k - 1 # n
      BY <1>2
    <3>2. OneMore(g, k, s, T) = OneMore(h, k, s, T)
      BY <2>4, <3>1 DEF OneMore
    <3>3. CASE k = n
      BY <2>5, <3>2, <3>3
    <3>4. CASE k # n
      <4>1. k \in 0 .. n - 1
        BY <1>2, <3>4
      <4> QED BY <2>3, <2>4, <3>2, <3>4, <4>1 DEF Keeps
    <3> QED BY <3>3, <3>4
  <2>7. Keeps(g, n, s, T)
    BY <2>5, <2>6 DEF Keeps
  <2> QED BY <1>2, <2>7
<1> QED BY <1>3, <1>4

\* Kept is that solution.
LEMMA KeptIsKept ==
    ASSUME NEW s, NEW T, Len(s) \in Nat
    PROVE  \E g : Keeps(g, Len(s), s, T) /\ Kept(s, T) = g[Len(s)]
<1> DEFINE P(g) == g = [n \in 0 .. Len(s) |->
                          IF n = 0 THEN <<>> ELSE IF s[n] \in T THEN Append(g[n - 1], s[n]) ELSE g[n - 1]]
           kept == CHOOSE g : P(g)
<1>1. PICK h : Keeps(h, Len(s), s, T)
  BY KeeperExists
<1>2. \E g : P(g)
  <2> DEFINE g == [n \in 0 .. Len(s) |-> h[n]]
  <2>1. \A n \in 0 .. Len(s) : n # 0 => n - 1 \in 0 .. Len(s)
    OBVIOUS
  <2>2. \A n \in 0 .. Len(s) : n # 0 => g[n - 1] = h[n - 1]
    BY <2>1
  <2>3. \A n \in 0 .. Len(s) :
          h[n] = IF n = 0 THEN <<>> ELSE IF s[n] \in T THEN Append(g[n - 1], s[n]) ELSE g[n - 1]
    BY <1>1, <2>2 DEF Keeps, OneMore
  <2>4. P(g)
    BY <2>3
  <2> QED BY <2>4
<1>3. P(kept)
  BY <1>2
<1>4. Kept(s, T) = kept[Len(s)]
  BY DEF Kept
<1> HIDE DEF kept
<1>5. Keeps(kept, Len(s), s, T)
  BY <1>3 DEF Keeps, OneMore
<1> QED BY <1>4, <1>5

\* k holds the elements of s at the increasing positions pos, all up to n that are in T.
Picks(k, pos, n, s, T) ==
    /\ pos \in [1 .. Len(k) -> 1 .. n]
    /\ \A i \in 1 .. Len(k) : k[i] = s[pos[i]] /\ s[pos[i]] \in T
    /\ \A i, j \in 1 .. Len(k) : i < j => pos[i] < pos[j]
    /\ \A a \in 1 .. n : s[a] \in T => \E i \in 1 .. Len(k) : pos[i] = a

\* One more element that is kept, ...
LEMMA PicksOneMore ==
    ASSUME NEW M, NEW s \in Seq(M), NEW T, NEW n \in 1 .. Len(s), NEW k \in Seq(M), NEW pos,
           Picks(k, pos, n - 1, s, T), s[n] \in T
    PROVE  \E q : Picks(Append(k, s[n]), q, n, s, T)
<1> DEFINE q == [i \in 1 .. Len(k) + 1 |-> IF i = Len(k) + 1 THEN n ELSE pos[i]]
           w == Append(k, s[n])
<1>1. Len(k) \in Nat /\ n \in Nat /\ Len(s) \in Nat /\ s[n] \in M
  BY SeqFacts
<1>2. Len(w) = Len(k) + 1 /\ w[Len(k) + 1] = s[n] /\ \A i \in 1 .. Len(k) : w[i] = k[i]
  BY <1>1
<1>3. q[Len(k) + 1] = n /\ \A i \in 1 .. Len(k) : q[i] = pos[i] /\ pos[i] \in 1 .. n - 1
  <2>1. pos \in [1 .. Len(k) -> 1 .. n - 1]
    BY DEF Picks
  <2>2. \A i \in 1 .. Len(k) : i \in 1 .. Len(k) + 1 /\ i # Len(k) + 1
    BY <1>1
  <2>3. q[Len(k) + 1] = n
    BY <1>1
  <2> QED BY <2>1, <2>2, <2>3
<1>4. \A i \in 1 .. Len(k) + 1 : i \in 1 .. Len(k) \/ i = Len(k) + 1
  BY <1>1
<1>5. q = [i \in 1 .. Len(k) + 1 |-> q[i]]
  OBVIOUS
<1> HIDE DEF q, w
<1>6. \A i \in 1 .. Len(k) + 1 : q[i] \in 1 .. n
  BY <1>1, <1>3, <1>4
<1>7. \A i \in 1 .. Len(k) + 1 : w[i] = s[q[i]] /\ s[q[i]] \in T
  BY <1>2, <1>3, <1>4 DEF Picks
<1>8. \A i, j \in 1 .. Len(k) + 1 : i < j => q[i] < q[j]
  <2> SUFFICES ASSUME NEW i \in 1 .. Len(k) + 1, NEW j \in 1 .. Len(k) + 1, i < j PROVE q[i] < q[j]
    OBVIOUS
  <2>1. i \in 1 .. Len(k)
    BY <1>1
  <2>2. CASE j = Len(k) + 1
    BY <1>1, <1>3, <2>1, <2>2
  <2>3. CASE j # Len(k) + 1
    <3>1. j \in 1 .. Len(k)
      BY <1>4, <2>3
    <3> QED BY <1>3, <2>1, <3>1 DEF Picks
  <2> QED BY <2>2, <2>3
<1>9. \A a \in 1 .. n : s[a] \in T => \E i \in 1 .. Len(k) + 1 : q[i] = a
  <2> SUFFICES ASSUME NEW a \in 1 .. n, s[a] \in T PROVE \E i \in 1 .. Len(k) + 1 : q[i] = a
    OBVIOUS
  <2>1. CASE a = n
    BY <1>1, <1>3, <2>1
  <2>2. CASE a # n
    <3>1. a \in 1 .. n - 1
      BY <1>1, <2>2
    <3>2. PICK i \in 1 .. Len(k) : pos[i] = a
      BY <3>1 DEF Picks
    <3>3. i \in 1 .. Len(k) + 1
      BY <1>1
    <3> QED BY <1>3, <3>2, <3>3
  <2> QED BY <2>1, <2>2
<1>10. Picks(w, q, n, s, T)
  BY <1>2, <1>5, <1>6, <1>7, <1>8, <1>9 DEF Picks
<1> QED BY <1>10 DEF w

\* ... and one that is not.
LEMMA PicksNoMore ==
    ASSUME NEW M, NEW s \in Seq(M), NEW T, NEW n \in 1 .. Len(s), NEW k \in Seq(M), NEW pos,
           Picks(k, pos, n - 1, s, T), s[n] \notin T
    PROVE  Picks(k, pos, n, s, T)
<1>1. Len(k) \in Nat /\ n \in Nat /\ \A i \in 1 .. n - 1 : i \in 1 .. n
  BY SeqFacts
<1>2. \A a \in 1 .. n : a \in 1 .. n - 1 \/ a = n
  BY <1>1
<1>3. pos \in [1 .. Len(k) -> 1 .. n]
  <2>1. pos \in [1 .. Len(k) -> 1 .. n - 1]
    BY DEF Picks
  <2>2. 1 .. n - 1 \subseteq 1 .. n
    BY <1>1
  <2> QED BY <2>1, <2>2
<1> QED BY <1>2, <1>3 DEF Picks

\* Kept picks the elements in T.
LEMMA KeptPicks ==
    ASSUME NEW M, NEW s \in Seq(M), NEW T
    PROVE  Kept(s, T) \in Seq(M) /\ \E pos : Picks(Kept(s, T), pos, Len(s), s, T)
<1>1. Len(s) \in Nat /\ \A k \in 1 .. Len(s) : s[k] \in M
  BY SeqFacts
<1>2. PICK g : Keeps(g, Len(s), s, T) /\ Kept(s, T) = g[Len(s)]
  BY <1>1, KeptIsKept
<1> DEFINE Good(n) == g[n] \in Seq(M) /\ \E pos : Picks(g[n], pos, n, s, T)
           Bad == {n \in Nat : n <= Len(s) /\ ~Good(n)}
<1>3. Bad = {}
  <2> SUFFICES ASSUME Bad # {} PROVE FALSE
    OBVIOUS
  <2>1. PICK n \in Bad : \A k \in Bad : n <= k
    BY LeastOfSet
  <2>2. n \in Nat /\ n <= Len(s) /\ ~Good(n) /\ n \in 0 .. Len(s)
    BY <1>1
  <2>3. CASE n = 0
    <3>1. g[0] = <<>>
      BY <1>2, <2>2, <2>3 DEF Keeps, OneMore
    <3>2. Len(<<>>) = 0 /\ <<>> \in Seq(M)
      BY EmptyFacts
    <3>3. Picks(<<>>, [i \in 1 .. 0 |-> i], 0, s, T)
      BY <3>2 DEF Picks
    <3> QED BY <2>2, <2>3, <3>1, <3>2, <3>3
  <2>4. CASE n # 0
    <3>1. n - 1 \in Nat /\ n - 1 <= Len(s) /\ ~(n <= n - 1) /\ n \in 1 .. Len(s)
      BY <1>1, <2>2, <2>4
    <3>2. Good(n - 1)
      BY <2>1, <3>1
    <3>3. g[n] = IF s[n] \in T THEN Append(g[n - 1], s[n]) ELSE g[n - 1]
      BY <1>2, <2>2, <2>4 DEF Keeps, OneMore
    <3>4. PICK pos : Picks(g[n - 1], pos, n - 1, s, T)
      BY <3>2
    <3>5. CASE s[n] \in T
      <4>1. g[n] \in Seq(M)
        BY <1>1, <3>1, <3>2, <3>3, <3>5
      <4> HIDE DEF Bad
      <4> QED BY <2>2, <3>1, <3>2, <3>3, <3>4, <3>5, <4>1, PicksOneMore
    <3>6. CASE s[n] \notin T
      <4> HIDE DEF Bad
      <4> QED BY <2>2, <3>1, <3>2, <3>3, <3>4, <3>6, PicksNoMore
    <3> QED BY <3>5, <3>6
  <2> QED BY <2>3, <2>4
<1>4. Good(Len(s))
  <2>1. Len(s) \notin Bad
    <3> HIDE DEF Bad
    <3> QED BY <1>3
  <2> HIDE DEF Good
  <2> QED BY <1>1, <2>1
<1> QED BY <1>2, <1>4

\* u holds the elements of s that are in T.
Selects(u, s, T) ==
    /\ \A i \in 1 .. Len(u) : u[i] \in T
    /\ \A i \in 1 .. Len(u) : \E a \in 1 .. Len(s) : s[a] = u[i]
    /\ \A a \in 1 .. Len(s) : s[a] \in T => \E i \in 1 .. Len(u) : u[i] = s[a]

\* What is kept of a sequence, without the positions.
LEMMA KeptFacts ==
    ASSUME NEW M, NEW s \in Seq(M), NEW T
    PROVE  Kept(s, T) \in Seq(M) /\ Selects(Kept(s, T), s, T)
<1>1. Kept(s, T) \in Seq(M)
  BY KeptPicks
<1>2. PICK pos : Picks(Kept(s, T), pos, Len(s), s, T)
  BY KeptPicks
<1> QED BY <1>1, <1>2 DEF Picks, Selects

\* f gives the concatenations of the first 1, ..., m of ts.
Flattens(f, m, ts) ==
    DOMAIN f = 1 .. m /\ \A i \in 1 .. m : f[i] = IF i = 1 THEN ts[i] ELSE f[i - 1] \o ts[i]

\* The recursion of FlattenSeq has a solution up to any length.
LEMMA FlattenerExists ==
    ASSUME NEW ts, NEW m \in Nat
    PROVE  \E f : Flattens(f, m, ts)
<1> DEFINE Bad == {n \in Nat : ~ \E f : Flattens(f, n, ts)}
<1> SUFFICES ASSUME Bad # {} PROVE FALSE
  OBVIOUS
<1>1. PICK n \in Bad : \A k \in Bad : n <= k
  BY LeastOfSet
<1>2. n \in Nat /\ ~ \E f : Flattens(f, n, ts)
  OBVIOUS
<1>3. CASE n = 0
  <2>1. Flattens([i \in 1 .. 0 |-> <<>>], 0, ts)
    BY DEF Flattens
  <2> QED BY <1>2, <1>3, <2>1
<1>4. CASE n # 0
  <2>1. n - 1 \in Nat /\ ~(n <= n - 1)
    BY <1>2, <1>4
  <2>2. n - 1 \notin Bad
    BY <1>1, <2>1
  <2>3. PICK h : Flattens(h, n - 1, ts)
    BY <2>1, <2>2
  <2> DEFINE last == IF n = 1 THEN ts[n] ELSE h[n - 1] \o ts[n]
             f == [i \in 1 .. n |-> IF i = n THEN last ELSE h[i]]
  <2>4. \A i \in 1 .. n : i # n => f[i] = h[i]
    OBVIOUS
  <2>5. f[n] = last /\ DOMAIN f = 1 .. n
    BY <1>2, <1>4
  <2> HIDE DEF f
  <2>6. ASSUME NEW i \in 1 .. n PROVE f[i] = IF i = 1 THEN ts[i] ELSE f[i - 1] \o ts[i]
    <3>1. i # 1 => i - 1 \in 1 .. n /\ i - 1 # n
      BY <1>2
    <3>2. i # 1 => f[i - 1] = h[i - 1]
      BY <2>4, <3>1
    <3>3. CASE i = n
      BY <2>5, <3>2, <3>3
    <3>4. CASE i # n
      <4>1. i \in 1 .. n - 1
        BY <1>2, <3>4
      <4> QED BY <2>3, <2>4, <3>2, <3>4, <4>1 DEF Flattens
    <3> QED BY <3>3, <3>4
  <2>7. Flattens(f, n, ts)
    BY <2>5, <2>6 DEF Flattens
  <2> QED BY <1>2, <2>7
<1> QED BY <1>3, <1>4

\* f[n] is the concatenation of the first n of ts, all of them texts over S.
Stages(f, ts, S) ==
    /\ f[0] = <<>> /\ \A n \in 0 .. Len(ts) : f[n] \in Seq(S)
    /\ \A n \in 1 .. Len(ts) : f[n] = f[n - 1] \o ts[n]

\* FlattenSeq is the last of these stages.
LEMMA FlattenStages ==
    ASSUME NEW S, NEW ts \in Seq(Seq(S))
    PROVE  \E f : Stages(f, ts, S) /\ FlattenSeq(ts) = f[Len(ts)]
<1>1. Len(ts) \in Nat /\ \A i \in 1 .. Len(ts) : ts[i] \in Seq(S)
  BY SeqFacts
<1>2. CASE Len(ts) = 0
  <2> DEFINE f == [n \in 0 .. 0 |-> <<>>]
  <2>1. f[0] = <<>> /\ <<>> \in Seq(S)
    BY EmptySeq
  <2>2. ts = <<>>
    BY <1>2, EmptyFacts
  <2>3. Stages(f, ts, S)
    <3> HIDE DEF f
    <3>1. 0 .. Len(ts) = {0} /\ 1 .. Len(ts) = {}
      BY <1>2
    <3> QED BY <2>1, <3>1 DEF Stages
  <2>4. FlattenSeq(ts) = f[Len(ts)]
    BY <1>2, <2>1, <2>2 DEF FlattenSeq
  <2> QED BY <2>3, <2>4
<1>3. CASE Len(ts) # 0
  <2> DEFINE P(f) == f = [i \in 1 .. Len(ts) |-> IF i = 1 THEN ts[i] ELSE f[i - 1] \o ts[i]]
             flatten == CHOOSE f : P(f)
  <2>1. PICK h : Flattens(h, Len(ts), ts)
    BY <1>1, FlattenerExists
  <2>2. \E f : P(f)
    <3> DEFINE f == [i \in 1 .. Len(ts) |-> h[i]]
    <3>1. \A i \in 1 .. Len(ts) : i # 1 => i - 1 \in 1 .. Len(ts)
      BY <1>1
    <3>2. \A i \in 1 .. Len(ts) : i # 1 => f[i - 1] = h[i - 1]
      BY <3>1
    <3>3. \A i \in 1 .. Len(ts) : h[i] = IF i = 1 THEN ts[i] ELSE f[i - 1] \o ts[i]
      BY <2>1, <3>2 DEF Flattens
    <3>4. P(f)
      BY <3>3
    <3> QED BY <3>4
  <2>3. P(flatten)
    BY <2>2
  <2>4. FlattenSeq(ts) = flatten[Len(ts)]
    BY <1>3 DEF FlattenSeq
  <2> HIDE DEF flatten
  <2> DEFINE f == [n \in 0 .. Len(ts) |-> IF n = 0 THEN <<>> ELSE flatten[n]]
  <2>5. f[0] = <<>> /\ \A n \in 1 .. Len(ts) : f[n] = flatten[n] /\ n # 0
    BY <1>1
  <2>6. \A n \in 1 .. Len(ts) : n = 1 \/ n - 1 \in 1 .. Len(ts)
    BY <1>1
  <2>7. f[Len(ts)] = flatten[Len(ts)]
    BY <1>1, <1>3
  <2> HIDE DEF f
  <2>8. \A n \in 1 .. Len(ts) : flatten[n] = IF n = 1 THEN ts[n] ELSE flatten[n - 1] \o ts[n]
    BY <2>3
  <2> HIDE DEF P
  <2>9. ASSUME NEW n \in 1 .. Len(ts) PROVE f[n] = f[n - 1] \o ts[n]
    <3>1. CASE n = 1
      <4>1. f[n] = ts[n] /\ f[n - 1] = <<>>
        BY <2>5, <2>8, <3>1
      <4>2. <<>> \o ts[n] = ts[n]
        BY <1>1, EmptyFacts
      <4> QED BY <4>1, <4>2
    <3>2. CASE n # 1
      BY <2>5, <2>6, <2>8, <3>2
    <3> QED BY <3>1, <3>2
  <2> DEFINE Bad == {n \in Nat : n <= Len(ts) /\ f[n] \notin Seq(S)}
  <2>10. Bad = {}
    <3> SUFFICES ASSUME Bad # {} PROVE FALSE
      OBVIOUS
    <3>1. PICK n \in Bad : \A k \in Bad : n <= k
      BY LeastOfSet
    <3>2. n \in Nat /\ n <= Len(ts) /\ f[n] \notin Seq(S)
      OBVIOUS
    <3>3. n # 0
      BY <2>5, <3>2, EmptySeq
    <3>4. n - 1 \in Nat /\ n - 1 <= Len(ts) /\ ~(n <= n - 1) /\ n \in 1 .. Len(ts)
      BY <1>1, <3>2, <3>3
    <3>5. f[n - 1] \in Seq(S)
      BY <3>1, <3>4
    <3> QED BY <1>1, <2>9, <3>2, <3>4, <3>5, ConcatFacts
  <2>11. \A n \in 0 .. Len(ts) : f[n] \in Seq(S)
    <3> TAKE n \in 0 .. Len(ts)
    <3>1. n \in Nat /\ n <= Len(ts) /\ n \notin Bad
      BY <1>1, <2>10
    <3> QED BY <3>1
  <2>12. Stages(f, ts, S)
    BY <2>5, <2>9, <2>11 DEF Stages
  <2> QED BY <2>4, <2>7, <2>12
<1> QED BY <1>2, <1>3

\* Flattened, texts over S are a text over S, ...
LEMMA FlattenType ==
    ASSUME NEW S, NEW ts \in Seq(Seq(S))
    PROVE  FlattenSeq(ts) \in Seq(S)
<1>1. PICK f : Stages(f, ts, S) /\ FlattenSeq(ts) = f[Len(ts)]
  BY FlattenStages
<1>2. Len(ts) \in Nat /\ Len(ts) \in 0 .. Len(ts)
  BY SeqFacts
<1> QED BY <1>1, <1>2 DEF Stages

\* ... that ends with the last of them.
LEMMA FlattenEnd ==
    ASSUME NEW S, NEW ts \in Seq(Seq(S)), Len(ts) > 0
    PROVE  \E before \in Seq(S) : FlattenSeq(ts) = before \o ts[Len(ts)]
<1>1. PICK f : Stages(f, ts, S) /\ FlattenSeq(ts) = f[Len(ts)]
  BY FlattenStages
<1>2. Len(ts) \in Nat /\ Len(ts) \in 1 .. Len(ts) /\ Len(ts) - 1 \in 0 .. Len(ts)
  BY SeqFacts
<1> QED BY <1>1, <1>2 DEF Stages

\* A function of the elements, element by element.
LEMMA MapIsSeq ==
    ASSUME NEW S, NEW ts \in Seq(S), NEW T, NEW f, f = [i \in DOMAIN ts |-> f[i]],
           \A i \in 1 .. Len(ts) : f[i] \in T
    PROVE  f \in Seq(T) /\ Len(f) = Len(ts)
<1>1. Len(ts) \in Nat /\ DOMAIN ts = 1 .. Len(ts)
  BY SeqFacts
<1> QED BY <1>1, FunctionIsSeq

\* Texts joined are a text, ...
LEMMA JoinedType ==
    ASSUME NEW S, NEW ts \in Seq(Seq(S)), NEW sep \in Seq(S)
    PROVE  Joined(ts, sep) \in Seq(S)
<1> DEFINE f == [i \in DOMAIN ts |-> IF i = 1 THEN ts[i] ELSE sep \o ts[i]]
<1>1. \A i \in 1 .. Len(ts) : ts[i] \in Seq(S) /\ i \in DOMAIN ts
  BY SeqFacts
<1>2. \A i \in 1 .. Len(ts) : f[i] \in Seq(S)
  BY <1>1, ConcatFacts
<1>3. f = [i \in DOMAIN ts |-> f[i]]
  OBVIOUS
<1>4. Joined(ts, sep) = FlattenSeq(f)
  BY DEF Joined
<1> HIDE DEF f
<1>5. f \in Seq(Seq(S))
  BY <1>2, <1>3, MapIsSeq
<1> QED BY <1>4, <1>5, FlattenType

\* ... not the empty one if the last of them is not.
LEMMA JoinedNotEmpty ==
    ASSUME NEW S, NEW ts \in Seq(Seq(S)), NEW sep \in Seq(S), Len(ts) > 0, ts[Len(ts)] # <<>>
    PROVE  Joined(ts, sep) # <<>>
<1> DEFINE f == [i \in DOMAIN ts |-> IF i = 1 THEN ts[i] ELSE sep \o ts[i]]
<1>1. Len(ts) \in Nat /\ \A i \in 1 .. Len(ts) : ts[i] \in Seq(S) /\ i \in DOMAIN ts
  BY SeqFacts
<1>2. \A i \in 1 .. Len(ts) : f[i] \in Seq(S)
  BY <1>1, ConcatFacts
<1>3. f = [i \in DOMAIN ts |-> f[i]]
  OBVIOUS
<1>4. Joined(ts, sep) = FlattenSeq(f)
  BY DEF Joined
<1>5. Len(ts) \in 1 .. Len(ts)
  BY <1>1
<1>6. f[Len(ts)] = ts[Len(ts)] \/ f[Len(ts)] = sep \o ts[Len(ts)]
  BY <1>1, <1>5
<1> HIDE DEF f
<1>7. f \in Seq(Seq(S)) /\ Len(f) = Len(ts)
  BY <1>2, <1>3, MapIsSeq
<1>8. PICK before \in Seq(S) : FlattenSeq(f) = before \o f[Len(ts)]
  BY <1>7, FlattenEnd
<1>9. ts[Len(ts)] \in Seq(S) /\ Len(ts[Len(ts)]) \in Nat /\ Len(ts[Len(ts)]) # 0 /\ Len(sep) \in Nat
  BY <1>1, <1>5, EmptySeq, SeqFacts
<1>10. f[Len(ts)] \in Seq(S) /\ Len(f[Len(ts)]) > 0
  BY <1>2, <1>5, <1>6, <1>9, ConcatFacts
<1>11. Len(before \o f[Len(ts)]) > 0
  BY <1>10, ConcatFacts, SeqFacts
<1>12. Len(<<>>) = 0
  OBVIOUS
<1> QED BY <1>4, <1>8, <1>11, <1>12

\* The stages of a text that is escaped.
LEMMA EscapeStages ==
    ASSUME NEW S, NEW text \in Seq(S), NEW T, \A c \in S : EscapeOf(c) \in Seq(T)
    PROVE  \E f : /\ f[0] = <<>> /\ \A n \in 0 .. Len(text) : f[n] \in Seq(T)
                  /\ \A n \in 1 .. Len(text) : f[n] = f[n - 1] \o EscapeOf(text[n])
                  /\ Escape(text) = f[Len(text)]
<1> DEFINE ts == [i \in DOMAIN text |-> EscapeOf(text[i])]
<1>1. \A i \in 1 .. Len(text) : text[i] \in S /\ i \in DOMAIN text
  BY SeqFacts
<1>2. \A i \in 1 .. Len(text) : ts[i] = EscapeOf(text[i]) /\ ts[i] \in Seq(T)
  BY <1>1
<1>3. ts = [i \in DOMAIN text |-> ts[i]]
  OBVIOUS
<1>4. Escape(text) = FlattenSeq(ts)
  BY DEF Escape
<1> HIDE DEF ts
<1>5. ts \in Seq(Seq(T)) /\ Len(ts) = Len(text)
  BY <1>2, <1>3, MapIsSeq
<1>6. PICK f : Stages(f, ts, T) /\ FlattenSeq(ts) = f[Len(ts)]
  BY <1>5, FlattenStages
<1> QED BY <1>2, <1>4, <1>5, <1>6 DEF Stages

------------------------------------------------------------------------------
(* Escaping                                                                  *)

\* The characters of the codes.
CodeWords == {"%", "0", "A", "3", "B", "D", "7", "C", "2", "5"}

\* The code of every reserved character.
LEMMA CodeTable ==
    /\ EscapeOf("NUL") = <<"%", "0", "0">> /\ EscapeOf("NL") = <<"%", "0", "A">>
    /\ EscapeOf(";") = <<"%", "3", "B">> /\ EscapeOf("=") = <<"%", "3", "D">>
    /\ EscapeOf("|") = <<"%", "7", "C">> /\ EscapeOf("%") = <<"%", "2", "5">>
  BY DEF EscapeOf

\* A code is three characters of codes.
LEMMA CodeType ==
    ASSUME NEW c \in Reserved
    PROVE  /\ EscapeOf(c) \in Seq(CodeWords) /\ Len(EscapeOf(c)) = 3 /\ DOMAIN EscapeOf(c) = 1 .. 3
           /\ EscapeOf(c)[1] = "%"
<1> DEFINE Good(d) == /\ EscapeOf(d) \in Seq(CodeWords) /\ Len(EscapeOf(d)) = 3 /\ DOMAIN EscapeOf(d) = 1 .. 3
                      /\ EscapeOf(d)[1] = "%"
<1>1. Good("NUL")
  <2>1. EscapeOf("NUL") = <<"%", "0", "0">>
    BY CodeTable
  <2>2. <<"%", "0", "0">> \in Seq(CodeWords)
    BY DEF CodeWords
  <2>3. EscapeOf("NUL") \in Seq(CodeWords)
    BY <2>1, <2>2, Zenon
  <2>4. Len(<<"%", "0", "0">>) = 3 /\ DOMAIN <<"%", "0", "0">> = 1 .. 3 /\ <<"%", "0", "0">>[1] = "%"
    OBVIOUS
  <2> QED BY <2>1, <2>3, <2>4, Zenon
<1>2. Good("NL")
  <2>1. EscapeOf("NL") = <<"%", "0", "A">>
    BY CodeTable
  <2>2. <<"%", "0", "A">> \in Seq(CodeWords)
    BY DEF CodeWords
  <2>3. EscapeOf("NL") \in Seq(CodeWords)
    BY <2>1, <2>2, Zenon
  <2>4. Len(<<"%", "0", "A">>) = 3 /\ DOMAIN <<"%", "0", "A">> = 1 .. 3 /\ <<"%", "0", "A">>[1] = "%"
    OBVIOUS
  <2> QED BY <2>1, <2>3, <2>4, Zenon
<1>3. Good(";")
  <2>1. EscapeOf(";") = <<"%", "3", "B">>
    BY CodeTable
  <2>2. <<"%", "3", "B">> \in Seq(CodeWords)
    BY DEF CodeWords
  <2>3. EscapeOf(";") \in Seq(CodeWords)
    BY <2>1, <2>2, Zenon
  <2>4. Len(<<"%", "3", "B">>) = 3 /\ DOMAIN <<"%", "3", "B">> = 1 .. 3 /\ <<"%", "3", "B">>[1] = "%"
    OBVIOUS
  <2> QED BY <2>1, <2>3, <2>4, Zenon
<1>4. Good("=")
  <2>1. EscapeOf("=") = <<"%", "3", "D">>
    BY CodeTable
  <2>2. <<"%", "3", "D">> \in Seq(CodeWords)
    BY DEF CodeWords
  <2>3. EscapeOf("=") \in Seq(CodeWords)
    BY <2>1, <2>2, Zenon
  <2>4. Len(<<"%", "3", "D">>) = 3 /\ DOMAIN <<"%", "3", "D">> = 1 .. 3 /\ <<"%", "3", "D">>[1] = "%"
    OBVIOUS
  <2> QED BY <2>1, <2>3, <2>4, Zenon
<1>5. Good("|")
  <2>1. EscapeOf("|") = <<"%", "7", "C">>
    BY CodeTable
  <2>2. <<"%", "7", "C">> \in Seq(CodeWords)
    BY DEF CodeWords
  <2>3. EscapeOf("|") \in Seq(CodeWords)
    BY <2>1, <2>2, Zenon
  <2>4. Len(<<"%", "7", "C">>) = 3 /\ DOMAIN <<"%", "7", "C">> = 1 .. 3 /\ <<"%", "7", "C">>[1] = "%"
    OBVIOUS
  <2> QED BY <2>1, <2>3, <2>4, Zenon
<1>6. Good("%")
  <2>1. EscapeOf("%") = <<"%", "2", "5">>
    BY CodeTable
  <2>2. <<"%", "2", "5">> \in Seq(CodeWords)
    BY DEF CodeWords
  <2>3. EscapeOf("%") \in Seq(CodeWords)
    BY <2>1, <2>2, Zenon
  <2>4. Len(<<"%", "2", "5">>) = 3 /\ DOMAIN <<"%", "2", "5">> = 1 .. 3 /\ <<"%", "2", "5">>[1] = "%"
    OBVIOUS
  <2> QED BY <2>1, <2>3, <2>4, Zenon
<1> HIDE DEF Good
<1>7. Good(c)
  BY <1>1, <1>2, <1>3, <1>4, <1>5, <1>6 DEF Reserved
<1> QED BY <1>7 DEF Good

\* No two reserved characters have the same code.
LEMMA CodesDiffer ==
    ASSUME NEW c \in Reserved, NEW d \in Reserved,
           EscapeOf(d)[2] = EscapeOf(c)[2], EscapeOf(d)[3] = EscapeOf(c)[3]
    PROVE  d = c
<1>1. EscapeOf("NUL")[2] = "0" /\ EscapeOf("NUL")[3] = "0"
  <2>1. EscapeOf("NUL") = <<"%", "0", "0">>
    BY CodeTable
  <2>2. <<"%", "0", "0">>[2] = "0" /\ <<"%", "0", "0">>[3] = "0"
    OBVIOUS
  <2> QED BY <2>1, <2>2, Zenon
<1>2. EscapeOf("NL")[2] = "0" /\ EscapeOf("NL")[3] = "A"
  <2>1. EscapeOf("NL") = <<"%", "0", "A">>
    BY CodeTable
  <2>2. <<"%", "0", "A">>[2] = "0" /\ <<"%", "0", "A">>[3] = "A"
    OBVIOUS
  <2> QED BY <2>1, <2>2, Zenon
<1>3. EscapeOf(";")[2] = "3" /\ EscapeOf(";")[3] = "B"
  <2>1. EscapeOf(";") = <<"%", "3", "B">>
    BY CodeTable
  <2>2. <<"%", "3", "B">>[2] = "3" /\ <<"%", "3", "B">>[3] = "B"
    OBVIOUS
  <2> QED BY <2>1, <2>2, Zenon
<1>4. EscapeOf("=")[2] = "3" /\ EscapeOf("=")[3] = "D"
  <2>1. EscapeOf("=") = <<"%", "3", "D">>
    BY CodeTable
  <2>2. <<"%", "3", "D">>[2] = "3" /\ <<"%", "3", "D">>[3] = "D"
    OBVIOUS
  <2> QED BY <2>1, <2>2, Zenon
<1>5. EscapeOf("|")[2] = "7" /\ EscapeOf("|")[3] = "C"
  <2>1. EscapeOf("|") = <<"%", "7", "C">>
    BY CodeTable
  <2>2. <<"%", "7", "C">>[2] = "7" /\ <<"%", "7", "C">>[3] = "C"
    OBVIOUS
  <2> QED BY <2>1, <2>2, Zenon
<1>6. EscapeOf("%")[2] = "2" /\ EscapeOf("%")[3] = "5"
  <2>1. EscapeOf("%") = <<"%", "2", "5">>
    BY CodeTable
  <2>2. <<"%", "2", "5">>[2] = "2" /\ <<"%", "2", "5">>[3] = "5"
    OBVIOUS
  <2> QED BY <2>1, <2>2, Zenon
<1> QED BY <1>1, <1>2, <1>3, <1>4, <1>5, <1>6 DEF Reserved

\* A character is escaped to characters that are not reserved, and to codes.
LEMMA EscapeOfType ==
    ASSUME NEW c, NEW T, c \in T \/ c \in Reserved, CodeWords \subseteq T
    PROVE  EscapeOf(c) \in Seq(T)
<1>1. CASE c \in Reserved
  BY <1>1, CodeType
<1>2. CASE c \notin Reserved
  <2>1. EscapeOf(c) = <<c>>
    BY <1>2 DEF Reserved, EscapeOf
  <2> QED BY <1>2, <2>1, OneFacts
<1> QED BY <1>1, <1>2

\* An escaped text holds characters that are not reserved, and those of the codes.
LEMMA EscapeType ==
    ASSUME NEW S, NEW text \in Seq(S), NEW T, S \ Reserved \subseteq T, CodeWords \subseteq T
    PROVE  Escape(text) \in Seq(T)
<1>1. \A c \in S : EscapeOf(c) \in Seq(T)
  BY EscapeOfType
<1>2. PICK f : /\ f[0] = <<>> /\ \A n \in 0 .. Len(text) : f[n] \in Seq(T)
               /\ \A n \in 1 .. Len(text) : f[n] = f[n - 1] \o EscapeOf(text[n])
               /\ Escape(text) = f[Len(text)]
  BY <1>1, EscapeStages
<1>3. Len(text) \in 0 .. Len(text)
  BY SeqFacts
<1> QED BY <1>2, <1>3

\* The reserved characters whose codes begin the last n characters of a text.
CodesAt(n, text) == {c \in Reserved : Occurs(EscapeOf(c), text, Len(text) - n + 1)}

UnStep(g, n, text) ==
    IF n = 0 THEN <<>>
    ELSE IF CodesAt(n, text) # {} THEN <<CHOOSE c \in CodesAt(n, text) : TRUE>> \o g[n - 3]
    ELSE <<text[Len(text) - n + 1]>> \o g[n - 1]

Unescapes(g, m, text) == DOMAIN g = 0 .. m /\ \A n \in 0 .. m : g[n] = UnStep(g, n, text)

\* Where a code stands, a percent sign and two digits do.
LEMMA CodesAreThree ==
    ASSUME NEW text, Len(text) \in Nat, NEW n \in Nat, CodesAt(n, text) # {}
    PROVE  3 <= n
<1>1. PICK c \in Reserved : Occurs(EscapeOf(c), text, Len(text) - n + 1)
  BY DEF CodesAt
<1>2. Len(EscapeOf(c)) = 3
  BY CodeType
<1>3. Len(text) - n + 1 - 1 + 3 <= Len(text)
  BY <1>1, <1>2 DEF Occurs
<1> QED BY <1>3

\* A step looks at the steps before it only.
LEMMA UnStepLocal ==
    ASSUME NEW text, Len(text) \in Nat, NEW n \in Nat, NEW g, NEW h, \A k \in 0 .. n - 1 : g[k] = h[k]
    PROVE  UnStep(g, n, text) = UnStep(h, n, text)
<1>1. CodesAt(n, text) # {} => n - 3 \in 0 .. n - 1
  BY CodesAreThree
<1>2. n # 0 => n - 1 \in 0 .. n - 1
  OBVIOUS
<1> QED BY <1>1, <1>2 DEF UnStep

\* The recursion of Unescape has a solution up to any length.
LEMMA UnescaperExists ==
    ASSUME NEW text, Len(text) \in Nat, NEW m \in Nat
    PROVE  \E g : Unescapes(g, m, text)
<1> DEFINE Bad == {n \in Nat : ~ \E g : Unescapes(g, n, text)}
<1> SUFFICES ASSUME Bad # {} PROVE FALSE
  OBVIOUS
<1>1. PICK n \in Bad : \A k \in Bad : n <= k
  BY LeastOfSet
<1>2. n \in Nat /\ ~ \E g : Unescapes(g, n, text)
  OBVIOUS
<1>3. CASE n = 0
  <2> DEFINE g == [k \in 0 .. 0 |-> <<>>]
  <2>1. Unescapes(g, 0, text)
    BY DEF Unescapes, UnStep
  <2> QED BY <1>2, <1>3, <2>1
<1>4. CASE n # 0
  <2>1. n - 1 \in Nat /\ ~(n <= n - 1)
    BY <1>2, <1>4
  <2>2. n - 1 \notin Bad
    BY <1>1, <2>1
  <2>3. PICK h : Unescapes(h, n - 1, text)
    BY <2>1, <2>2
  <2> DEFINE g == [k \in 0 .. n |-> IF k = n THEN UnStep(h, n, text) ELSE h[k]]
  <2>4. \A k \in 0 .. n - 1 : g[k] = h[k]
    BY <1>2
  <2>5. g[n] = UnStep(h, n, text) /\ DOMAIN g = 0 .. n
    BY <1>2
  <2> HIDE DEF g
  <2>6. ASSUME NEW k \in 0 .. n PROVE g[k] = UnStep(g, k, text)
    <3>1. k \in Nat /\ \A j \in 0 .. k - 1 : g[j] = h[j]
      BY <1>2, <2>4
    <3>2. UnStep(g, k, text) = UnStep(h, k, text)
      BY <3>1, UnStepLocal
    <3>3. CASE k = n
      BY <2>5, <3>2, <3>3
    <3>4. CASE k # n
      <4>1. k \in 0 .. n - 1
        BY <1>2, <3>4
      <4> QED BY <2>3, <2>4, <3>2, <4>1 DEF Unescapes
    <3> QED BY <3>3, <3>4
  <2>7. Unescapes(g, n, text)
    BY <2>5, <2>6 DEF Unescapes
  <2> QED BY <1>2, <2>7
<1> QED BY <1>3, <1>4

\* Unescape is that solution.
LEMMA UnescapeIs ==
    ASSUME NEW text, Len(text) \in Nat
    PROVE  \E g : Unescapes(g, Len(text), text) /\ Unescape(text) = g[Len(text)]
<1> DEFINE P(g) == g = [n \in 0 .. Len(text) |->
                          IF n = 0 THEN <<>>
                          ELSE IF CodesAt(n, text) # {} THEN <<CHOOSE c \in CodesAt(n, text) : TRUE>> \o g[n - 3]
                          ELSE <<text[Len(text) - n + 1]>> \o g[n - 1]]
           last == CHOOSE g : P(g)
<1>1. PICK h : Unescapes(h, Len(text), text)
  BY UnescaperExists
<1>2. \E g : P(g)
  <2> DEFINE g == [n \in 0 .. Len(text) |-> h[n]]
             q == [n \in 0 .. Len(text) |->
                          IF n = 0 THEN <<>>
                          ELSE IF CodesAt(n, text) # {} THEN <<CHOOSE c \in CodesAt(n, text) : TRUE>> \o g[n - 3]
                          ELSE <<text[Len(text) - n + 1]>> \o g[n - 1]]
  <2>1. \A n \in 0 .. Len(text) : \A k \in 0 .. n - 1 : g[k] = h[k]
    OBVIOUS
  <2>2. \A n \in 0 .. Len(text) : UnStep(g, n, text) = UnStep(h, n, text)
    <3> HIDE DEF g
    <3> QED BY <2>1, UnStepLocal
  <2>3. \A n \in 0 .. Len(text) : h[n] = UnStep(g, n, text)
    BY <1>1, <2>2 DEF Unescapes
  <2>4. q = [n \in 0 .. Len(text) |-> UnStep(g, n, text)]
    BY DEF UnStep
  <2>5. q = g
    <3> HIDE DEF q
    <3> QED BY <2>3, <2>4
  <2> QED BY <2>5
<1>3. P(last)
  BY <1>2
<1>4. Unescape(text) = last[Len(text)]
  BY DEF Unescape, CodesAt
<1> HIDE DEF last
<1>5. Unescapes(last, Len(text), text)
  BY <1>3 DEF Unescapes, UnStep
<1> QED BY <1>4, <1>5

\* The codes found at the end of a text do not depend on its beginning.
LEMMA CodesAtEnd ==
    ASSUME NEW S, NEW x \in Seq(S), NEW u \in Seq(S), NEW n \in 1 .. Len(u)
    PROVE  /\ CodesAt(n, x \o u) = CodesAt(n, u)
           /\ (x \o u)[Len(x \o u) - n + 1] = u[Len(u) - n + 1]
<1> DEFINE text == x \o u
           a == Len(u) - n
<1>1. Len(x) \in Nat /\ Len(u) \in Nat /\ n \in Nat /\ Len(text) = Len(x) + Len(u)
  BY SeqFacts, ConcatFacts
<1>2. \A i \in 1 .. Len(u) : text[Len(x) + i] = u[i]
  BY ConcatFacts
<1>3. a \in 0 .. Len(u) /\ Len(text) - n = Len(x) + a /\ Len(u) - n + 1 = a + 1
  BY <1>1
<1>4. Len(text) - n + 1 = Len(x) + (a + 1) /\ a + 1 \in 1 .. Len(u)
  BY <1>1
<1>5. ASSUME NEW c \in Reserved
      PROVE  Occurs(EscapeOf(c), text, Len(text) - n + 1) <=> Occurs(EscapeOf(c), u, Len(u) - n + 1)
  <2>1. Len(EscapeOf(c)) = 3 /\ DOMAIN EscapeOf(c) = 1 .. 3
    BY CodeType
  <2>2. (Len(text) - n + 1) - 1 + 3 <= Len(text) <=> 3 <= n
    BY <1>1
  <2>3. (Len(u) - n + 1) - 1 + 3 <= Len(u) <=> 3 <= n
    BY <1>1
  <2>4. ASSUME 3 <= n, NEW j \in 1 .. 3
        PROVE  text[(Len(text) - n + 1) - 1 + j] = u[(Len(u) - n + 1) - 1 + j]
    <3>1. (Len(text) - n + 1) - 1 + j = Len(x) + (a + j) /\ (Len(u) - n + 1) - 1 + j = a + j
      BY <1>1
    <3>2. a + j \in 1 .. Len(u)
      BY <1>1, <2>4
    <3> HIDE DEF text, a
    <3> QED BY <1>2, <3>1, <3>2
  <2> HIDE DEF text, a
  <2>5. CASE 3 <= n
    BY <2>1, <2>2, <2>3, <2>4, <2>5 DEF Occurs
  <2>6. CASE ~(3 <= n)
    BY <2>1, <2>2, <2>3, <2>6 DEF Occurs
  <2> QED BY <2>5, <2>6
<1>6. CodesAt(n, text) = CodesAt(n, u)
  <2> HIDE DEF text
  <2> QED BY <1>5 DEF CodesAt
<1>7. text[Len(text) - n + 1] = u[Len(u) - n + 1]
  <2> HIDE DEF text, a
  <2> QED BY <1>2, <1>3, <1>4
<1> QED BY <1>6, <1>7

\* Nor does what they stand for.
LEMMA UnescapeEnd ==
    ASSUME NEW S, NEW x \in Seq(S), NEW u \in Seq(S), NEW g, NEW h,
           Unescapes(g, Len(u), u), Unescapes(h, Len(x \o u), x \o u)
    PROVE  \A n \in 0 .. Len(u) : h[n] = g[n]
<1>1. Len(u) \in Nat /\ Len(x) \in Nat /\ Len(x \o u) = Len(x) + Len(u)
  BY SeqFacts, ConcatFacts
<1> DEFINE Bad == {n \in Nat : n <= Len(u) /\ h[n] # g[n]}
<1>2. Bad = {}
  <2> SUFFICES ASSUME Bad # {} PROVE FALSE
    OBVIOUS
  <2>1. PICK n \in Bad : \A k \in Bad : n <= k
    BY LeastOfSet
  <2>2. n \in Nat /\ n \in 0 .. Len(u) /\ n \in 0 .. Len(x \o u) /\ h[n] # g[n]
    BY <1>1
  <2>3. g[n] = UnStep(g, n, u) /\ h[n] = UnStep(h, n, x \o u)
    BY <2>2 DEF Unescapes
  <2>4. \A k \in 0 .. n - 1 : h[k] = g[k]
    <3> TAKE k \in 0 .. n - 1
    <3>1. k \in Nat /\ k <= Len(u) /\ ~(n <= k)
      BY <1>1, <2>2
    <3>2. k \notin Bad
      BY <2>1, <3>1
    <3> QED BY <3>1, <3>2
  <2> HIDE DEF Bad
  <2>5. UnStep(h, n, u) = UnStep(g, n, u)
    BY <1>1, <2>2, <2>4, UnStepLocal
  <2>6. UnStep(h, n, x \o u) = UnStep(h, n, u)
    <3>1. CASE n = 0
      BY <3>1 DEF UnStep
    <3>2. CASE n # 0
      <4>1. n \in 1 .. Len(u)
        BY <1>1, <2>2, <3>2
      <4>2. CodesAt(n, x \o u) = CodesAt(n, u) /\ (x \o u)[Len(x \o u) - n + 1] = u[Len(u) - n + 1]
        BY <4>1, CodesAtEnd
      <4> QED BY <3>2, <4>2 DEF UnStep
    <3> QED BY <3>1, <3>2
  <2> QED BY <2>2, <2>3, <2>5, <2>6
<1>3. ASSUME NEW n \in 0 .. Len(u) PROVE h[n] = g[n]
  <2>1. n \in Nat /\ n <= Len(u)
    BY <1>1
  <2> QED BY <1>2, <2>1
<1> QED BY <1>3

\* What a text stands for is a text.
LEMMA UnescapeType ==
    ASSUME NEW S, NEW text \in Seq(S), Reserved \subseteq S
    PROVE  Unescape(text) \in Seq(S)
<1>1. Len(text) \in Nat
  BY SeqFacts
<1>2. PICK g : Unescapes(g, Len(text), text) /\ Unescape(text) = g[Len(text)]
  BY <1>1, UnescapeIs
<1> DEFINE Bad == {n \in Nat : n <= Len(text) /\ g[n] \notin Seq(S)}
<1>3. Bad = {}
  <2> SUFFICES ASSUME Bad # {} PROVE FALSE
    OBVIOUS
  <2>1. PICK n \in Bad : \A k \in Bad : n <= k
    BY LeastOfSet
  <2>2. n \in Nat /\ n \in 0 .. Len(text) /\ g[n] \notin Seq(S)
    BY <1>1
  <2>3. g[n] = UnStep(g, n, text)
    BY <1>2, <2>2 DEF Unescapes
  <2>4. \A k \in 0 .. n - 1 : g[k] \in Seq(S)
    <3> TAKE k \in 0 .. n - 1
    <3>1. k \in Nat /\ k <= Len(text) /\ ~(n <= k)
      BY <1>1, <2>2
    <3> QED BY <2>1, <3>1
  <2> HIDE DEF Bad
  <2>5. CASE n = 0
    BY <2>2, <2>3, <2>5, EmptySeq DEF UnStep
  <2>6. CASE n # 0 /\ CodesAt(n, text) # {}
    <3>1. n - 3 \in 0 .. n - 1
      BY <1>1, <2>2, <2>6, CodesAreThree
    <3>2. (CHOOSE c \in CodesAt(n, text) : TRUE) \in S
      BY <2>6 DEF CodesAt
    <3>3. <<CHOOSE c \in CodesAt(n, text) : TRUE>> \in Seq(S)
      BY <3>2, OneFacts
    <3>4. g[n] = <<CHOOSE c \in CodesAt(n, text) : TRUE>> \o g[n - 3]
      BY <2>3, <2>6 DEF UnStep
    <3> QED BY <2>2, <2>4, <3>1, <3>3, <3>4, ConcatFacts
  <2>7. CASE n # 0 /\ CodesAt(n, text) = {}
    <3>1. n - 1 \in 0 .. n - 1 /\ Len(text) - n + 1 \in 1 .. Len(text)
      BY <1>1, <2>2, <2>7
    <3>2. <<text[Len(text) - n + 1]>> \in Seq(S)
      BY <3>1, SeqFacts, OneFacts
    <3>3. g[n] = <<text[Len(text) - n + 1]>> \o g[n - 1]
      BY <2>3, <2>7 DEF UnStep
    <3> QED BY <2>2, <2>4, <3>1, <3>2, <3>3, ConcatFacts
  <2> QED BY <2>5, <2>6, <2>7
<1>4. Len(text) \notin Bad
  <2> HIDE DEF Bad
  <2> QED BY <1>3
<1> QED BY <1>1, <1>2, <1>4

\* The code of a character stands for it.
LEMMA UnescapeCode ==
    ASSUME NEW S, NEW c \in S, NEW u \in Seq(S), Reserved \subseteq S, CodeWords \subseteq S
    PROVE  Unescape(EscapeOf(c) \o u) = <<c>> \o Unescape(u)
<1> DEFINE x == EscapeOf(c)
           text == x \o u
<1>1. x \in Seq(S)
  BY EscapeOfType
<1>2. Len(u) \in Nat /\ Len(x) \in Nat /\ Len(text) = Len(x) + Len(u)
  BY <1>1, SeqFacts, ConcatFacts
<1>3. PICK g : Unescapes(g, Len(u), u) /\ Unescape(u) = g[Len(u)]
  BY <1>2, UnescapeIs
<1>4. PICK h : Unescapes(h, Len(text), text) /\ Unescape(text) = h[Len(text)]
  <2>1. Len(text) \in Nat
    BY <1>2
  <2> HIDE DEF text
  <2> QED BY <2>1, UnescapeIs
<1>5. \A n \in 0 .. Len(u) : h[n] = g[n]
  BY <1>1, <1>3, <1>4, UnescapeEnd
<1>6. h[Len(u)] = g[Len(u)]
  BY <1>2, <1>5
<1>7. \A i \in 1 .. Len(x) : text[i] = x[i]
  BY <1>1, ConcatFacts
<1>8. Len(text) \in 0 .. Len(text)
  BY <1>2
<1> HIDE DEF text
<1>9. h[Len(text)] = UnStep(h, Len(text), text)
  BY <1>4, <1>8 DEF Unescapes
<1>10. Len(text) - Len(text) + 1 = 1
  BY <1>2
<1>11. ASSUME NEW d \in Reserved
       PROVE  Occurs(EscapeOf(d), text, 1) <=> Len(text) >= 3 /\ \A j \in 1 .. 3 : text[j] = EscapeOf(d)[j]
  <2>1. Len(EscapeOf(d)) = 3 /\ DOMAIN EscapeOf(d) = 1 .. 3
    BY CodeType
  <2>2. \A j \in 1 .. 3 : 1 - 1 + j = j
    OBVIOUS
  <2>3. 1 - 1 + 3 <= Len(text) <=> Len(text) >= 3
    BY <1>2
  <2> QED BY <2>1, <2>2, <2>3 DEF Occurs
<1>12. CASE c \in Reserved
  <2>1. Len(x) = 3 /\ text[1] = x[1] /\ text[2] = x[2] /\ text[3] = x[3]
    BY <1>7, <1>12, CodeType
  <2>2. Len(text) >= 3 /\ Len(text) # 0 /\ Len(text) - 3 = Len(u)
    BY <1>2, <2>1
  <2>3. \A j \in 1 .. 3 : j = 1 \/ j = 2 \/ j = 3
    OBVIOUS
  <2>4. c \in CodesAt(Len(text), text)
    BY <1>10, <1>11, <1>12, <2>1, <2>2, <2>3 DEF CodesAt
  <2>5. \A d \in CodesAt(Len(text), text) : d = c
    <3> TAKE d \in CodesAt(Len(text), text)
    <3>1. d \in Reserved /\ \A j \in 1 .. 3 : text[j] = EscapeOf(d)[j]
      BY <1>10, <1>11 DEF CodesAt
    <3>2. EscapeOf(d)[2] = EscapeOf(c)[2] /\ EscapeOf(d)[3] = EscapeOf(c)[3]
      BY <2>1, <3>1
    <3> QED BY <1>12, <3>1, <3>2, CodesDiffer
  <2>6. CodesAt(Len(text), text) = {c}
    BY <2>4, <2>5
  <2>7. (CHOOSE d \in CodesAt(Len(text), text) : TRUE) = c
    BY <2>6
  <2>8. UnStep(h, Len(text), text) = <<c>> \o h[Len(u)]
    BY <2>2, <2>4, <2>7 DEF UnStep
  <2> QED BY <1>3, <1>4, <1>6, <1>9, <2>8 DEF text
<1>13. CASE c \notin Reserved
  <2>1. x = <<c>>
    BY <1>13 DEF EscapeOf, Reserved
  <2>2. Len(x) = 1 /\ text[1] = c
    BY <1>7, <2>1
  <2>3. Len(text) # 0 /\ Len(text) - 1 = Len(u) /\ Len(text) >= 1
    BY <1>2, <2>2
  <2>4. CodesAt(Len(text), text) = {}
    <3> SUFFICES ASSUME NEW d \in CodesAt(Len(text), text) PROVE FALSE
      OBVIOUS
    <3>1. d \in Reserved /\ \A j \in 1 .. 3 : text[j] = EscapeOf(d)[j]
      BY <1>10, <1>11 DEF CodesAt
    <3>2. c = "%"
      BY <2>2, <3>1, CodeType
    <3> QED BY <1>13, <3>2 DEF Reserved
  <2>5. UnStep(h, Len(text), text) = <<c>> \o h[Len(u)]
    BY <1>10, <2>2, <2>3, <2>4 DEF UnStep
  <2> QED BY <1>3, <1>4, <1>6, <1>9, <2>5 DEF text
<1> QED BY <1>12, <1>13

\* The first characters of a text, and one more.
LEMMA OneMoreChar ==
    ASSUME NEW S, NEW t \in Seq(S), NEW n \in 1 .. Len(t)
    PROVE  SubSeq(t, 1, n) = SubSeq(t, 1, n - 1) \o <<t[n]>>
<1>1. Len(t) \in Nat /\ n \in Nat /\ n - 1 \in 0 .. Len(t) /\ n \in 0 .. Len(t) /\ 1 \in 1 .. Len(t) + 1
  BY SeqFacts
<1> DEFINE p == SubSeq(t, 1, n)
           q == SubSeq(t, 1, n - 1)
<1>2. p \in Seq(S) /\ Len(p) = n /\ \A i \in 1 .. n : p[i] = t[i]
  <2>1. n - 1 + 1 = n /\ 1 - 1 = 0 /\ \A i \in 1 .. n : 1 + i - 1 = i
    BY <1>1
  <2> QED BY <1>1, <2>1, SubSeqFacts
<1>3. q \in Seq(S) /\ Len(q) = n - 1 /\ \A i \in 1 .. n - 1 : q[i] = t[i]
  <2>1. (n - 1) - 1 + 1 = n - 1 /\ 1 - 1 = 0 /\ \A i \in 1 .. n - 1 : 1 + i - 1 = i
    BY <1>1
  <2> QED BY <1>1, <2>1, SubSeqFacts
<1>4. t[n] \in S /\ <<t[n]>> \in Seq(S) /\ Len(<<t[n]>>) = 1 /\ <<t[n]>>[1] = t[n]
  BY SeqFacts, OneFacts
<1> HIDE DEF p, q
<1>5. /\ q \o <<t[n]>> \in Seq(S) /\ Len(q \o <<t[n]>>) = n
      /\ \A i \in 1 .. n - 1 : (q \o <<t[n]>>)[i] = t[i]
      /\ (q \o <<t[n]>>)[n] = t[n]
  <2>1. /\ q \o <<t[n]>> \in Seq(S) /\ Len(q \o <<t[n]>>) = Len(q) + Len(<<t[n]>>)
        /\ \A i \in 1 .. Len(q) : (q \o <<t[n]>>)[i] = q[i]
        /\ \A i \in 1 .. Len(<<t[n]>>) : (q \o <<t[n]>>)[Len(q) + i] = <<t[n]>>[i]
    BY <1>3, <1>4, ConcatFacts
  <2>2. (q \o <<t[n]>>)[Len(q) + 1] = t[n]
    BY <1>4, <2>1
  <2>3. Len(q) + 1 = n /\ Len(q) + Len(<<t[n]>>) = n
    BY <1>1, <1>3, <1>4
  <2> QED BY <1>3, <2>1, <2>2, <2>3
<1>6. \A i \in 1 .. n : i \in 1 .. n - 1 \/ i = n
  BY <1>1
<1>7. \A i \in 1 .. n : p[i] = (q \o <<t[n]>>)[i]
  BY <1>1, <1>2, <1>5, <1>6
<1>8. p = q \o <<t[n]>>
  BY <1>2, <1>5, <1>7, EqualSeqs
<1> QED BY <1>8 DEF p, q

\* All of a sequence, and nothing of it.
LEMMA WholeSeq ==
    ASSUME NEW S, NEW t \in Seq(S)
    PROVE  SubSeq(t, 1, Len(t)) = t /\ SubSeq(t, 1, 0) = <<>>
<1>1. Len(t) \in Nat /\ 1 \in 1 .. Len(t) + 1 /\ Len(t) \in 1 - 1 .. Len(t) /\ 0 \in 1 - 1 .. Len(t)
  BY SeqFacts
<1>2. /\ SubSeq(t, 1, Len(t)) \in Seq(S) /\ Len(SubSeq(t, 1, Len(t))) = Len(t) - 1 + 1
      /\ \A i \in 1 .. Len(t) - 1 + 1 : SubSeq(t, 1, Len(t))[i] = t[1 + i - 1]
  BY <1>1, SubSeqFacts
<1>3. Len(t) - 1 + 1 = Len(t) /\ \A i \in 1 .. Len(t) : 1 + i - 1 = i
  BY <1>1
<1>4. SubSeq(t, 1, Len(t)) = t
  BY <1>2, <1>3, EqualSeqs
<1>5. SubSeq(t, 1, 0) \in Seq(S) /\ Len(SubSeq(t, 1, 0)) = 0 - 1 + 1
  BY <1>1, SubSeqFacts
<1>6. 0 - 1 + 1 = 0
  OBVIOUS
<1> QED BY <1>4, <1>5, <1>6, EmptySeq

\* Every text comes back from its escaped form, whatever it holds.
THEOREM EscapeRoundTrip ==
    ASSUME NEW S, NEW text \in Seq(S)
    PROVE  Unescape(Escape(text)) = text
<1> DEFINE T == S \cup Reserved \cup CodeWords
<1>1. text \in Seq(T) /\ Len(text) \in Nat
  <2>1. \A k \in 1 .. Len(text) : text[k] \in T
    BY SeqFacts
  <2> HIDE DEF T
  <2> QED BY <2>1, WiderSeq, SeqFacts
<1>2. Reserved \subseteq T /\ CodeWords \subseteq T
  OBVIOUS
<1> HIDE DEF T
<1>3. \A c \in T : EscapeOf(c) \in Seq(T)
  BY <1>2, EscapeOfType
<1>4. PICK f : /\ f[0] = <<>> /\ \A n \in 0 .. Len(text) : f[n] \in Seq(T)
               /\ \A n \in 1 .. Len(text) : f[n] = f[n - 1] \o EscapeOf(text[n])
               /\ Escape(text) = f[Len(text)]
  BY <1>1, <1>3, EscapeStages
<1> DEFINE Good(n) == \A u \in Seq(T) : Unescape(f[n] \o u) = SubSeq(text, 1, n) \o Unescape(u)
           Bad == {n \in Nat : n <= Len(text) /\ ~Good(n)}
<1>5. Bad = {}
  <2> SUFFICES ASSUME Bad # {} PROVE FALSE
    OBVIOUS
  <2>1. PICK n \in Bad : \A k \in Bad : n <= k
    BY LeastOfSet
  <2>2. n \in Nat /\ n \in 0 .. Len(text) /\ ~Good(n)
    BY <1>1
  <2>3. CASE n = 0
    <3>1. ASSUME NEW u \in Seq(T) PROVE Unescape(f[0] \o u) = SubSeq(text, 1, 0) \o Unescape(u)
      <4>1. Unescape(u) \in Seq(T)
        BY <1>2, UnescapeType
      <4>2. <<>> \o u = u /\ <<>> \o Unescape(u) = Unescape(u)
        BY <4>1, EmptyFacts
      <4> QED BY <1>1, <1>4, <4>2, WholeSeq
    <3> QED BY <2>2, <2>3, <3>1
  <2>4. CASE n # 0
    <3>1. n - 1 \in Nat /\ n - 1 <= Len(text) /\ ~(n <= n - 1) /\ n \in 1 .. Len(text) /\ n - 1 \in 0 .. Len(text)
      BY <1>1, <2>2, <2>4
    <3>2. Good(n - 1)
      BY <2>1, <3>1
    <3> HIDE DEF Bad
    <3> DEFINE c == text[n]
    <3>3. c \in T /\ <<c>> \in Seq(T) /\ EscapeOf(c) \in Seq(T) /\ f[n - 1] \in Seq(T)
          /\ f[n] = f[n - 1] \o EscapeOf(c)
      BY <1>1, <1>3, <1>4, <3>1, SeqFacts, OneFacts
    <3>4. SubSeq(text, 1, n - 1) \in Seq(T)
      <4>1. 1 \in 1 .. Len(text) + 1 /\ n - 1 \in 1 - 1 .. Len(text)
        BY <1>1, <3>1
      <4> QED BY <1>1, <4>1, SubSeqFacts
    <3>5. SubSeq(text, 1, n) = SubSeq(text, 1, n - 1) \o <<c>>
      BY <1>1, <3>1, OneMoreChar
    <3> HIDE DEF c
    <3>6. ASSUME NEW u \in Seq(T) PROVE Unescape(f[n] \o u) = SubSeq(text, 1, n) \o Unescape(u)
      <4>1. f[n] \o u = f[n - 1] \o (EscapeOf(c) \o u) /\ EscapeOf(c) \o u \in Seq(T)
        <5>1. EscapeOf(c) \o u \in Seq(T)
          BY <3>3, ConcatFacts
        <5>2. (f[n - 1] \o EscapeOf(c)) \o u = f[n - 1] \o (EscapeOf(c) \o u)
          <6> DEFINE p == f[n - 1]
                     e == EscapeOf(c)
          <6>1. p \in Seq(T) /\ e \in Seq(T)
            BY <3>3
          <6> HIDE DEF p, e
          <6>2. (p \o e) \o u = p \o (e \o u)
            BY <6>1, ConcatAssoc, SMTT(30)
          <6> QED BY <6>2 DEF p, e
        <5> QED BY <3>3, <5>1, <5>2
      <4>2. Unescape(f[n] \o u) = SubSeq(text, 1, n - 1) \o Unescape(EscapeOf(c) \o u)
        BY <3>2, <4>1
      <4>3. Unescape(EscapeOf(c) \o u) = <<c>> \o Unescape(u)
        BY <1>2, <3>3, UnescapeCode
      <4>4. Unescape(u) \in Seq(T)
        BY <1>2, UnescapeType
      <4>5. (SubSeq(text, 1, n - 1) \o <<c>>) \o Unescape(u) = SubSeq(text, 1, n - 1) \o (<<c>> \o Unescape(u))
        <5> DEFINE p == SubSeq(text, 1, n - 1)
                   e == Unescape(u)
                   w == <<c>>
        <5>1. p \in Seq(T) /\ e \in Seq(T) /\ w \in Seq(T)
          BY <3>3, <3>4, <4>4
        <5> HIDE DEF p, e, w
        <5>2. (p \o w) \o e = p \o (w \o e)
          BY <5>1, ConcatAssoc, SMTT(30)
        <5> QED BY <5>2 DEF p, e, w
      <4> QED BY <3>5, <4>2, <4>3, <4>5
    <3> QED BY <2>2, <3>6
  <2> QED BY <2>3, <2>4
<1>6. Good(Len(text))
  <2>1. Len(text) \notin Bad
    <3> HIDE DEF Bad
    <3> QED BY <1>5
  <2> HIDE DEF Good
  <2> QED BY <1>1, <2>1
<1>7. f[Len(text)] \in Seq(T) /\ <<>> \in Seq(T)
  BY <1>1, <1>4, EmptySeq
<1>8. f[Len(text)] \o <<>> = f[Len(text)] /\ text \o <<>> = text
  BY <1>1, <1>7, EmptyFacts
<1>9. Unescape(<<>>) = <<>>
  <2>1. Len(<<>>) = 0 /\ Len(<<>>) \in Nat
    OBVIOUS
  <2>2. PICK g : Unescapes(g, Len(<<>>), <<>>) /\ Unescape(<<>>) = g[Len(<<>>)]
    BY <2>1, UnescapeIs
  <2>3. 0 \in 0 .. 0
    OBVIOUS
  <2> QED BY <2>1, <2>2, <2>3 DEF Unescapes, UnStep
<1>10. SubSeq(text, 1, Len(text)) = text
  BY <1>1, WholeSeq
<1> QED BY <1>4, <1>6, <1>7, <1>8, <1>9, <1>10

------------------------------------------------------------------------------
(* Splitting                                                                 *)

Starts(text, sep) == {1} \cup {i + 1 : i \in {j \in DOMAIN text : text[j] = sep}}
Ends(text, sep, start) == {e \in start - 1 .. Len(text) : e = Len(text) \/ text[e + 1] = sep}

\* The text holds no separator.
Free(text, sep) == \A i \in 1 .. Len(text) : text[i] # sep

\* SplitAt, by these names.
LEMMA SplitAtIs ==
    ASSUME NEW text, NEW sep
    PROVE  SplitAt(text, sep) = [start \in Starts(text, sep) |-> SubSeq(text, start, Min(Ends(text, sep, start)))]
  BY DEF SplitAt, Starts, Ends

\* Parts begin after a separator, and end before the next or with the text.
LEMMA StartsFacts ==
    ASSUME NEW S, NEW text \in Seq(S), NEW sep, NEW start \in Starts(text, sep)
    PROVE  /\ start \in 1 .. Len(text) + 1 /\ Len(text) \in Ends(text, sep, start)
           /\ Min(Ends(text, sep, start)) \in Ends(text, sep, start)
           /\ \A e \in Ends(text, sep, start) : Min(Ends(text, sep, start)) <= e
           /\ Ends(text, sep, start) \subseteq start - 1 .. Len(text)
<1>1. Len(text) \in Nat /\ DOMAIN text = 1 .. Len(text)
  BY SeqFacts
<1>2. start \in 1 .. Len(text) + 1
  BY <1>1 DEF Starts
<1>3. Len(text) \in Ends(text, sep, start)
  BY <1>1, <1>2 DEF Ends
<1>4. Ends(text, sep, start) \in SUBSET Nat
  BY <1>1, <1>2 DEF Ends
<1>5. Ends(text, sep, start) \subseteq start - 1 .. Len(text)
  BY DEF Ends
<1> QED BY <1>2, <1>3, <1>4, <1>5, MinExists

\* A text without a separator is one part.
LEMMA SplitOne ==
    ASSUME NEW S, NEW text \in Seq(S), NEW sep, Free(text, sep)
    PROVE  DOMAIN SplitAt(text, sep) = {1} /\ SplitAt(text, sep)[1] = text
<1>1. Len(text) \in Nat /\ DOMAIN text = 1 .. Len(text)
  BY SeqFacts
<1>2. Starts(text, sep) = {1}
  BY <1>1 DEF Starts, Free
<1>3. Ends(text, sep, 1) = {Len(text)}
  <2> DEFINE n == Len(text)
  <2>1. n \in Nat
    BY <1>1
  <2> HIDE DEF n
  <2>2. \A e \in 1 - 1 .. n : e = n \/ e + 1 \in 1 .. n
    BY <2>1
  <2>3. n \in 1 - 1 .. n
    BY <2>1
  <2>4. \A e \in Ends(text, sep, 1) : e = n
    BY <2>2 DEF Ends, n, Free
  <2>5. n \in Ends(text, sep, 1)
    BY <2>3 DEF Ends, n
  <2> QED BY <2>4, <2>5 DEF n
<1>4. Min({Len(text)}) = Len(text)
  BY <1>1, MinIs
<1> QED BY <1>2, <1>3, <1>4, SplitAtIs, WholeSeq

\* f is g with b at m, after all the others.
Longer(f, g, m, b) ==
    DOMAIN f = DOMAIN g \cup {m} /\ (\A i \in DOMAIN g : i \in 1 .. m - 1 /\ f[i] = g[i]) /\ f[m] = b

\* A part more, after a separator.
LEMMA SplitJoin ==
    ASSUME NEW S, NEW sep \in S, NEW a \in Seq(S), NEW b \in Seq(S), Free(b, sep),
           NEW one, one = <<sep>>, NEW text, text = (a \o one) \o b
    PROVE  Longer(SplitAt(text, sep), SplitAt(a, sep), Len(a) + 2, b)
<1> SUFFICES /\ DOMAIN SplitAt(text, sep) = DOMAIN SplitAt(a, sep) \cup {Len(a) + 2}
             /\ \A i \in DOMAIN SplitAt(a, sep) : i \in 1 .. Len(a) + 1 /\ SplitAt(text, sep)[i] = SplitAt(a, sep)[i]
             /\ SplitAt(text, sep)[Len(a) + 2] = b
  <2>1. Len(a) + 2 - 1 = Len(a) + 1
    BY SeqFacts
  <2> QED BY <2>1 DEF Longer
<1> DEFINE n == Len(a)
           k == Len(b)
<1>1. n \in Nat /\ k \in Nat /\ DOMAIN a = 1 .. n /\ one \in Seq(S) /\ Len(one) = 1 /\ one[1] = sep
  BY SeqFacts, OneFacts
<1>2. /\ a \o one \in Seq(S) /\ Len(a \o one) = n + 1 /\ (a \o one)[n + 1] = sep
      /\ \A i \in 1 .. n : (a \o one)[i] = a[i]
  BY <1>1, ConcatFacts
<1>3. text \in Seq(S) /\ Len(text) = n + 1 + k
  BY <1>2, ConcatFacts
<1>4. \A i \in 1 .. n + 1 : text[i] = (a \o one)[i]
  BY <1>2, ConcatFacts
<1>5. \A i \in 1 .. k : text[n + 1 + i] = b[i]
  <2>1. \A i \in 1 .. Len(b) : ((a \o one) \o b)[Len(a \o one) + i] = b[i]
    BY <1>2, ConcatFacts
  <2> QED BY <1>2, <2>1
<1>6. (\A i \in 1 .. n : text[i] = a[i]) /\ text[n + 1] = sep
  BY <1>1, <1>2, <1>4
<1>7. DOMAIN text = 1 .. n + 1 + k
  BY <1>3, SeqFacts
<1> HIDE DEF n, k
<1>8. \A i \in 1 .. n + 1 + k : text[i] = sep <=> i = n + 1 \/ (i \in 1 .. n /\ a[i] = sep)
  <2> TAKE i \in 1 .. n + 1 + k
  <2>1. CASE i \in 1 .. n + 1
    BY <1>1, <1>6, <2>1
  <2>2. CASE i \notin 1 .. n + 1
    <3>1. i - (n + 1) \in 1 .. k /\ n + 1 + (i - (n + 1)) = i
      BY <1>1, <2>2
    <3>2. text[i] = b[i - (n + 1)] /\ b[i - (n + 1)] # sep
      BY <1>5, <3>1 DEF k, Free
    <3>3. i # n + 1 /\ i \notin 1 .. n
      BY <1>1, <2>2
    <3> QED BY <3>2, <3>3
  <2> QED BY <2>1, <2>2
<1>9. Starts(text, sep) = Starts(a, sep) \cup {n + 2}
  <2>1. \A j : j \in {i \in DOMAIN text : text[i] = sep} <=> j = n + 1 \/ j \in {i \in DOMAIN a : a[i] = sep}
    BY <1>1, <1>7, <1>8
  <2> DEFINE X == {i \in DOMAIN text : text[i] = sep}
             Y == {i \in DOMAIN a : a[i] = sep}
  <2>2. Starts(text, sep) = {1} \cup {i + 1 : i \in X} /\ Starts(a, sep) = {1} \cup {i + 1 : i \in Y}
    BY DEF Starts
  <2> HIDE DEF X, Y
  <2>3. n + 1 + 1 = n + 2
    BY <1>1
  <2>4. X = Y \cup {n + 1}
    BY <2>1 DEF X, Y
  <2> QED BY <2>2, <2>3, <2>4
<1>10. ASSUME NEW i \in Starts(a, sep)
       PROVE  i \in 1 .. n + 1 /\ SubSeq(text, i, Min(Ends(text, sep, i))) = SubSeq(a, i, Min(Ends(a, sep, i)))
  <2> DEFINE m == Min(Ends(a, sep, i))
  <2>1. /\ i \in 1 .. n + 1 /\ m \in Ends(a, sep, i) /\ (\A e \in Ends(a, sep, i) : m <= e)
        /\ Ends(a, sep, i) \subseteq i - 1 .. n
    BY StartsFacts DEF n
  <2> HIDE DEF m
  <2>2. m \in i - 1 .. n /\ m \in Nat
    BY <1>1, <2>1
  <2>3. m = n \/ a[m + 1] = sep
    BY <2>1 DEF Ends, n
  <2>4. text[m + 1] = sep
    BY <1>1, <1>6, <2>1, <2>2, <2>3
  <2>5. m \in Ends(text, sep, i)
    BY <1>1, <1>3, <2>1, <2>2, <2>4 DEF Ends
  <2>6. ASSUME NEW e \in Ends(text, sep, i) PROVE m <= e
    <3>1. e \in i - 1 .. n + 1 + k /\ (e = n + 1 + k \/ text[e + 1] = sep)
      BY <1>3 DEF Ends
    <3>2. CASE e < n
      <4>1. text[e + 1] = a[e + 1] /\ e + 1 \in 1 .. n /\ e # n + 1 + k
        BY <1>1, <1>6, <2>1, <3>1, <3>2
      <4>2. e \in i - 1 .. n /\ a[e + 1] = sep
        BY <1>1, <2>1, <3>1, <3>2, <4>1
      <4>3. e \in Ends(a, sep, i)
        BY <4>2 DEF Ends, n
      <4> QED BY <2>1, <4>3
    <3>3. CASE ~(e < n)
      BY <1>1, <2>1, <2>2, <3>1, <3>3
    <3> QED BY <3>2, <3>3
  <2>7. Ends(text, sep, i) \in SUBSET Nat
    BY <1>1, <1>3, <2>1 DEF Ends
  <2>8. Min(Ends(text, sep, i)) = m
    BY <2>5, <2>6, <2>7, MinIs
  <2>9. SubSeq(text, i, m) = SubSeq(a, i, m)
    <3>1. i \in 1 .. Len(text) + 1 /\ m \in i - 1 .. Len(text) /\ i \in 1 .. Len(a) + 1 /\ m \in i - 1 .. Len(a)
      BY <1>1, <1>3, <2>1, <2>2 DEF n
    <3>2. /\ SubSeq(text, i, m) \in Seq(S) /\ Len(SubSeq(text, i, m)) = m - i + 1
          /\ \A j \in 1 .. m - i + 1 : SubSeq(text, i, m)[j] = text[i + j - 1]
      BY <1>3, <3>1, SubSeqFacts
    <3>3. /\ SubSeq(a, i, m) \in Seq(S) /\ Len(SubSeq(a, i, m)) = m - i + 1
          /\ \A j \in 1 .. m - i + 1 : SubSeq(a, i, m)[j] = a[i + j - 1]
      BY <3>1, SubSeqFacts
    <3>4. \A j \in 1 .. m - i + 1 : i + j - 1 \in 1 .. n
      BY <1>1, <2>1, <2>2
    <3>5. \A j \in 1 .. m - i + 1 : SubSeq(text, i, m)[j] = SubSeq(a, i, m)[j]
      BY <1>6, <3>2, <3>3, <3>4
    <3> QED BY <3>2, <3>3, <3>5, EqualSeqs
  <2> QED BY <2>1, <2>8, <2>9 DEF m
<1>11. SubSeq(text, n + 2, Min(Ends(text, sep, n + 2))) = b
  <2> DEFINE p == n + 2
             r == n + 1
             q == n + 1 + k
  <2>1. /\ p \in 1 .. q + 1 /\ q \in p - 1 .. q /\ q - p + 1 = k /\ p - 1 = r /\ q \in Nat /\ r \in Nat /\ q \in r .. q
        /\ \A j \in 1 .. k : p + j - 1 = r + j
        /\ \A e \in r .. q : e = q \/ (e + 1 \in 1 .. q /\ e + 1 # r /\ e + 1 \notin 1 .. n)
    BY <1>1
  <2>2. Len(text) = q
    BY <1>3
  <2>3. \A i \in 1 .. q : text[i] = sep <=> i = r \/ (i \in 1 .. n /\ a[i] = sep)
    BY <1>8
  <2>4. \A i \in 1 .. k : text[r + i] = b[i]
    BY <1>5
  <2> HIDE DEF p, q, r
  <2>5. \A e \in r .. q : e = q \/ text[e + 1] # sep
    BY <2>1, <2>3
  <2>6. \A e \in Ends(text, sep, p) : e = q
    BY <2>1, <2>2, <2>5 DEF Ends
  <2>7. q \in Ends(text, sep, p)
    BY <2>1, <2>2 DEF Ends
  <2>8. Ends(text, sep, p) = {q}
    BY <2>6, <2>7
  <2>9. Min({q}) = q
    <3>1. {q} \in SUBSET Nat /\ q \in {q} /\ \A x \in {q} : q <= x
      BY <2>1
    <3> QED BY <3>1, MinIs
  <2>10. /\ SubSeq(text, p, q) \in Seq(S) /\ Len(SubSeq(text, p, q)) = k
         /\ \A j \in 1 .. k : SubSeq(text, p, q)[j] = text[p + j - 1]
    <3>1. p \in 1 .. Len(text) + 1 /\ q \in p - 1 .. Len(text)
      BY <2>1, <2>2
    <3>2. /\ SubSeq(text, p, q) \in Seq(S) /\ Len(SubSeq(text, p, q)) = q - p + 1
          /\ \A j \in 1 .. q - p + 1 : SubSeq(text, p, q)[j] = text[p + j - 1]
      BY <1>3, <3>1, SubSeqFacts
    <3> QED BY <2>1, <3>2
  <2>11. \A j \in 1 .. k : SubSeq(text, p, q)[j] = b[j]
    BY <2>1, <2>4, <2>10
  <2>12. SubSeq(text, p, q) = b
    BY <2>10, <2>11, EqualSeqs DEF k
  <2>13. SubSeq(text, p, Min(Ends(text, sep, p))) = b
    BY <2>8, <2>9, <2>12
  <2> QED BY <2>13 DEF p
<1>12. n + 2 \notin Starts(a, sep)
  BY <1>1, <1>10
<1> QED BY <1>9, <1>10, <1>11, <1>12, SplitAtIs DEF n

\* The parts of a text between separators.
Parts(text, sep) == {SplitAt(text, sep)[start] : start \in DOMAIN SplitAt(text, sep)}

With(parts, b) == parts \cup {b}

\* A text without a separator is its only part.
LEMMA PartsOne ==
    ASSUME NEW S, NEW text \in Seq(S), NEW sep, Free(text, sep)
    PROVE  Parts(text, sep) = {text}
  BY SplitOne DEF Parts

\* After a separator there is one part more.
LEMMA PartsMore ==
    ASSUME NEW S, NEW sep \in S, NEW a \in Seq(S), NEW b \in Seq(S), Free(b, sep),
           NEW text, text = a \o (<<sep>> \o b)
    PROVE  Parts(text, sep) = With(Parts(a, sep), b)
<1> SUFFICES ASSUME NEW one, one = <<sep>>, text = a \o (one \o b) PROVE Parts(text, sep) = With(Parts(a, sep), b)
  OBVIOUS
<1>0. text = (a \o one) \o b
  <2>1. one \in Seq(S)
    BY OneFacts
  <2> QED BY <2>1, ConcatAssoc
<1> DEFINE f == SplitAt(text, sep)
           g == SplitAt(a, sep)
           m == Len(a) + 2
<1>1. Longer(f, g, m, b)
  BY <1>0, SplitJoin
<1>2. Parts(text, sep) = {f[i] : i \in DOMAIN f} /\ Parts(a, sep) = {g[i] : i \in DOMAIN g}
  BY DEF Parts
<1> HIDE DEF f, g, m
<1>3. {f[i] : i \in DOMAIN f} = {g[i] : i \in DOMAIN g} \cup {b}
  BY <1>1 DEF Longer
<1> QED BY <1>2, <1>3 DEF With

\* p begins one of the parts.
CutOf(p, parts) == \E w \in parts, c \in Nat : c <= Len(w) /\ p = SubSeq(w, 1, c)

\* The parts of the beginning of a text begin parts of the text.
LEMMA PartsPrefix ==
    ASSUME NEW S, NEW q \in Seq(S), NEW r \in Seq(S), NEW sep, NEW p \in Parts(q, sep)
    PROVE  CutOf(p, Parts(q \o r, sep))
<1> DEFINE t == q \o r
           d == Len(q)
           l == Len(t)
<1>1. /\ t \in Seq(S) /\ Len(t) = Len(q) + Len(r) /\ Len(q) \in Nat /\ Len(r) \in Nat
      /\ DOMAIN q = 1 .. Len(q) /\ DOMAIN t = 1 .. Len(t) /\ \A i \in 1 .. Len(q) : t[i] = q[i]
  BY ConcatFacts, SeqFacts
<1>2. PICK s \in Starts(q, sep) : p = SubSeq(q, s, Min(Ends(q, sep, s)))
  BY SplitAtIs DEF Parts
<1> DEFINE m == Min(Ends(q, sep, s))
           e == Min(Ends(t, sep, s))
<1> HIDE DEF t, d, l
<1>3. /\ d \in Nat /\ l \in Nat /\ d <= l /\ (\A i \in 1 .. d : i \in 1 .. l)
      /\ DOMAIN q = 1 .. d /\ DOMAIN t = 1 .. l /\ \A i \in 1 .. d : t[i] = q[i]
  BY <1>1 DEF t, d, l
<1>4. s \in Starts(t, sep)
  BY <1>2, <1>3 DEF Starts
<1>5. s \in 1 .. d + 1 /\ m \in Ends(q, sep, s) /\ (\A x \in Ends(q, sep, s) : m <= x)
  BY <1>2, StartsFacts DEF d
<1>6. s \in 1 .. l + 1 /\ e \in Ends(t, sep, s)
  BY <1>1, <1>4, StartsFacts DEF l
<1> HIDE DEF m, e
<1>7. m \in s - 1 .. d /\ e \in s - 1 .. l /\ (e = l \/ t[e + 1] = sep)
  BY <1>5, <1>6 DEF Ends, d, l
<1>8. m <= e
  <2>1. CASE e >= d
    BY <1>3, <1>5, <1>6, <1>7, <2>1
  <2>2. CASE ~(e >= d)
    <3>1. e \in s - 1 .. d /\ e + 1 \in 1 .. d /\ e # l
      BY <1>3, <1>5, <1>6, <1>7, <2>2
    <3>2. q[e + 1] = sep
      BY <1>3, <1>7, <3>1
    <3>3. e \in Ends(q, sep, s)
      BY <3>1, <3>2 DEF Ends, d
    <3> QED BY <1>5, <3>3
  <2> QED BY <2>1, <2>2
<1> DEFINE w == SubSeq(t, s, e)
           c == m - s + 1
<1>9. w \in Seq(S) /\ Len(w) = e - s + 1 /\ \A i \in 1 .. e - s + 1 : w[i] = t[s + i - 1]
  <2>1. s \in 1 .. Len(t) + 1 /\ e \in s - 1 .. Len(t)
    BY <1>6, <1>7 DEF l
  <2> QED BY <1>1, <2>1, SubSeqFacts
<1>10. p \in Seq(S) /\ Len(p) = c /\ \A i \in 1 .. c : p[i] = q[s + i - 1]
  <2>1. s \in 1 .. Len(q) + 1 /\ m \in s - 1 .. Len(q)
    BY <1>5, <1>7 DEF d
  <2>2. p = SubSeq(q, s, m)
    BY <1>2 DEF m
  <2> HIDE DEF w
  <2> QED BY <2>1, <2>2, SubSeqFacts
<1>11. w \in Parts(t, sep)
  <2> HIDE DEF w
  <2>1. w = SplitAt(t, sep)[s] /\ s \in DOMAIN SplitAt(t, sep)
    BY <1>4, SplitAtIs DEF e, w
  <2> QED BY <2>1 DEF Parts
<1>12. c \in Nat /\ c <= Len(w) /\ \A i \in 1 .. c : s + i - 1 \in 1 .. d /\ i \in 1 .. e - s + 1
  <2> HIDE DEF w
  <2> QED BY <1>3, <1>5, <1>6, <1>7, <1>8, <1>9
<1> HIDE DEF w, c
<1>13. SubSeq(w, 1, c) \in Seq(S) /\ Len(SubSeq(w, 1, c)) = c /\ \A i \in 1 .. c : SubSeq(w, 1, c)[i] = w[i]
  <2>1. 1 \in 1 .. Len(w) + 1 /\ c \in 1 - 1 .. Len(w) /\ c - 1 + 1 = c /\ \A i \in 1 .. c : 1 + i - 1 = i
    BY <1>9, <1>12, SeqFacts
  <2>2. /\ SubSeq(w, 1, c) \in Seq(S) /\ Len(SubSeq(w, 1, c)) = c - 1 + 1
        /\ \A i \in 1 .. c - 1 + 1 : SubSeq(w, 1, c)[i] = w[1 + i - 1]
    BY <1>9, <2>1, SubSeqFacts
  <2> QED BY <2>1, <2>2
<1>14. \A i \in 1 .. c : p[i] = SubSeq(w, 1, c)[i]
  BY <1>3, <1>9, <1>10, <1>12, <1>13
<1>15. p = SubSeq(w, 1, c)
  BY <1>10, <1>13, <1>14, EqualSeqs
<1> QED BY <1>11, <1>12, <1>15 DEF t, CutOf

Elements(ts) == {ts[k] : k \in 1 .. Len(ts)}

\* Texts without separators are the parts of the text they are joined to.
LEMMA JoinedParts ==
    ASSUME NEW S, NEW sep \in S, NEW ts \in Seq(Seq(S)), Len(ts) > 0,
           \A k \in 1 .. Len(ts) : Free(ts[k], sep)
    PROVE  Parts(Joined(ts, <<sep>>), sep) = Elements(ts)
<1> DEFINE f == [i \in DOMAIN ts |-> IF i = 1 THEN ts[i] ELSE <<sep>> \o ts[i]]
           d == Len(ts)
<1>1. /\ d \in Nat /\ d > 0 /\ DOMAIN ts = 1 .. d /\ \A i \in 1 .. d : ts[i] \in Seq(S) /\ i \in DOMAIN ts
  BY SeqFacts
<1>2. <<sep>> \in Seq(S)
  BY OneFacts
<1>3. \A i \in 1 .. d : f[i] \in Seq(S)
  BY <1>1, <1>2, ConcatFacts
<1>4. f = [i \in DOMAIN ts |-> f[i]] /\ Joined(ts, <<sep>>) = FlattenSeq(f)
  BY DEF Joined
<1>5. \A i \in 1 .. d : f[i] = IF i = 1 THEN ts[i] ELSE <<sep>> \o ts[i]
  BY <1>1
<1> HIDE DEF f
<1>6. f \in Seq(Seq(S)) /\ Len(f) = d
  BY <1>3, <1>4, MapIsSeq
<1>7. PICK g : Stages(g, f, S) /\ FlattenSeq(f) = g[d]
  BY <1>6, FlattenStages
<1> HIDE DEF d
<1>8. g[0] = <<>> /\ (\A n \in 0 .. d : g[n] \in Seq(S)) /\ \A n \in 1 .. d : g[n] = g[n - 1] \o f[n]
  BY <1>6, <1>7 DEF Stages
<1>9. \A k \in 1 .. d : Free(ts[k], sep)
  BY DEF d
<1> DEFINE Good(n) == Parts(g[n], sep) = {ts[k] : k \in 1 .. n}
           Bad == {n \in Nat : n \in 1 .. d /\ ~ Good(n)}
<1>10. Bad = {}
  <2> SUFFICES ASSUME Bad # {} PROVE FALSE
    OBVIOUS
  <2>1. PICK n \in Bad : \A k \in Bad : n <= k
    BY LeastOfSet
  <2>2. n \in 1 .. d /\ ~ Good(n) /\ n \in Nat
    OBVIOUS
  <2>3. CASE n = 1
    <3>0. n - 1 = 0 /\ f[n] = ts[n] /\ g[n] = g[n - 1] \o f[n]
      <4> HIDE DEF Bad, Good
      <4>1. n - 1 = 0
        BY <2>3
      <4>2. f[n] = ts[n]
        BY <1>5, <2>2, <2>3
      <4>3. g[n] = g[n - 1] \o f[n]
        BY <1>8, <2>2
      <4> QED BY <4>1, <4>2, <4>3
    <3>1. g[1] = <<>> \o ts[1] /\ ts[1] \in Seq(S) /\ Free(ts[1], sep)
      BY <1>1, <1>8, <1>9, <2>2, <2>3, <3>0
    <3>2. g[1] = ts[1]
      BY <3>1, EmptyFacts
    <3>3. Parts(g[1], sep) = {ts[1]}
      <4> HIDE DEF Bad
      <4> QED BY <3>1, <3>2, PartsOne
    <3>4. {ts[k] : k \in 1 .. 1} = {ts[1]}
      OBVIOUS
    <3> QED BY <2>2, <2>3, <3>3, <3>4
  <2>4. CASE n # 1
    <3>1. n - 1 \in Nat /\ n - 1 \in 1 .. d /\ ~(n <= n - 1) /\ n - 1 \in 0 .. d
      BY <1>1, <2>2, <2>4
    <3>2. Good(n - 1)
      BY <2>1, <3>1
    <3> DEFINE a == g[n - 1]
               b == ts[n]
    <3>3. a \in Seq(S) /\ b \in Seq(S) /\ Free(b, sep) /\ g[n] = a \o (<<sep>> \o b)
      BY <1>1, <1>5, <1>8, <1>9, <2>2, <2>4, <3>1
    <3> HIDE DEF a, b, Bad, Good
    <3>5. Parts(g[n], sep) = Parts(a, sep) \cup {b}
      <4> DEFINE w == g[n]
      <4>1. w = a \o (<<sep>> \o b) /\ Free(b, sep) /\ a \in Seq(S) /\ b \in Seq(S)
        BY <3>3
      <4> HIDE DEF w
      <4>2. Parts(w, sep) = With(Parts(a, sep), b)
        BY <4>1, PartsMore
      <4> QED BY <4>2 DEF w, With
    <3>6. Parts(a, sep) = {ts[k] : k \in 1 .. n - 1}
      BY <3>2 DEF Good, a
    <3>7. {ts[k] : k \in 1 .. n} = {ts[k] : k \in 1 .. n - 1} \cup {ts[n]}
      <4>1. 1 .. n = (1 .. n - 1) \cup {n}
        BY <2>2
      <4> QED BY <4>1
    <3>8. Good(n)
      BY <3>5, <3>6, <3>7 DEF Good, b
    <3> QED BY <2>2, <3>8
  <2> QED BY <2>3, <2>4
<1>11. d \in 1 .. d /\ d \in Nat
  BY <1>1
<1>12. Good(d)
  <2>1. d \notin Bad
    <3> HIDE DEF Bad
    <3> QED BY <1>10
  <2> HIDE DEF Good
  <2> QED BY <1>11, <2>1
<1> QED BY <1>4, <1>7, <1>12 DEF d, Elements

------------------------------------------------------------------------------
(* Keys                                                                      *)

\* The keys in their order.
LEMMA KeyTable ==
    /\ Len(KeyOrder) = 27 /\ DOMAIN KeyOrder = 1 .. 27
    /\ KeyOrder[1] = "distro" /\ KeyOrder[2] = "kernel" /\ KeyOrder[3] = "arch" /\ KeyOrder[4] = "machine_id"
    /\ KeyOrder[5] = "hw_vendor" /\ KeyOrder[6] = "hw_model" /\ KeyOrder[7] = "hw_serial" /\ KeyOrder[8] = "bios"
    /\ KeyOrder[9] = "cpu" /\ KeyOrder[10] = "cpu_count" /\ KeyOrder[11] = "ram" /\ KeyOrder[12] = "boot_id"
    /\ KeyOrder[13] = "virt" /\ KeyOrder[14] = "secure_boot" /\ KeyOrder[15] = "disk_enc" /\ KeyOrder[16] = "selinux"
    /\ KeyOrder[17] = "apparmor" /\ KeyOrder[18] = "tz" /\ KeyOrder[19] = "nic_macs" /\ KeyOrder[20] = "mode"
    /\ KeyOrder[21] = "collector_caps" /\ KeyOrder[22] = "redacted_keys" /\ KeyOrder[23] = "truncated"
    /\ KeyOrder[24] = "collector_warning" /\ KeyOrder[25] = "fingerprint" /\ KeyOrder[26] = "page_size"
    /\ KeyOrder[27] = "raw_os"
  BY DEF KeyOrder, FieldOrder, OtherKeys

\* No key is listed twice.
LEMMA KeysDiffer == \A i, j \in 1 .. 27 : KeyOrder[i] = KeyOrder[j] => i = j
  BY KeyTable

Listed ==
    {"distro", "kernel", "arch", "machine_id", "hw_vendor", "hw_model", "hw_serial", "bios", "cpu", "cpu_count",
     "ram", "boot_id", "virt", "secure_boot", "disk_enc", "selinux", "apparmor", "tz", "nic_macs",
     "mode", "collector_caps", "redacted_keys", "truncated", "collector_warning", "fingerprint", "page_size", "raw_os"}

\* The keys, as a sequence and as a set.
LEMMA KeysFacts ==
    /\ KeyOrder \in Seq(Keys) /\ \A k \in Keys : \E i \in 1 .. 27 : KeyOrder[i] = k
    /\ {"truncated", "collector_warning", "raw_os", "distro", "kernel", "arch"} \subseteq Keys
<1>1. KeyOrder = [i \in 1 .. 27 |-> KeyOrder[i]]
  <2>1. KeyOrder = [i \in DOMAIN KeyOrder |-> KeyOrder[i]]
    BY DEF KeyOrder, FieldOrder, OtherKeys
  <2> QED BY <2>1, KeyTable
<1>2. \A i \in 1 .. 27 : KeyOrder[i] \in Keys
  BY KeyTable DEF Keys, ToSet
<1>3. \A k \in Keys : \E i \in 1 .. 27 : KeyOrder[i] = k
  BY KeyTable DEF Keys, ToSet
<1>4. KeyOrder \in Seq(Keys)
  BY <1>1, <1>2, FunctionIsSeq
<1>5. {"truncated", "collector_warning", "raw_os", "distro", "kernel", "arch"} \subseteq Keys
  BY <1>2, KeyTable
<1> QED BY <1>3, <1>4, <1>5

\* The characters that separate, by names of their own.
Semicolon == ";"
Blank == " "

\* No key is a separator of the format.
LEMMA KeysArePlain == \A k \in Keys : k # Semicolon /\ k # "=" /\ k # Blank
<1>1. \A i \in 1 .. 27 : KeyOrder[i] \in Listed
  BY KeyTable DEF Listed
<1>2. \A k \in Listed : k # Semicolon /\ k # "=" /\ k # Blank
  BY Zenon DEF Listed, Semicolon, Blank
<1> QED BY <1>1, <1>2, KeysFacts

------------------------------------------------------------------------------
(* Pairs                                                                     *)

EqualsAt(p) == Min({i \in DOMAIN p : p[i] = "="})
KeyOf(p) == Strip(SubSeq(p, 1, EqualsAt(p) - 1))
ValueOf(p) == Unescape(SubSeq(p, EqualsAt(p) + 1, Len(p)))
Readable(p) == "=" \in ToSet(p) /\ ValidKey(KeyOf(p))
PairAt(body, i) == SplitAt(body, Semicolon)[i]
ReadIn(body) == {i \in DOMAIN SplitAt(body, Semicolon) : Readable(PairAt(body, i))}
KeysRead(body) == {KeyOf(PairAt(body, i)) : i \in ReadIn(body)}
LastOf(body, key) == PairAt(body, Max({i \in ReadIn(body) : KeyOf(PairAt(body, i)) = key}))

\* PairsIn, by these names.
LEMMA PairsInIs ==
    ASSUME NEW body
    PROVE  PairsIn(body) = [key \in KeysRead(body) |-> ValueOf(LastOf(body, key))]
  BY DEF PairsIn, EqualsAt, KeyOf, ValueOf, Readable, PairAt, ReadIn, KeysRead, LastOf, Semicolon

\* The positions of the pairs of a key; the last one is among them.
LEMMA LastOfFacts ==
    ASSUME NEW S, NEW body \in Seq(S), NEW key \in KeysRead(body)
    PROVE  \E i \in ReadIn(body) : KeyOf(PairAt(body, i)) = key /\ LastOf(body, key) = PairAt(body, i)
<1> DEFINE T == {i \in ReadIn(body) : KeyOf(PairAt(body, i)) = key}
           d == Len(body) + 1
<1>1. d \in Nat /\ \A x \in 1 .. Len(body) + 1 : x \in 0 .. d
  BY SeqFacts
<1>2. ReadIn(body) \subseteq 0 .. d
  <2>1. DOMAIN SplitAt(body, Semicolon) = Starts(body, Semicolon)
    BY SplitAtIs
  <2>2. \A s \in Starts(body, Semicolon) : s \in 1 .. Len(body) + 1
    BY StartsFacts
  <2> HIDE DEF d
  <2> QED BY <1>1, <2>1, <2>2 DEF ReadIn
<1>3. T # {} /\ T \subseteq ReadIn(body)
  <2>1. PICK i \in ReadIn(body) : key = KeyOf(PairAt(body, i))
    BY DEF KeysRead
  <2> QED BY <2>1
<1> HIDE DEF d
<1>4. Max(T) \in T
  <2>1. T \in SUBSET (0 .. d)
    BY <1>2
  <2> HIDE DEF T
  <2> QED BY <1>1, <1>3, <2>1, MaxExists
<1>5. LastOf(body, key) = PairAt(body, Max(T))
  BY DEF LastOf
<1> QED BY <1>4, <1>5

\* Reads(p, key, value): the part p is a pair of this key and value.
Reads(p, key, value) == Readable(p) /\ KeyOf(p) = key /\ ValueOf(p) = value

\* What is read are the pairs among the parts.
LEMMA PairsFacts ==
    ASSUME NEW S, NEW body \in Seq(S)
    PROVE  /\ \A p \in Parts(body, Semicolon) : Readable(p) => KeyOf(p) \in DOMAIN PairsIn(body)
           /\ \A key \in DOMAIN PairsIn(body) : \E p \in Parts(body, Semicolon) : Reads(p, key, PairsIn(body)[key])
<1>1. DOMAIN PairsIn(body) = KeysRead(body) /\ \A key \in KeysRead(body) : PairsIn(body)[key] = ValueOf(LastOf(body, key))
  BY PairsInIs
<1>2. \A i \in DOMAIN SplitAt(body, Semicolon) : PairAt(body, i) \in Parts(body, Semicolon)
  BY DEF Parts, PairAt
<1>3. ASSUME NEW p \in Parts(body, Semicolon), Readable(p) PROVE KeyOf(p) \in DOMAIN PairsIn(body)
  <2>1. PICK i \in DOMAIN SplitAt(body, Semicolon) : p = PairAt(body, i)
    BY DEF Parts, PairAt
  <2>2. i \in ReadIn(body)
    BY <1>3, <2>1 DEF ReadIn
  <2> QED BY <1>1, <2>1, <2>2 DEF KeysRead
<1>4. ASSUME NEW key \in DOMAIN PairsIn(body) PROVE \E p \in Parts(body, Semicolon) : Reads(p, key, PairsIn(body)[key])
  <2>1. PICK i \in ReadIn(body) : KeyOf(PairAt(body, i)) = key /\ LastOf(body, key) = PairAt(body, i)
    BY <1>1, LastOfFacts
  <2>2. Readable(PairAt(body, i)) /\ i \in DOMAIN SplitAt(body, Semicolon)
    BY DEF ReadIn
  <2> QED BY <1>1, <1>2, <2>1, <2>2 DEF Reads
<1> QED BY <1>3, <1>4

\* The last pair of a key is the one that counts.
LEMMA PairsLast ==
    ASSUME NEW S, Semicolon \in S, NEW a \in Seq(S), NEW b \in Seq(S), Free(b, Semicolon), Readable(b),
           NEW body, body = a \o (<<Semicolon>> \o b)
    PROVE  KeyOf(b) \in DOMAIN PairsIn(body) /\ PairsIn(body)[KeyOf(b)] = ValueOf(b)
<1> DEFINE m == Len(a) + 2
           T == {i \in ReadIn(body) : KeyOf(PairAt(body, i)) = KeyOf(b)}
<1>1. Longer(SplitAt(body, Semicolon), SplitAt(a, Semicolon), m, b)
  <2> SUFFICES ASSUME NEW one, one = <<Semicolon>>, body = a \o (one \o b), NEW sep \in S, sep = Semicolon, Free(b, sep)
               PROVE  Longer(SplitAt(body, sep), SplitAt(a, sep), Len(a) + 2, b)
    OBVIOUS
  <2>1. one = <<sep>>
    OBVIOUS
  <2>2. one \in Seq(S)
    BY <2>1, OneFacts
  <2>3. body = (a \o one) \o b
    BY <2>2, ConcatAssoc, SMTT(30)
  <2> QED BY <2>1, <2>3, SplitJoin
<1>2. m \in Nat
  BY SeqFacts
<1> HIDE DEF m
<1>3. PairAt(body, m) = b /\ m \in ReadIn(body) /\ \A i \in ReadIn(body) : i \in Nat /\ i <= m
  BY <1>1, <1>2 DEF Longer, PairAt, ReadIn
<1>4. m \in T /\ T \in SUBSET Nat /\ \A x \in T : x <= m
  BY <1>3
<1>5. Max(T) = m
  <2> HIDE DEF T
  <2> QED BY <1>4, MaxIs
<1>6. LastOf(body, KeyOf(b)) = b /\ KeyOf(b) \in KeysRead(body)
  BY <1>3, <1>5 DEF LastOf, KeysRead
<1> QED BY <1>6, PairsInIs

\* A text that begins with a key and the sign is read as a pair of this key.
LEMMA KeyReads ==
    ASSUME NEW S, NEW p \in Seq(S), Len(p) >= 2, NEW k \in Keys, p[1] = k, p[2] = "="
    PROVE  EqualsAt(p) = 2 /\ Readable(p) /\ KeyOf(p) = <<k>>
<1>1. DOMAIN p = 1 .. Len(p) /\ Len(p) \in Nat /\ k \in S
  BY SeqFacts
<1>2. k # "=" /\ k # Blank
  BY KeysArePlain
<1> DEFINE T == {i \in DOMAIN p : p[i] = "="}
<1>3. EqualsAt(p) = 2
  <2>1. 2 \in T
    BY <1>1
  <2>2. T \in SUBSET Nat /\ \A i \in T : 2 <= i
    <3>1. \A i \in T : i \in Nat /\ i # 1 /\ i >= 1
      BY <1>1, <1>2
    <3> HIDE DEF T
    <3> QED BY <3>1
  <2> HIDE DEF T
  <2>3. Min(T) = 2
    BY <2>1, <2>2, MinIs
  <2> QED BY <2>3 DEF T, EqualsAt
<1>4. SubSeq(p, 1, EqualsAt(p) - 1) = <<k>>
  <2>1. 1 \in 1 .. Len(p) + 1 /\ 1 \in 1 - 1 .. Len(p) /\ 1 - 1 + 1 = 1 /\ 1 + 1 - 1 = 1 /\ EqualsAt(p) - 1 = 1
    BY <1>1, <1>3
  <2>2. /\ SubSeq(p, 1, 1) \in Seq(S) /\ Len(SubSeq(p, 1, 1)) = 1 - 1 + 1
        /\ \A i \in 1 .. 1 - 1 + 1 : SubSeq(p, 1, 1)[i] = p[1 + i - 1]
    BY <2>1, SubSeqFacts
  <2> DEFINE q == SubSeq(p, 1, 1)
             r == <<k>>
  <2>3. q \in Seq(S) /\ Len(q) = 1 /\ q[1] = k
    BY <2>1, <2>2
  <2>4. r \in Seq(S) /\ Len(r) = 1 /\ r[1] = k
    BY <1>1, OneFacts
  <2> HIDE DEF q, r
  <2>5. q = r
    BY <2>3, <2>4, EqualSeqs
  <2> QED BY <2>1, <2>5 DEF q, r
<1>5. Strip(<<k>>) = <<k>>
  <2> DEFINE U == {i \in DOMAIN <<k>> : <<k>>[i] # Blank}
  <2>1. U = {1}
    BY <1>2
  <2>2. Max({1}) = 1 /\ Min({1}) = 1
    <3>1. {1} \in SUBSET Nat /\ 1 \in {1} /\ \A x \in {1} : x <= 1 /\ 1 <= x
      OBVIOUS
    <3> QED BY <3>1, MaxIs, MinIs
  <2>3. Strip(<<k>>) = [i \in 1 .. (IF U = {} THEN 0 ELSE Max(U) - Min(U) + 1) |-> <<k>>[Min(U) + i - 1]]
    BY DEF Strip, Blank
  <2> HIDE DEF U
  <2>4. U # {} /\ Max(U) - Min(U) + 1 = 1 /\ Min(U) = 1
    BY <2>1, <2>2
  <2>5. Strip(<<k>>) = [i \in 1 .. 1 |-> <<k>>[1 + i - 1]]
    BY <2>3, <2>4
  <2>6. \A i \in 1 .. 1 : <<k>>[1 + i - 1] = k
    OBVIOUS
  <2>7. Strip(<<k>>) = [i \in 1 .. 1 |-> k]
    BY <2>5, <2>6
  <2>8. <<k>> = [i \in 1 .. 1 |-> k]
    OBVIOUS
  <2> QED BY <2>7, <2>8
<1>6. KeyOf(p) = <<k>>
  BY <1>4, <1>5 DEF KeyOf
<1>7. ValidKey(<<k>>)
  BY DEF ValidKey
<1>8. "=" \in ToSet(p)
  BY <1>1 DEF ToSet
<1> QED BY <1>3, <1>6, <1>7, <1>8 DEF Readable

\* v is what follows the first n of w.
Follows(w, n, v) == \A i \in 1 .. Len(v) : w[n + i] = v[i]

\* After its first part, a text goes on with its second.
LEMMA HeadFacts ==
    ASSUME NEW S, NEW h \in Seq(S), NEW v \in Seq(S)
    PROVE  Follows(h \o v, Len(h), v)
  BY ConcatFacts DEF Follows

\* A pair, written out.
PairText(k, v) == <<k, "=">> \o v

\* What a pair looks like from its beginning.
LEMMA PairTextFacts ==
    ASSUME NEW S, NEW k \in S, "=" \in S, NEW v \in Seq(S)
    PROVE  /\ PairText(k, v) \in Seq(S) /\ Len(PairText(k, v)) = 2 + Len(v) /\ Len(v) \in Nat
           /\ PairText(k, v)[1] = k /\ PairText(k, v)[2] = "=" /\ \A i \in 1 .. Len(v) : PairText(k, v)[2 + i] = v[i]
<1> DEFINE h == <<k, "=">>
<1>1. h \in Seq(S) /\ Len(h) = 2 /\ h[1] = k /\ h[2] = "="
  OBVIOUS
<1> HIDE DEF h
<1>2. h \o v \in Seq(S) /\ Len(h \o v) = Len(h) + Len(v)
  BY <1>1, ConcatFacts
<1>4. \A i \in 1 .. Len(h) : (h \o v)[i] = h[i]
  BY <1>1, ConcatFacts
<1>5. \A i \in 1 .. Len(v) : (h \o v)[2 + i] = v[i]
  <2>1. Follows(h \o v, Len(h), v)
    BY <1>1, HeadFacts
  <2>2. Follows(h \o v, 2, v)
    BY <1>1, <2>1
  <2> QED BY <2>2 DEF Follows
<1>3. PairText(k, v) = h \o v
  BY DEF PairText, h
<1> QED BY <1>1, <1>2, <1>3, <1>4, <1>5, SeqFacts

\* A pair reads as it was written, ...
LEMMA PairReads ==
    ASSUME NEW S, NEW k \in Keys, k \in S, "=" \in S, NEW v \in Seq(S)
    PROVE  Reads(PairText(k, v), <<k>>, Unescape(v))
<1> DEFINE p == PairText(k, v)
<1>1. /\ p \in Seq(S) /\ Len(p) = 2 + Len(v) /\ Len(v) \in Nat /\ p[1] = k /\ p[2] = "="
      /\ \A i \in 1 .. Len(v) : p[2 + i] = v[i]
  BY PairTextFacts
<1> HIDE DEF p
<1>2. EqualsAt(p) = 2 /\ Readable(p) /\ KeyOf(p) = <<k>>
  BY <1>1, KeyReads
<1>3. SubSeq(p, 3, Len(p)) = v
  <2> DEFINE l == Len(p)
             q == SubSeq(p, 3, l)
  <2>1. 3 \in 1 .. Len(p) + 1 /\ l \in 3 - 1 .. Len(p) /\ l - 3 + 1 = Len(v) /\ \A i \in 1 .. Len(v) : 3 + i - 1 = 2 + i
    BY <1>1
  <2> HIDE DEF l
  <2>2. q \in Seq(S) /\ Len(q) = l - 3 + 1 /\ \A i \in 1 .. l - 3 + 1 : q[i] = p[3 + i - 1]
    BY <1>1, <2>1, SubSeqFacts
  <2> HIDE DEF q
  <2>3. q = v
    BY <1>1, <2>1, <2>2, EqualSeqs
  <2> QED BY <2>3 DEF q, l
<1>4. ValueOf(p) = Unescape(v)
  <2>1. EqualsAt(p) + 1 = 3
    BY <1>2
  <2> QED BY <1>3, <2>1 DEF ValueOf
<1> QED BY <1>2, <1>4 DEF Reads, p

\* ... and what is left of one that is cut is no pair of another key.
LEMMA CutPairReads ==
    ASSUME NEW S, NEW k \in Keys, k \in S, "=" \in S, NEW v \in Seq(S), NEW c \in Nat, c <= Len(PairText(k, v)),
           Readable(SubSeq(PairText(k, v), 1, c))
    PROVE  KeyOf(SubSeq(PairText(k, v), 1, c)) = <<k>>
<1> DEFINE p == PairText(k, v)
           q == SubSeq(p, 1, c)
<1>1. p \in Seq(S) /\ Len(p) = 2 + Len(v) /\ Len(v) \in Nat /\ p[1] = k /\ p[2] = "="
  BY PairTextFacts
<1>2. q \in Seq(S) /\ Len(q) = c /\ \A i \in 1 .. c : q[i] = p[i]
  <2> HIDE DEF p
  <2>1. 1 \in 1 .. Len(p) + 1 /\ c \in 1 - 1 .. Len(p) /\ c - 1 + 1 = c /\ \A i \in 1 .. c : 1 + i - 1 = i
    BY <1>1 DEF p
  <2>2. q \in Seq(S) /\ Len(q) = c - 1 + 1 /\ \A i \in 1 .. c - 1 + 1 : q[i] = p[1 + i - 1]
    BY <1>1, <2>1, SubSeqFacts
  <2> HIDE DEF q
  <2> QED BY <2>1, <2>2
<1>3. Readable(q)
  OBVIOUS
<1> HIDE DEF p, q
<1>4. c >= 2
  <2>1. PICK i \in DOMAIN q : q[i] = "="
    BY <1>3 DEF Readable, ToSet
  <2>2. i \in 1 .. c /\ DOMAIN q = 1 .. c
    BY <1>2, <2>1, SeqFacts
  <2>3. k # "="
    BY KeysArePlain
  <2>4. i # 1
    BY <1>1, <1>2, <2>1, <2>2, <2>3
  <2> QED BY <2>2, <2>4
<1>5. q[1] = k /\ q[2] = "=" /\ Len(q) >= 2
  BY <1>1, <1>2, <1>4
<1>6. KeyOf(q) = <<k>>
  BY <1>2, <1>5, KeyReads
<1> QED BY <1>6 DEF p, q

------------------------------------------------------------------------------
(* Bodies                                                                    *)

BodyOf(pairs) == Joined([i \in DOMAIN pairs |-> <<pairs[i].key, "=">> \o pairs[i].value], <<Semicolon>>)
TextsOf(pairs) == [i \in DOMAIN pairs |-> PairText(pairs[i].key, pairs[i].value)]
\* Pairs whose values hold no semicolon.
Pairs(S) == {p \in [key : Keys, value : Seq(S)] : Free(p.value, Semicolon)}

\* The pairs, written out.
LEMMA TextsOfFacts ==
    ASSUME NEW S, Keys \subseteq S, "=" \in S, NEW pairs \in Seq(Pairs(S))
    PROVE  /\ TextsOf(pairs) \in Seq(Seq(S)) /\ Len(TextsOf(pairs)) = Len(pairs) /\ Len(pairs) \in Nat
           /\ \A i \in 1 .. Len(pairs) :
                /\ pairs[i] \in Pairs(S) /\ pairs[i].key \in Keys /\ pairs[i].key \in S /\ pairs[i].value \in Seq(S)
                /\ TextsOf(pairs)[i] = PairText(pairs[i].key, pairs[i].value) /\ Free(TextsOf(pairs)[i], Semicolon)
           /\ BodyOf(pairs) = Joined(TextsOf(pairs), <<Semicolon>>)
<1>1. Len(pairs) \in Nat /\ DOMAIN pairs = 1 .. Len(pairs) /\ \A i \in 1 .. Len(pairs) : pairs[i] \in Pairs(S)
  BY SeqFacts
<1>2. \A i \in 1 .. Len(pairs) :
        pairs[i].key \in Keys /\ pairs[i].key \in S /\ pairs[i].value \in Seq(S) /\ Free(pairs[i].value, Semicolon)
  BY <1>1 DEF Pairs
<1> DEFINE ts == TextsOf(pairs)
<1>3. \A i \in 1 .. Len(pairs) : ts[i] = PairText(pairs[i].key, pairs[i].value)
  BY <1>1 DEF TextsOf
<1>4. ts = [i \in DOMAIN pairs |-> ts[i]]
  BY DEF TextsOf
<1>5. BodyOf(pairs) = Joined(ts, <<Semicolon>>)
  BY DEF BodyOf, TextsOf, PairText
<1> HIDE DEF ts
<1>6. ASSUME NEW i \in 1 .. Len(pairs) PROVE ts[i] \in Seq(S) /\ Free(ts[i], Semicolon)
  <2> DEFINE k == pairs[i].key
             v == pairs[i].value
             p == PairText(k, v)
  <2>1. k \in Keys /\ k \in S /\ v \in Seq(S) /\ Free(v, Semicolon) /\ ts[i] = p
    BY <1>2, <1>3
  <2> HIDE DEF k, v
  <2>2. /\ p \in Seq(S) /\ Len(p) = 2 + Len(v) /\ Len(v) \in Nat /\ p[1] = k /\ p[2] = "="
        /\ \A j \in 1 .. Len(v) : p[2 + j] = v[j]
    BY <2>1, PairTextFacts
  <2> HIDE DEF p
  <2>3. k # Semicolon /\ "=" # Semicolon
    <3>1. "=" # Semicolon
      BY Zenon DEF Semicolon
    <3> QED BY <2>1, <3>1, KeysArePlain
  <2>4. ASSUME NEW j \in 1 .. Len(p) PROVE p[j] # Semicolon
    <3>1. CASE j > 2
      <4>1. j - 2 \in 1 .. Len(v) /\ 2 + (j - 2) = j
        BY <2>2, <3>1
      <4>2. p[j] = v[j - 2]
        BY <2>2, <4>1
      <4> QED BY <2>1, <4>1, <4>2 DEF Free
    <3>2. CASE ~(j > 2)
      <4>1. j = 1 \/ j = 2
        BY <2>2, <3>2
      <4> QED BY <2>2, <2>3, <4>1
    <3> QED BY <3>1, <3>2
  <2> QED BY <2>1, <2>2, <2>4 DEF Free
<1>7. ts \in Seq(Seq(S)) /\ Len(ts) = Len(pairs)
  BY <1>4, <1>6, MapIsSeq
<1> QED BY <1>1, <1>2, <1>3, <1>5, <1>6, <1>7 DEF ts

\* A body is a text, and no empty one if there are pairs; its parts are the pairs.
LEMMA BodyFacts ==
    ASSUME NEW S, Keys \subseteq S, "=" \in S, Semicolon \in S, NEW pairs \in Seq(Pairs(S))
    PROVE  /\ BodyOf(pairs) \in Seq(S) /\ (Len(pairs) = 0 => BodyOf(pairs) = <<>>)
           /\ Len(pairs) > 0 => /\ BodyOf(pairs) # <<>>
                                /\ Parts(BodyOf(pairs), Semicolon) =
                                     {PairText(pairs[i].key, pairs[i].value) : i \in 1 .. Len(pairs)}
<1> DEFINE ts == TextsOf(pairs)
           one == <<Semicolon>>
           d == Len(pairs)
<1>1. /\ ts \in Seq(Seq(S)) /\ Len(ts) = d /\ d \in Nat
      /\ \A i \in 1 .. d : /\ pairs[i].key \in S /\ pairs[i].value \in Seq(S)
                           /\ ts[i] = PairText(pairs[i].key, pairs[i].value) /\ Free(ts[i], Semicolon)
      /\ BodyOf(pairs) = Joined(ts, one)
  BY TextsOfFacts
<1>2. one \in Seq(S) /\ one = <<Semicolon>>
  BY OneFacts
<1> HIDE DEF ts, one, d
<1>3. Joined(ts, one) \in Seq(S)
  BY <1>1, <1>2, JoinedType
<1>4. ASSUME d = 0 PROVE Joined(ts, one) = <<>>
  <2>1. ts = <<>>
    <3>1. Len(ts) = 0
      BY <1>1, <1>4
    <3> QED BY <1>1, <3>1, EmptyFacts
  <2>2. Joined(<<>>, one) = FlattenSeq([i \in DOMAIN <<>> |-> IF i = 1 THEN <<>>[i] ELSE one \o <<>>[i]])
    BY DEF Joined
  <2>3. [i \in DOMAIN <<>> |-> IF i = 1 THEN <<>>[i] ELSE one \o <<>>[i]] = <<>>
    OBVIOUS
  <2>4. FlattenSeq(<<>>) = <<>>
    BY DEF FlattenSeq
  <2> QED BY <2>1, <2>2, <2>3, <2>4
<1>5. ASSUME d > 0 PROVE Joined(ts, one) # <<>>
  <2>1. d \in 1 .. d
    BY <1>1, <1>5
  <2>2. ts[d] = PairText(pairs[d].key, pairs[d].value) /\ pairs[d].key \in S /\ pairs[d].value \in Seq(S)
    BY <1>1, <2>1
  <2> DEFINE k == pairs[d].key
             v == pairs[d].value
  <2>3. ts[d] = PairText(k, v) /\ k \in S /\ v \in Seq(S)
    BY <2>2
  <2> HIDE DEF k, v
  <2>4. ts[Len(ts)] # <<>>
    <3>1. Len(ts[d]) = 2 + Len(v) /\ Len(v) \in Nat
      BY <2>3, PairTextFacts
    <3>2. Len(<<>>) = 0 /\ Len(ts[d]) # 0
      BY <3>1
    <3> QED BY <1>1, <3>2
  <2> QED BY <1>1, <1>2, <1>5, <2>4, JoinedNotEmpty
<1>6. ASSUME d > 0 PROVE Parts(Joined(ts, one), Semicolon) = {ts[i] : i \in 1 .. Len(ts)}
  <2>1. Parts(Joined(ts, <<Semicolon>>), Semicolon) = Elements(ts)
    <3>1. Len(ts) > 0 /\ \A k \in 1 .. Len(ts) : Free(ts[k], Semicolon)
      BY <1>1, <1>6
    <3> QED BY <1>1, <3>1, JoinedParts
  <2> QED BY <1>2, <2>1 DEF Elements
<1>7. {ts[i] : i \in 1 .. Len(ts)} = {PairText(pairs[i].key, pairs[i].value) : i \in 1 .. d}
  BY <1>1
<1> QED BY <1>1, <1>3, <1>4, <1>5, <1>6, <1>7 DEF d

\* A body reads as its pairs: every key is read, and what is read is a pair.
LEMMA BodyReads ==
    ASSUME NEW S, Keys \subseteq S, "=" \in S, Semicolon \in S, NEW pairs \in Seq(Pairs(S)), Len(pairs) > 0
    PROVE  /\ \A i \in 1 .. Len(pairs) : <<pairs[i].key>> \in DOMAIN PairsIn(BodyOf(pairs))
           /\ \A key \in DOMAIN PairsIn(BodyOf(pairs)) : \E i \in 1 .. Len(pairs) :
                key = <<pairs[i].key>> /\ PairsIn(BodyOf(pairs))[key] = Unescape(pairs[i].value)
<1> DEFINE body == BodyOf(pairs)
           d == Len(pairs)
           parts == Parts(body, Semicolon)
<1>1. body \in Seq(S) /\ parts = {PairText(pairs[i].key, pairs[i].value) : i \in 1 .. d}
  BY BodyFacts
<1>2. \A i \in 1 .. d : pairs[i].key \in Keys /\ pairs[i].key \in S /\ pairs[i].value \in Seq(S)
  BY TextsOfFacts
<1>3. \A i \in 1 .. d : Reads(PairText(pairs[i].key, pairs[i].value), <<pairs[i].key>>, Unescape(pairs[i].value))
  BY <1>2, PairReads
<1>4. /\ \A p \in parts : Readable(p) => KeyOf(p) \in DOMAIN PairsIn(body)
      /\ \A key \in DOMAIN PairsIn(body) : \E p \in parts : Reads(p, key, PairsIn(body)[key])
  BY <1>1, PairsFacts
<1> HIDE DEF body, d, parts
<1>5. ASSUME NEW i \in 1 .. d PROVE <<pairs[i].key>> \in DOMAIN PairsIn(body)
  <2>1. PairText(pairs[i].key, pairs[i].value) \in parts
    BY <1>1
  <2> QED BY <1>3, <1>4, <2>1 DEF Reads
<1>6. ASSUME NEW key \in DOMAIN PairsIn(body)
      PROVE  \E i \in 1 .. d : key = <<pairs[i].key>> /\ PairsIn(body)[key] = Unescape(pairs[i].value)
  <2>1. PICK p \in parts : Reads(p, key, PairsIn(body)[key])
    BY <1>4
  <2>2. PICK i \in 1 .. d : p = PairText(pairs[i].key, pairs[i].value)
    BY <1>1
  <2> QED BY <1>3, <2>1, <2>2 DEF Reads
<1> QED BY <1>5, <1>6 DEF body, d

\* A character that needs no code comes back as itself.
LEMMA UnescapePlain ==
    ASSUME NEW c, c \notin Reserved
    PROVE  Unescape(<<c>>) = <<c>>
<1> DEFINE S == {c}
           text == <<c>>
<1>1. text \in Seq(S) /\ Len(text) = 1 /\ text[1] = c
  BY OneFacts
<1>2. EscapeOf(c) = <<c>>
  <2>1. c # "NUL" /\ c # "NL" /\ c # ";" /\ c # "=" /\ c # "|" /\ c # "%"
    BY Zenon DEF Reserved
  <2> QED BY <2>1, Zenon DEF EscapeOf
<1>3. \A x \in S : EscapeOf(x) \in Seq(S)
  BY <1>1, <1>2
<1> HIDE DEF text, S
<1>4. PICK f : /\ f[0] = <<>> /\ \A n \in 1 .. Len(text) : f[n] = f[n - 1] \o EscapeOf(text[n])
               /\ Escape(text) = f[Len(text)]
  BY <1>1, <1>3, EscapeStages
<1>5. f[1] = f[0] \o EscapeOf(c)
  <2>1. f[1] = f[1 - 1] \o EscapeOf(text[1])
    BY <1>1, <1>4
  <2>2. 1 - 1 = 0
    OBVIOUS
  <2> QED BY <1>1, <2>1, <2>2
<1>6. <<>> \o text = text
  BY <1>1, EmptyFacts
<1>7. Escape(text) = text
  BY <1>1, <1>2, <1>4, <1>5, <1>6 DEF text
<1>8. Unescape(Escape(text)) = text
  BY <1>1, EscapeRoundTrip
<1> QED BY <1>7, <1>8 DEF text

\* The mark of the hard cap.
Hard == <<"truncated", "=", "hard">>

\* The mark of the cap reads as a pair.
LEMMA HardFacts ==
    ASSUME NEW S, Keys \subseteq S, "=" \in S, "hard" \in S
    PROVE  /\ Hard \in Seq(S) /\ Free(Hard, Semicolon) /\ Reads(Hard, <<"truncated">>, <<"hard">>)
<1>1. <<"hard">> \in Seq(S) /\ "truncated" \in Keys /\ "truncated" \in S
  BY OneFacts, KeysFacts
<1>5. Hard \in Seq(S) /\ Len(Hard) = 3 /\ Hard[1] = "truncated" /\ Hard[2] = "=" /\ Hard[3] = "hard"
  BY <1>1 DEF Hard
<1>2. PairText("truncated", <<"hard">>) = Hard
  <2> DEFINE w == <<"hard">>
             k == "truncated"
             p == PairText(k, w)
  <2>1. w \in Seq(S) /\ Len(w) = 1 /\ w[1] = "hard" /\ k \in S /\ k = "truncated"
    BY <1>1
  <2> HIDE DEF w, k
  <2>2. p \in Seq(S) /\ Len(p) = 2 + Len(w) /\ p[1] = "truncated" /\ p[2] = "=" /\ p[2 + 1] = w[1]
    <3>1. /\ p \in Seq(S) /\ Len(p) = 2 + Len(w) /\ p[1] = "truncated" /\ p[2] = "="
          /\ \A i \in 1 .. Len(w) : p[2 + i] = w[i]
      <4>1. w \in Seq(S) /\ k \in S
        BY <2>1
      <4>2. /\ p \in Seq(S) /\ Len(p) = 2 + Len(w) /\ p[1] = k /\ p[2] = "="
            /\ \A i \in 1 .. Len(w) : p[2 + i] = w[i]
        BY <4>1, PairTextFacts
      <4> QED BY <2>1, <4>2
    <3>2. 1 \in 1 .. Len(w)
      BY <2>1
    <3> QED BY <3>1, <3>2
  <2> HIDE DEF p
  <2>3. Len(p) = 3 /\ p[3] = "hard"
    <3>1. 2 + 1 = 3
      OBVIOUS
    <3> QED BY <2>1, <2>2, <3>1
  <2>4. p = Hard
    <3>1. \A i \in 1 .. 3 : i = 1 \/ i = 2 \/ i = 3
      OBVIOUS
    <3>2. \A i \in 1 .. Len(p) : p[i] = Hard[i]
      BY <1>5, <2>2, <2>3, <3>1
    <3> QED BY <1>5, <2>2, <2>3, <3>2, EqualSeqs
  <2> QED BY <2>4 DEF p, w, k
<1>3. Reads(PairText("truncated", <<"hard">>), <<"truncated">>, Unescape(<<"hard">>))
  BY <1>1, PairReads
<1>4. "hard" \notin Reserved
  BY Zenon DEF Reserved
<1>6. Semicolon # "truncated" /\ Semicolon # "=" /\ Semicolon # "hard"
  BY Zenon DEF Semicolon
<1>7. \A i \in 1 .. 3 : i = 1 \/ i = 2 \/ i = 3
  OBVIOUS
<1>8. Free(Hard, Semicolon)
  BY <1>5, <1>6, <1>7 DEF Free
<1>9. Unescape(<<"hard">>) = <<"hard">>
  BY <1>4, UnescapePlain
<1> QED BY <1>2, <1>3, <1>5, <1>8, <1>9

\* The string was cut, and f holds no key that is not of the pairs.
OfPairs(f, pairs) ==
    /\ <<"truncated">> \in DOMAIN f /\ f[<<"truncated">>] = <<"hard">>
    /\ \A key \in DOMAIN f : key = <<"truncated">> \/ \E i \in 1 .. Len(pairs) : key = <<pairs[i].key>>

\* A body that is cut anywhere and marked reads as keys of its pairs and the mark.
LEMMA CutReads ==
    ASSUME NEW S, Keys \subseteq S, "=" \in S, Semicolon \in S, "hard" \in S, NEW pairs \in Seq(Pairs(S)), Len(pairs) > 0,
           NEW q \in Seq(S), NEW r \in Seq(S), q \o r = BodyOf(pairs), NEW text, text = q \o (<<Semicolon>> \o Hard)
    PROVE  OfPairs(PairsIn(text), pairs)
<1>1. Hard \in Seq(S) /\ Free(Hard, Semicolon) /\ Reads(Hard, <<"truncated">>, <<"hard">>)
  BY HardFacts
<1>2. Parts(BodyOf(pairs), Semicolon) = {PairText(pairs[i].key, pairs[i].value) : i \in 1 .. Len(pairs)}
  BY BodyFacts
<1>3. \A i \in 1 .. Len(pairs) : pairs[i].key \in Keys /\ pairs[i].key \in S /\ pairs[i].value \in Seq(S)
  BY TextsOfFacts
<1>4. KeyOf(Hard) \in DOMAIN PairsIn(text) /\ PairsIn(text)[KeyOf(Hard)] = ValueOf(Hard)
  BY <1>1, PairsLast DEF Reads
<1>5. Parts(text, Semicolon) = With(Parts(q, Semicolon), Hard)
  BY <1>1, PartsMore
<1>6. text \in Seq(S)
  <2> DEFINE one == <<Semicolon>>
             h == Hard
  <2>1. one \in Seq(S) /\ h \in Seq(S) /\ text = q \o (one \o h)
    BY <1>1, OneFacts
  <2> HIDE DEF one, h
  <2> QED BY <2>1, ConcatFacts
<1>7. ASSUME NEW key \in DOMAIN PairsIn(text)
      PROVE  key = <<"truncated">> \/ \E i \in 1 .. Len(pairs) : key = <<pairs[i].key>>
  <2>1. PICK p \in Parts(text, Semicolon) : Reads(p, key, PairsIn(text)[key])
    BY <1>6, PairsFacts
  <2>2. CASE p = Hard
    BY <1>1, <2>1, <2>2 DEF Reads
  <2>3. CASE p # Hard
    <3>1. p \in Parts(q, Semicolon)
      BY <1>5, <2>3 DEF With
    <3>2. PICK w \in Parts(q \o r, Semicolon), c \in Nat : c <= Len(w) /\ p = SubSeq(w, 1, c)
      <4>1. CutOf(p, Parts(q \o r, Semicolon))
        BY <3>1, PartsPrefix
      <4> QED BY <4>1 DEF CutOf
    <3>3. PICK i \in 1 .. Len(pairs) : w = PairText(pairs[i].key, pairs[i].value)
      BY <1>2, <3>2
    <3>4. KeyOf(p) = <<pairs[i].key>>
      <4> DEFINE k == pairs[i].key
                 v == pairs[i].value
      <4>1. k \in Keys /\ k \in S /\ v \in Seq(S) /\ c <= Len(PairText(k, v)) /\ p = SubSeq(PairText(k, v), 1, c)
        BY <1>3, <3>2, <3>3
      <4>2. Readable(SubSeq(PairText(k, v), 1, c))
        BY <2>1, <4>1 DEF Reads
      <4> HIDE DEF k, v
      <4>3. KeyOf(SubSeq(PairText(k, v), 1, c)) = <<k>>
        BY <4>1, <4>2, CutPairReads
      <4> QED BY <4>1, <4>3 DEF k, v
    <3> QED BY <2>1, <3>4 DEF Reads
  <2> QED BY <2>2, <2>3
<1> QED BY <1>1, <1>4, <1>7 DEF Reads, OfPairs

------------------------------------------------------------------------------
(* The budget                                                                *)

DropRank(pairs, i) == Cardinality({j \in 1 .. i : pairs[j].key \notin ProvenanceKeys})
Stays(pairs, n) == {i \in DOMAIN pairs : pairs[i].key \in ProvenanceKeys \/ DropRank(pairs, i) <= n}

\* The rank grows along the pairs.
LEMMA DropRankGrows ==
    ASSUME NEW pairs, NEW a \in Nat, NEW b \in Nat
    PROVE  /\ DropRank(pairs, a) \in Nat /\ DropRank(pairs, b) \in Nat
           /\ a <= b => DropRank(pairs, a) <= DropRank(pairs, b)
<1> DEFINE T(i) == {j \in 1 .. i : pairs[j].key \notin ProvenanceKeys}
<1>1. \A i \in Nat : IsFiniteSet(1 .. i)
  BY FS_Interval
<1>2. \A i \in Nat : IsFiniteSet(T(i)) /\ Cardinality(T(i)) \in Nat
  <2> TAKE i \in Nat
  <2>1. T(i) \subseteq 1 .. i
    OBVIOUS
  <2> HIDE DEF T
  <2> QED BY <1>1, <2>1, FS_Subset, FS_CardinalityType
<1>3. ASSUME a <= b PROVE Cardinality(T(a)) <= Cardinality(T(b))
  <2>1. T(a) \subseteq T(b)
    BY <1>3
  <2> HIDE DEF T
  <2> QED BY <1>2, <2>1, FS_Subset
<1> QED BY <1>2, <1>3 DEF DropRank

\* What is kept are the pairs that stay.
LEMMA KeepFirstFacts ==
    ASSUME NEW P, NEW pairs \in Seq(P), NEW n \in Nat
    PROVE  /\ KeepFirst(pairs, n) \in Seq(P)
           /\ \A i \in 1 .. Len(KeepFirst(pairs, n)) : \E a \in Stays(pairs, n) : KeepFirst(pairs, n)[i] = pairs[a]
           /\ \A a \in Stays(pairs, n) : \E i \in 1 .. Len(KeepFirst(pairs, n)) : KeepFirst(pairs, n)[i] = pairs[a]
<1> DEFINE all == [i \in DOMAIN pairs |-> i]
           T == Stays(pairs, n)
           kept == Kept(all, T)
           q == [i \in DOMAIN kept |-> pairs[kept[i]]]
<1>1. KeepFirst(pairs, n) = q
  BY DEF KeepFirst, Stays, DropRank
<1>2. DOMAIN pairs = 1 .. Len(pairs) /\ Len(pairs) \in Nat /\ \A i \in 1 .. Len(pairs) : pairs[i] \in P
  BY SeqFacts
<1>3. all \in Seq(Nat) /\ Len(all) = Len(pairs) /\ \A i \in 1 .. Len(pairs) : all[i] = i
  <2>1. all = [i \in 1 .. Len(pairs) |-> all[i]] /\ \A i \in 1 .. Len(pairs) : all[i] = i /\ all[i] \in Nat
    BY <1>2
  <2> HIDE DEF all
  <2> QED BY <1>2, <2>1, FunctionIsSeq
<1>4. T \subseteq 1 .. Len(pairs)
  BY <1>2 DEF Stays
<1> HIDE DEF all, T
<1>5. /\ kept \in Seq(Nat) /\ (\A i \in 1 .. Len(kept) : kept[i] \in T)
      /\ \A a \in 1 .. Len(all) : all[a] \in T => \E i \in 1 .. Len(kept) : kept[i] = all[a]
  BY <1>3, KeptFacts DEF Selects
<1> HIDE DEF kept
<1>6. DOMAIN kept = 1 .. Len(kept) /\ Len(kept) \in Nat
  BY <1>5, SeqFacts
<1>7. q = [i \in DOMAIN kept |-> q[i]] /\ \A i \in 1 .. Len(kept) : q[i] = pairs[kept[i]]
  BY <1>6
<1> HIDE DEF q
<1>8. \A i \in 1 .. Len(kept) : q[i] \in P
  BY <1>2, <1>4, <1>5, <1>7
<1>9. q \in Seq(P) /\ Len(q) = Len(kept)
  BY <1>5, <1>7, <1>8, MapIsSeq
<1>10. \A i \in 1 .. Len(q) : \E a \in T : q[i] = pairs[a]
  BY <1>5, <1>7, <1>9
<1>11. \A a \in T : \E i \in 1 .. Len(q) : q[i] = pairs[a]
  <2> TAKE a \in T
  <2>1. a \in 1 .. Len(all) /\ all[a] = a
    BY <1>3, <1>4
  <2>2. PICK i \in 1 .. Len(kept) : kept[i] = a
    BY <1>5, <2>1
  <2> QED BY <1>7, <1>9, <2>2
<1> QED BY <1>1, <1>9, <1>10, <1>11 DEF T

\* r is what is left of the pairs, with the mark: those that stay, but for one
\* that had the key of the mark.
Marked(r, pairs, n) ==
    /\ \A i \in 1 .. Len(r) : r[i] = Mark \/ \E a \in Stays(pairs, n) : r[i] = pairs[a] /\ pairs[a].key # "truncated"
    /\ \E i \in 1 .. Len(r) : r[i] = Mark
    /\ \A a \in Stays(pairs, n) : pairs[a].key # "truncated" => \E i \in 1 .. Len(r) : r[i] = pairs[a]

\* The mark joins what is kept.
LEMMA MarkedFacts ==
    ASSUME NEW P, NEW pairs \in Seq(P), NEW n \in Nat, Mark \in P
    PROVE  /\ Append(Unmarked(KeepFirst(pairs, n)), Mark) \in Seq(P)
           /\ Marked(Append(Unmarked(KeepFirst(pairs, n)), Mark), pairs, n)
<1> DEFINE kept == KeepFirst(pairs, n)
           T == {p \in ToSet(kept) : p.key # "truncated"}
           u == Kept(kept, T)
           r == Append(u, Mark)
<1>1. /\ kept \in Seq(P)
      /\ \A i \in 1 .. Len(kept) : \E a \in Stays(pairs, n) : kept[i] = pairs[a]
      /\ \A a \in Stays(pairs, n) : \E i \in 1 .. Len(kept) : kept[i] = pairs[a]
  BY KeepFirstFacts
<1>2. Unmarked(kept) = u
  BY DEF Unmarked
<1> HIDE DEF kept
<1>3. \A x : x \in T <=> (\E i \in 1 .. Len(kept) : x = kept[i]) /\ x.key # "truncated"
  <2>1. DOMAIN kept = 1 .. Len(kept)
    BY <1>1, SeqFacts
  <2> QED BY <2>1 DEF ToSet
<1> HIDE DEF T
<1>4. /\ u \in Seq(P) /\ (\A i \in 1 .. Len(u) : u[i] \in T)
      /\ \A a \in 1 .. Len(kept) : kept[a] \in T => \E i \in 1 .. Len(u) : u[i] = kept[a]
  <2>1. kept \in Seq(P)
    BY <1>1
  <2>2. u \in Seq(P) /\ Selects(u, kept, T)
    BY <2>1, KeptFacts
  <2> QED BY <2>2 DEF Selects
<1> HIDE DEF u
<1>5. Len(u) \in Nat
  BY <1>4, SeqFacts
<1>6. r \in Seq(P) /\ Len(r) = Len(u) + 1 /\ r[Len(u) + 1] = Mark /\ \A i \in 1 .. Len(u) : r[i] = u[i]
  BY <1>4, <1>5
<1> HIDE DEF r
<1>7. \A i \in 1 .. Len(u) + 1 : i \in 1 .. Len(u) \/ i = Len(u) + 1
  BY <1>5
<1>8. \A i \in 1 .. Len(r) : r[i] = Mark \/ \E a \in Stays(pairs, n) : r[i] = pairs[a] /\ pairs[a].key # "truncated"
  <2> TAKE i \in 1 .. Len(r)
  <2>1. CASE i = Len(u) + 1
    BY <1>6, <2>1
  <2>2. CASE i # Len(u) + 1
    <3>1. i \in 1 .. Len(u) /\ r[i] = u[i]
      BY <1>6, <1>7, <2>2
    <3>2. PICK j \in 1 .. Len(kept) : r[i] = kept[j] /\ r[i].key # "truncated"
      BY <1>3, <1>4, <3>1
    <3> QED BY <1>1, <3>2
  <2> QED BY <2>1, <2>2
<1>9. \A a \in Stays(pairs, n) : pairs[a].key # "truncated" => \E i \in 1 .. Len(r) : r[i] = pairs[a]
  <2> SUFFICES ASSUME NEW a \in Stays(pairs, n), pairs[a].key # "truncated" PROVE \E i \in 1 .. Len(r) : r[i] = pairs[a]
    OBVIOUS
  <2>1. PICK j \in 1 .. Len(kept) : kept[j] = pairs[a]
    BY <1>1
  <2>2. kept[j] \in T
    BY <1>3, <2>1
  <2>3. PICK i \in 1 .. Len(u) : u[i] = kept[j]
    BY <1>4, <2>2
  <2>4. i \in 1 .. Len(r)
    BY <1>5, <1>6
  <2> QED BY <1>6, <2>1, <2>3, <2>4
<1>10. Len(u) + 1 \in 1 .. Len(r)
  BY <1>5, <1>6
<1>11. Marked(r, pairs, n)
  BY <1>6, <1>8, <1>9, <1>10 DEF Marked
<1> QED BY <1>2, <1>6, <1>11 DEF kept, r

\* The budget leaves the pairs as they are, or marks what it keeps.
LEMMA FitFacts ==
    ASSUME NEW P, NEW human, NEW pairs \in Seq(P), Mark \in P
    PROVE  \/ FitBudget(human, pairs) = pairs
           \/ FitBudget(human, pairs) \in Seq(P) /\ \E n \in Nat : Marked(FitBudget(human, pairs), pairs, n)
<1> DEFINE D == {i \in DOMAIN pairs : pairs[i].key \notin ProvenanceKeys}
           droppable == Cardinality(D)
           fits == {n \in 0 .. droppable : Len(Render(human, KeepFirst(pairs, n))) <= SoftBudget}
           n == IF fits = {} THEN 0 ELSE Max(fits)
<1>1. droppable \in Nat
  <2>1. DOMAIN pairs = 1 .. Len(pairs) /\ Len(pairs) \in Nat
    BY SeqFacts
  <2>2. D \subseteq 1 .. Len(pairs)
    BY <2>1
  <2> HIDE DEF D
  <2>3. IsFiniteSet(1 .. Len(pairs))
    BY <2>1, FS_Interval
  <2>4. IsFiniteSet(D)
    BY <2>2, <2>3, FS_Subset
  <2> QED BY <2>4, FS_CardinalityType
<1>2. FitBudget(human, pairs) = IF n = droppable THEN pairs ELSE Append(Unmarked(KeepFirst(pairs, n)), Mark)
  BY DEF FitBudget
<1> HIDE DEF droppable
<1>3. fits \in SUBSET (0 .. droppable)
  OBVIOUS
<1> HIDE DEF fits
<1>4. n \in Nat
  <2>1. CASE fits = {}
    BY <2>1
  <2>2. CASE fits # {}
    <3>1. Max(fits) \in fits
      BY <1>1, <1>3, <2>2, MaxExists
    <3>2. Max(fits) \in 0 .. droppable
      BY <1>3, <3>1
    <3>3. \A x \in 0 .. droppable : x \in Nat
      OBVIOUS
    <3> QED BY <2>2, <3>2, <3>3
  <2> QED BY <2>1, <2>2
<1> HIDE DEF n
<1> QED BY <1>2, <1>4, MarkedFacts

------------------------------------------------------------------------------
(* The pairs of what was collected                                           *)

CollectedIn(fields) == {k \in DOMAIN fields : Text(fields[k]) # <<>>}
PairFor(fields, k) == [key |-> k, value |-> Escape(Text(fields[k]))]

\* Fields whose texts are made of the characters in S, the format's among them.
FieldsOver(fields, S) ==
    FormatWords \subseteq S /\ DOMAIN fields \subseteq Keys /\ \A k \in DOMAIN fields : Text(fields[k]) \in Seq(S)

\* The characters of the format.
LEMMA FormatFacts ==
    ASSUME NEW S, FormatWords \subseteq S
    PROVE  /\ Keys \subseteq S /\ Reserved \subseteq S /\ CodeWords \subseteq S /\ "=" \in S /\ Semicolon \in S
           /\ "hard" \in S /\ "1" \in S /\ Blank \in S /\ "|" \in S
           /\ Schema \in Seq(S) /\ Len(Schema) = 1 /\ Delimiter \in Seq(S) /\ Len(Delimiter) = 3
<1>1. Keys \subseteq S /\ Reserved \subseteq S /\ Digits \subseteq S /\ ToSet(Schema) \subseteq S
  BY DEF FormatWords
<1>2. "A" \in S /\ "B" \in S /\ "C" \in S /\ "D" \in S /\ "hard" \in S /\ Blank \in S
  BY Zenon DEF FormatWords, Blank
<1>3. "=" \in S /\ Semicolon \in S /\ "|" \in S /\ "%" \in S
  BY <1>1, Zenon DEF Reserved, Semicolon
<1>4. "0" \in S /\ "1" \in S /\ "2" \in S /\ "3" \in S /\ "5" \in S /\ "7" \in S
  BY <1>1 DEF Digits
<1>5. CodeWords \subseteq S
  BY <1>2, <1>3, <1>4, Zenon DEF CodeWords
<1>6. \E x : Schema = <<x>>
  BY Zenon DEF Schema
<1>7. Schema \in Seq(S) /\ Len(Schema) = 1
  <2>1. PICK x : Schema = <<x>>
    BY <1>6
  <2>2. x \in S
    BY <1>1, <2>1 DEF ToSet
  <2> QED BY <2>1, <2>2
<1>8. Delimiter = <<Blank, "|", Blank>>
  BY Zenon DEF Delimiter, Blank
<1>9. Delimiter \in Seq(S) /\ Len(Delimiter) = 3
  BY <1>2, <1>3, <1>8
<1> QED BY <1>1, <1>2, <1>3, <1>4, <1>5, <1>7, <1>9

\* A value that is escaped holds no semicolon, and comes back.
LEMMA PairForFacts ==
    ASSUME NEW S, NEW fields, FieldsOver(fields, S), NEW k \in DOMAIN fields
    PROVE  /\ PairFor(fields, k) \in Pairs(S) /\ PairFor(fields, k).key = k
           /\ Unescape(PairFor(fields, k).value) = Text(fields[k])
<1> DEFINE text == Text(fields[k])
           v == Escape(text)
           E == (S \ Reserved) \cup CodeWords
<1>1. k \in Keys /\ text \in Seq(S) /\ Reserved \subseteq S /\ CodeWords \subseteq S
  BY FormatFacts DEF FieldsOver
<1> HIDE DEF text
<1>2. v \in Seq(E)
  <2>1. S \ Reserved \subseteq E /\ CodeWords \subseteq E
    OBVIOUS
  <2> HIDE DEF E
  <2> QED BY <1>1, <2>1, EscapeType
<1>3. Semicolon \notin E
  <2>1. Semicolon \in Reserved
    BY Zenon DEF Reserved, Semicolon
  <2>2. Semicolon \notin CodeWords
    BY Zenon DEF CodeWords, Semicolon
  <2> QED BY <2>1, <2>2
<1>4. E \subseteq S
  BY <1>1
<1> HIDE DEF v, E
<1>5. \A i \in 1 .. Len(v) : v[i] \in E
  BY <1>2, SeqFacts
<1>6. v \in Seq(S) /\ Free(v, Semicolon)
  <2>1. v \in Seq(S)
    BY <1>2, <1>4, <1>5, WiderSeq
  <2>2. Free(v, Semicolon)
    BY <1>3, <1>5 DEF Free
  <2> QED BY <2>1, <2>2
<1>7. Unescape(v) = text
  BY <1>1, EscapeRoundTrip DEF v
<1>8. PairFor(fields, k) = [key |-> k, value |-> v]
  BY DEF PairFor, v, text
<1> QED BY <1>1, <1>6, <1>7, <1>8 DEF Pairs, text

\* The mark is a pair too.
LEMMA MarkFacts ==
    ASSUME NEW S, FormatWords \subseteq S
    PROVE  Mark \in Pairs(S) /\ Mark.key = "truncated" /\ Unescape(Mark.value) = <<"1">>
<1> DEFINE v == <<"1">>
<1>1. v \in Seq(S) /\ Len(v) = 1 /\ v[1] = "1"
  BY FormatFacts, OneFacts
<1>2. "1" # Semicolon /\ "1" \notin Reserved
  BY Zenon DEF Semicolon, Reserved
<1>3. Unescape(<<"1">>) = <<"1">>
  BY <1>2, UnescapePlain
<1>4. Free(v, Semicolon)
  BY <1>1, <1>2 DEF Free
<1>5. Mark = [key |-> "truncated", value |-> v]
  BY DEF Mark
<1> HIDE DEF v
<1>6. Mark \in Pairs(S) /\ Mark.key = "truncated" /\ Mark.value = v
  BY <1>1, <1>4, <1>5, KeysFacts DEF Pairs
<1> QED BY <1>3, <1>6 DEF v

\* pos are the places of the pairs in the order of the keys.
InOrder(pairs, pos, fields) ==
    /\ \A i \in 1 .. Len(pairs) :
          /\ pos[i] \in 1 .. 27 /\ KeyOrder[pos[i]] \in CollectedIn(fields)
          /\ pairs[i] = PairFor(fields, KeyOrder[pos[i]])
    /\ \A i, j \in 1 .. Len(pairs) : i < j => pos[i] < pos[j]
    /\ \A k \in CollectedIn(fields) : \E i \in 1 .. Len(pairs) : KeyOrder[pos[i]] = k

\* The pairs are those of the keys that were collected, in the order of the keys.
LEMMA OrderedPairsFacts ==
    ASSUME NEW S, NEW fields, FieldsOver(fields, S)
    PROVE  OrderedPairs(fields) \in Seq(Pairs(S)) /\ \E pos : InOrder(OrderedPairs(fields), pos, fields)
<1> DEFINE C == CollectedIn(fields)
           present == Kept(KeyOrder, C)
           q == [i \in DOMAIN present |-> [key |-> present[i], value |-> Escape(Text(fields[present[i]]))]]
<1>1. OrderedPairs(fields) = q
  BY DEF OrderedPairs, CollectedIn
<1>2. KeyOrder \in Seq(Keys) /\ Len(KeyOrder) = 27 /\ \A k \in Keys : \E i \in 1 .. 27 : KeyOrder[i] = k
  BY KeysFacts, KeyTable
<1>3. C \subseteq DOMAIN fields /\ C \subseteq Keys
  BY DEF CollectedIn, FieldsOver
<1> HIDE DEF C
<1>4. present \in Seq(Keys) /\ \E pos : Picks(present, pos, Len(KeyOrder), KeyOrder, C)
  BY <1>2, KeptPicks
<1>5. PICK pos : Picks(present, pos, 27, KeyOrder, C)
  BY <1>2, <1>4
<1> HIDE DEF present
<1>6. /\ pos \in [1 .. Len(present) -> 1 .. 27]
      /\ \A i \in 1 .. Len(present) : present[i] = KeyOrder[pos[i]] /\ KeyOrder[pos[i]] \in C
      /\ \A i, j \in 1 .. Len(present) : i < j => pos[i] < pos[j]
      /\ \A a \in 1 .. 27 : KeyOrder[a] \in C => \E i \in 1 .. Len(present) : pos[i] = a
  BY <1>5 DEF Picks
<1>7. DOMAIN present = 1 .. Len(present)
  BY <1>4, SeqFacts
<1>8. q = [i \in DOMAIN present |-> q[i]] /\ \A i \in 1 .. Len(present) : q[i] = PairFor(fields, present[i])
  BY <1>7 DEF PairFor
<1> HIDE DEF q
<1>9. ASSUME NEW i \in 1 .. Len(present) PROVE q[i] \in Pairs(S)
  <2>1. present[i] \in DOMAIN fields /\ q[i] = PairFor(fields, present[i])
    BY <1>3, <1>6, <1>8
  <2> DEFINE k == present[i]
  <2>2. k \in DOMAIN fields
    BY <2>1
  <2> HIDE DEF k
  <2>3. PairFor(fields, k) \in Pairs(S)
    BY <2>2, PairForFacts
  <2> QED BY <2>1, <2>3 DEF k
<1>10. q \in Seq(Pairs(S)) /\ Len(q) = Len(present)
  BY <1>4, <1>8, <1>9, MapIsSeq
<1>11. ASSUME NEW k \in C PROVE \E i \in 1 .. Len(q) : KeyOrder[pos[i]] = k
  <2>1. PICK a \in 1 .. 27 : KeyOrder[a] = k
    BY <1>2, <1>3
  <2>2. PICK i \in 1 .. Len(present) : pos[i] = a
    BY <1>6, <2>1
  <2> QED BY <1>10, <2>1, <2>2
<1>12. \A i \in 1 .. Len(q) : pos[i] \in 1 .. 27 /\ KeyOrder[pos[i]] \in C /\ q[i] = PairFor(fields, KeyOrder[pos[i]])
  BY <1>6, <1>8, <1>10
<1>13. InOrder(q, pos, fields)
  BY <1>6, <1>10, <1>11, <1>12 DEF InOrder, C
<1> QED BY <1>1, <1>10, <1>13

------------------------------------------------------------------------------
(* The string                                                                *)

Unknown == "unknown OS"
ExtrasOf(fields) == NonEmpty(<<TextAt(fields, "kernel"), TextAt(fields, "arch")>>)
BaseOf(fields) == FirstOf(TextAt(fields, "distro"), FirstOf(TextAt(fields, "raw_os"), <<Unknown>>))

\* The human part, by these names.
LEMMA HumanOSIs ==
    ASSUME NEW fields
    PROVE  HumanOS(fields) =
             BaseOf(fields) \o (IF ExtrasOf(fields) = <<>> THEN <<>>
                                ELSE (<<Blank, "(">> \o Joined(ExtrasOf(fields), <<Blank>>)) \o <<")">>)
  BY DEF HumanOS, BaseOf, ExtrasOf, Unknown, Blank

\* A few texts, without the empty ones, are texts.
LEMMA NonEmptyType ==
    ASSUME NEW S, NEW texts \in Seq(Seq(S))
    PROVE  NonEmpty(texts) \in Seq(Seq(S))
  BY KeptPicks DEF NonEmpty

\* The human part is a text.
LEMMA HumanType ==
    ASSUME NEW S, NEW fields, FieldsOver(fields, S)
    PROVE  HumanOS(fields) \in Seq(S)
<1>1. Unknown \in S /\ "(" \in S /\ ")" \in S
  <2>1. FormatWords \subseteq S
    BY DEF FieldsOver
  <2> QED BY <2>1, Zenon DEF FormatWords, Unknown
<1>2. Blank \in S
  BY FormatFacts DEF FieldsOver
<1>3. \A k : TextAt(fields, k) \in Seq(S)
  BY EmptySeq DEF TextAt, FieldsOver
<1> DEFINE last == <<Unknown>>
<1>4. last \in Seq(S)
  BY <1>1, OneFacts
<1> HIDE DEF last
<1>5. BaseOf(fields) \in Seq(S)
  BY <1>3, <1>4 DEF BaseOf, FirstOf, last
<1>6. ExtrasOf(fields) \in Seq(Seq(S))
  <2> DEFINE k == TextAt(fields, "kernel")
             a == TextAt(fields, "arch")
             two == <<k, a>>
  <2>1. k \in Seq(S) /\ a \in Seq(S)
    BY <1>3
  <2> HIDE DEF k, a
  <2>2. two \in Seq(Seq(S))
    BY <2>1
  <2> HIDE DEF two
  <2>3. NonEmpty(two) \in Seq(Seq(S))
    BY <2>2, NonEmptyType
  <2> QED BY <2>3 DEF two, k, a, ExtrasOf
<1> DEFINE open == <<Blank, "(">>
           gap == <<Blank>>
           close == <<")">>
           e == ExtrasOf(fields)
           base == BaseOf(fields)
           tail == IF e = <<>> THEN <<>> ELSE (open \o Joined(e, gap)) \o close
<1>7. open \in Seq(S) /\ gap \in Seq(S) /\ close \in Seq(S) /\ e \in Seq(Seq(S)) /\ base \in Seq(S)
  BY <1>1, <1>2, <1>5, <1>6
<1>8. HumanOS(fields) = base \o tail
  BY HumanOSIs
<1> HIDE DEF open, gap, close, e, base
<1>9. Joined(e, gap) \in Seq(S)
  BY <1>7, JoinedType
<1>10. open \o Joined(e, gap) \in Seq(S)
  BY <1>7, <1>9, ConcatFacts
<1>11. (open \o Joined(e, gap)) \o close \in Seq(S)
  BY <1>7, <1>10, ConcatFacts
<1>12. tail \in Seq(S)
  BY <1>11, EmptySeq
<1> HIDE DEF tail
<1> QED BY <1>7, <1>8, <1>12, ConcatFacts

\* What follows the schema.
RestOf(human, pairs) == human \o (IF BodyOf(pairs) = <<>> THEN <<>> ELSE Delimiter \o BodyOf(pairs))

\* The string is the schema and the rest.
LEMMA RenderIs ==
    ASSUME NEW S, FormatWords \subseteq S, NEW human \in Seq(S), NEW pairs \in Seq(Pairs(S))
    PROVE  RestOf(human, pairs) \in Seq(S) /\ Render(human, pairs) = Schema \o RestOf(human, pairs)
<1> DEFINE b == BodyOf(pairs)
           tail == IF b = <<>> THEN <<>> ELSE Delimiter \o b
<1>1. /\ Keys \subseteq S /\ "=" \in S /\ Semicolon \in S /\ Schema \in Seq(S) /\ Delimiter \in Seq(S)
  BY FormatFacts
<1>2. b \in Seq(S)
  BY <1>1, BodyFacts
<1>3. Render(human, pairs) = (Schema \o human) \o tail
  BY DEF Render, BodyOf, Semicolon
<1>4. RestOf(human, pairs) = human \o tail
  BY DEF RestOf
<1> HIDE DEF b
<1>5. tail \in Seq(S)
  BY <1>1, <1>2, ConcatFacts, EmptySeq
<1> HIDE DEF tail
<1> DEFINE m == Schema
<1>6. m \in Seq(S)
  BY <1>1
<1> HIDE DEF m
<1>7. (m \o human) \o tail = m \o (human \o tail)
  BY <1>5, <1>6, ConcatAssoc, SMTT(30)
<1> QED BY <1>3, <1>4, <1>5, <1>7, ConcatFacts DEF m

\* The cut at the cap.
CutAt(text) == SubSeq(text, 1, HardCap - 4)

\* A string within the cap stays, one beyond it is cut and marked.
LEMMA CapIs ==
    ASSUME NEW S, FormatWords \subseteq S, NEW text \in Seq(S)
    PROVE  /\ CapHard(text) \in Seq(S) /\ Len(CapHard(text)) <= HardCap
           /\ Len(text) <= HardCap => CapHard(text) = text
           /\ Len(text) > HardCap => /\ CapHard(text) = CutAt(text) \o (<<Semicolon>> \o Hard)
                                     /\ CutAt(text) \in Seq(S) /\ Len(CutAt(text)) = HardCap - 4
                                     /\ \A i \in 1 .. HardCap - 4 : CutAt(text)[i] = text[i]
<1> DEFINE end == <<Semicolon, "truncated", "=", "hard">>
           one == <<Semicolon>>
           h == Hard
           cut == CutAt(text)
           n == HardCap - 4
<1>1. /\ Keys \subseteq S /\ "=" \in S /\ Semicolon \in S /\ "hard" \in S /\ "truncated" \in S
      /\ HardCap \in Nat /\ n \in Nat /\ n + 4 = HardCap /\ Len(text) \in Nat
  BY FormatFacts, KeysFacts, SeqFacts, BudgetAssumption
<1>2. end \in Seq(S) /\ Len(end) = 4 /\ end[1] = Semicolon /\ end[2] = "truncated" /\ end[3] = "=" /\ end[4] = "hard"
  BY <1>1
<1>3. h \in Seq(S) /\ Len(h) = 3 /\ h[1] = "truncated" /\ h[2] = "=" /\ h[3] = "hard"
  BY <1>1 DEF Hard
<1>4. one \in Seq(S) /\ Len(one) = 1 /\ one[1] = Semicolon
  BY <1>1, OneFacts
<1>5. CapHard(text) = IF Len(text) <= HardCap THEN text ELSE cut \o end
  BY DEF CapHard, CutAt, Semicolon
<1>6. Len(text) > HardCap => cut \in Seq(S) /\ Len(cut) = n /\ \A i \in 1 .. n : cut[i] = text[i]
  <2> SUFFICES ASSUME Len(text) > HardCap PROVE cut \in Seq(S) /\ Len(cut) = n /\ \A i \in 1 .. n : cut[i] = text[i]
    OBVIOUS
  <2>0. cut = SubSeq(text, 1, n)
    BY DEF CutAt
  <2> HIDE DEF cut, n, end, one, h
  <2>1. 1 \in 1 .. Len(text) + 1 /\ n \in 1 - 1 .. Len(text) /\ n - 1 + 1 = n /\ \A i \in 1 .. n : 1 + i - 1 = i
    BY <1>1
  <2> DEFINE q == SubSeq(text, 1, n)
  <2>2. q \in Seq(S) /\ Len(q) = n - 1 + 1 /\ \A i \in 1 .. n - 1 + 1 : q[i] = text[1 + i - 1]
    BY <2>1, SubSeqFacts
  <2> HIDE DEF q
  <2>3. q \in Seq(S) /\ Len(q) = n /\ \A i \in 1 .. n : q[i] = text[i]
    BY <2>1, <2>2
  <2> QED BY <2>0, <2>3 DEF q
<1> HIDE DEF end, one, h, cut, n
<1>7. end = one \o h
  <2> DEFINE w == one \o h
  <2>10. one \in Seq(S) /\ h \in Seq(S)
    BY <1>3, <1>4
  <2>11. w \in Seq(S) /\ Len(w) = Len(one) + Len(h)
    BY <2>10, ConcatFacts
  <2>12. \A i \in 1 .. Len(one) : w[i] = one[i]
    BY <2>10, ConcatFacts
  <2>13. Follows(w, Len(one), h)
    BY <2>10, HeadFacts
  <2> HIDE DEF w
  <2>14. \A i \in 1 .. Len(h) : w[1 + i] = h[i]
    BY <1>4, <2>13 DEF Follows
  <2>15. 1 \in 1 .. Len(one)
    BY <1>4
  <2>3. w \in Seq(S) /\ Len(w) = 4 /\ w[1] = one[1] /\ \A i \in 1 .. Len(h) : w[1 + i] = h[i]
    BY <1>3, <1>4, <2>11, <2>12, <2>14, <2>15
  <2> HIDE DEF w
  <2>4. 1 \in 1 .. 3 /\ 2 \in 1 .. 3 /\ 3 \in 1 .. 3 /\ 1 + 1 = 2 /\ 1 + 2 = 3 /\ 1 + 3 = 4
    OBVIOUS
  <2>5. w[2] = h[1] /\ w[3] = h[2] /\ w[4] = h[3]
    BY <1>3, <2>3, <2>4
  <2>6. \A i \in 1 .. 4 : i = 1 \/ i = 2 \/ i = 3 \/ i = 4
    OBVIOUS
  <2>7. \A i \in 1 .. 4 : end[i] = w[i]
    BY <1>2, <1>3, <1>4, <2>3, <2>5, <2>6
  <2>8. end = w
    BY <1>2, <2>3, <2>7, EqualSeqs
  <2> QED BY <2>8 DEF w
<1>8. Len(text) > HardCap => cut \o end \in Seq(S) /\ Len(cut \o end) = HardCap
  <2> SUFFICES ASSUME cut \in Seq(S), Len(cut) = n PROVE cut \o end \in Seq(S) /\ Len(cut \o end) = HardCap
    BY <1>6
  <2>1. cut \o end \in Seq(S) /\ Len(cut \o end) = Len(cut) + Len(end)
    BY <1>2, ConcatFacts
  <2> QED BY <1>1, <1>2, <2>1
<1>9. Len(text) <= HardCap \/ Len(text) > HardCap
  BY <1>1
<1>10. CapHard(text) \in Seq(S) /\ Len(CapHard(text)) <= HardCap
  BY <1>1, <1>5, <1>8, <1>9
<1>11. Len(text) > HardCap => CapHard(text) = cut \o (one \o h)
  BY <1>1, <1>5, <1>7
<1> QED BY <1>5, <1>6, <1>10, <1>11 DEF cut, one, h, n

\* The pairs that are left of what was collected.
LeftOf(fields) == FitBudget(HumanOS(fields), OrderedPairs(fields))

\* The string is made of the characters of the texts and of the format, and short enough.
LEMMA PackType ==
    ASSUME NEW S, NEW fields, FieldsOver(fields, S)
    PROVE  /\ LeftOf(fields) \in Seq(Pairs(S)) /\ HumanOS(fields) \in Seq(S)
           /\ PackOSDetail(fields) = CapHard(Render(HumanOS(fields), LeftOf(fields)))
           /\ PackOSDetail(fields) \in Seq(S) /\ Len(PackOSDetail(fields)) <= HardCap
<1> DEFINE human == HumanOS(fields)
           p == OrderedPairs(fields)
           r == LeftOf(fields)
           text == Render(human, r)
<1>1. FormatWords \subseteq S /\ human \in Seq(S) /\ p \in Seq(Pairs(S)) /\ Mark \in Pairs(S)
  BY HumanType, OrderedPairsFacts, MarkFacts DEF FieldsOver
<1>2. r = FitBudget(human, p) /\ PackOSDetail(fields) = CapHard(text)
  BY DEF LeftOf, PackOSDetail
<1> HIDE DEF human, p, r
<1>3. r \in Seq(Pairs(S))
  BY <1>1, <1>2, FitFacts
<1>4. Schema \in Seq(S)
  BY <1>1, FormatFacts
<1>5. text \in Seq(S)
  <2>1. RestOf(human, r) \in Seq(S) /\ text = Schema \o RestOf(human, r)
    BY <1>1, <1>3, RenderIs
  <2> DEFINE s == Schema
             e == RestOf(human, r)
  <2>2. s \in Seq(S) /\ e \in Seq(S) /\ text = s \o e
    BY <1>4, <2>1
  <2> HIDE DEF s, e, text
  <2> QED BY <2>2, ConcatFacts
<1> HIDE DEF text
<1>6. CapHard(text) \in Seq(S) /\ Len(CapHard(text)) <= HardCap
  BY <1>1, <1>5, CapIs
<1> QED BY <1>1, <1>2, <1>3, <1>6 DEF human, r, text

------------------------------------------------------------------------------
(* Reading the string                                                        *)

Hits(rest) == {i \in DOMAIN rest : Occurs(Delimiter, rest, i)}
Plain(human) == \A i \in DOMAIN human : ~ Occurs(Delimiter, human \o Delimiter, i)
ParseRest(rest) ==
    IF Hits(rest) = {} THEN Human(rest)
    ELSE Over(PairsIn(SubSeq(rest, Min(Hits(rest)) + 3, Len(rest))), Human(SubSeq(rest, 1, Min(Hits(rest)) - 1)))

\* The delimiter, character by character.
LEMMA DelimiterIs == Delimiter = <<Blank, "|", Blank>>
  BY Zenon DEF Delimiter, Blank

\* Where the delimiter stands.
LEMMA OccursIs ==
    ASSUME NEW text, NEW i \in Nat, Len(text) \in Nat
    PROVE  Occurs(Delimiter, text, i) <=>
             i + 2 <= Len(text) /\ text[i] = Blank /\ text[i + 1] = "|" /\ text[i + 2] = Blank
<1> DEFINE d == Delimiter
<1>1. DOMAIN d = 1 .. 3 /\ Len(d) = 3 /\ d[1] = Blank /\ d[2] = "|" /\ d[3] = Blank
  BY DelimiterIs
<1>2. Occurs(d, text, i) <=> i - 1 + Len(d) <= Len(text) /\ \A j \in DOMAIN d : text[i - 1 + j] = d[j]
  BY DEF Occurs
<1> HIDE DEF d
<1>3. i - 1 + 1 = i /\ i - 1 + 2 = i + 1 /\ i - 1 + 3 = i + 2
  OBVIOUS
<1>4. \A j \in 1 .. 3 : j = 1 \/ j = 2 \/ j = 3
  OBVIOUS
<1>5. Occurs(d, text, i) <=> i + 2 <= Len(text) /\ \A j \in 1 .. 3 : text[i - 1 + j] = d[j]
  BY <1>1, <1>2, <1>3
<1>6. (\A j \in 1 .. 3 : text[i - 1 + j] = d[j]) <=> text[i] = d[1] /\ text[i + 1] = d[2] /\ text[i + 2] = d[3]
  <2>1. ASSUME \A j \in 1 .. 3 : text[i - 1 + j] = d[j] PROVE text[i] = d[1] /\ text[i + 1] = d[2] /\ text[i + 2] = d[3]
    <3>1. text[i - 1 + 1] = d[1] /\ text[i - 1 + 2] = d[2] /\ text[i - 1 + 3] = d[3]
      BY <2>1
    <3> QED BY <1>3, <3>1
  <2>2. ASSUME text[i] = d[1], text[i + 1] = d[2], text[i + 2] = d[3], NEW j \in 1 .. 3 PROVE text[i - 1 + j] = d[j]
    BY <1>3, <1>4, <2>2
  <2> QED BY <2>1, <2>2
<1> QED BY <1>1, <1>5, <1>6 DEF d

\* The schema is taken off, and the delimiter looked for.
LEMMA ParseIs ==
    ASSUME NEW S, FormatWords \subseteq S, NEW rest \in Seq(S)
    PROVE  ParseOSDetail(Schema \o rest) = ParseRest(rest)
<1> DEFINE s == Schema
           text == s \o rest
<1>1. s \in Seq(S) /\ Len(s) = 1
  BY FormatFacts
<1>2. text \in Seq(S) /\ Len(text) = 1 + Len(rest) /\ Len(rest) \in Nat
  <2> HIDE DEF s
  <2>1. text \in Seq(S) /\ Len(text) = Len(s) + Len(rest)
    BY <1>1, ConcatFacts
  <2>2. Len(rest) \in Nat
    BY SeqFacts
  <2> HIDE DEF text
  <2> QED BY <1>1, <2>1, <2>2
<1>3. \A i \in 1 .. 1 : text[i] = s[i]
  <2> HIDE DEF s
  <2>1. \A i \in 1 .. Len(s) : text[i] = s[i]
    BY <1>1, ConcatFacts
  <2> QED BY <1>1, <2>1
<1>4. Follows(text, 1, rest)
  <2> HIDE DEF s
  <2>1. Follows(text, Len(s), rest)
    BY <1>1, HeadFacts
  <2> QED BY <1>1, <2>1
<1>5. ParseOSDetail(text) =
        IF ~ IsPrefix(s, text) THEN Human(text) ELSE ParseRest(SubSeq(text, 2, Len(text)))
  BY DEF ParseOSDetail, ParseRest, Hits
<1> HIDE DEF s, text
<1>6. SubSeq(text, 2, Len(text)) = rest
  <2> DEFINE l == Len(text)
             q == SubSeq(text, 2, l)
  <2>1. 2 \in 1 .. Len(text) + 1 /\ l \in 2 - 1 .. Len(text) /\ l - 2 + 1 = Len(rest) /\ \A i \in 1 .. Len(rest) : 2 + i - 1 = 1 + i
    BY <1>2
  <2> HIDE DEF l
  <2>2. q \in Seq(S) /\ Len(q) = l - 2 + 1 /\ \A i \in 1 .. l - 2 + 1 : q[i] = text[2 + i - 1]
    BY <1>2, <2>1, SubSeqFacts
  <2> HIDE DEF q
  <2>3. \A i \in 1 .. Len(rest) : q[i] = rest[i]
    BY <1>4, <2>1, <2>2 DEF Follows
  <2>4. q = rest
    BY <2>1, <2>2, <2>3, EqualSeqs
  <2> QED BY <2>4 DEF q, l
<1>7. IsPrefix(s, text)
  <2> DEFINE a == SubSeq(text, 1, 1)
             b == SubSeq(s, 1, 1)
  <2>1. 1 \in 1 .. Len(text) + 1 /\ 1 \in 1 - 1 .. Len(text) /\ 1 - 1 + 1 = 1 /\ \A i \in 1 .. 1 : 1 + i - 1 = i
    BY <1>2
  <2>2. 1 \in 1 .. Len(s) + 1 /\ 1 \in 1 - 1 .. Len(s)
    BY <1>1
  <2>3. a \in Seq(S) /\ Len(a) = 1 - 1 + 1 /\ \A i \in 1 .. 1 - 1 + 1 : a[i] = text[1 + i - 1]
    BY <1>2, <2>1, SubSeqFacts
  <2>4. b \in Seq(S) /\ Len(b) = 1 - 1 + 1 /\ \A i \in 1 .. 1 - 1 + 1 : b[i] = s[1 + i - 1]
    BY <1>1, <2>2, SubSeqFacts
  <2> HIDE DEF a, b
  <2>5. a = b
    <3>1. \A i \in 1 .. Len(a) : a[i] = b[i]
      BY <1>3, <2>1, <2>3, <2>4
    <3> QED BY <2>1, <2>3, <2>4, <3>1, EqualSeqs
  <2>6. SubSeq(s, 1, Len(s)) = SubSeq(text, 1, Len(s)) /\ Len(s) <= Len(text)
    BY <1>1, <1>2, <2>5 DEF a, b
  <2> QED BY <2>6 DEF IsPrefix
<1> QED BY <1>5, <1>6, <1>7 DEF s, text

\* Before its place, there is no delimiter in what begins like a plain human part.
LEMMA HitsNone ==
    ASSUME NEW S, NEW human \in Seq(S), Delimiter \in Seq(S), Plain(human), NEW rest \in Seq(S),
           NEW c \in Nat, c <= Len(rest), c <= Len(human) + 3,
           \A i \in 1 .. c : rest[i] = (human \o Delimiter)[i],
           NEW i \in Hits(rest)
    PROVE  i >= 1 /\ i + 2 <= Len(rest) /\ rest[i + 2] = Blank /\ (i <= Len(human) => i + 2 > c)
<1> DEFINE d == Delimiter
           u == human \o d
<1>1. d \in Seq(S) /\ Len(d) = 3
  BY DelimiterIs
<1>2. Len(human) \in Nat /\ DOMAIN human = 1 .. Len(human) /\ Len(rest) \in Nat /\ DOMAIN rest = 1 .. Len(rest)
  BY SeqFacts
<1>3. \A j \in DOMAIN human : ~ Occurs(Delimiter, u, j)
  BY DEF Plain
<1>4. i \in 1 .. Len(rest) /\ Occurs(Delimiter, rest, i)
  BY <1>2 DEF Hits
<1>5. \A j \in 1 .. c : rest[j] = u[j]
  OBVIOUS
<1> HIDE DEF d
<1>6. Len(u) = Len(human) + 3
  <2>1. Len(u) = Len(human) + Len(d)
    BY <1>1, ConcatFacts
  <2> HIDE DEF u
  <2> QED BY <1>1, <2>1
<1> HIDE DEF u
<1>7. i + 2 <= Len(rest) /\ rest[i] = Blank /\ rest[i + 1] = "|" /\ rest[i + 2] = Blank
  <2>1. i \in Nat
    BY <1>4
  <2> QED BY <1>2, <1>4, <2>1, OccursIs
<1>8. ASSUME i <= Len(human), i + 2 <= c PROVE FALSE
  <2>1. i \in DOMAIN human /\ i \in Nat /\ Len(u) \in Nat
    BY <1>2, <1>4, <1>6, <1>8
  <2>2. i \in 1 .. c /\ i + 1 \in 1 .. c /\ i + 2 \in 1 .. c
    BY <1>4, <1>8
  <2>3. u[i] = Blank /\ u[i + 1] = "|" /\ u[i + 2] = Blank
    BY <1>5, <1>7, <2>2
  <2>4. i + 2 <= Len(u)
    BY <1>6, <1>8, <2>2
  <2> QED BY <1>3, <2>1, <2>3, <2>4, OccursIs
<1> QED BY <1>2, <1>4, <1>7, <1>8

\* What begins like the human part and holds no blank after that is all human.
LEMMA HeadlessParse ==
    ASSUME NEW S, NEW human \in Seq(S), Delimiter \in Seq(S), Plain(human), NEW rest \in Seq(S),
           NEW c \in Nat, c <= Len(rest), c <= Len(human) + 2,
           \A i \in 1 .. c : rest[i] = (human \o Delimiter)[i],
           \A i \in c + 1 .. Len(rest) : rest[i] # Blank
    PROVE  ParseRest(rest) = Human(rest)
<1>1. Len(human) \in Nat /\ Len(rest) \in Nat
  BY SeqFacts
<1>2. ASSUME NEW i \in Hits(rest) PROVE FALSE
  <2>1. i \in Nat
    BY SeqFacts DEF Hits
  <2>2. i >= 1 /\ i + 2 <= Len(rest) /\ rest[i + 2] = Blank /\ (i <= Len(human) => i + 2 > c)
    <3>1. c <= Len(human) + 3
      BY <1>1
    <3> QED BY <3>1, HitsNone
  <2>3. i + 2 <= c
    BY <1>1, <2>1, <2>2
  <2> QED BY <1>1, <2>1, <2>2, <2>3
<1> QED BY <1>2 DEF ParseRest

\* A plain human part and what follows the delimiter are told apart.
LEMMA HeadedParse ==
    ASSUME NEW S, NEW human \in Seq(S), Delimiter \in Seq(S), Plain(human), NEW tail \in Seq(S),
           NEW rest \in Seq(S), Len(rest) = Len(human) + 3 + Len(tail),
           \A i \in 1 .. Len(human) + 3 : rest[i] = (human \o Delimiter)[i], Follows(rest, Len(human) + 3, tail)
    PROVE  ParseRest(rest) = Over(PairsIn(tail), Human(human))
<1> DEFINE d == Delimiter
           u == human \o d
           n == Len(human)
<1>1. d \in Seq(S) /\ Len(d) = 3 /\ d[1] = Blank /\ d[2] = "|" /\ d[3] = Blank
  BY DelimiterIs
<1>2. n \in Nat /\ Len(tail) \in Nat
  BY SeqFacts
<1> HIDE DEF d
<1>4. Follows(u, n, d)
  BY <1>1, HeadFacts
<1>5. Len(rest) = n + 3 + Len(tail) /\ Follows(rest, n + 3, tail)
  OBVIOUS
<1> DEFINE c == n + 3
<1>6. (\A i \in 1 .. n + 3 : rest[i] = u[i]) /\ (\A i \in 1 .. n : u[i] = human[i])
  <2>1. \A i \in 1 .. n : u[i] = human[i]
    BY <1>1, ConcatFacts
  <2>2. \A i \in 1 .. n + 3 : rest[i] = u[i]
    BY DEF d
  <2> QED BY <2>1, <2>2
<1> HIDE DEF u
<1>7. \A i \in Hits(rest) : i \in Nat /\ n + 1 <= i
  <2> TAKE i \in Hits(rest)
  <2>1. i \in Nat
    BY SeqFacts DEF Hits
  <2>2. c \in Nat /\ c <= Len(rest) /\ c <= Len(human) + 3 /\ \A j \in 1 .. c : rest[j] = (human \o Delimiter)[j]
    <3>1. \A j \in 1 .. c : rest[j] = (human \o Delimiter)[j]
      OBVIOUS
    <3>2. c \in Nat /\ c <= Len(rest) /\ c <= Len(human) + 3
      BY <1>2, <1>5
    <3> QED BY <3>1, <3>2
  <2> HIDE DEF c
  <2>3. i >= 1 /\ (i <= Len(human) => i + 2 > c)
    BY <2>2, HitsNone
  <2> QED BY <1>2, <2>1, <2>3 DEF c
<1>8. n + 1 \in Hits(rest)
  <2>1. u[n + 1] = Blank /\ u[n + 2] = "|" /\ u[n + 3] = Blank
    <3>1. 1 \in 1 .. Len(d) /\ 2 \in 1 .. Len(d) /\ 3 \in 1 .. Len(d)
      BY <1>1
    <3>2. u[n + 1] = d[1] /\ u[n + 2] = d[2] /\ u[n + 3] = d[3]
      BY <1>4, <3>1 DEF Follows
    <3> QED BY <1>1, <3>2
  <2>2. n + 1 \in 1 .. n + 3 /\ n + 2 \in 1 .. n + 3 /\ n + 3 \in 1 .. n + 3 /\ n + 1 + 1 = n + 2 /\ n + 1 + 2 = n + 3 /\ n + 1 \in Nat
    BY <1>2
  <2>3. rest[n + 1] = Blank /\ rest[n + 2] = "|" /\ rest[n + 3] = Blank
    BY <1>6, <2>1, <2>2
  <2>4. Len(rest) \in Nat /\ n + 1 + 2 <= Len(rest) /\ n + 1 \in 1 .. Len(rest) /\ DOMAIN rest = 1 .. Len(rest)
    BY <1>2, <1>5, SeqFacts
  <2> DEFINE k == n + 1
  <2>5. k \in Nat /\ k + 2 <= Len(rest) /\ rest[k] = Blank /\ rest[k + 1] = "|" /\ rest[k + 2] = Blank
    BY <2>2, <2>3, <2>4
  <2> HIDE DEF k
  <2>6. Occurs(Delimiter, rest, k)
    BY <2>4, <2>5, OccursIs
  <2> QED BY <2>4, <2>6 DEF Hits, k
<1>9. Min(Hits(rest)) = n + 1
  BY <1>7, <1>8, MinIs
<1>10. SubSeq(rest, 1, n) = human
  <2> DEFINE q == SubSeq(rest, 1, n)
  <2>1. 1 \in 1 .. Len(rest) + 1 /\ n \in 1 - 1 .. Len(rest) /\ n - 1 + 1 = n /\ \A i \in 1 .. n : 1 + i - 1 = i /\ i \in 1 .. n + 3
    BY <1>2, <1>5
  <2>2. n = Len(human)
    OBVIOUS
  <2> HIDE DEF n
  <2>3. q \in Seq(S) /\ Len(q) = n - 1 + 1 /\ \A i \in 1 .. n - 1 + 1 : q[i] = rest[1 + i - 1]
    BY <1>5, <2>1, SubSeqFacts
  <2> HIDE DEF q
  <2>4. \A i \in 1 .. Len(q) : q[i] = human[i]
    BY <1>6, <2>1, <2>2, <2>3
  <2>5. q = human
    BY <2>1, <2>2, <2>3, <2>4, EqualSeqs
  <2> QED BY <2>5 DEF q
<1>11. SubSeq(rest, n + 4, Len(rest)) = tail
  <2> DEFINE m == n + 4
             l == Len(rest)
             q == SubSeq(rest, m, l)
  <2>1. m \in 1 .. Len(rest) + 1 /\ l \in m - 1 .. Len(rest) /\ l - m + 1 = Len(tail) /\ \A i \in 1 .. Len(tail) : m + i - 1 = n + 3 + i
    BY <1>2, <1>5
  <2>2. \A i \in 1 .. Len(tail) : rest[n + 3 + i] = tail[i]
    BY <1>5 DEF Follows
  <2> HIDE DEF m, l, n
  <2>3. q \in Seq(S) /\ Len(q) = l - m + 1 /\ \A i \in 1 .. l - m + 1 : q[i] = rest[m + i - 1]
    BY <1>5, <2>1, SubSeqFacts
  <2> HIDE DEF q
  <2>4. \A i \in 1 .. Len(q) : q[i] = tail[i]
    BY <2>1, <2>2, <2>3
  <2>5. q = tail
    BY <2>1, <2>3, <2>4, EqualSeqs
  <2> QED BY <2>5 DEF q, m, l
<1>12. Hits(rest) # {} /\ n + 1 + 3 = n + 4 /\ n + 1 - 1 = n
  BY <1>2, <1>8
<1> DEFINE hits == Hits(rest)
           m == Min(hits)
           a == m + 3
           b == m - 1
<1>13. ParseRest(rest) = Over(PairsIn(SubSeq(rest, a, Len(rest))), Human(SubSeq(rest, 1, b)))
  BY <1>12 DEF ParseRest
<1>14. a = n + 4 /\ b = n
  BY <1>9, <1>12
<1> HIDE DEF n, a, b
<1> QED BY <1>10, <1>11, <1>13, <1>14

\* Three texts in a row, either way.
Regroups(r, s, t) == (r \o s) \o t = r \o (s \o t)

\* Concatenation is associative.
LEMMA RegroupFacts ==
    ASSUME NEW S, NEW r \in Seq(S), NEW s \in Seq(S), NEW t \in Seq(S)
    PROVE  Regroups(r, s, t)
  BY ConcatAssoc DEF Regroups

\* A text is its beginning and the rest of it.
LEMMA Rejoin ==
    ASSUME NEW S, NEW s \in Seq(S), NEW n \in 0 .. Len(s)
    PROVE  /\ SubSeq(s, 1, n) \in Seq(S) /\ Len(SubSeq(s, 1, n)) = n /\ \A i \in 1 .. n : SubSeq(s, 1, n)[i] = s[i]
           /\ SubSeq(s, n + 1, Len(s)) \in Seq(S) /\ SubSeq(s, 1, n) \o SubSeq(s, n + 1, Len(s)) = s
<1> DEFINE l == Len(s)
           m == n + 1
           a == SubSeq(s, 1, n)
           b == SubSeq(s, m, l)
<1>1. l \in Nat /\ l = Len(s)
  BY SeqFacts
<1>2. /\ n \in Nat /\ 1 \in 1 .. Len(s) + 1 /\ n \in 1 - 1 .. Len(s) /\ n - 1 + 1 = n /\ \A i \in 1 .. n : 1 + i - 1 = i
      /\ m \in 1 .. Len(s) + 1 /\ l \in m - 1 .. Len(s) /\ l - m + 1 = l - n /\ \A i \in 1 .. l - n : m + i - 1 = n + i
  BY <1>1
<1> HIDE DEF l, m
<1>3. a \in Seq(S) /\ Len(a) = n - 1 + 1 /\ \A i \in 1 .. n - 1 + 1 : a[i] = s[1 + i - 1]
  BY <1>2, SubSeqFacts
<1>4. b \in Seq(S) /\ Len(b) = l - m + 1 /\ \A i \in 1 .. l - m + 1 : b[i] = s[m + i - 1]
  BY <1>2, SubSeqFacts
<1> HIDE DEF a, b
<1>5. Len(a) = n /\ (\A i \in 1 .. n : a[i] = s[i]) /\ Len(b) = l - n /\ \A i \in 1 .. l - n : b[i] = s[n + i]
  BY <1>2, <1>3, <1>4
<1> DEFINE t == a \o b
<1>6. t \in Seq(S) /\ Len(t) = Len(a) + Len(b)
  BY <1>3, <1>4, ConcatFacts
<1>7. \A i \in 1 .. Len(a) : t[i] = a[i]
  BY <1>3, <1>4, ConcatFacts
<1>8. Follows(t, Len(a), b)
  BY <1>3, <1>4, HeadFacts
<1> HIDE DEF t
<1>9. Len(t) = l
  BY <1>1, <1>2, <1>5, <1>6
<1>10. \A i \in 1 .. l : t[i] = s[i]
  <2> TAKE i \in 1 .. l
  <2>1. CASE i <= n
    BY <1>1, <1>2, <1>5, <1>7, <2>1
  <2>2. CASE i > n
    <3>1. i - n \in 1 .. l - n /\ n + (i - n) = i
      BY <1>1, <1>2, <2>2
    <3>2. t[n + (i - n)] = b[i - n]
      BY <1>5, <1>8, <3>1 DEF Follows
    <3> QED BY <1>5, <3>1, <3>2
  <2> QED BY <1>1, <1>2, <2>1, <2>2
<1>11. t = s
  BY <1>1, <1>6, <1>9, <1>10, EqualSeqs
<1> QED BY <1>3, <1>4, <1>5, <1>11 DEF t, a, b, m, l

\* The beginning of two texts, when it reaches into the second.
TakenInto(a, b, n, m) == SubSeq(a \o b, 1, m) = a \o SubSeq(b, 1, n)

\* How much of the second the beginning reaches into.
LEMMA TakeConcat ==
    ASSUME NEW S, NEW a \in Seq(S), NEW b \in Seq(S), NEW n \in 0 .. Len(b), NEW m, m = Len(a) + n
    PROVE  TakenInto(a, b, n, m)
<1> SUFFICES ASSUME NEW e, e = Len(a) + n PROVE SubSeq(a \o b, 1, e) = a \o SubSeq(b, 1, n)
  BY DEF TakenInto
<1> DEFINE w == a \o b
           c == SubSeq(b, 1, n)
           t == a \o c
           q == SubSeq(w, 1, e)
<1>1. Len(a) \in Nat /\ Len(b) \in Nat
  BY SeqFacts
<1>2. c \in Seq(S) /\ Len(c) = n /\ \A i \in 1 .. n : c[i] = b[i]
  BY Rejoin
<1> HIDE DEF c
<1>3. w \in Seq(S) /\ Len(w) = Len(a) + Len(b)
  BY ConcatFacts
<1>4. \A i \in 1 .. Len(a) : w[i] = a[i]
  BY ConcatFacts
<1>5. Follows(w, Len(a), b)
  BY HeadFacts
<1>6. t \in Seq(S) /\ Len(t) = Len(a) + Len(c)
  BY <1>2, ConcatFacts
<1>7. \A i \in 1 .. Len(a) : t[i] = a[i]
  BY <1>2, ConcatFacts
<1>8. Follows(t, Len(a), c)
  BY <1>2, HeadFacts
<1> HIDE DEF w, t
<1>9. e \in 0 .. Len(w) /\ e = Len(t)
  BY <1>1, <1>2, <1>3, <1>6
<1>10. q \in Seq(S) /\ Len(q) = e /\ \A i \in 1 .. e : q[i] = w[i]
  BY <1>3, <1>9, Rejoin
<1> HIDE DEF q
<1>11. \A i \in 1 .. e : w[i] = t[i]
  <2> TAKE i \in 1 .. e
  <2>1. CASE i <= Len(a)
    BY <1>1, <1>4, <1>7, <2>1
  <2>2. CASE i > Len(a)
    <3> DEFINE j == i - Len(a)
    <3>1. j \in 1 .. n /\ j \in 1 .. Len(b) /\ Len(a) + j = i
      BY <1>1, <2>2
    <3> HIDE DEF j
    <3>2. w[Len(a) + j] = b[j] /\ t[Len(a) + j] = c[j]
      BY <1>2, <1>5, <1>8, <3>1 DEF Follows
    <3> QED BY <1>2, <3>1, <3>2
  <2> QED BY <1>1, <2>1, <2>2
<1>12. q = t
  <2>1. \A i \in 1 .. Len(q) : q[i] = t[i]
    BY <1>10, <1>11
  <2>2. Len(q) = Len(t)
    BY <1>9, <1>10
  <2> QED BY <1>6, <1>10, <2>1, <2>2, EqualSeqs
<1> QED BY <1>12 DEF q, w, t, c

\* All of r is read, and nothing else.
Complete(parsed, r) ==
    /\ \A i \in 1 .. Len(r) : <<r[i].key>> \in DOMAIN parsed
    /\ \A key \in DOMAIN parsed \ {<<"_human">>} :
          \E i \in 1 .. Len(r) : key = <<r[i].key>> /\ parsed[key] = Unescape(r[i].value)
\* Some keys of r are read, and that the string was cut.
CutShort(parsed, r) ==
    /\ Len(r) > 0
    /\ <<"truncated">> \in DOMAIN parsed /\ parsed[<<"truncated">>] = <<"hard">>
    /\ \A key \in DOMAIN parsed \ {<<"_human">>} : key = <<"truncated">> \/ \E i \in 1 .. Len(r) : key = <<r[i].key>>
\* Nothing is read but a human part.
Headless(parsed) == DOMAIN parsed \subseteq {<<"_human">>}

\* The human part stands beside the pairs.
LEMMA BesideHuman ==
    ASSUME NEW f, NEW text
    PROVE  /\ DOMAIN f \subseteq DOMAIN Over(f, Human(text))
           /\ \A key \in DOMAIN Over(f, Human(text)) \ {<<"_human">>} : key \in DOMAIN f
           /\ \A key \in DOMAIN f : Over(f, Human(text))[key] = f[key]
           /\ Headless(Human(text))
<1> DEFINE one == {<<"_human">>}
           g == Human(text)
           o == Over(f, g)
<1>1. DOMAIN g \subseteq one
  <2>1. CASE text = <<>>
    <3>1. g = <<>>
      BY <2>1 DEF Human
    <3>2. DOMAIN <<>> = {}
      OBVIOUS
    <3> HIDE DEF g
    <3> QED BY <3>1, <3>2
  <2>2. CASE text # <<>>
    <3>1. g = [key \in one |-> text]
      BY <2>2 DEF Human
    <3> HIDE DEF g, one
    <3> QED BY <3>1
  <2> QED BY <2>1, <2>2
<1> HIDE DEF g, one
<1>2. DOMAIN o = DOMAIN f \cup DOMAIN g /\ \A x \in DOMAIN f : o[x] = f[x]
  BY DEF Over
<1> HIDE DEF o
<1>3. DOMAIN f \subseteq DOMAIN o /\ (\A key \in DOMAIN o \ one : key \in DOMAIN f)
  BY <1>1, <1>2
<1> QED BY <1>1, <1>2, <1>3 DEF o, g, one, Headless

\* What follows the schema, with pairs and without.
LEMMA RestFacts ==
    ASSUME NEW S, FormatWords \subseteq S, NEW human \in Seq(S), NEW r \in Seq(Pairs(S))
    PROVE  /\ Len(r) \in Nat /\ BodyOf(r) \in Seq(S) /\ human \o Delimiter \in Seq(S)
           /\ Len(human \o Delimiter) = Len(human) + 3
           /\ Len(r) = 0 => RestOf(human, r) = human
           /\ Len(r) > 0 => RestOf(human, r) = (human \o Delimiter) \o BodyOf(r)
<1> DEFINE d == Delimiter
           b == BodyOf(r)
<1>1. Keys \subseteq S /\ "=" \in S /\ Semicolon \in S /\ d \in Seq(S) /\ Len(d) = 3
  BY FormatFacts
<1>2. b \in Seq(S) /\ (Len(r) = 0 => b = <<>>) /\ (Len(r) > 0 => b # <<>>)
  BY <1>1, BodyFacts
<1>3. Len(r) \in Nat
  BY SeqFacts
<1>4. RestOf(human, r) = human \o (IF b = <<>> THEN <<>> ELSE d \o b)
  BY DEF RestOf
<1> HIDE DEF d, b
<1>5. human \o <<>> = human
  BY EmptyFacts
<1>6. (human \o d) \o b = human \o (d \o b)
  BY <1>1, <1>2, ConcatAssoc, SMTT(30)
<1>7. human \o d \in Seq(S) /\ Len(human \o d) = Len(human) + Len(d)
  BY <1>1, ConcatFacts
<1> QED BY <1>1, <1>2, <1>3, <1>4, <1>5, <1>6, <1>7 DEF d, b

\* A string that is not cut.
LEMMA WholeParse ==
    ASSUME NEW S, FormatWords \subseteq S, NEW human \in Seq(S), Plain(human), NEW r \in Seq(Pairs(S))
    PROVE  Complete(ParseRest(RestOf(human, r)), r)
<1> DEFINE d == Delimiter
           b == BodyOf(r)
           u == human \o d
           rest == RestOf(human, r)
<1>1. Keys \subseteq S /\ "=" \in S /\ Semicolon \in S /\ d \in Seq(S) /\ Len(d) = 3
  BY FormatFacts
<1>2. /\ Len(r) \in Nat /\ b \in Seq(S) /\ u \in Seq(S) /\ Len(u) = Len(human) + 3
      /\ (Len(r) = 0 => rest = human) /\ (Len(r) > 0 => rest = u \o b)
  BY RestFacts
<1>3. Len(human) \in Nat
  BY SeqFacts
<1>4. CASE Len(r) = 0
  <2> DEFINE c == Len(human)
             p == Human(human)
  <2>1. \A i \in 1 .. Len(human) : u[i] = human[i]
    BY <1>1, ConcatFacts
  <2>2. c \in Nat /\ c <= Len(human) /\ c <= Len(human) + 2 /\ \A i \in c + 1 .. Len(human) : human[i] # Blank
    BY <1>3
  <2>3. \A i \in 1 .. c : human[i] = (human \o Delimiter)[i]
    BY <2>1
  <2>8. Delimiter \in Seq(S)
    BY <1>1
  <2> HIDE DEF c, d, u
  <2>4. ParseRest(human) = p
    BY <2>2, <2>3, <2>8, HeadlessParse
  <2>5. Headless(p)
    BY BesideHuman
  <2> HIDE DEF p, b
  <2>6. \A key \in DOMAIN p \ {<<"_human">>} : FALSE
    BY <2>5 DEF Headless
  <2>7. Complete(p, r)
    BY <1>4, <2>6 DEF Complete
  <2> QED BY <1>2, <1>4, <2>4, <2>7
<1>5. CASE Len(r) > 0
  <2> DEFINE f == PairsIn(b)
             h == Human(human)
             p == Over(f, h)
  <2>1. /\ \A i \in 1 .. Len(r) : <<r[i].key>> \in DOMAIN f
    BY <1>1, <1>5, BodyReads
  <2>2. \A key \in DOMAIN f : \E i \in 1 .. Len(r) : key = <<r[i].key>> /\ f[key] = Unescape(r[i].value)
    BY <1>1, <1>5, BodyReads
  <2>3. /\ DOMAIN f \subseteq DOMAIN p /\ \A key \in DOMAIN f : p[key] = f[key]
    BY BesideHuman
  <2>4. \A key \in DOMAIN p \ {<<"_human">>} : key \in DOMAIN f
    BY BesideHuman
  <2>5. ParseRest(rest) = p
    <3>1. rest = u \o b
      BY <1>2, <1>5
    <3> DEFINE w == u \o b
               n == Len(human) + 3
    <3> HIDE DEF u, b, rest
    <3>2. w \in Seq(S) /\ Len(w) = Len(u) + Len(b)
      BY <1>2, ConcatFacts
    <3>3. \A i \in 1 .. Len(u) : w[i] = u[i]
      BY <1>2, ConcatFacts
    <3>4. Follows(w, Len(u), b)
      BY <1>2, HeadFacts
    <3> HIDE DEF w
    <3>5. Len(w) = Len(human) + 3 + Len(b) /\ (\A i \in 1 .. Len(human) + 3 : w[i] = (human \o Delimiter)[i]) /\ Follows(w, Len(human) + 3, b)
      <4>1. Len(u) = Len(human) + 3
        BY <1>2
      <4>2. \A i \in 1 .. Len(human) + 3 : w[i] = (human \o Delimiter)[i]
        BY <3>3, <4>1 DEF u
      <4> QED BY <3>2, <3>4, <4>1, <4>2
    <3>7. Delimiter \in Seq(S)
      BY <1>1
    <3>6. ParseRest(w) = Over(PairsIn(b), Human(human))
      BY <1>2, <3>2, <3>5, <3>7, HeadedParse
    <3> QED BY <3>1, <3>6 DEF w
  <2> HIDE DEF p, f, h, b, rest, u, d
  <2>6. \A i \in 1 .. Len(r) : <<r[i].key>> \in DOMAIN p
    BY <2>1, <2>3
  <2>7. \A key \in DOMAIN p \ {<<"_human">>} : \E i \in 1 .. Len(r) : key = <<r[i].key>> /\ p[key] = Unescape(r[i].value)
    <3> TAKE key \in DOMAIN p \ {<<"_human">>}
    <3>1. key \in DOMAIN f /\ p[key] = f[key]
      BY <2>3, <2>4
    <3>2. PICK i \in 1 .. Len(r) : key = <<r[i].key>> /\ f[key] = Unescape(r[i].value)
      BY <2>2, <3>1
    <3> QED BY <3>1, <3>2
  <2>8. Complete(p, r)
    BY <2>6, <2>7 DEF Complete
  <2> QED BY <2>5, <2>8 DEF rest
<1> QED BY <1>2, <1>4, <1>5

\* What the cap leaves of the text after the schema.
CutRest(rest) == SubSeq(rest, 1, HardCap - 5) \o (<<Semicolon>> \o Hard)

\* A string that is cut is the schema and what the cap leaves of the rest.
LEMMA CutIs ==
    ASSUME NEW S, FormatWords \subseteq S, NEW rest \in Seq(S), Len(Schema \o rest) > HardCap
    PROVE  /\ HardCap - 5 \in Nat /\ HardCap - 5 <= Len(rest) /\ CutRest(rest) \in Seq(S)
           /\ CapHard(Schema \o rest) = Schema \o CutRest(rest)
<1> DEFINE s == Schema
           text == s \o rest
           c == HardCap - 5
           n == HardCap - 4
           e == <<Semicolon>> \o Hard
           q == SubSeq(rest, 1, c)
<1>1. s \in Seq(S) /\ Len(s) = 1
  BY FormatFacts
<1>2. Len(rest) \in Nat /\ HardCap \in Nat /\ 4 < HardCap
  BY SeqFacts, BudgetAssumption
<1>3. e \in Seq(S)
  <2>1. Keys \subseteq S /\ "=" \in S /\ "hard" \in S /\ Semicolon \in S
    BY FormatFacts
  <2> DEFINE h == Hard
             one == <<Semicolon>>
  <2>2. h \in Seq(S) /\ one \in Seq(S)
    BY <2>1, HardFacts, OneFacts
  <2> HIDE DEF h, one
  <2>3. one \o h \in Seq(S)
    BY <2>2, ConcatFacts
  <2> QED BY <2>3 DEF one, h
<1>4. Len(text) > HardCap
  OBVIOUS
<1> HIDE DEF s, e
<1>5. text \in Seq(S) /\ Len(text) = Len(s) + Len(rest)
  BY <1>1, ConcatFacts
<1>6. c \in Nat /\ c \in 0 .. Len(rest) /\ n = Len(s) + c
  <2> HIDE DEF text
  <2> QED BY <1>1, <1>2, <1>4, <1>5
<1>7. CapHard(text) = CutAt(text) \o e
  <2> HIDE DEF text
  <2>1. CapHard(text) = CutAt(text) \o (<<Semicolon>> \o Hard)
    BY <1>4, <1>5, CapIs
  <2> QED BY <2>1 DEF e
<1>8. CutAt(text) = SubSeq(s \o rest, 1, n)
  BY DEF CutAt
<1> HIDE DEF c, n
<1>9. SubSeq(s \o rest, 1, n) = s \o q
  <2>1. TakenInto(s, rest, c, n)
    BY <1>1, <1>6, TakeConcat
  <2> QED BY <2>1 DEF TakenInto
<1>10. q \in Seq(S)
  BY <1>6, Rejoin
<1> HIDE DEF q, text
<1>11. (s \o q) \o e = s \o (q \o e)
  BY <1>1, <1>3, <1>10, ConcatAssoc, SMTT(30)
<1>12. q \o e \in Seq(S)
  BY <1>3, <1>10, ConcatFacts
<1>13. q \o e = CutRest(rest)
  BY DEF CutRest, q, e, c
<1>14. CapHard(text) = s \o CutRest(rest)
  BY <1>7, <1>8, <1>9, <1>11, <1>13
<1>15. c <= Len(rest)
  BY <1>2, <1>6
<1> QED BY <1>6, <1>12, <1>13, <1>14, <1>15 DEF s, text, c

\* After a human part that fits.
LEMMA CutParse ==
    ASSUME NEW S, FormatWords \subseteq S, NEW human \in Seq(S), Plain(human), NEW r \in Seq(Pairs(S)),
           HardCap - 5 \in Nat, HardCap - 5 <= Len(RestOf(human, r)), Len(human) + 3 <= HardCap - 5
    PROVE  CutShort(ParseRest(CutRest(RestOf(human, r))), r)
<1> DEFINE d == Delimiter
           b == BodyOf(r)
           u == human \o d
           rest == RestOf(human, r)
           c == HardCap - 5
           e == <<Semicolon>> \o Hard
           m == c - (Len(human) + 3)
           q == SubSeq(b, 1, m)
           l == SubSeq(b, m + 1, Len(b))
           tail == q \o e
<1>1. Keys \subseteq S /\ "=" \in S /\ "hard" \in S /\ Semicolon \in S /\ d \in Seq(S) /\ Len(d) = 3
  BY FormatFacts
<1>2. /\ Len(r) \in Nat /\ b \in Seq(S) /\ u \in Seq(S) /\ Len(u) = Len(human) + 3
      /\ (Len(r) = 0 => rest = human) /\ (Len(r) > 0 => rest = u \o b)
  BY RestFacts
<1>3. Len(human) \in Nat /\ c \in Nat /\ c <= Len(rest) /\ Len(human) + 3 <= c /\ Len(b) \in Nat
  BY <1>2, SeqFacts
<1>4. e \in Seq(S)
  <2> DEFINE h == Hard
             one == <<Semicolon>>
  <2>2. h \in Seq(S) /\ one \in Seq(S)
    BY <1>1, HardFacts, OneFacts
  <2> HIDE DEF h, one
  <2>3. one \o h \in Seq(S)
    BY <2>2, ConcatFacts
  <2> QED BY <2>3 DEF one, h
<1>5. CutRest(rest) = SubSeq(rest, 1, c) \o e
  BY DEF CutRest
<1>6. d = Delimiter
  OBVIOUS
<1>7. u = human \o Delimiter
  OBVIOUS
<1> HIDE DEF d, b, u, rest, c, e
<1>8. Len(r) > 0 /\ rest = u \o b
  BY <1>2, <1>3
<1>9. Len(rest) = Len(u) + Len(b)
  BY <1>2, <1>8, ConcatFacts
<1>10. m \in 0 .. Len(b) /\ c = Len(u) + m /\ m \in Nat
  BY <1>2, <1>3, <1>9
<1> HIDE DEF m
<1>11. SubSeq(u \o b, 1, c) = u \o q
  <2>1. TakenInto(u, b, m, c)
    BY <1>2, <1>10, TakeConcat
  <2> QED BY <2>1 DEF TakenInto
<1>12. q \in Seq(S) /\ l \in Seq(S) /\ q \o l = b
  BY <1>2, <1>10, Rejoin
<1> HIDE DEF q, l
<1>13. (u \o q) \o e = u \o (q \o e)
  <2>1. Regroups(u, q, e)
    BY <1>2, <1>4, <1>12, RegroupFacts
  <2> QED BY <2>1 DEF Regroups
<1>14. tail \in Seq(S)
  BY <1>4, <1>12, ConcatFacts
<1> DEFINE w == u \o tail
<1>15. CutRest(rest) = w
  BY <1>5, <1>8, <1>11, <1>13
<1> DEFINE f == PairsIn(tail)
           p == Over(f, Human(human))
<1>16. tail = q \o (<<Semicolon>> \o Hard)
  BY DEF e
<1> HIDE DEF tail
<1>17. OfPairs(f, r)
  <2>1. q \o l = BodyOf(r) /\ Len(r) > 0
    BY <1>8, <1>12 DEF b
  <2>2. OfPairs(PairsIn(tail), r)
    BY <1>1, <1>12, <1>16, <2>1, CutReads
  <2> QED BY <2>2
<1>18. \A key \in DOMAIN f : key = <<"truncated">> \/ \E i \in 1 .. Len(r) : key = <<r[i].key>>
  BY <1>17 DEF OfPairs
<1>19. ParseRest(w) = p
  <2>2. w \in Seq(S) /\ Len(w) = Len(u) + Len(tail)
    BY <1>2, <1>14, ConcatFacts
  <2>3. \A i \in 1 .. Len(u) : w[i] = u[i]
    BY <1>2, <1>14, ConcatFacts
  <2>4. Follows(w, Len(u), tail)
    BY <1>2, <1>14, HeadFacts
  <2> HIDE DEF w
  <2>5. Len(u) = Len(human) + 3
    BY <1>2
  <2>6. \A i \in 1 .. Len(human) + 3 : w[i] = (human \o Delimiter)[i]
    BY <1>7, <2>3, <2>5
  <2>7. Len(w) = Len(human) + 3 + Len(tail) /\ Follows(w, Len(human) + 3, tail)
    BY <2>2, <2>4, <2>5
  <2>8. Delimiter \in Seq(S)
    BY <1>1, <1>6
  <2> QED BY <1>14, <2>2, <2>6, <2>7, <2>8, HeadedParse
<1>20. DOMAIN f \subseteq DOMAIN p /\ \A key \in DOMAIN f : p[key] = f[key]
  BY BesideHuman
<1>21. \A key \in DOMAIN p \ {<<"_human">>} : key \in DOMAIN f
  BY BesideHuman
<1> HIDE DEF p, f
<1>22. CutShort(p, r)
  <2>1. <<"truncated">> \in DOMAIN p /\ p[<<"truncated">>] = <<"hard">>
    BY <1>17, <1>20 DEF OfPairs
  <2>2. \A key \in DOMAIN p \ {<<"_human">>} : key = <<"truncated">> \/ \E i \in 1 .. Len(r) : key = <<r[i].key>>
    BY <1>18, <1>21
  <2> QED BY <1>8, <2>1, <2>2 DEF CutShort
<1> QED BY <1>15, <1>19, <1>22 DEF rest

\* Within a human part that does not.
LEMMA HeadlessCut ==
    ASSUME NEW S, FormatWords \subseteq S, NEW human \in Seq(S), Plain(human), NEW r \in Seq(Pairs(S)),
           HardCap - 5 \in Nat, HardCap - 5 <= Len(RestOf(human, r)), ~ Len(human) + 3 <= HardCap - 5
    PROVE  Headless(ParseRest(CutRest(RestOf(human, r))))
<1> DEFINE d == Delimiter
           b == BodyOf(r)
           u == human \o d
           rest == RestOf(human, r)
           c == HardCap - 5
           h == Hard
           one == <<Semicolon>>
           e == one \o h
           a == SubSeq(rest, 1, c)
           w == a \o e
<1>1. Keys \subseteq S /\ "=" \in S /\ "hard" \in S /\ Semicolon \in S /\ d \in Seq(S) /\ Len(d) = 3
  BY FormatFacts
<1>2. /\ Len(r) \in Nat /\ b \in Seq(S) /\ u \in Seq(S) /\ Len(u) = Len(human) + 3
      /\ (Len(r) = 0 => rest = human) /\ (Len(r) > 0 => rest = u \o b)
  BY RestFacts
<1>3. Len(human) \in Nat /\ c \in Nat /\ c <= Len(rest) /\ ~ Len(human) + 3 <= c
  BY SeqFacts
<1>4. CutRest(rest) = w
  BY DEF CutRest
<1>5. u = human \o Delimiter /\ d = Delimiter
  OBVIOUS
<1>6. h \in Seq(S) /\ one \in Seq(S) /\ Len(h) = 3 /\ Len(one) = 1 /\ one[1] = Semicolon
  BY <1>1, HardFacts, OneFacts DEF Hard
<1>7. h[1] = "truncated" /\ h[2] = "=" /\ h[3] = "hard"
  BY DEF Hard
<1>8. "truncated" # Blank /\ "=" # Blank /\ "hard" # Blank /\ Semicolon # Blank
  BY Zenon DEF Blank, Semicolon
<1> HIDE DEF d, b, u, rest, c, h, one
<1>9. rest \in Seq(S)
  <2>1. u \o b \in Seq(S)
    BY <1>2, ConcatFacts
  <2>2. CASE Len(r) = 0
    BY <1>2, <2>2
  <2>3. CASE Len(r) > 0
    BY <1>2, <2>1, <2>3
  <2>4. Len(r) = 0 \/ Len(r) > 0
    BY <1>2
  <2> QED BY <2>2, <2>3, <2>4
<1>10. \A i \in 1 .. c : rest[i] = u[i]
  <2>1. CASE Len(r) = 0
    <3>1. \A i \in 1 .. Len(human) : u[i] = human[i]
      BY <1>1, ConcatFacts DEF u
    <3>2. c <= Len(human) /\ rest = human
      BY <1>2, <1>3, <2>1
    <3> QED BY <1>3, <3>1, <3>2
  <2>2. CASE Len(r) > 0
    <3>1. \A i \in 1 .. Len(u) : (u \o b)[i] = u[i]
      BY <1>2, ConcatFacts
    <3>2. rest = u \o b /\ Len(u) \in Nat /\ c <= Len(u)
      BY <1>2, <1>3, <2>2
    <3> QED BY <1>3, <3>1, <3>2
  <2> QED BY <1>2, <2>1, <2>2
<1>11. a \in Seq(S) /\ Len(a) = c /\ \A i \in 1 .. c : a[i] = rest[i]
  <2>1. c \in 0 .. Len(rest)
    BY <1>3, <1>9, SeqFacts
  <2> QED BY <1>9, <2>1, Rejoin
<1> HIDE DEF a
<1>12. e \in Seq(S) /\ Len(e) = 4 /\ \A i \in 1 .. 4 : e[i] # Blank
  <2>1. e \in Seq(S) /\ Len(e) = Len(one) + Len(h)
    BY <1>6, ConcatFacts
  <2>2. \A i \in 1 .. Len(one) : e[i] = one[i]
    BY <1>6, ConcatFacts
  <2>3. Follows(e, Len(one), h)
    BY <1>6, HeadFacts
  <2> HIDE DEF e
  <2>4. \A i \in 1 .. 3 : e[1 + i] = h[i]
    BY <1>6, <2>3 DEF Follows
  <2>5. 1 \in 1 .. 3 /\ 2 \in 1 .. 3 /\ 3 \in 1 .. 3 /\ 1 + 1 = 2 /\ 1 + 2 = 3 /\ 1 + 3 = 4 /\ 1 \in 1 .. 1
    OBVIOUS
  <2>6. e[1] = Semicolon /\ e[2] = h[1] /\ e[3] = h[2] /\ e[4] = h[3]
    BY <1>6, <2>2, <2>4, <2>5
  <2>7. \A i \in 1 .. 4 : i = 1 \/ i = 2 \/ i = 3 \/ i = 4
    OBVIOUS
  <2>8. \A i \in 1 .. 4 : e[i] # Blank
    BY <1>7, <1>8, <2>6, <2>7
  <2> QED BY <1>6, <2>1, <2>8
<1> HIDE DEF e
<1>13. w \in Seq(S) /\ Len(w) = Len(a) + Len(e)
  BY <1>11, <1>12, ConcatFacts
<1>14. \A i \in 1 .. Len(a) : w[i] = a[i]
  BY <1>11, <1>12, ConcatFacts
<1>15. Follows(w, Len(a), e)
  BY <1>11, <1>12, HeadFacts
<1> HIDE DEF w
<1>16. \A i \in c + 1 .. Len(w) : w[i] # Blank
  <2> TAKE i \in c + 1 .. Len(w)
  <2> DEFINE j == i - c
  <2>1. j \in 1 .. 4 /\ c + j = i
    BY <1>3, <1>11, <1>12, <1>13
  <2> HIDE DEF j
  <2>2. w[c + j] = e[j]
    BY <1>11, <1>12, <1>15, <2>1 DEF Follows
  <2> QED BY <1>12, <2>1, <2>2
<1>17. \A i \in 1 .. c : w[i] = (human \o Delimiter)[i]
  BY <1>5, <1>10, <1>11, <1>14
<1>18. c <= Len(w) /\ c <= Len(human) + 2 /\ Delimiter \in Seq(S)
  BY <1>1, <1>3, <1>5, <1>11, <1>12, <1>13
<1>19. ParseRest(w) = Human(w)
  BY <1>3, <1>13, <1>16, <1>17, <1>18, HeadlessParse
<1>20. Headless(Human(w))
  BY BesideHuman
<1> QED BY <1>4, <1>19, <1>20 DEF rest

\* What is read of a string that was packed, whole or cut.
LEMMA PackParse ==
    ASSUME NEW S, NEW fields, FieldsOver(fields, S), Plain(HumanOS(fields))
    PROVE  \/ Complete(ParseOSDetail(PackOSDetail(fields)), LeftOf(fields))
           \/ CutShort(ParseOSDetail(PackOSDetail(fields)), LeftOf(fields))
           \/ Headless(ParseOSDetail(PackOSDetail(fields))) /\ ~ Len(HumanOS(fields)) + 4 <= HardCap - 4
<1> DEFINE human == HumanOS(fields)
           r == LeftOf(fields)
           detail == PackOSDetail(fields)
           rest == RestOf(human, r)
<1>1. FormatWords \subseteq S /\ r \in Seq(Pairs(S)) /\ human \in Seq(S) /\ detail = CapHard(Render(human, r))
  BY PackType DEF FieldsOver
<1>2. Plain(human)
  OBVIOUS
<1> HIDE DEF human, r, detail
<1>3. rest \in Seq(S) /\ Render(human, r) = Schema \o rest
  BY <1>1, RenderIs
<1>4. Len(human) \in Nat /\ HardCap \in Nat
  BY <1>1, SeqFacts, BudgetAssumption
<1> DEFINE s == Schema
           text == s \o rest
<1>5. s \in Seq(S)
  BY <1>1, FormatFacts
<1>6. text \in Seq(S)
  <2> HIDE DEF s, rest
  <2> QED BY <1>3, <1>5, ConcatFacts
<1>7. CASE Len(text) <= HardCap
  <2>1. CapHard(text) = text
    <3> HIDE DEF text
    <3> QED BY <1>1, <1>6, <1>7, CapIs
  <2>2. ParseOSDetail(text) = ParseRest(rest)
    <3> HIDE DEF rest
    <3> QED BY <1>1, <1>3, ParseIs
  <2>3. Complete(ParseRest(rest), r)
    BY <1>1, <1>2, WholeParse
  <2> HIDE DEF rest, s
  <2>4. detail = text
    BY <1>1, <1>3, <2>1 DEF s
  <2>5. Complete(ParseOSDetail(detail), r)
    BY <2>2, <2>3, <2>4
  <2> QED BY <2>5 DEF detail, r
<1>8. CASE ~ Len(text) <= HardCap
  <2>1. Len(text) > HardCap
    <3> HIDE DEF text
    <3> QED BY <1>4, <1>6, <1>8, SeqFacts
  <2>2. /\ HardCap - 5 \in Nat /\ HardCap - 5 <= Len(rest) /\ CutRest(rest) \in Seq(S)
        /\ CapHard(Schema \o rest) = Schema \o CutRest(rest)
    <3> HIDE DEF rest
    <3> QED BY <1>1, <1>3, <2>1, CutIs
  <2>3. ParseOSDetail(Schema \o CutRest(rest)) = ParseRest(CutRest(rest))
    <3> HIDE DEF rest
    <3> QED BY <1>1, <2>2, ParseIs
  <2>4. ParseOSDetail(detail) = ParseRest(CutRest(rest))
    <3> HIDE DEF rest
    <3> QED BY <1>1, <1>3, <2>2, <2>3
  <2>5. CASE Len(human) + 3 <= HardCap - 5
    <3>1. CutShort(ParseRest(CutRest(rest)), r)
      BY <1>1, <1>2, <2>2, <2>5, CutParse
    <3>2. CutShort(ParseOSDetail(detail), r)
      BY <2>4, <3>1
    <3> QED BY <3>2 DEF detail, r
  <2>6. CASE ~ Len(human) + 3 <= HardCap - 5
    <3>1. Headless(ParseRest(CutRest(rest)))
      BY <1>1, <1>2, <2>2, <2>6, HeadlessCut
    <3>2. Headless(ParseOSDetail(detail))
      BY <2>4, <3>1
    <3>3. ~ Len(human) + 4 <= HardCap - 4
      BY <1>4, <2>6
    <3> QED BY <3>2, <3>3 DEF detail, human
  <2> QED BY <2>5, <2>6
<1> QED BY <1>7, <1>8

------------------------------------------------------------------------------
(* What a reader finds of what was collected                                 *)

MarkerOf(parsed) == IF <<"truncated">> \in DOMAIN parsed THEN parsed[<<"truncated">>] ELSE <<>>
Missing(parsed, fields) == {k \in CollectedIn(fields) : <<k>> \notin DOMAIN parsed}
RankOf(k) == CHOOSE i \in DOMAIN KeyOrder : KeyOrder[i] = k

\* What is read was collected, and reads as it was collected in a string that was not cut.
Found(parsed, fields) ==
    \A key \in DOMAIN parsed \ {<<"_human">>, <<"truncated">>} :
        /\ Len(key) = 1 /\ key[1] \in CollectedIn(fields)
        /\ MarkerOf(parsed) # <<"hard">> => parsed[key] = Text(fields[key[1]])

\* What is missing has left the mark, and went before what is of a higher rank.
Marks(parsed, fields) ==
    Missing(parsed, fields) # {} =>
        /\ MarkerOf(parsed) # <<>>
        /\ MarkerOf(parsed) # <<"hard">> =>
              /\ Missing(parsed, fields) \cap ProvenanceKeys = {}
              /\ \A k \in Missing(parsed, fields), other \in (CollectedIn(fields) \ Missing(parsed, fields)) \ ProvenanceKeys :
                    RankOf(other) < RankOf(k)

\* The pairs that are left are the mark and pairs of what was collected.
Ours(r, fields) == \A i \in 1 .. Len(r) : r[i] = Mark \/ \E k \in CollectedIn(fields) : r[i] = PairFor(fields, k)

\* The rank of a key is its place in the order.
LEMMA RankIs ==
    ASSUME NEW i \in 1 .. 27
    PROVE  RankOf(KeyOrder[i]) = i
<1>1. DOMAIN KeyOrder = 1 .. 27 /\ \A j \in 1 .. 27 : KeyOrder[j] = KeyOrder[i] => j = i
  BY KeyTable, KeysDiffer
<1> DEFINE o == KeyOrder
<1>2. RankOf(o[i]) = CHOOSE j \in DOMAIN o : o[j] = o[i]
  BY DEF RankOf
<1> HIDE DEF o
<1>3. DOMAIN o = 1 .. 27 /\ \A j \in 1 .. 27 : o[j] = o[i] => j = i
  BY <1>1 DEF o
<1> QED BY <1>2, <1>3 DEF o

\* No key of the format is the key of the human part.
LEMMA HumanIsNoKey == \A k \in Keys : <<k>> # <<"_human">>
<1>1. \A i \in 1 .. 27 : KeyOrder[i] # "_human"
  <2> TAKE i \in 1 .. 27
  <2>1. i \in {1, 2, 3, 4, 5, 6, 7, 8, 9, 10, 11, 12, 13, 14, 15, 16, 17, 18, 19, 20, 21, 22, 23, 24, 25, 26, 27}
    OBVIOUS
  <2> QED BY <2>1, KeyTable
<1>2. \A k \in Keys : k # "_human"
  BY <1>1, KeysFacts
<1> SUFFICES ASSUME NEW k \in Keys, <<k>> = <<"_human">> PROVE FALSE
  OBVIOUS
<1>3. <<k>>[1] = <<"_human">>[1]
  OBVIOUS
<1>4. k = "_human"
  BY <1>3
<1> QED BY <1>2, <1>4

\* Where the pairs that are left come from.
LEMMA LeftFacts ==
    ASSUME NEW S, NEW fields, FieldsOver(fields, S)
    PROVE  /\ Ours(LeftOf(fields), fields)
           /\ CollectedIn(fields) = {} => Len(LeftOf(fields)) = 0
<1> DEFINE p == OrderedPairs(fields)
           human == HumanOS(fields)
           r == LeftOf(fields)
           C == CollectedIn(fields)
<1>1. FormatWords \subseteq S /\ p \in Seq(Pairs(S)) /\ Mark \in Pairs(S)
  BY OrderedPairsFacts, MarkFacts DEF FieldsOver
<1>2. PICK pos : InOrder(p, pos, fields)
  BY OrderedPairsFacts
<1>3. r = FitBudget(human, p)
  BY DEF LeftOf
<1>4. \A i \in 1 .. Len(p) : \E k \in C : p[i] = PairFor(fields, k)
  BY <1>2 DEF InOrder
<1> HIDE DEF p, human, r, C
<1>5. r = p \/ \E n \in Nat : Marked(r, p, n)
  BY <1>1, <1>3, FitFacts
<1>6. DOMAIN p = 1 .. Len(p) /\ Len(p) \in Nat
  BY <1>1, SeqFacts
<1>7. \A i \in 1 .. Len(r) : r[i] = Mark \/ \E k \in C : r[i] = PairFor(fields, k)
  <2>1. CASE r = p
    BY <1>4, <2>1
  <2>2. ASSUME NEW n \in Nat, Marked(r, p, n) PROVE \A i \in 1 .. Len(r) : r[i] = Mark \/ \E k \in C : r[i] = PairFor(fields, k)
    <3> TAKE i \in 1 .. Len(r)
    <3>1. r[i] = Mark \/ \E a \in Stays(p, n) : r[i] = p[a]
      BY <2>2 DEF Marked
    <3>2. Stays(p, n) \subseteq 1 .. Len(p)
      BY <1>6 DEF Stays
    <3> QED BY <1>4, <3>1, <3>2
  <2> QED BY <1>5, <2>1, <2>2
<1>8. ASSUME C = {} PROVE Len(r) = 0
  <2>1. Len(p) = 0
    <3>1. \A i \in 1 .. Len(p) : FALSE
      BY <1>4, <1>8
    <3> QED BY <1>6, <3>1
  <2> DEFINE D == {i \in DOMAIN p : p[i].key \notin ProvenanceKeys}
             droppable == Cardinality(D)
             fits == {n \in 0 .. droppable : Len(Render(human, KeepFirst(p, n))) <= SoftBudget}
             n == IF fits = {} THEN 0 ELSE Max(fits)
  <2>2. D = {}
    BY <1>6, <2>1
  <2> HIDE DEF D
  <2>3. droppable = 0
    BY <2>2, FS_EmptySet
  <2>4. FitBudget(human, p) = IF n = droppable THEN p ELSE Append(Unmarked(KeepFirst(p, n)), Mark)
    BY DEF FitBudget, D
  <2> HIDE DEF droppable
  <2>5. fits \in SUBSET (0 .. 0)
    BY <2>3
  <2> HIDE DEF fits
  <2>6. n = 0
    <3>1. CASE fits = {}
      BY <3>1
    <3>2. CASE fits # {}
      <4>1. Max(fits) \in fits
        BY <2>5, <3>2, MaxExists
      <4>2. \A x \in 0 .. 0 : x = 0
        OBVIOUS
      <4>3. Max(fits) \in 0 .. 0
        BY <2>5, <4>1
      <4>4. n = Max(fits)
        BY <3>2
      <4> HIDE DEF n
      <4> QED BY <4>2, <4>3, <4>4
    <3> QED BY <3>1, <3>2
  <2> HIDE DEF n
  <2> QED BY <1>3, <2>1, <2>3, <2>4, <2>6
<1> QED BY <1>7, <1>8 DEF Ours, r, C

\* Of a parsed string, what was left of the fields, whole or cut.
LEMMA FoundFacts ==
    ASSUME NEW S, NEW fields, FieldsOver(fields, S), NEW r, Ours(r, fields), NEW parsed,
           Complete(parsed, r) \/ CutShort(parsed, r) \/ Headless(parsed)
    PROVE  Found(parsed, fields)
<1> SUFFICES ASSUME NEW key \in DOMAIN parsed \ {<<"_human">>, <<"truncated">>}
             PROVE  /\ Len(key) = 1 /\ key[1] \in CollectedIn(fields)
                    /\ MarkerOf(parsed) # <<"hard">> => parsed[key] = Text(fields[key[1]])
  BY DEF Found
<1>1. CollectedIn(fields) \subseteq DOMAIN fields
  BY DEF CollectedIn
<1>2. Mark.key = "truncated"
  BY MarkFacts DEF FieldsOver
<1>3. ~ Headless(parsed)
  BY DEF Headless
<1>4. PICK i \in 1 .. Len(r) : key = <<r[i].key>> /\ (Complete(parsed, r) => parsed[key] = Unescape(r[i].value))
  <2>1. CASE Complete(parsed, r)
    BY <2>1 DEF Complete
  <2>2. CASE CutShort(parsed, r) /\ ~ Complete(parsed, r)
    BY <2>2 DEF CutShort
  <2> QED BY <1>3, <2>1, <2>2
<1>5. r[i] # Mark
  BY <1>2, <1>4
<1>6. PICK k \in CollectedIn(fields) : r[i] = PairFor(fields, k)
  BY <1>5 DEF Ours
<1>7. PairFor(fields, k).key = k /\ Unescape(PairFor(fields, k).value) = Text(fields[k])
  <2>1. k \in DOMAIN fields
    BY <1>1, <1>6
  <2> QED BY <2>1, PairForFacts
<1>8. key = <<k>>
  BY <1>4, <1>6, <1>7
<1>9. Len(<<k>>) = 1 /\ <<k>>[1] = k
  OBVIOUS
<1>10. ASSUME MarkerOf(parsed) # <<"hard">> PROVE Complete(parsed, r)
  <2>1. ~ CutShort(parsed, r)
    BY <1>10 DEF CutShort, MarkerOf
  <2> QED BY <1>3, <2>1
<1>11. MarkerOf(parsed) # <<"hard">> => parsed[key] = Text(fields[k])
  BY <1>4, <1>6, <1>7, <1>10
<1> QED BY <1>8, <1>9, <1>11

\* Of a parsed string, what is missing.
LEMMA MarksFacts ==
    ASSUME NEW S, NEW fields, FieldsOver(fields, S), NEW parsed,
           Complete(parsed, LeftOf(fields)) \/ CutShort(parsed, LeftOf(fields))
    PROVE  Marks(parsed, fields)
<1> DEFINE p == OrderedPairs(fields)
           human == HumanOS(fields)
           r == LeftOf(fields)
           C == CollectedIn(fields)
           M == Missing(parsed, fields)
<1>1. FormatWords \subseteq S /\ p \in Seq(Pairs(S)) /\ Mark \in Pairs(S) /\ Mark.key = "truncated" /\ Unescape(Mark.value) = <<"1">>
  BY OrderedPairsFacts, MarkFacts DEF FieldsOver
<1>2. PICK pos : InOrder(p, pos, fields)
  BY OrderedPairsFacts
<1>3. r = FitBudget(human, p)
  BY DEF LeftOf
<1>4. \A k \in C : k \in DOMAIN fields /\ k \in Keys /\ PairFor(fields, k).key = k
  <2> TAKE k \in C
  <2>1. k \in DOMAIN fields /\ k \in Keys
    BY DEF CollectedIn, FieldsOver
  <2>2. PairFor(fields, k).key = k
    BY <2>1, PairForFacts
  <2> QED BY <2>1, <2>2
<1>5. \A k \in M : k \in C /\ <<k>> \notin DOMAIN parsed
  BY DEF Missing
<1>6. \A k \in C \ M : <<k>> \in DOMAIN parsed
  BY DEF Missing
<1>7. /\ \A i \in 1 .. Len(p) : pos[i] \in 1 .. 27 /\ KeyOrder[pos[i]] \in C /\ p[i] = PairFor(fields, KeyOrder[pos[i]])
      /\ \A i, j \in 1 .. Len(p) : i < j => pos[i] < pos[j]
      /\ \A k \in C : \E i \in 1 .. Len(p) : KeyOrder[pos[i]] = k
  BY <1>2 DEF InOrder
<1>8. Complete(parsed, r) \/ CutShort(parsed, r)
  OBVIOUS
<1> HIDE DEF p, human, r, C, M
<1> SUFFICES ASSUME M # {}
             PROVE  /\ MarkerOf(parsed) # <<>>
                    /\ MarkerOf(parsed) # <<"hard">> =>
                          /\ M \cap ProvenanceKeys = {}
                          /\ \A k \in M, other \in (C \ M) \ ProvenanceKeys : RankOf(other) < RankOf(k)
  BY DEF Marks, M, C
<1>9. <<"hard">> # <<>> /\ <<"1">> # <<>>
  OBVIOUS
<1>10. CASE CutShort(parsed, r)
  <2>1. MarkerOf(parsed) = <<"hard">>
    BY <1>10 DEF CutShort, MarkerOf
  <2> QED BY <1>9, <2>1
<1>11. CASE Complete(parsed, r)
  <2>1. /\ \A i \in 1 .. Len(r) : <<r[i].key>> \in DOMAIN parsed
        /\ \A key \in DOMAIN parsed \ {<<"_human">>} :
              \E i \in 1 .. Len(r) : key = <<r[i].key>> /\ parsed[key] = Unescape(r[i].value)
    BY <1>11 DEF Complete
  <2>2. \A i \in 1 .. Len(p) : p[i].key = KeyOrder[pos[i]]
    BY <1>4, <1>7
  <2>3. r # p
    <3> SUFFICES ASSUME r = p PROVE FALSE
      OBVIOUS
    <3>1. PICK k \in M : TRUE
      OBVIOUS
    <3>2. PICK i \in 1 .. Len(p) : KeyOrder[pos[i]] = k
      BY <1>5, <1>7, <3>1
    <3>3. <<p[i].key>> \in DOMAIN parsed
      BY <2>1, <3>2
    <3> QED BY <1>5, <2>2, <3>1, <3>2, <3>3
  <2>4. PICK n \in Nat : Marked(r, p, n)
    <3>1. r = p \/ \E n \in Nat : Marked(r, p, n)
      BY <1>1, <1>3, FitFacts
    <3> QED BY <2>3, <3>1
  <2>5. /\ \A i \in 1 .. Len(r) : r[i] = Mark \/ \E a \in Stays(p, n) : r[i] = p[a] /\ p[a].key # "truncated"
        /\ \E i \in 1 .. Len(r) : r[i] = Mark
        /\ \A a \in Stays(p, n) : p[a].key # "truncated" => \E i \in 1 .. Len(r) : r[i] = p[a]
    BY <2>4 DEF Marked
  <2>6. <<"truncated">> \in DOMAIN parsed
    BY <1>1, <2>1, <2>5
  <2>7. parsed[<<"truncated">>] = <<"1">>
    <3>1. <<"truncated">> # <<"_human">>
      BY HumanIsNoKey, KeysFacts
    <3>2. PICK i \in 1 .. Len(r) : <<"truncated">> = <<r[i].key>> /\ parsed[<<"truncated">>] = Unescape(r[i].value)
      BY <2>1, <2>6, <3>1
    <3>3. r[i].key = "truncated"
      <4>1. <<r[i].key>>[1] = <<"truncated">>[1]
        BY <3>2
      <4> QED BY <4>1
    <3>4. r[i] = Mark
      BY <2>5, <3>3
    <3> QED BY <1>1, <3>2, <3>4
  <2>8. MarkerOf(parsed) = <<"1">>
    BY <2>6, <2>7 DEF MarkerOf
  <2>9. DOMAIN p = 1 .. Len(p) /\ Len(p) \in Nat
    BY <1>1, SeqFacts
  <2>10. ASSUME NEW k \in M, NEW a \in 1 .. Len(p), KeyOrder[pos[a]] = k
         PROVE  k \notin ProvenanceKeys /\ ~ DropRank(p, a) <= n
    <3>1. k # "truncated"
      BY <1>5, <2>6
    <3>2. p[a].key = k
      BY <2>2, <2>10
    <3>3. a \notin Stays(p, n)
      <4> SUFFICES ASSUME a \in Stays(p, n) PROVE FALSE
        OBVIOUS
      <4>1. PICK i \in 1 .. Len(r) : r[i] = p[a]
        BY <2>5, <3>1, <3>2
      <4> QED BY <1>5, <2>1, <3>2, <4>1
    <3> QED BY <2>9, <3>2, <3>3 DEF Stays
  <2>11. M \cap ProvenanceKeys = {}
    <3> SUFFICES ASSUME NEW k \in M PROVE k \notin ProvenanceKeys
      OBVIOUS
    <3>1. PICK a \in 1 .. Len(p) : KeyOrder[pos[a]] = k
      BY <1>5, <1>7
    <3> QED BY <2>10, <3>1
  <2>12. ASSUME NEW k \in M, NEW other \in (C \ M) \ ProvenanceKeys PROVE RankOf(other) < RankOf(k)
    <3>1. PICK a \in 1 .. Len(p) : KeyOrder[pos[a]] = k
      BY <1>5, <1>7
    <3>2. ~ DropRank(p, a) <= n
      BY <2>10, <3>1
    <3>3. <<other>> \in DOMAIN parsed /\ <<other>> # <<"_human">>
      BY <1>4, <1>6, HumanIsNoKey
    <3>4. PICK i \in 1 .. Len(r) : <<other>> = <<r[i].key>>
      BY <2>1, <3>3
    <3>5. r[i].key = other
      <4>1. <<r[i].key>>[1] = <<other>>[1]
        BY <3>4
      <4> QED BY <4>1
    <3>6. other # "truncated"
      BY DEF ProvenanceKeys
    <3>7. PICK b \in Stays(p, n) : r[i] = p[b]
      BY <1>1, <2>5, <3>5, <3>6
    <3>8. b \in 1 .. Len(p) /\ DropRank(p, b) <= n
      BY <2>9, <3>5, <3>7 DEF Stays
    <3>9. b < a
      <4>1. a \in Nat /\ b \in Nat
        BY <3>8
      <4>2. DropRank(p, a) \in Nat /\ DropRank(p, b) \in Nat /\ (a <= b => DropRank(p, a) <= DropRank(p, b))
        BY <4>1, DropRankGrows
      <4> QED BY <3>2, <3>8, <4>1, <4>2
    <3>10. pos[b] < pos[a] /\ pos[a] \in 1 .. 27 /\ pos[b] \in 1 .. 27
      BY <1>7, <3>8, <3>9
    <3>11. KeyOrder[pos[b]] = other
      BY <2>2, <3>5, <3>7, <3>8
    <3>12. RankOf(KeyOrder[pos[a]]) = pos[a] /\ RankOf(KeyOrder[pos[b]]) = pos[b]
      BY <3>10, RankIs
    <3> QED BY <3>1, <3>10, <3>11, <3>12
  <2> QED BY <1>9, <2>8, <2>11, <2>12
<1> QED BY <1>8, <1>10, <1>11

\* What PackOSDetail and ParseOSDetail do together to what was collected.
LEMMA PackedFacts ==
    ASSUME NEW S, NEW fields, FieldsOver(fields, S), Plain(HumanOS(fields))
    PROVE  /\ Found(ParseOSDetail(PackOSDetail(fields)), fields)
           /\ Len(HumanOS(fields)) + 4 <= HardCap - 4 => Marks(ParseOSDetail(PackOSDetail(fields)), fields)
           /\ CollectedIn(fields) = {} => Headless(ParseOSDetail(PackOSDetail(fields)))
<1> DEFINE parsed == ParseOSDetail(PackOSDetail(fields))
           r == LeftOf(fields)
<1>1. \/ Complete(parsed, r) \/ CutShort(parsed, r)
      \/ Headless(parsed) /\ ~ Len(HumanOS(fields)) + 4 <= HardCap - 4
  BY PackParse
<1>2. Ours(r, fields) /\ (CollectedIn(fields) = {} => Len(r) = 0)
  BY LeftFacts
<1> HIDE DEF parsed
<1>3. Len(HumanOS(fields)) + 4 <= HardCap - 4 => Marks(parsed, fields)
  BY <1>1, MarksFacts
<1> HIDE DEF r
<1>4. Found(parsed, fields)
  BY <1>1, <1>2, FoundFacts
<1>5. ASSUME Len(r) = 0 PROVE Headless(parsed)
  <2>1. CASE Complete(parsed, r)
    BY <1>5, <2>1 DEF Complete, Headless
  <2>2. ~ CutShort(parsed, r)
    BY <1>5 DEF CutShort
  <2> QED BY <1>1, <2>1, <2>2
<1> QED BY <1>2, <1>3, <1>4, <1>5 DEF parsed

------------------------------------------------------------------------------
(* What a description is made of                                             *)

Comma == ","
\* Everything a text may hold.
AllText == Characters \cup FormatWords \cup {ToString(n) : n \in Nat}

\* The text of a value, by these names.
LEMMA TextIs ==
    ASSUME NEW raw
    PROVE  /\ "list" \in DOMAIN raw /\ "bool" \notin DOMAIN raw /\ "int" \notin DOMAIN raw =>
                Text(raw) = Joined(NonEmpty(raw.list), <<Comma>>)
           /\ "list" \notin DOMAIN raw /\ "bool" \in DOMAIN raw /\ "int" \notin DOMAIN raw =>
                Text(raw) = IF raw.bool THEN <<"1">> ELSE <<>>
           /\ "list" \notin DOMAIN raw /\ "bool" \notin DOMAIN raw /\ "int" \in DOMAIN raw =>
                Text(raw) = IF raw.int = 0 THEN <<>> ELSE <<ToString(raw.int)>>
           /\ "list" \notin DOMAIN raw /\ "bool" \notin DOMAIN raw /\ "int" \notin DOMAIN raw => Text(raw) = raw.str
<1> DEFINE l == Joined(NonEmpty(raw.list), <<Comma>>)
           b == IF raw.bool THEN <<"1">> ELSE <<>>
           n == IF raw.int = 0 THEN <<>> ELSE <<ToString(raw.int)>>
           s == raw.str
           L == "list" \in DOMAIN raw
           B == "bool" \in DOMAIN raw
           N == "int" \in DOMAIN raw
<1>1. Text(raw) = CASE L -> l [] B -> b [] N -> n [] OTHER -> s
  BY DEF Text, Comma
<1> SUFFICES /\ L /\ ~ B /\ ~ N => Text(raw) = l
             /\ ~ L /\ B /\ ~ N => Text(raw) = b
             /\ ~ L /\ ~ B /\ N => Text(raw) = n
             /\ ~ L /\ ~ B /\ ~ N => Text(raw) = s
  OBVIOUS
<1> HIDE DEF l, b, n, s, L, B, N
<1>2. CASE L /\ ~ B /\ ~ N
  BY <1>1, <1>2
<1>3. CASE ~ L /\ B /\ ~ N
  BY <1>1, <1>3
<1>4. CASE ~ L /\ ~ B /\ N
  BY <1>1, <1>4
<1>5. CASE ~ L /\ ~ B /\ ~ N
  BY <1>1, <1>5
<1> QED BY <1>2, <1>3, <1>4, <1>5

\* The text of a value that was collected.
LEMMA ValueText ==
    ASSUME NEW v \in Values
    PROVE  Text(v) \in Seq(AllText)
<1> DEFINE S == AllText
<1>1. Characters \subseteq S /\ FormatWords \subseteq S /\ \A n \in Nat : ToString(n) \in S
  BY DEF AllText
<1>2. "1" \in S
  BY <1>1, FormatFacts
<1>3. Comma \in S
  <2>1. Comma \in FormatWords
    BY Zenon DEF FormatWords, Comma
  <2> QED BY <1>1, <2>1
<1> HIDE DEF S
<1>4. Texts \subseteq Seq(S)
  <2> SUFFICES ASSUME NEW t \in Texts PROVE t \in Seq(S)
    OBVIOUS
  <2>1. t \in Seq(Characters) /\ \A i \in 1 .. Len(t) : t[i] \in S
    BY <1>1, SeqFacts DEF Texts
  <2> QED BY <2>1, WiderSeq
<1>5. CASE v \in [str : Texts]
  <2>1. DOMAIN v = {"str"} /\ v.str \in Texts
    BY <1>5
  <2>2. Text(v) = v.str
    <3>1. "list" \notin DOMAIN v /\ "bool" \notin DOMAIN v /\ "int" \notin DOMAIN v
      BY <2>1
    <3> QED BY <3>1, TextIs
  <2> QED BY <1>4, <2>1, <2>2 DEF S
<1>6. CASE v \in [int : Nat]
  <2>1. DOMAIN v = {"int"} /\ v.int \in Nat
    BY <1>6
  <2>2. Text(v) = IF v.int = 0 THEN <<>> ELSE <<ToString(v.int)>>
    <3>1. "list" \notin DOMAIN v /\ "bool" \notin DOMAIN v /\ "int" \in DOMAIN v
      BY <2>1
    <3> QED BY <3>1, TextIs
  <2> DEFINE w == ToString(v.int)
             one == <<w>>
  <2>3. w \in S
    BY <1>1, <2>1
  <2> HIDE DEF w
  <2>4. one \in Seq(S) /\ <<>> \in Seq(S)
    BY <2>3, OneFacts, EmptySeq
  <2> QED BY <2>2, <2>4 DEF S, w
<1>7. CASE v \in [bool : BOOLEAN]
  <2>1. DOMAIN v = {"bool"}
    BY <1>7
  <2>2. Text(v) = IF v.bool THEN <<"1">> ELSE <<>>
    <3>1. "list" \notin DOMAIN v /\ "bool" \in DOMAIN v /\ "int" \notin DOMAIN v
      BY <2>1
    <3> QED BY <3>1, TextIs
  <2>3. <<"1">> \in Seq(S) /\ <<>> \in Seq(S)
    BY <1>2, OneFacts, EmptySeq
  <2> QED BY <2>2, <2>3 DEF S
<1>8. CASE v \in [list : Seq(Texts)]
  <2> DEFINE ts == v.list
             sep == <<Comma>>
             ne == NonEmpty(ts)
  <2>1. DOMAIN v = {"list"} /\ ts \in Seq(Texts)
    BY <1>8
  <2>2. Text(v) = Joined(ne, sep)
    <3>1. "list" \in DOMAIN v /\ "bool" \notin DOMAIN v /\ "int" \notin DOMAIN v
      BY <2>1
    <3> QED BY <3>1, TextIs
  <2> HIDE DEF ts
  <2>3. ts \in Seq(Seq(S))
    <3>1. \A i \in 1 .. Len(ts) : ts[i] \in Seq(S)
      BY <1>4, <2>1, SeqFacts
    <3> QED BY <2>1, <3>1, WiderSeq
  <2>4. ne \in Seq(Seq(S))
    BY <2>3, NonEmptyType
  <2>5. sep \in Seq(S)
    BY <1>3, OneFacts
  <2> HIDE DEF ne, sep
  <2>6. Joined(ne, sep) \in Seq(S)
    BY <2>4, <2>5, JoinedType
  <2> QED BY <2>2, <2>6 DEF S
<1> QED BY <1>5, <1>6, <1>7, <1>8 DEF Values

\* A text without the words of T.
LEMMA WithoutText ==
    ASSUME NEW S, NEW T, NEW text \in Seq(S), ToSet(text) \cap T = {}
    PROVE  text \in Seq(S \ T)
<1> DEFINE R == S \ T
<1>1. \A i \in 1 .. Len(text) : text[i] \in S \ T
  <2>1. DOMAIN text = 1 .. Len(text) /\ \A i \in 1 .. Len(text) : text[i] \in S
    BY SeqFacts
  <2> QED BY <2>1 DEF ToSet
<1>2. \A i \in 1 .. Len(text) : text[i] \in R
  BY <1>1
<1> HIDE DEF R
<1>3. text \in Seq(R)
  BY <1>2, WiderSeq
<1> QED BY <1>3 DEF R

\* What is no key.
LEMMA NotKeys == "hostname" \notin Keys /\ "warnings" \notin Keys /\ "os_detail" \notin Keys /\ "raw_os" \in Keys
<1>1. \A i \in 1 .. 27 : KeyOrder[i] # "hostname" /\ KeyOrder[i] # "warnings" /\ KeyOrder[i] # "os_detail"
  <2> TAKE i \in 1 .. 27
  <2>1. i \in {1, 2, 3, 4, 5, 6, 7, 8, 9, 10, 11, 12, 13, 14, 15, 16, 17, 18, 19, 20, 21, 22, 23, 24, 25, 26, 27}
    OBVIOUS
  <2> QED BY <2>1, KeyTable
<1> QED BY <1>1, KeysFacts

\* Behind the gates that are open, what a collector answered is made of S.
Tells(raw, gates, S) ==
    /\ FormatWords \subseteq S /\ raw.warnings \in Seq(Seq(S)) /\ "os_detail" \in DOMAIN raw
    /\ \A k \in DOMAIN raw \cap (Keys \cup {"os_detail"}) : GateOf(k) \in gates \cup {"none"} => Text(raw[k]) \in Seq(S)

\* What is projected is what the answer tells.
LEMMA ProjectionOver ==
    ASSUME NEW raw, NEW gates, NEW S, Tells(raw, gates, S)
    PROVE  FieldsOver(SystemInfoFields(raw, gates), S)
<1> DEFINE open == {k \in DOMAIN raw \cap Keys : GateOf(k) \in gates \cup {"none"}}
           fields == [k \in open |-> IF k = "raw_os" /\ Text(raw.raw_os) = <<>> THEN raw.os_detail ELSE raw[k]]
<1>1. SystemInfoFields(raw, gates) = fields
  BY DEF SystemInfoFields
<1>2. open \subseteq DOMAIN raw \cap Keys /\ \A k \in open : GateOf(k) \in gates \cup {"none"}
  OBVIOUS
<1> HIDE DEF open
<1>3. DOMAIN fields = open /\ \A k \in open : fields[k] = raw[k] \/ fields[k] = raw["os_detail"]
  OBVIOUS
<1> HIDE DEF fields
<1>4. GateOf("os_detail") = "none"
  BY DEF GateOf
<1>5. Text(raw["os_detail"]) \in Seq(S)
  BY <1>4 DEF Tells
<1>6. \A k \in open : Text(raw[k]) \in Seq(S)
  BY <1>2 DEF Tells
<1>7. \A k \in open : Text(fields[k]) \in Seq(S)
  BY <1>3, <1>5, <1>6
<1> QED BY <1>1, <1>2, <1>3, <1>7 DEF FieldsOver, Tells

\* With the warnings among them, the fields are made of the same.
LEMMA WarnedOver ==
    ASSUME NEW S, NEW fields, FieldsOver(fields, S), NEW warnings \in Seq(Seq(S))
    PROVE  /\ FieldsOver(WithWarnings(fields, warnings), S)
           /\ Len(warnings) > 0 /\ warnings[Len(warnings)] # <<>> =>
                "collector_warning" \in CollectedIn(WithWarnings(fields, warnings))
           /\ warnings = <<>> => WithWarnings(fields, warnings) = fields
<1> DEFINE sep == <<Comma>>
           text == Joined(warnings, sep)
           first == [collector_warning |-> Str(text)]
           all == Over(first, fields)
<1>1. FormatWords \subseteq S /\ DOMAIN fields \subseteq Keys /\ \A k \in DOMAIN fields : Text(fields[k]) \in Seq(S)
  BY DEF FieldsOver
<1>2. WithWarnings(fields, warnings) = IF warnings = <<>> THEN fields ELSE all
  BY DEF WithWarnings, Comma
<1>3. sep \in Seq(S)
  <2>1. Comma \in FormatWords
    BY Zenon DEF FormatWords, Comma
  <2> QED BY <1>1, <2>1, OneFacts
<1> HIDE DEF sep
<1>4. text \in Seq(S) /\ (Len(warnings) > 0 /\ warnings[Len(warnings)] # <<>> => text # <<>>)
  BY <1>3, JoinedType, JoinedNotEmpty
<1> HIDE DEF text
<1>5. DOMAIN first = {"collector_warning"} /\ first["collector_warning"] = [str |-> text]
  BY DEF Str
<1>6. Text(first["collector_warning"]) = text
  <2> DEFINE v == [str |-> text]
  <2>1. DOMAIN v = {"str"} /\ v.str = text
    OBVIOUS
  <2>2. "list" \notin DOMAIN v /\ "bool" \notin DOMAIN v /\ "int" \notin DOMAIN v
    BY <2>1
  <2> HIDE DEF v
  <2>3. Text(v) = text
    BY <2>1, <2>2, TextIs
  <2> QED BY <1>5, <2>3 DEF v
<1> HIDE DEF first
<1>7. DOMAIN all = {"collector_warning"} \cup DOMAIN fields /\ all["collector_warning"] = first["collector_warning"]
  BY <1>5 DEF Over
<1>8. \A k \in DOMAIN all : k = "collector_warning" \/ (k \in DOMAIN fields /\ all[k] = fields[k])
  BY <1>5 DEF Over
<1> HIDE DEF all
<1>9. \A k \in DOMAIN all : Text(all[k]) \in Seq(S)
  BY <1>1, <1>4, <1>6, <1>7, <1>8
<1>10. DOMAIN all \subseteq Keys
  BY <1>1, <1>7, KeysFacts
<1>11. FieldsOver(all, S)
  BY <1>1, <1>9, <1>10 DEF FieldsOver
<1>12. Len(warnings) > 0 /\ warnings[Len(warnings)] # <<>> => warnings # <<>> /\ "collector_warning" \in CollectedIn(all)
  <2> SUFFICES ASSUME Len(warnings) > 0, warnings[Len(warnings)] # <<>>
               PROVE  warnings # <<>> /\ "collector_warning" \in CollectedIn(all)
    OBVIOUS
  <2>1. Len(<<>>) = 0
    OBVIOUS
  <2>2. warnings # <<>>
    BY <2>1
  <2>3. "collector_warning" \in DOMAIN all /\ Text(all["collector_warning"]) # <<>>
    BY <1>4, <1>6, <1>7
  <2> QED BY <2>2, <2>3 DEF CollectedIn
<1> QED BY <1>2, <1>11, <1>12

\* The warnings of the resolution: one if there is no name, none if there is.
LEMMA IdentityFacts ==
    ASSUME NEW found, NEW local, NEW S, FormatWords \subseteq S
    PROVE  /\ ResolveIdentity(found, local).warnings \in Seq(Seq(S))
           /\ ResolveIdentity(found, local).hostname = <<>> =>
                \E w \in Seq(S) : w # <<>> /\ ResolveIdentity(found, local).warnings = <<w>>
           /\ ResolveIdentity(found, local).hostname # <<>> => ResolveIdentity(found, local).warnings = <<>>
           /\ inv.override # <<>> \/ (found = <<>> /\ IsRemote) =>
                ResolveIdentity(found, local).hostname = inv.override
<1> DEFINE name == IF inv.override # <<>> THEN inv.override ELSE found
           far == <<"remote_hostname_unavailable">>
           near == <<"local_hostname_unavailable">>
           id == ResolveIdentity(found, local)
<1>1. far \in Seq(S) /\ near \in Seq(S) /\ far # <<>> /\ near # <<>>
  <2>1. "remote_hostname_unavailable" \in S /\ "local_hostname_unavailable" \in S
    BY Zenon DEF FormatWords
  <2> QED BY <2>1
<1>2. id = CASE name # <<>> -> [hostname |-> name, warnings |-> <<>>]
             [] name = <<>> /\ IsRemote -> [hostname |-> <<>>, warnings |-> <<far>>]
             [] OTHER -> [hostname |-> local, warnings |-> IF local = <<>> THEN <<near>> ELSE <<>>]
  BY DEF ResolveIdentity
<1> HIDE DEF far, near, id
<1>3. <<>> \in Seq(Seq(S)) /\ <<far>> \in Seq(Seq(S)) /\ <<near>> \in Seq(Seq(S))
  BY <1>1
<1>4. CASE name # <<>>
  <2>1. id = [hostname |-> name, warnings |-> <<>>]
    BY <1>2, <1>4
  <2> HIDE DEF name
  <2>2. id.hostname = name /\ id.warnings = <<>>
    BY <2>1
  <2>3. inv.override # <<>> \/ (found = <<>> /\ IsRemote) => name = inv.override
    BY <1>4 DEF name
  <2> QED BY <1>3, <1>4, <2>2, <2>3 DEF id
<1>5. CASE name = <<>> /\ IsRemote
  <2>1. id = [hostname |-> <<>>, warnings |-> <<far>>]
    BY <1>2, <1>5
  <2>2. inv.override = <<>>
    BY <1>5
  <2> HIDE DEF name
  <2>3. id.hostname = <<>> /\ id.warnings = <<far>>
    BY <2>1
  <2> QED BY <1>1, <1>3, <2>2, <2>3 DEF id
<1>6. CASE name = <<>> /\ ~ IsRemote
  <2>1. id = [hostname |-> local, warnings |-> IF local = <<>> THEN <<near>> ELSE <<>>]
    BY <1>2, <1>6
  <2>2. inv.override = <<>>
    BY <1>6
  <2> HIDE DEF name
  <2>3. id.hostname = local /\ (local = <<>> => id.warnings = <<near>>) /\ (local # <<>> => id.warnings = <<>>)
    BY <2>1
  <2> QED BY <1>1, <1>3, <1>6, <2>2, <2>3 DEF id
<1> QED BY <1>4, <1>5, <1>6

------------------------------------------------------------------------------
(* The descriptions that are made                                            *)

\* What collectors answer.
Known == {Nobody} \cup {[machine |-> "host", raw |-> i] : i \in Infos["host"]}
                  \cup {[machine |-> "device", raw |-> i] : i \in Infos["device"]}

\* Fields, and warnings, that hold nothing from behind a closed gate.
Guarded(fields, gates) ==
    /\ FieldsOver(fields, AllText)
    /\ \A gate \in DOMAIN Secrets \ gates : FieldsOver(fields, AllText \ Secrets[gate])
Harmless(warnings, gates) ==
    /\ warnings \in Seq(Seq(AllText))
    /\ \A gate \in DOMAIN Secrets \ gates : warnings \in Seq(Seq(AllText \ Secrets[gate]))

\* A context whose fields are guarded and whose string is that of its fields.
Honest(c) ==
    /\ DOMAIN c = DOMAIN NoContext /\ Guarded(c.fields, inv.gates)
    /\ c.detail = PackOSDetail(c.fields) /\ c.parsed = ParseOSDetail(c.detail)
    /\ c.hostname = <<>> => "collector_warning" \in CollectedIn(c.fields)

\* The words of the format are no secret.
LEMMA WordsArePublic ==
    /\ FormatWords \subseteq AllText
    /\ \A gate \in DOMAIN Secrets : gate # "none" /\ FormatWords \subseteq AllText \ Secrets[gate]
  BY SecretAssumption DEF AllText

\* Of texts without the words of T.
LEMMA WithoutTexts ==
    ASSUME NEW S, NEW T, NEW texts \in Seq(Seq(S)), \A w \in ToSet(texts) : ToSet(w) \cap T = {}
    PROVE  texts \in Seq(Seq(S \ T))
<1> DEFINE R == Seq(S \ T)
<1>1. DOMAIN texts = 1 .. Len(texts) /\ \A i \in 1 .. Len(texts) : texts[i] \in Seq(S)
  BY SeqFacts
<1>2. ASSUME NEW i \in 1 .. Len(texts) PROVE texts[i] \in R
  <2> DEFINE w == texts[i]
  <2>1. w \in Seq(S) /\ ToSet(w) \cap T = {}
    BY <1>1 DEF ToSet
  <2> HIDE DEF w
  <2>2. w \in Seq(S \ T)
    BY <2>1, WithoutText
  <2> QED BY <2>2 DEF w
<1> HIDE DEF R
<1>3. texts \in Seq(R)
  BY <1>2, WiderSeq
<1> QED BY <1>3 DEF R

\* The text of a string.
LEMMA StrText ==
    ASSUME NEW text
    PROVE  Text(Str(text)) = text
<1> DEFINE v == Str(text)
<1>1. DOMAIN v = {"str"} /\ v.str = text
  BY DEF Str
<1>2. "list" \notin DOMAIN v /\ "bool" \notin DOMAIN v /\ "int" \notin DOMAIN v
  BY <1>1
<1> HIDE DEF v
<1>3. Text(v) = text
  BY <1>1, <1>2, TextIs
<1> QED BY <1>3 DEF v

\* What a collector answers holds nothing from behind a closed gate.
LEMMA InfoTells ==
    ASSUME NEW m \in DOMAIN Infos, NEW i \in Infos[m], NEW gates
    PROVE  /\ Tells(i, gates, AllText)
           /\ \A gate \in DOMAIN Secrets \ gates : Tells(i, gates, AllText \ Secrets[gate])
           /\ Harmless(i.warnings, gates)
<1> DEFINE A == AllText
           K == DOMAIN i \cap (Keys \cup {"os_detail"})
<1>1. /\ "os_detail" \in DOMAIN i /\ i.warnings \in Seq(Texts) /\ \A k \in K : i[k] \in Values
  BY InfoAssumption
<1>2. \A gate \in DOMAIN Secrets : /\ gate # "none"
                                   /\ \A w \in ToSet(i.warnings) : ToSet(w) \cap Secrets[gate] = {}
                                   /\ \A k \in K : GateOf(k) = gate \/ ToSet(Text(i[k])) \cap Secrets[gate] = {}
  BY SecretAssumption
<1> HIDE DEF K
<1>3. \A k \in K : Text(i[k]) \in Seq(A)
  BY <1>1, ValueText
<1>4. FormatWords \subseteq A /\ \A gate \in DOMAIN Secrets : FormatWords \subseteq A \ Secrets[gate]
  BY WordsArePublic
<1>5. i.warnings \in Seq(Seq(A))
  <2>1. Characters \subseteq A
    BY DEF AllText
  <2> HIDE DEF A
  <2>2. \A j \in 1 .. Len(i.warnings) : i.warnings[j] \in Seq(A)
    <3> TAKE j \in 1 .. Len(i.warnings)
    <3> DEFINE w == i.warnings[j]
    <3>1. w \in Seq(Characters)
      BY <1>1, SeqFacts DEF Texts
    <3> HIDE DEF w
    <3>2. \A x \in 1 .. Len(w) : w[x] \in A
      BY <2>1, <3>1, SeqFacts
    <3>3. w \in Seq(A)
      BY <3>1, <3>2, WiderSeq
    <3> QED BY <3>3 DEF w
  <2> QED BY <1>1, <2>2, WiderSeq
<1> HIDE DEF A
<1>6. ASSUME NEW gate \in DOMAIN Secrets \ gates PROVE i.warnings \in Seq(Seq(A \ Secrets[gate]))
  BY <1>2, <1>5, WithoutTexts
<1>7. Tells(i, gates, A)
  BY <1>1, <1>3, <1>4, <1>5 DEF Tells, K
<1>8. ASSUME NEW gate \in DOMAIN Secrets \ gates PROVE Tells(i, gates, A \ Secrets[gate])
  <2>1. ASSUME NEW k \in K, GateOf(k) \in gates \cup {"none"} PROVE Text(i[k]) \in Seq(A \ Secrets[gate])
    <3>1. ToSet(Text(i[k])) \cap Secrets[gate] = {}
      BY <1>2, <1>8, <2>1
    <3> DEFINE t == Text(i[k])
    <3>2. t \in Seq(A) /\ ToSet(t) \cap Secrets[gate] = {}
      BY <1>3, <3>1
    <3> HIDE DEF t
    <3>3. t \in Seq(A \ Secrets[gate])
      BY <3>2, WithoutText
    <3> QED BY <3>3 DEF t
  <2> QED BY <1>1, <1>4, <1>6, <2>1 DEF Tells, K
<1> QED BY <1>5, <1>6, <1>7, <1>8 DEF Harmless, A

\* Without a collector, or when it raises, nothing is known.
LEMMA NobodyFacts ==
    ASSUME NEW gates
    PROVE  /\ CollectedIn(SystemInfoFields(Nobody.raw, gates)) = {}
           /\ Plain(HumanOS(SystemInfoFields(Nobody.raw, gates)))
           /\ Nobody.raw.warnings = <<>> /\ Nobody.raw.hostname = <<>> /\ Harmless(Nobody.raw.warnings, gates)
           /\ Guarded(SystemInfoFields(Nobody.raw, gates), gates)
<1> DEFINE none == Str(<<>>)
           raw == [hostname |-> <<>>, warnings |-> <<>>, os_detail |-> none, raw_os |-> none]
           f == SystemInfoFields(raw, gates)
<1>1. Nobody.raw = raw
  BY DEF Nobody
<1>2. Text(none) = <<>>
  BY StrText
<1> HIDE DEF none
<1>3. DOMAIN raw = {"hostname", "warnings", "os_detail", "raw_os"} /\ raw["os_detail"] = none /\ raw["raw_os"] = none
  OBVIOUS
<1>4. raw.warnings = <<>> /\ raw.hostname = <<>>
  OBVIOUS
<1>5. Harmless(raw.warnings, gates)
  BY <1>4, EmptySeq DEF Harmless
<1> HIDE DEF raw
<1>6. \A S : FormatWords \subseteq S => Tells(raw, gates, S)
  <2> SUFFICES ASSUME NEW S, FormatWords \subseteq S PROVE Tells(raw, gates, S)
    OBVIOUS
  <2>1. raw.warnings \in Seq(Seq(S)) /\ <<>> \in Seq(S)
    BY <1>4, EmptySeq
  <2>2. \A k \in DOMAIN raw \cap (Keys \cup {"os_detail"}) : Text(raw[k]) \in Seq(S)
    BY <1>2, <1>3, <2>1, NotKeys
  <2> QED BY <1>3, <2>1, <2>2 DEF Tells
<1>7. \A S : FormatWords \subseteq S => FieldsOver(f, S)
  BY <1>6, ProjectionOver
<1>8. Guarded(f, gates)
  BY <1>7, WordsArePublic DEF Guarded
<1>9. \A k \in DOMAIN f : f[k] = none
  <2> DEFINE open == {k \in DOMAIN raw \cap Keys : GateOf(k) \in gates \cup {"none"}}
             g == [k \in open |-> IF k = "raw_os" /\ Text(raw.raw_os) = <<>> THEN raw.os_detail ELSE raw[k]]
  <2>1. f = g
    BY DEF SystemInfoFields
  <2>2. open \subseteq {"raw_os", "os_detail"}
    BY <1>3, NotKeys
  <2> HIDE DEF open
  <2>3. \A k \in DOMAIN g : g[k] = none
    BY <1>3, <2>2
  <2> HIDE DEF g, f
  <2> QED BY <2>1, <2>3
<1> HIDE DEF f
<1>10. CollectedIn(f) = {}
  BY <1>2, <1>9 DEF CollectedIn
<1>11. \A k : TextAt(f, k) = <<>>
  BY <1>2, <1>9 DEF TextAt
<1>12. BaseOf(f) = <<Unknown>>
  BY <1>11 DEF BaseOf, FirstOf
<1>13. ExtrasOf(f) = <<>>
  <2> DEFINE two == <<TextAt(f, "kernel"), TextAt(f, "arch")>>
             T == ToSet(two) \ {<<>>}
             u == Kept(two, T)
  <2>1. two = <<<<>>, <<>>>>
    BY <1>11
  <2>2. \A i \in DOMAIN two : two[i] = <<>>
    BY <2>1
  <2>3. two \in Seq({<<>>})
    BY <2>1
  <2>4. ExtrasOf(f) = u
    BY DEF ExtrasOf, NonEmpty
  <2> HIDE DEF two
  <2>5. T = {}
    BY <2>2 DEF ToSet
  <2> HIDE DEF T
  <2>6. u \in Seq({<<>>}) /\ Selects(u, two, T)
    BY <2>3, KeptFacts
  <2> HIDE DEF u
  <2>7. \A i \in 1 .. Len(u) : FALSE
    BY <2>5, <2>6 DEF Selects
  <2>8. Len(u) \in Nat
    BY <2>6, SeqFacts
  <2>9. Len(u) = 0
    <3>1. Len(u) > 0 => 1 \in 1 .. Len(u)
      BY <2>8
    <3> QED BY <2>7, <2>8, <3>1
  <2>10. u = <<>>
    BY <2>6, <2>9, EmptyFacts
  <2> QED BY <2>4, <2>10
<1>14. HumanOS(f) = <<Unknown>>
  <2> DEFINE one == <<Unknown>>
  <2>1. one \in Seq({Unknown})
    OBVIOUS
  <2> HIDE DEF one
  <2>2. one \o <<>> = one
    BY <2>1, EmptyFacts
  <2>3. HumanOS(f) = one \o <<>>
    BY <1>12, <1>13, HumanOSIs DEF one
  <2> QED BY <2>2, <2>3 DEF one
<1>15. Plain(HumanOS(f))
  <2> DEFINE one == <<Unknown>>
             w == one \o Delimiter
             S == {Unknown, Blank, "|"}
  <2>1. one \in Seq(S) /\ Delimiter \in Seq(S) /\ Len(one) = 1 /\ one[1] = Unknown /\ Len(Delimiter) = 3 /\ DOMAIN one = {1}
    BY DelimiterIs
  <2> DEFINE d == Delimiter
  <2> HIDE DEF one, S, d
  <2>2. \A i \in 1 .. Len(one) : (one \o d)[i] = one[i]
    BY <2>1, ConcatFacts DEF d
  <2>3. one \o d \in Seq(S)
    BY <2>1, ConcatFacts DEF d
  <2>4. Len(w) \in Nat /\ w[1] = Unknown
    <3>1. w = one \o d
      BY DEF d
    <3>2. 1 \in 1 .. Len(one)
      BY <2>1
    <3>3. w \in Seq(S)
      BY <2>3, <3>1
    <3> HIDE DEF w
    <3> QED BY <2>1, <2>2, <3>1, <3>2, <3>3, SeqFacts
  <2> HIDE DEF w
  <2>5. Unknown # Blank
    BY Zenon DEF Unknown, Blank
  <2>6. ~ Occurs(Delimiter, w, 1)
    <3>1. 1 \in Nat
      OBVIOUS
    <3> QED BY <2>4, <2>5, <3>1, OccursIs
  <2>7. \A i \in DOMAIN one : ~ Occurs(Delimiter, one \o Delimiter, i)
    BY <2>1, <2>6 DEF w
  <2>8. HumanOS(f) = one
    BY <1>14 DEF one
  <2> QED BY <2>7, <2>8 DEF Plain
<1> QED BY <1>1, <1>4, <1>5, <1>8, <1>10, <1>15 DEF f

\* What is projected of an answer, and its warnings.
LEMMA KnownFacts ==
    ASSUME NEW known \in Known, NEW gates
    PROVE  Guarded(SystemInfoFields(known.raw, gates), gates) /\ Harmless(known.raw.warnings, gates)
<1>1. CASE known = Nobody
  BY <1>1, NobodyFacts
<1>2. ASSUME NEW m \in {"host", "device"}, NEW i \in Infos[m], known = [machine |-> m, raw |-> i]
      PROVE  Guarded(SystemInfoFields(known.raw, gates), gates) /\ Harmless(known.raw.warnings, gates)
  <2>1. m \in DOMAIN Infos /\ known.raw = i
    BY <1>2, InfoAssumption
  <2>2. /\ Tells(i, gates, AllText)
        /\ \A gate \in DOMAIN Secrets \ gates : Tells(i, gates, AllText \ Secrets[gate])
        /\ Harmless(i.warnings, gates)
    BY <2>1, InfoTells
  <2>3. FieldsOver(SystemInfoFields(i, gates), AllText)
    BY <2>2, ProjectionOver
  <2>4. ASSUME NEW gate \in DOMAIN Secrets \ gates PROVE FieldsOver(SystemInfoFields(i, gates), AllText \ Secrets[gate])
    BY <2>2, ProjectionOver
  <2> QED BY <2>1, <2>2, <2>3, <2>4 DEF Guarded
<1> QED BY <1>1, <1>2 DEF Known

\* The fields of a program that has no collector.
LEMMA PlatformFacts ==
    ASSUME NEW gates
    PROVE  Guarded([raw_os |-> Str(<<"platform">>)], gates) /\ Harmless(<<>>, gates)
<1> DEFINE word == <<"platform">>
           f == [raw_os |-> Str(word)]
<1>1. \A S : FormatWords \subseteq S => word \in Seq(S)
  <2> SUFFICES ASSUME NEW S, FormatWords \subseteq S PROVE word \in Seq(S)
    OBVIOUS
  <2>1. "platform" \in S
    BY Zenon DEF FormatWords
  <2> QED BY <2>1
<1> HIDE DEF word
<1>2. DOMAIN f = {"raw_os"} /\ Text(f["raw_os"]) = word
  BY StrText
<1> HIDE DEF f
<1>3. \A S : FormatWords \subseteq S => FieldsOver(f, S)
  BY <1>1, <1>2, NotKeys DEF FieldsOver
<1>4. Guarded(f, gates)
  BY <1>3, WordsArePublic DEF Guarded
<1>5. Harmless(<<>>, gates)
  BY EmptySeq DEF Harmless
<1> QED BY <1>4, <1>5 DEF f, word

\* Texts, and one more.
LEMMA OneMoreText ==
    ASSUME NEW S, NEW a \in Seq(S), NEW w \in S
    PROVE  Len(a \o <<w>>) > 0 /\ (a \o <<w>>)[Len(a \o <<w>>)] = w
<1> DEFINE one == <<w>>
           t == a \o one
<1>1. one \in Seq(S) /\ Len(one) = 1 /\ one[1] = w
  BY OneFacts
<1> HIDE DEF one
<1>2. t \in Seq(S) /\ Len(t) = Len(a) + Len(one)
  BY <1>1, ConcatFacts
<1>3. Follows(t, Len(a), one)
  BY <1>1, HeadFacts
<1>4. Len(a) \in Nat
  BY SeqFacts
<1> HIDE DEF t
<1>5. t[Len(a) + 1] = one[1]
  BY <1>1, <1>3 DEF Follows
<1>6. Len(t) > 0 /\ t[Len(t)] = w
  BY <1>1, <1>2, <1>4, <1>5
<1> QED BY <1>6 DEF t, one

\* Every description that is made is honest.
LEMMA DescribeFacts ==
    ASSUME NEW fields, NEW warnings, Guarded(fields, inv.gates), Harmless(warnings, inv.gates),
           NEW local, NEW found, NEW encrypted
    PROVE  /\ Honest(Describe(fields, warnings, local, found, encrypted))
           /\ Describe(fields, warnings, local, found, encrypted).encrypted = encrypted
           /\ Describe(fields, warnings, local, found, encrypted).hostname = ResolveIdentity(found, local).hostname
           /\ Describe(fields, warnings, local, found, encrypted).hostname # <<>> /\ warnings = <<>> =>
                Describe(fields, warnings, local, found, encrypted).fields = fields
<1> DEFINE id == ResolveIdentity(found, local)
           all == WithWarnings(fields, warnings \o id.warnings)
           detail == PackOSDetail(all)
           c == Describe(fields, warnings, local, found, encrypted)
<1>1. c = [hostname |-> id.hostname, fields |-> all, detail |-> detail,
           parsed |-> ParseOSDetail(detail), encrypted |-> encrypted]
  BY DEF Describe
<1>2. \A S : FormatWords \subseteq S =>
        /\ id.warnings \in Seq(Seq(S))
        /\ id.hostname = <<>> => \E w \in Seq(S) : w # <<>> /\ id.warnings = <<w>>
        /\ id.hostname # <<>> => id.warnings = <<>>
  BY IdentityFacts
<1> HIDE DEF id
<1>3. ASSUME NEW S, FieldsOver(fields, S), warnings \in Seq(Seq(S)) PROVE FieldsOver(all, S)
  <2>1. FormatWords \subseteq S
    BY <1>3 DEF FieldsOver
  <2> DEFINE T == Seq(S)
             a == id.warnings
             b == warnings \o a
  <2>2. a \in Seq(T) /\ warnings \in Seq(T)
    BY <1>2, <1>3, <2>1
  <2> HIDE DEF T, a
  <2>3. b \in Seq(T)
    BY <2>2, ConcatFacts
  <2> HIDE DEF b
  <2>4. FieldsOver(WithWarnings(fields, b), S)
    BY <1>3, <2>3, WarnedOver DEF T
  <2> QED BY <2>4 DEF b, a
<1>4. Guarded(all, inv.gates)
  BY <1>3 DEF Guarded, Harmless
<1>5. FormatWords \subseteq AllText /\ FieldsOver(fields, AllText) /\ warnings \in Seq(Seq(AllText))
  BY DEF FieldsOver, Guarded, Harmless
<1>6. id.hostname = <<>> => "collector_warning" \in CollectedIn(all)
  <2> SUFFICES ASSUME id.hostname = <<>> PROVE "collector_warning" \in CollectedIn(all)
    OBVIOUS
  <2>1. PICK w \in Seq(AllText) : w # <<>> /\ id.warnings = <<w>>
    BY <1>2, <1>5
  <2> DEFINE T == Seq(AllText)
             b == warnings \o <<w>>
  <2>2. warnings \in Seq(T) /\ w \in T /\ <<w>> \in Seq(T)
    BY <1>5, <2>1, OneFacts
  <2> HIDE DEF T
  <2>3. Len(b) > 0 /\ b[Len(b)] = w
    BY <2>2, OneMoreText
  <2> DEFINE one == <<w>>
  <2>4. one \in Seq(T) /\ b = warnings \o one
    BY <2>2
  <2> HIDE DEF one, b
  <2>5. b \in Seq(T)
    BY <2>2, <2>4, ConcatFacts
  <2>6. "collector_warning" \in CollectedIn(WithWarnings(fields, b))
    BY <1>5, <2>1, <2>3, <2>5, WarnedOver DEF T
  <2> QED BY <2>1, <2>6 DEF b
<1>7. id.hostname # <<>> /\ warnings = <<>> => all = fields
  <2> SUFFICES ASSUME id.hostname # <<>>, warnings = <<>> PROVE all = fields
    OBVIOUS
  <2>1. id.warnings = <<>>
    BY <1>2, <1>5
  <2>2. warnings \o id.warnings = <<>>
    BY <2>1
  <2> QED BY <2>2 DEF WithWarnings
<1>8. DOMAIN c = DOMAIN NoContext
  BY <1>1 DEF NoContext
<1> HIDE DEF all, detail
<1>9. c.hostname = id.hostname /\ c.fields = all /\ c.detail = detail /\ c.parsed = ParseOSDetail(detail) /\ c.encrypted = encrypted
  BY <1>1
<1>10. detail = PackOSDetail(all)
  BY DEF detail
<1> HIDE DEF c
<1>11. Honest(c)
  BY <1>4, <1>6, <1>8, <1>9, <1>10 DEF Honest
<1> QED BY <1>7, <1>9, <1>11 DEF c, id

------------------------------------------------------------------------------
(* The invariant                                                             *)

SlicePlaces == {"parse", "refused", "connect", "tables", "context", "written", "failed"}
ReportPlaces == {"parse", "refused", "system", "exit", "exit0", "exit1", "exit2"} \cup TableNames

\* Who runs what, where.
Setting ==
    /\ inv \in Invocations /\ target.machine = (IF inv.link = "local" THEN "host" ELSE "device")
    /\ inv.tool # "sysctx" => pc \in SlicePlaces
    /\ inv.tool = "sysctx" => pc \in ReportPlaces
    /\ pc = "exit1" => inv.strict
    /\ pc = "exit0" => MinimumSetComplete
    /\ inv.tool = "memslicer" /\ pc = "connect" => collector # "none"

\* What was told of the system: nothing, or an honest description of what was
\* answered; and nothing but a human part if nobody answered and the name is known.
Told ==
    /\ info \in Known
    /\ context = NoContext \/ Honest(context)
    /\ inv.tool = "sysctx" /\ info = Nobody /\ context.hostname # <<>> => Headless(context.parsed)
    /\ pc = "written" => context.encrypted = Encrypted

\* A target on another machine, of a system that is recognised and has no collector.
Foreign ==
    /\ inv.tool = "memslicer" /\ target.machine = "device" /\ inv.os = "none" /\ inv.backend # "gdb"
    /\ target.marks /\ CollectorFor(target.os) = "Null"

\* Nothing of the host is kept for it.
Away ==
    Foreign =>
        /\ pc \in {"tables", "context"} => collector = "Null"
        /\ \A t \in TableNames : tables[t] = {}
        /\ info = Nobody
        /\ pc = "written" => context.hostname = inv.override

ContextInv == TypeOK /\ Setting /\ Told /\ Away

\* The collectors there are.
LEMMA CollectorForType ==
    ASSUME NEW os
    PROVE  /\ CollectorFor(os) \in {"Null", "Linux", "Android", "macOS", "iOS", "Windows"}
           /\ CollectorFor(os) \in {"Linux", "Android"} => host.proc
<1> DEFINE P == os \in {"Android", "Linux"} /\ host.proc
           Q == os \in {"iOS", "macOS"} /\ host.os = "macOS"
           R == os = "Windows" /\ host.os = "Windows"
<1>1. CollectorFor(os) = CASE P -> os [] Q -> os [] R -> "Windows" [] OTHER -> "Null"
  BY DEF CollectorFor
<1>2. P => ~ Q /\ ~ R
  OBVIOUS
<1>3. Q => ~ R
  OBVIOUS
<1>4. CASE P
  <2>1. CollectorFor(os) = os
    BY <1>1, <1>2, <1>4
  <2> QED BY <1>4, <2>1
<1>5. CASE ~ P /\ Q
  <2>1. CollectorFor(os) = os
    BY <1>1, <1>3, <1>5
  <2> QED BY <1>5, <2>1
<1>6. CASE ~ P /\ ~ Q
  <2>1. CollectorFor(os) \in {"Windows", "Null"}
    BY <1>1, <1>6
  <2> QED BY <2>1
<1> QED BY <1>4, <1>5, <1>6

\* What answers come from.
LEMMA AnswersKnown ==
    ASSUME NEW c, target.machine \in {"host", "device"}, NEW answer \in Answers(c)
    PROVE  answer \in Known /\ (c = "Null" => answer = Nobody)
<1>1. MachineOf(c) \in {"nobody", "host", "device"} /\ (c = "Null" => MachineOf(c) = "nobody")
  BY DEF MachineOf
<1>2. CASE MachineOf(c) = "nobody"
  BY <1>2 DEF Answers, Known
<1>3. CASE MachineOf(c) # "nobody"
  <2>1. PICK i \in Infos[MachineOf(c)] : answer = [machine |-> MachineOf(c), raw |-> i]
    BY <1>3 DEF Answers
  <2> QED BY <1>1, <1>3, <2>1 DEF Known
<1> QED BY <1>2, <1>3

\* What rows are about.
LEMMA RowsType ==
    ASSUME NEW c, target.machine \in {"host", "device"}
    PROVE  Rows(c) \subseteq SUBSET {"host", "device"} /\ (c = "Null" => Rows(c) = {{}})
<1>1. MachineOf(c) \in {"nobody", "host", "device"} /\ (c = "Null" => MachineOf(c) = "nobody")
  BY DEF MachineOf
<1> QED BY <1>1 DEF Rows

\* The invariant holds at first.
LEMMA ContextInit == Init => ContextInv
<1> SUFFICES ASSUME Init PROVE ContextInv
  OBVIOUS
<1>1. /\ inv \in Invocations /\ pc = "parse" /\ collector = "none" /\ raised = {} /\ info = Nobody /\ context = NoContext
      /\ tables = [t \in TableNames |-> {}]
      /\ target \in [machine : {IF inv.link = "local" THEN "host" ELSE "device"}, os : TargetOSes, marks : BOOLEAN]
  BY DEF Init
<1>2. target.machine = IF inv.link = "local" THEN "host" ELSE "device"
  BY <1>1
<1>3. TypeOK
  BY <1>1, InvocationAssumption DEF TypeOK
<1>4. Setting
  BY <1>1, <1>2 DEF Setting, SlicePlaces, ReportPlaces
<1>5. Told
  <2>1. context.hostname = <<>>
    BY <1>1 DEF NoContext
  <2> QED BY <1>1, <2>1 DEF Told, Known
<1>6. Away
  BY <1>1 DEF Away
<1> QED BY <1>3, <1>4, <1>5, <1>6 DEF ContextInv

\* A step that tells nothing.
LEMMA NothingTold ==
    ASSUME ContextInv, UNCHANGED <<inv, host, target, info, context>>, pc' # "written" \/ pc' = pc
    PROVE  Told'
<1>1. Encrypted' = Encrypted /\ \A c : Honest(c)' = Honest(c)
  BY DEF Encrypted, Honest
<1>2. Told
  BY DEF ContextInv
<1>3. (context = NoContext \/ Honest(context))'
  BY <1>2 DEF Told, Honest
<1> QED BY <1>1, <1>2, <1>3 DEF Told

\* What does not change the machines keeps Foreign.
LEMMA ForeignSame ==
    ASSUME UNCHANGED <<inv, host, target>>
    PROVE  Foreign' = Foreign
  BY DEF Foreign, CollectorFor

\* The steps that choose the collector.
LEMMA RefuseStep == ContextInv /\ Refuse => ContextInv'
<1> SUFFICES ASSUME ContextInv, Refuse PROVE ContextInv'
  OBVIOUS
<1>1. pc = "parse" /\ pc' = "refused" /\ UNCHANGED <<inv, host, target, collector, tables, raised, info, context>>
  BY DEF Refuse
<1>2. TypeOK'
  BY <1>1 DEF ContextInv, TypeOK
<1>3. Setting'
  BY <1>1 DEF ContextInv, Setting, SlicePlaces, ReportPlaces
<1>4. Told'
  BY <1>1, NothingTold
<1>5. Away'
  BY <1>1, ForeignSame DEF ContextInv, Away
<1> QED BY <1>2, <1>3, <1>4, <1>5 DEF ContextInv

\* The acquisition command makes the collector of the system it infers.
LEMMA CreateStep == ContextInv /\ CreateAcquirer => ContextInv'
<1> SUFFICES ASSUME ContextInv, CreateAcquirer PROVE ContextInv'
  OBVIOUS
<1>1. /\ pc = "parse" /\ inv.tool = "memslicer" /\ pc' = "connect" /\ collector' = CollectorFor(InferOS)
      /\ UNCHANGED <<inv, host, target, tables, raised, info, context>>
  BY DEF CreateAcquirer
<1>2. /\ collector' \in {"Null", "Linux", "Android", "macOS", "iOS", "Windows"}
      /\ collector' \in {"Linux", "Android"} => host.proc
  BY <1>1, CollectorForType
<1>3. TypeOK'
  BY <1>1, <1>2 DEF ContextInv, TypeOK
<1>4. Setting'
  BY <1>1, <1>2 DEF ContextInv, Setting, SlicePlaces, ReportPlaces
<1>5. Told'
  BY <1>1, NothingTold
<1>6. Away'
  BY <1>1, ForeignSame DEF ContextInv, Away
<1> QED BY <1>3, <1>4, <1>5, <1>6 DEF ContextInv

\* A program gives the engine the collector it likes.
LEMMA BuildStep == ContextInv /\ BuildEngine => ContextInv'
<1> SUFFICES ASSUME ContextInv, BuildEngine PROVE ContextInv'
  OBVIOUS
<1>1. /\ pc = "parse" /\ inv.tool = "engine" /\ pc' = "connect" /\ collector' = inv.given
      /\ UNCHANGED <<inv, host, target, tables, raised, info, context>>
  BY DEF BuildEngine
<1>2. inv.given \in {"none", "FridaRemote"}
  BY DEF ContextInv, TypeOK
<1>3. TypeOK'
  BY <1>1, <1>2 DEF ContextInv, TypeOK
<1>4. Setting'
  BY <1>1 DEF ContextInv, Setting, SlicePlaces, ReportPlaces
<1>5. Told'
  BY <1>1, NothingTold
<1>6. Away'
  BY <1>1, ForeignSame DEF ContextInv, Away, Foreign
<1> QED BY <1>3, <1>4, <1>5, <1>6 DEF ContextInv

\* The report makes the collector of the system it infers.
LEMMA MakeStep == ContextInv /\ MakeCollector => ContextInv'
<1> SUFFICES ASSUME ContextInv, MakeCollector PROVE ContextInv'
  OBVIOUS
<1>1. /\ pc = "parse" /\ inv.tool = "sysctx" /\ pc' = "system" /\ collector' = CollectorFor(InferOS)
      /\ UNCHANGED <<inv, host, target, tables, raised, info, context>>
  BY DEF MakeCollector
<1>2. /\ collector' \in {"Null", "Linux", "Android", "macOS", "iOS", "Windows"}
      /\ collector' \in {"Linux", "Android"} => host.proc
  BY <1>1, CollectorForType
<1>3. TypeOK'
  BY <1>1, <1>2 DEF ContextInv, TypeOK
<1>4. Setting'
  BY <1>1, <1>2 DEF ContextInv, Setting, SlicePlaces, ReportPlaces
<1>5. Told'
  BY <1>1, NothingTold
<1>6. Away'
  BY <1>1, ForeignSame DEF ContextInv, Away, Foreign
<1> QED BY <1>3, <1>4, <1>5, <1>6 DEF ContextInv

\* With the bridge connected, the collector is made anew.
LEMMA ConnectStep == ContextInv /\ Connect => ContextInv'
<1> SUFFICES ASSUME ContextInv, Connect PROVE ContextInv'
  OBVIOUS
<1> DEFINE os == IF inv.os # "none" THEN inv.os ELSE DetectOS
<1>1. /\ pc = "connect" /\ pc' = "tables" /\ collector' = Refined(os)
      /\ UNCHANGED <<inv, host, target, tables, raised, info, context>>
  BY DEF Connect
<1>2. Foreign => os = target.os
  BY DEF Foreign, DetectOS, FridaOS, LldbOS, ContextInv, TypeOK
<1> HIDE DEF os
<1>3. collector' = IF collector = "none" THEN "none" ELSE CollectorFor(os)
  BY <1>1 DEF Refined
<1>4. /\ collector' \in {"none", "Null", "Linux", "Android", "macOS", "iOS", "Windows"}
      /\ collector' \in {"Linux", "Android"} => host.proc
  BY <1>3, CollectorForType
<1>5. TypeOK'
  BY <1>1, <1>4 DEF ContextInv, TypeOK
<1>6. inv.tool # "sysctx"
  BY <1>1 DEF ContextInv, Setting, ReportPlaces, TableNames
<1>7. Setting'
  BY <1>1, <1>6 DEF ContextInv, Setting, SlicePlaces, ReportPlaces
<1>8. Told'
  BY <1>1, NothingTold
<1>9. Foreign => collector' = "Null"
  <2> SUFFICES ASSUME Foreign PROVE collector' = "Null"
    OBVIOUS
  <2>1. collector # "none"
    BY <1>1 DEF ContextInv, Setting, Foreign
  <2>2. CollectorFor(target.os) = "Null"
    BY DEF Foreign
  <2> QED BY <1>2, <1>3, <2>1, <2>2
<1>10. Away'
  BY <1>1, <1>9, ForeignSame DEF ContextInv, Away
<1> QED BY <1>5, <1>7, <1>8, <1>10 DEF ContextInv

\* The steps of an acquisition that collect.
LEMMA TablesStep == ContextInv /\ CollectTables => ContextInv'
<1> SUFFICES ASSUME ContextInv, CollectTables PROVE ContextInv'
  OBVIOUS
<1> DEFINE rows == IF collector = "none" THEN FallbackRows ELSE Rows(collector)
<1>1. pc = "tables" /\ UNCHANGED <<inv, host, target, collector, info, context>>
  BY DEF CollectTables
<1>2. \/ tables' \in [TableNames -> rows] /\ pc' = "context" /\ raised' = raised
      \/ pc' = "failed" /\ raised' = raised \cup {"table"} /\ tables' = tables
  BY DEF CollectTables
<1>3. target.machine \in {"host", "device"}
  BY DEF ContextInv, Setting
<1>4. rows \subseteq SUBSET {"host", "device"} /\ (collector = "Null" => rows = {{}})
  <2>1. FallbackRows \subseteq SUBSET {"host", "device"}
    BY DEF FallbackRows
  <2>2. Rows(collector) \subseteq SUBSET {"host", "device"} /\ (collector = "Null" => Rows(collector) = {{}})
    BY <1>3, RowsType
  <2> DEFINE a == FallbackRows
             b == Rows(collector)
             W == SUBSET {"host", "device"}
  <2>3. rows = IF collector = "none" THEN a ELSE b
    OBVIOUS
  <2>4. a \subseteq W /\ b \subseteq W /\ (collector = "Null" => b = {{}})
    BY <2>1, <2>2
  <2> HIDE DEF a, b, W, rows
  <2>5. rows \subseteq W /\ (collector = "Null" => rows = {{}})
    BY <2>3, <2>4
  <2> QED BY <2>5 DEF W
<1> HIDE DEF rows
<1>5. tables' \in [TableNames -> SUBSET {"host", "device"}]
  BY <1>2, <1>4 DEF ContextInv, TypeOK
<1>6. TypeOK'
  BY <1>1, <1>2, <1>5 DEF ContextInv, TypeOK
<1>7. inv.tool # "sysctx"
  BY <1>1 DEF ContextInv, Setting, ReportPlaces, TableNames
<1>8. Setting'
  BY <1>1, <1>2, <1>7 DEF ContextInv, Setting, SlicePlaces, ReportPlaces
<1>9. Told'
  <2>1. pc' # "written"
    BY <1>2
  <2> QED BY <1>1, <2>1, NothingTold
<1>10. Foreign => collector = "Null" /\ \A t \in TableNames : tables'[t] = {}
  <2> SUFFICES ASSUME Foreign PROVE collector = "Null" /\ \A t \in TableNames : tables'[t] = {}
    OBVIOUS
  <2>1. collector = "Null" /\ \A t \in TableNames : tables[t] = {}
    BY <1>1 DEF ContextInv, Away
  <2> QED BY <1>2, <1>4, <2>1
<1>11. Away'
  BY <1>1, <1>2, <1>10, ForeignSame DEF ContextInv, Away
<1> QED BY <1>6, <1>8, <1>9, <1>11 DEF ContextInv

\* The description of the slice is honest.
LEMMA CollectStep == ContextInv /\ CollectContext => ContextInv'
<1> SUFFICES ASSUME ContextInv, CollectContext PROVE ContextInv'
  OBVIOUS
<1>1. pc = "context" /\ UNCHANGED <<inv, host, target, collector, tables>>
  BY DEF CollectContext
<1>2. target.machine \in {"host", "device"}
  BY DEF ContextInv, Setting
<1>3. inv.tool # "sysctx"
  BY <1>1 DEF ContextInv, Setting, ReportPlaces, TableNames
<1> DEFINE far == info' \in Known /\ Honest(context') /\ context'.encrypted = Encrypted
                  /\ (Foreign => info' = Nobody /\ context'.hostname = inv.override)
<1>4. ASSUME far, pc' = "written", raised' = raised PROVE ContextInv'
  <2>1. DOMAIN context' = DOMAIN NoContext
    BY <1>4 DEF Honest
  <2>2. TypeOK'
    <3>1. DOMAIN NoContext = (DOMAIN NoContext)'
      BY DEF NoContext
    <3> QED BY <1>1, <1>4, <2>1, <3>1 DEF ContextInv, TypeOK
  <2>3. Setting'
    BY <1>1, <1>3, <1>4 DEF ContextInv, Setting, SlicePlaces, ReportPlaces
  <2>4. Told'
    <3>1. Encrypted' = Encrypted /\ (Honest(context))' /\ (info \in Known)'
      BY <1>1, <1>4 DEF Encrypted, Honest, Known, Nobody
    <3>2. (inv.tool # "sysctx")'
      BY <1>1, <1>3
    <3>3. (context.encrypted = Encrypted)'
      BY <1>4, <3>1
    <3> QED BY <3>1, <3>2, <3>3 DEF Told
  <2>5. Away'
    <3>1. Foreign' = Foreign
      BY <1>1, ForeignSame
    <3>2. ASSUME Foreign PROVE (\A t \in TableNames : tables[t] = {})' /\ (info = Nobody)' /\ (context.hostname = inv.override)'
      <4>1. \A t \in TableNames : tables[t] = {}
        BY <3>2 DEF ContextInv, Away
      <4>2. Nobody' = Nobody
        BY DEF Nobody
      <4> QED BY <1>1, <1>4, <3>2, <4>1, <4>2 DEF TableNames
    <3>3. pc' \notin {"tables", "context"}
      BY <1>4
    <3> QED BY <3>1, <3>2, <3>3 DEF Away
  <2> QED BY <2>2, <2>3, <2>4, <2>5 DEF ContextInv
<1> HIDE DEF far
<1>5. CASE /\ collector # "none" /\ info' \in Answers(collector) /\ pc' = "written" /\ raised' = raised
           /\ \E local \in HostNames :
                context' = Describe(SystemInfoFields(info'.raw, inv.gates), info'.raw.warnings, local,
                                    info'.raw.hostname, Encrypted)
  <2> DEFINE known == info'
             fields == SystemInfoFields(known.raw, inv.gates)
             warnings == known.raw.warnings
             name == known.raw.hostname
             e == Encrypted
  <2>1. PICK local \in HostNames : context' = Describe(fields, warnings, local, name, e)
    BY <1>5
  <2>2. known \in Known /\ (collector = "Null" => known = Nobody)
    BY <1>2, <1>5, AnswersKnown
  <2> HIDE DEF known, e
  <2>3. Guarded(fields, inv.gates) /\ Harmless(warnings, inv.gates)
    BY <2>2, KnownFacts
  <2>4. Foreign => known = Nobody /\ name = <<>> /\ IsRemote
    <3> SUFFICES ASSUME Foreign PROVE known = Nobody /\ name = <<>> /\ IsRemote
      OBVIOUS
    <3>1. collector = "Null"
      BY <1>1 DEF ContextInv, Away
    <3>2. inv.link # "local"
      BY DEF ContextInv, Setting, Foreign
    <3> QED BY <2>2, <3>1, <3>2, NobodyFacts DEF IsRemote
  <2> HIDE DEF fields, warnings, name
  <2> DEFINE c == Describe(fields, warnings, local, name, e)
  <2>5. Honest(c) /\ c.encrypted = e /\ c.hostname = ResolveIdentity(name, local).hostname
    BY <2>3, DescribeFacts
  <2>6. name = <<>> /\ IsRemote => ResolveIdentity(name, local).hostname = inv.override
    BY WordsArePublic, IdentityFacts
  <2>7. context' = c
    BY <2>1
  <2> HIDE DEF c
  <2>8. far
    BY <2>2, <2>4, <2>5, <2>6, <2>7 DEF far, known, e
  <2> QED BY <1>4, <1>5, <2>8
<1>6. CASE /\ collector = "none" /\ pc' = "written" /\ raised' = raised /\ info' = info
           /\ \E local \in HostNames :
                context' = Describe([raw_os |-> Str(<<"platform">>)], <<>>, local, <<>>, Encrypted)
  <2> DEFINE fields == [raw_os |-> Str(<<"platform">>)]
             warnings == <<>>
             name == <<>>
             e == Encrypted
  <2>1. PICK local \in HostNames : context' = Describe(fields, warnings, local, name, e)
    BY <1>6
  <2>2. ~ Foreign
    BY <1>1, <1>6 DEF ContextInv, Away
  <2>3. Guarded(fields, inv.gates) /\ Harmless(warnings, inv.gates)
    BY PlatformFacts
  <2> HIDE DEF fields, warnings, name, e
  <2> DEFINE c == Describe(fields, warnings, local, name, e)
  <2>4. Honest(c) /\ c.encrypted = e
    BY <2>3, DescribeFacts
  <2>5. context' = c
    BY <2>1
  <2> HIDE DEF c
  <2>6. info' \in Known
    BY <1>6 DEF ContextInv, Told
  <2>7. far
    BY <2>2, <2>4, <2>5, <2>6 DEF far, e
  <2> QED BY <1>4, <1>6, <2>7
<1>7. CASE pc' = "failed" /\ raised' = raised \cup {"system"} /\ UNCHANGED <<info, context>>
  <2>1. TypeOK'
    BY <1>1, <1>7 DEF ContextInv, TypeOK
  <2>2. Setting'
    BY <1>1, <1>3, <1>7 DEF ContextInv, Setting, SlicePlaces, ReportPlaces
  <2>3. Told'
    BY <1>1, <1>7, NothingTold
  <2>4. Away'
    BY <1>1, <1>7, ForeignSame DEF ContextInv, Away
  <2> QED BY <2>1, <2>2, <2>3, <2>4 DEF ContextInv
<1> QED BY <1>5, <1>6, <1>7 DEF CollectContext

\* The steps of a report.
LEMMA SystemStep == ContextInv /\ InspectSystem => ContextInv'
<1> SUFFICES ASSUME ContextInv, InspectSystem PROVE ContextInv'
  OBVIOUS
<1>1. pc = "system" /\ pc' = "identity" /\ UNCHANGED <<inv, host, target, collector, tables>>
  BY DEF InspectSystem
<1>2. PICK failed \in {FALSE, collector # "Null"}, answer \in Answers(collector), local \in HostNames :
        /\ info' = (IF failed THEN Nobody ELSE answer)
        /\ raised' = (IF failed THEN raised \cup {"system"} ELSE raised)
        /\ context' = Describe(SystemInfoFields(info'.raw, inv.gates), info'.raw.warnings, local,
                               info'.raw.hostname, FALSE)
  BY DEF InspectSystem
<1>3. target.machine \in {"host", "device"} /\ inv.tool = "sysctx"
  BY <1>1 DEF ContextInv, Setting, SlicePlaces
<1> DEFINE known == info'
           fields == SystemInfoFields(known.raw, inv.gates)
           warnings == known.raw.warnings
           name == known.raw.hostname
           e == FALSE
           c == Describe(fields, warnings, local, name, e)
<1>4. known \in Known
  <2>1. answer \in Known
    BY <1>3, AnswersKnown
  <2>2. Nobody \in Known
    BY DEF Known
  <2> QED BY <1>2, <2>1, <2>2
<1>5. context' = c
  BY <1>2
<1> HIDE DEF known
<1>6. Guarded(fields, inv.gates) /\ Harmless(warnings, inv.gates)
  BY <1>4, KnownFacts
<1>7. known = Nobody => warnings = <<>> /\ CollectedIn(fields) = {} /\ Plain(HumanOS(fields))
  BY NobodyFacts
<1> HIDE DEF fields, warnings, name, e
<1>8. Honest(c) /\ (c.hostname # <<>> /\ warnings = <<>> => c.fields = fields)
  BY <1>6, DescribeFacts
<1> HIDE DEF c
<1>9. known = Nobody /\ c.hostname # <<>> => Headless(c.parsed)
  <2> SUFFICES ASSUME known = Nobody, c.hostname # <<>> PROVE Headless(c.parsed)
    OBVIOUS
  <2>1. c.fields = fields /\ FieldsOver(fields, AllText)
    BY <1>6, <1>7, <1>8 DEF Guarded
  <2>2. Headless(ParseOSDetail(PackOSDetail(fields)))
    BY <1>7, <2>1, PackedFacts
  <2>3. c.parsed = ParseOSDetail(PackOSDetail(fields))
    BY <1>8, <2>1 DEF Honest
  <2> QED BY <2>2, <2>3
<1>10. TypeOK'
  <2>1. DOMAIN context' = DOMAIN NoContext
    BY <1>5, <1>8 DEF Honest
  <2>2. DOMAIN NoContext = (DOMAIN NoContext)'
    BY DEF NoContext
  <2>3. raised' \subseteq TableNames \cup {"table", "system"}
    BY <1>2 DEF ContextInv, TypeOK
  <2>4. pc' \in TableNames
    BY <1>1 DEF TableNames
  <2> QED BY <1>1, <2>1, <2>2, <2>3, <2>4 DEF ContextInv, TypeOK
<1>11. Setting'
  BY <1>1, <1>3 DEF ContextInv, Setting, SlicePlaces, ReportPlaces, TableNames
<1>12. Told'
  <2>1. Nobody' = Nobody /\ Known' = Known
    BY DEF Nobody, Known
  <2>2. (info \in Known)' /\ (Honest(context))'
    BY <1>1, <1>4, <1>5, <1>8, <2>1 DEF known, Honest
  <2>3. (info = Nobody /\ context.hostname # <<>> => Headless(context.parsed))'
    BY <1>5, <1>9, <2>1 DEF known, Headless
  <2> QED BY <1>1, <2>2, <2>3 DEF Told
<1>13. Away'
  <2>1. ~ Foreign
    BY <1>3 DEF Foreign
  <2> QED BY <1>1, <2>1, ForeignSame DEF Away
<1> QED BY <1>10, <1>11, <1>12, <1>13 DEF ContextInv

\* A section of the report, whether it raises or not.
LEMMA InspectStep ==
    ASSUME ContextInv, NEW t \in TableNames, NEW next \in {"handle", "process", "connection", "exit"}, Inspect(t, next)
    PROVE  ContextInv'
<1>1. pc = t /\ inv.tool = "sysctx" /\ pc' = next /\ UNCHANGED <<inv, host, target, collector, info, context>>
  BY DEF Inspect
<1>2. \/ UNCHANGED <<tables, raised>>
      \/ \E rows \in Rows(collector) : tables' = [tables EXCEPT ![t] = rows] /\ raised' = raised
      \/ raised' = raised \cup {t} /\ tables' = tables
  BY DEF Inspect
<1>3. target.machine \in {"host", "device"}
  BY DEF ContextInv, Setting
<1>4. tables' \in [TableNames -> SUBSET {"host", "device"}] /\ raised' \subseteq TableNames \cup {"table", "system"}
  <2>1. Rows(collector) \subseteq SUBSET {"host", "device"}
    BY <1>3, RowsType
  <2>2. tables \in [TableNames -> SUBSET {"host", "device"}] /\ raised \subseteq TableNames \cup {"table", "system"}
    BY DEF ContextInv, TypeOK
  <2> QED BY <1>2, <2>1, <2>2
<1>5. pc' \in ReportPlaces /\ pc' \notin {"exit0", "exit1", "parse", "refused", "connect", "written"}
  BY <1>1 DEF ReportPlaces, TableNames
<1>6. pc \notin {"parse", "refused"}
  BY <1>1 DEF TableNames
<1>7. TypeOK'
  BY <1>1, <1>4, <1>5, <1>6 DEF ContextInv, TypeOK, ReportPlaces
<1>8. Setting'
  BY <1>1, <1>5 DEF ContextInv, Setting
<1>9. Told'
  BY <1>1, <1>5, NothingTold
<1>10. Away'
  <2>1. ~ Foreign
    BY <1>1 DEF Foreign
  <2> QED BY <1>1, <2>1, ForeignSame DEF Away
<1> QED BY <1>7, <1>8, <1>9, <1>10 DEF ContextInv

\* The exit code.
LEMMA ExitStep == ContextInv /\ Exit => ContextInv'
<1> SUFFICES ASSUME ContextInv, Exit PROVE ContextInv'
  OBVIOUS
<1>1. /\ pc = "exit" /\ pc' = IF MinimumSetComplete THEN "exit0" ELSE IF inv.strict THEN "exit1" ELSE "exit2"
      /\ UNCHANGED <<inv, host, target, collector, tables, raised, info, context>>
  BY DEF Exit
<1>2. inv.tool = "sysctx"
  BY <1>1 DEF ContextInv, Setting, SlicePlaces
<1>3. TypeOK'
  BY <1>1 DEF ContextInv, TypeOK
<1>4. Setting'
  BY <1>1, <1>2 DEF ContextInv, Setting, ReportPlaces, MinimumSetComplete
<1>5. Told'
  <2>1. pc' # "written"
    BY <1>1
  <2> QED BY <1>1, <2>1, NothingTold
<1>6. Away'
  <2>1. ~ Foreign
    BY <1>2 DEF Foreign
  <2> QED BY <1>1, <2>1, ForeignSame DEF Away
<1> QED BY <1>3, <1>4, <1>5, <1>6 DEF ContextInv

\* Every step keeps the invariant.
LEMMA ContextNext == ContextInv /\ [Next]_contextVars => ContextInv'
<1> SUFFICES ASSUME ContextInv, [Next]_contextVars PROVE ContextInv'
  OBVIOUS
<1>1. CASE Refuse
  BY <1>1, RefuseStep
<1>2. CASE CreateAcquirer
  BY <1>2, CreateStep
<1>3. CASE BuildEngine
  BY <1>3, BuildStep
<1>4. CASE Connect
  BY <1>4, ConnectStep
<1>5. CASE CollectTables
  BY <1>5, TablesStep
<1>6. CASE CollectContext
  BY <1>6, CollectStep
<1>7. CASE MakeCollector
  BY <1>7, MakeStep
<1>8. CASE InspectSystem
  BY <1>8, SystemStep
<1>9. CASE InspectTables
  <2>1. /\ "identity" \in TableNames /\ "handle" \in TableNames /\ "process" \in TableNames /\ "connection" \in TableNames
    BY DEF TableNames
  <2>2. CASE Inspect("identity", "handle")
    BY <2>1, <2>2, InspectStep
  <2>3. CASE Inspect("handle", "process")
    BY <2>1, <2>3, InspectStep
  <2>4. CASE Inspect("process", "connection")
    BY <2>1, <2>4, InspectStep
  <2>5. CASE Inspect("connection", "exit")
    BY <2>1, <2>5, InspectStep
  <2> QED BY <1>9, <2>2, <2>3, <2>4, <2>5 DEF InspectTables
<1>10. CASE Exit
  BY <1>10, ExitStep
<1>11. CASE UNCHANGED contextVars
  <2>1. UNCHANGED <<inv, host, target, pc, collector, tables, raised, info, context>>
    BY <1>11 DEF contextVars
  <2>2. TypeOK'
    BY <2>1 DEF ContextInv, TypeOK
  <2>3. Setting'
    BY <2>1 DEF ContextInv, Setting, MinimumSetComplete
  <2>4. Told'
    BY <2>1, NothingTold
  <2>5. Away'
    BY <2>1, ForeignSame DEF ContextInv, Away
  <2> QED BY <2>2, <2>3, <2>4, <2>5 DEF ContextInv
<1> QED BY <1>1, <1>2, <1>3, <1>4, <1>5, <1>6, <1>7, <1>8, <1>9, <1>10, <1>11 DEF Next

\* The invariant of the descriptions: whoever asked, the context is either not
\* built or an honest description of what a collector answered.
THEOREM ContextInvariant == Spec => []ContextInv
<1> QED BY ContextInit, ContextNext, PTL DEF Spec

\* What a description says, by the names of the properties.
LEMMA DescribedIs ==
    ASSUME ContextInv, Described
    PROVE  /\ Guarded(context.fields, inv.gates) /\ context.detail = PackOSDetail(context.fields)
           /\ context.parsed = ParseOSDetail(PackOSDetail(context.fields))
           /\ Collected = CollectedIn(context.fields) /\ Marker = MarkerOf(context.parsed)
           /\ HumanPart = HumanOS(context.fields) /\ (HumanIsPlain <=> Plain(HumanOS(context.fields)))
           /\ context.hostname = <<>> => "collector_warning" \in Collected
<1>1. Honest(context)
  BY DEF ContextInv, Told, Described
<1>2. Collected = CollectedIn(context.fields) /\ Marker = MarkerOf(context.parsed)
  BY DEF Collected, CollectedIn, Marker, MarkerOf
<1>3. HumanPart = HumanOS(context.fields) /\ (HumanIsPlain <=> Plain(HumanOS(context.fields)))
  BY DEF HumanPart, HumanIsPlain, Plain
<1> QED BY <1>1, <1>2, <1>3 DEF Honest

\* ReadsWhatWasFound: whatever a collector found, parse_os_detail finds in what
\* pack_os_detail wrote no key that was not collected and no other value.
THEOREM ContextReadsWhatWasFound == Spec => []ReadsWhatWasFound
<1>1. ContextInv => ReadsWhatWasFound
  <2> SUFFICES ASSUME ContextInv, Described, HumanIsPlain,
                      NEW key \in DOMAIN context.parsed \ {<<"_human">>, <<"truncated">>}
               PROVE  /\ Len(key) = 1 /\ key[1] \in Collected
                      /\ Marker # <<"hard">> => context.parsed[key] = Text(context.fields[key[1]])
    BY DEF ReadsWhatWasFound
  <2> DEFINE fields == context.fields
             parsed == context.parsed
  <2>1. /\ FieldsOver(fields, AllText) /\ parsed = ParseOSDetail(PackOSDetail(fields)) /\ Plain(HumanOS(fields))
        /\ Collected = CollectedIn(fields) /\ Marker = MarkerOf(parsed)
    BY DescribedIs DEF Guarded
  <2> HIDE DEF fields
  <2>2. Found(parsed, fields)
    BY <2>1, PackedFacts
  <2>3. key \in DOMAIN parsed \ {<<"_human">>, <<"truncated">>}
    OBVIOUS
  <2> HIDE DEF parsed
  <2>4. /\ Len(key) = 1 /\ key[1] \in CollectedIn(fields)
        /\ MarkerOf(parsed) # <<"hard">> => parsed[key] = Text(fields[key[1]])
    BY <2>2, <2>3 DEF Found
  <2> QED BY <2>1, <2>4 DEF fields, parsed
<1> QED BY <1>1, ContextInvariant, PTL

\* TruncationIsHonest: what pack_os_detail dropped is marked, provenance stays,
\* and nothing is dropped while a key of lower rank is kept.
THEOREM ContextTruncationIsHonest == Spec => []TruncationIsHonest
<1>1. ContextInv => TruncationIsHonest
  <2> SUFFICES ASSUME ContextInv, Described, HumanIsPlain, HumanFits
               PROVE  LET missing == {k \in Collected : <<k>> \notin DOMAIN context.parsed}
                          Rank(k) == CHOOSE i \in DOMAIN KeyOrder : KeyOrder[i] = k
                      IN missing # {} =>
                            /\ Marker # <<>>
                            /\ Marker # <<"hard">> =>
                                  /\ missing \cap ProvenanceKeys = {}
                                  /\ \A k \in missing, other \in (Collected \ missing) \ ProvenanceKeys : Rank(other) < Rank(k)
                            /\ Len(context.detail) <= HardCap
    BY DEF TruncationIsHonest
  <2> DEFINE fields == context.fields
             parsed == context.parsed
             M == Missing(parsed, fields)
  <2>1. /\ FieldsOver(fields, AllText) /\ parsed = ParseOSDetail(PackOSDetail(fields)) /\ Plain(HumanOS(fields))
        /\ Collected = CollectedIn(fields) /\ Marker = MarkerOf(parsed) /\ HumanPart = HumanOS(fields)
        /\ context.detail = PackOSDetail(fields)
    BY DescribedIs DEF Guarded
  <2>2. Len(HumanOS(fields)) + 4 <= HardCap - 4
    BY <2>1 DEF HumanFits
  <2> HIDE DEF fields
  <2>3. Marks(parsed, fields)
    BY <2>1, <2>2, PackedFacts
  <2>4. Len(context.detail) <= HardCap
    BY <2>1, PackType
  <2>5. {k \in Collected : <<k>> \notin DOMAIN context.parsed} = M
    BY <2>1 DEF Missing
  <2>6. M # {} =>
          /\ Marker # <<>>
          /\ Marker # <<"hard">> =>
                /\ M \cap ProvenanceKeys = {}
                /\ \A k \in M, other \in (Collected \ M) \ ProvenanceKeys : RankOf(other) < RankOf(k)
    BY <2>1, <2>3 DEF Marks
  <2> HIDE DEF M
  <2> QED BY <2>4, <2>5, <2>6 DEF RankOf
<1> QED BY <1>1, ContextInvariant, PTL

\* PrivateOnRequest: a word that occurs behind one gate only is in the string
\* only if the operator opened that gate, and a slice in the clear was asked for.
THEOREM ContextPrivateOnRequest == Spec => []PrivateOnRequest
<1>1. ContextInv => PrivateOnRequest
  <2> SUFFICES ASSUME ContextInv, Described
               PROVE  /\ \A gate \in DOMAIN Secrets : ToSet(context.detail) \cap Secrets[gate] # {} => gate \in inv.gates
                      /\ pc = "written" /\ ~ context.encrypted => inv.noEncrypt
    BY DEF PrivateOnRequest
  <2>1. ASSUME NEW gate \in DOMAIN Secrets, gate \notin inv.gates PROVE ToSet(context.detail) \cap Secrets[gate] = {}
    <3> DEFINE S == AllText \ Secrets[gate]
               detail == context.detail
    <3>1. FieldsOver(context.fields, S) /\ detail = PackOSDetail(context.fields)
      BY <2>1, DescribedIs DEF Guarded
    <3>2. S \cap Secrets[gate] = {}
      OBVIOUS
    <3> HIDE DEF S, detail
    <3>3. detail \in Seq(S)
      BY <3>1, PackType
    <3>4. ToSet(detail) \subseteq S
      BY <3>3, SeqFacts DEF ToSet
    <3> QED BY <3>2, <3>4 DEF detail
  <2>2. pc = "written" /\ ~ context.encrypted => inv.noEncrypt
    BY DEF ContextInv, Told, Encrypted
  <2> QED BY <2>1, <2>2
<1> QED BY <1>1, ContextInvariant, PTL

\* ForeignTargetKeepsHostOut: the collector made for the host before the bridge
\* was connected tells nothing in the slice of a target it cannot describe.
THEOREM ContextForeignTargetKeepsHostOut == Spec => []ForeignTargetKeepsHostOut
<1>1. ContextInv => ForeignTargetKeepsHostOut
  <2>1. Nobody.machine # "host"
    BY DEF Nobody
  <2> QED BY <2>1 DEF ContextInv, Away, Foreign, ForeignTargetKeepsHostOut
<1> QED BY <1>1, ContextInvariant, PTL

\* FailuresShow: the types; a blank name carries a warning or a mark
\* (collect_system_info); a section of the report that raises costs no other,
\* and a report on nothing never exits with 0 (_collect_all, main).
THEOREM ContextFailuresShow == Spec => []FailuresShow
<1>1. ContextInv => TypeOK
  BY DEF ContextInv
<1>2. ContextInv => BlankNameIsExplained
  <2> SUFFICES ASSUME ContextInv, Described, HumanIsPlain, HumanFits, context.hostname = <<>>
               PROVE  <<"collector_warning">> \in DOMAIN context.parsed \/ Marker # <<>>
    BY DEF BlankNameIsExplained
  <2> DEFINE fields == context.fields
             parsed == context.parsed
  <2>1. /\ FieldsOver(fields, AllText) /\ parsed = ParseOSDetail(PackOSDetail(fields)) /\ Plain(HumanOS(fields))
        /\ Marker = MarkerOf(parsed) /\ HumanPart = HumanOS(fields) /\ "collector_warning" \in CollectedIn(fields)
    BY DescribedIs DEF Guarded
  <2>2. Len(HumanOS(fields)) + 4 <= HardCap - 4
    BY <2>1 DEF HumanFits
  <2> HIDE DEF fields
  <2>3. Marks(parsed, fields)
    BY <2>1, <2>2, PackedFacts
  <2>4. <<"collector_warning">> \notin DOMAIN parsed => "collector_warning" \in Missing(parsed, fields)
    BY <2>1 DEF Missing
  <2>5. <<"collector_warning">> \in DOMAIN parsed \/ MarkerOf(parsed) # <<>>
    BY <2>3, <2>4 DEF Marks
  <2> QED BY <2>1, <2>5
<1>3. ContextInv => SectionsStandAlone
  <2> SUFFICES ASSUME ContextInv PROVE SectionsStandAlone
    OBVIOUS
  <2>1. inv.tool = "sysctx" => pc # "failed" /\ (pc = "exit1" => inv.strict)
    BY DEF ContextInv, Setting, ReportPlaces, TableNames
  <2>2. ASSUME pc = "exit0" PROVE info.machine # "nobody"
    <3>1. inv.tool = "sysctx" /\ MinimumSetComplete
      BY <2>2 DEF ContextInv, Setting, SlicePlaces
    <3>2. context.hostname # <<>> /\ ~ Headless(context.parsed)
      BY <3>1 DEF MinimumSetComplete, Headless
    <3>3. info # Nobody
      BY <3>1, <3>2 DEF ContextInv, Told
    <3> QED BY <3>3 DEF ContextInv, Told, Known
  <2> QED BY <2>1, <2>2 DEF SectionsStandAlone
<1>4. ContextInv => FailuresShow
  BY <1>1, <1>2, <1>3 DEF FailuresShow
<1> QED BY <1>4, ContextInvariant, PTL

==============================================================================

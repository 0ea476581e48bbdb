--------------------------- MODULE EnrichToolProofs ----------------------------
(***************************************************************************)
(* For any slice, any memory behind it, any number of runs of the enrich   *)
(* tool and any moment at which one is killed or fails: the slice stands,  *)
(* what passes for a slice holds all that was captured, only runs that     *)
(* broke off leave anything else, and every manifest in such a file says   *)
(* what the captured pages show, no more and no less.                      *)
(*                                                                         *)
(* The last of these goes all the way down to the bytes: what the writer   *)
(* packs is found again at the offsets that the enrich tool computes.      *)
(***************************************************************************)
EXTENDS EnrichTool, FiniteSetTheorems, WellFoundedInduction, SequenceTheorems, TLAPS

------------------------------------------------------------------------------
(* Numbers and sequences                                                     *)

Less == {ss \in Nat \X Nat : ss[1] < ss[2]}

\* A non-empty set of naturals has a least element: where a CHOOSE asks for the
\* first position with a property, there is one.
LEMMA LeastOfSet ==
    ASSUME NEW T \in SUBSET Nat, T # {}
    PROVE  \E x \in T : \A y \in T : x <= y
<1>1. OpToRel(<, Nat) = Less
  BY DEF OpToRel, Less
<1>2. IsWellFoundedOn(Less, Nat)
  BY <1>1, NatLessThanWellFounded
<1>3. PICK x \in T : \A y \in T : ~(<<y, x>> \in Less)
  BY <1>2, WFMin
<1>4. \A m, n \in Nat : m < n => <<m, n>> \in Less
  BY DEF Less
<1>5. \A y \in T : ~(y < x)
  BY <1>3, <1>4
<1> QED BY <1>5

\* A function on 1 .. n is a sequence.
LEMMA FunctionIsSeq ==
    ASSUME NEW S, NEW n \in Nat, NEW f, f = [k \in 1 .. n |-> f[k]], \A k \in 1 .. n : f[k] \in S
    PROVE  f \in Seq(S) /\ Len(f) = n /\ DOMAIN f = 1 .. n
<1>1. f \in [1 .. n -> S]
  OBVIOUS
<1> QED BY <1>1

\* A sequence is a function on the numbers up to its length.
LEMMA SeqFacts ==
    ASSUME NEW S, NEW s \in Seq(S)
    PROVE  /\ Len(s) \in Nat /\ DOMAIN s = 1 .. Len(s) /\ \A k \in 1 .. Len(s) : s[k] \in S
           /\ s = [k \in 1 .. Len(s) |-> s[k]]
  OBVIOUS

\* Sequences that agree everywhere are equal.
LEMMA EqualSeqs ==
    ASSUME NEW S, NEW T, NEW s \in Seq(S), NEW t \in Seq(T), Len(s) = Len(t),
           \A k \in 1 .. Len(s) : s[k] = t[k]
    PROVE  s = t
  BY SeqFacts

\* A sequence is one over any set that holds its elements.
LEMMA WiderSeq ==
    ASSUME NEW S, NEW T, NEW s \in Seq(S), \A k \in 1 .. Len(s) : s[k] \in T
    PROVE  s \in Seq(T)
  BY SeqFacts, FunctionIsSeq

\* Two sequences in a row, element by element.
LEMMA ConcatFacts ==
    ASSUME NEW S, NEW s \in Seq(S), NEW t \in Seq(S)
    PROVE  /\ s \o t \in Seq(S) /\ Len(s \o t) = Len(s) + Len(t)
           /\ \A i \in 1 .. Len(s) : (s \o t)[i] = s[i]
           /\ \A i \in 1 .. Len(t) : (s \o t)[Len(s) + i] = t[i]
           /\ \A i \in Len(s) + 1 .. Len(s) + Len(t) : (s \o t)[i] = t[i - Len(s)]
<1>1. Len(s) \in Nat /\ Len(t) \in Nat
  OBVIOUS
<1>2. s \o t \in Seq(S)
  OBVIOUS
<1>3. Len(s \o t) = Len(s) + Len(t)
  OBVIOUS
<1>4. \A i \in 1 .. Len(s) + Len(t) : (s \o t)[i] = IF i <= Len(s) THEN s[i] ELSE t[i - Len(s)]
  BY ConcatProperties
<1>5. \A i \in 1 .. Len(s) : (s \o t)[i] = s[i]
  BY <1>1, <1>4
<1>6. \A i \in 1 .. Len(t) : (s \o t)[Len(s) + i] = t[i]
  <2> TAKE i \in 1 .. Len(t)
  <2>1. Len(s) + i \in 1 .. Len(s) + Len(t) /\ ~(Len(s) + i <= Len(s)) /\ Len(s) + i - Len(s) = i
    BY <1>1
  <2> QED BY <1>4, <2>1
<1>7. \A i \in Len(s) + 1 .. Len(s) + Len(t) : (s \o t)[i] = t[i - Len(s)]
  BY <1>1, <1>4
<1> QED BY <1>2, <1>3, <1>5, <1>6, <1>7

\* A sequence of one.
LEMMA OneFacts ==
    ASSUME NEW S, NEW x \in S
    PROVE  <<x>> \in Seq(S) /\ Len(<<x>>) = 1 /\ <<x>>[1] = x
  OBVIOUS

\* The empty sequence changes nothing.
LEMMA EmptyFacts ==
    ASSUME NEW S, NEW s \in Seq(S)
    PROVE  <<>> \in Seq(S) /\ Len(<<>>) = 0 /\ <<>> \o s = s /\ s \o <<>> = s /\ (s = <<>> <=> Len(s) = 0)
  OBVIOUS

IsSeq(s) == s \in Seq(ToSet(s))
Ended(s) == \E i \in DOMAIN s : s[i].type = "EndOfCapture"

LEMMA SeqIsSeq == ASSUME NEW S, NEW s \in Seq(S) PROVE IsSeq(s)
<1>1. Len(s) \in Nat /\ s \in [1 .. Len(s) -> S]
  BY LenProperties
<1>2. \A i \in 1 .. Len(s) : s[i] \in ToSet(s)
  BY <1>1 DEF ToSet
<1>3. s \in [1 .. Len(s) -> ToSet(s)]
  BY <1>1, <1>2
<1> QED
  BY <1>1, <1>3, IsASeq DEF IsSeq

LEMMA ConcatIsSeq ==
    ASSUME NEW s, NEW t, IsSeq(s), IsSeq(t)
    PROVE  /\ IsSeq(s \o t) /\ Len(s \o t) = Len(s) + Len(t)
           /\ \A i \in 1 .. Len(s) + Len(t) : (s \o t)[i] = IF i <= Len(s) THEN s[i] ELSE t[i - Len(s)]
<1> DEFINE S == ToSet(s) \cup ToSet(t)
<1>1. s \in Seq(S) /\ t \in Seq(S)
  BY DEF IsSeq
<1> HIDE DEF S
<1>2. s \o t \in Seq(S)
  BY <1>1
<1>3. IsSeq(s \o t)
  BY <1>2, SeqIsSeq
<1> QED
  BY <1>1, <1>3, ConcatProperties

LEMMA PrefixIsSeq ==
    ASSUME NEW s, IsSeq(s), NEW k \in 0 .. Len(s)
    PROVE  /\ IsSeq(SubSeq(s, 1, k)) /\ Len(SubSeq(s, 1, k)) = k
           /\ \A i \in 1 .. k : SubSeq(s, 1, k)[i] = s[i]
<1>1. s \in Seq(ToSet(s)) /\ Len(s) \in Nat
  BY LenProperties DEF IsSeq
<1>2. /\ SubSeq(s, 1, k) \in Seq(ToSet(s)) /\ Len(SubSeq(s, 1, k)) = k
      /\ \A i \in 1 .. k : SubSeq(s, 1, k)[i] = s[i]
  BY <1>1
<1> QED
  BY <1>2, SeqIsSeq

LEMMA SeqDomain == ASSUME NEW s, IsSeq(s) PROVE Len(s) \in Nat /\ DOMAIN s = 1 .. Len(s)
  BY LenProperties DEF IsSeq

\* The elements of s that are in T, up to the n-th, taken from those up to the one before.
OneMore(g, n, s, T) ==
  IF n = 0 THEN <<>> ELSE IF s[n] \in T THEN Append(g[n - 1], s[n]) ELSE g[n - 1]

Keeps(g, m, s, T) == DOMAIN g = 0 .. m /\ \A n \in 0 .. m : g[n] = OneMore(g, n, s, T)

\* The recursion of Kept has a solution up to any length.
LEMMA KeeperExists ==
    ASSUME NEW s, NEW T, NEW m \in Nat
    PROVE  \E g : Keeps(g, m, s, T)
<1> DEFINE Bad == {n \in Nat : ~ \E g : Keeps(g, n, s, T)}
<1> SUFFICES ASSUME Bad # {} PROVE FALSE
  OBVIOUS
<1>1. PICK n \in Bad : \A k \in Bad : n <= k
  BY LeastOfSet
<1>2. n \in Nat /\ ~ \E g : Keeps(g, n, s, T)
  OBVIOUS
<1>3. CASE n = 0
  <2> DEFINE g == [k \in 0 .. 0 |-> <<>>]
  <2>1. Keeps(g, 0, s, T)
    BY DEF Keeps, OneMore
  <2> QED BY <1>2, <1>3, <2>1
<1>4. CASE n # 0
  <2>1. n - 1 \in Nat /\ ~(n <= n - 1)
    BY <1>2, <1>4
  <2>2. n - 1 \notin Bad
    BY <1>1, <2>1
  <2>3. PICK h : Keeps(h, n - 1, s, T)
    BY <2>1, <2>2
  <2> DEFINE g == [k \in 0 .. n |-> IF k = n THEN OneMore(h, n, s, T) ELSE h[k]]
  <2>4. \A k \in 0 .. n : k # n => g[k] = h[k]
    OBVIOUS
  <2>5. g[n] = OneMore(h, n, s, T) /\ DOMAIN g = 0 .. n
    BY <1>2
  <2> HIDE DEF g
  <2>6. ASSUME NEW k \in 0 .. n PROVE g[k] = OneMore(g, k, s, T)
    <3>1. k # 0 => k - 1 \in 0 .. n /\ k - 1 # n
      BY <1>2
    <3>2. OneMore(g, k, s, T) = OneMore(h, k, s, T)
      BY <2>4, <3>1 DEF OneMore
    <3>3. CASE k = n
      BY <2>5, <3>2, <3>3
    <3>4. CASE k # n
      <4>1. k \in 0 .. n - 1
        BY <1>2, <3>4
      <4> QED BY <2>3, <2>4, <3>2, <3>4, <4>1 DEF Keeps
    <3> QED BY <3>3, <3>4
  <2>7. Keeps(g, n, s, T)
    BY <2>5, <2>6 DEF Keeps
  <2> QED BY <1>2, <2>7
<1> QED BY <1>3, <1>4

\* Kept is that solution.
LEMMA KeptIsKept ==
    ASSUME NEW s, NEW T, Len(s) \in Nat
    PROVE  \E g : Keeps(g, Len(s), s, T) /\ Kept(s, T) = g[Len(s)]
<1> DEFINE P(g) == g = [n \in 0 .. Len(s) |->
                          IF n = 0 THEN <<>> ELSE IF s[n] \in T THEN Append(g[n - 1], s[n]) ELSE g[n - 1]]
           kept == CHOOSE g : P(g)
<1>1. PICK h : Keeps(h, Len(s), s, T)
  BY KeeperExists
<1>2. \E g : P(g)
  <2> DEFINE g == [n \in 0 .. Len(s) |-> h[n]]
  <2>1. \A n \in 0 .. Len(s) : n # 0 => n - 1 \in 0 .. Len(s)
    OBVIOUS
  <2>2. \A n \in 0 .. Len(s) : n # 0 => g[n - 1] = h[n - 1]
    BY <2>1
  <2>3. \A n \in 0 .. Len(s) :
          h[n] = IF n = 0 THEN <<>> ELSE IF s[n] \in T THEN Append(g[n - 1], s[n]) ELSE g[n - 1]
    BY <1>1, <2>2 DEF Keeps, OneMore
  <2>4. P(g)
    BY <2>3
  <2> QED BY <2>4
<1>3. P(kept)
  BY <1>2
<1>4. Kept(s, T) = kept[Len(s)]
  BY DEF Kept
<1> HIDE DEF kept
<1>5. Keeps(kept, Len(s), s, T)
  BY <1>3 DEF Keeps, OneMore
<1> QED BY <1>4, <1>5

\* u holds the elements of s that are in T, up to the n-th.
SelectsTo(u, n, s, T) ==
    /\ \A i \in 1 .. Len(u) : u[i] \in T /\ \E a \in 1 .. n : s[a] = u[i]
    /\ \A a \in 1 .. n : s[a] \in T => \E i \in 1 .. Len(u) : u[i] = s[a]

Selects(u, s, T) == SelectsTo(u, Len(s), s, T)

LEMMA SelectsOneMore ==
    ASSUME NEW M, NEW s \in Seq(M), NEW T, NEW n \in 1 .. Len(s), NEW k \in Seq(M),
           SelectsTo(k, n - 1, s, T), s[n] \in T
    PROVE  SelectsTo(Append(k, s[n]), n, s, T)
<1> DEFINE w == Append(k, s[n])
<1>1. Len(k) \in Nat /\ n \in Nat /\ Len(s) \in Nat /\ s[n] \in M
  BY SeqFacts
<1>2. Len(w) = Len(k) + 1 /\ w[Len(k) + 1] = s[n] /\ \A i \in 1 .. Len(k) : w[i] = k[i]
  BY <1>1
<1> HIDE DEF w
<1>3. \A i \in 1 .. Len(w) : w[i] \in T /\ \E a \in 1 .. n : s[a] = w[i]
  <2> TAKE i \in 1 .. Len(w)
  <2>1. CASE i = Len(k) + 1
    <3>1. n \in 1 .. n
      BY <1>1
    <3> QED BY <1>2, <2>1, <3>1
  <2>2. CASE i # Len(k) + 1
    <3>1. i \in 1 .. Len(k)
      BY <1>1, <1>2, <2>2
    <3>2. w[i] \in T /\ \E a \in 1 .. n - 1 : s[a] = w[i]
      BY <1>2, <3>1 DEF SelectsTo
    <3>3. \A a \in 1 .. n - 1 : a \in 1 .. n
      BY <1>1
    <3> QED BY <3>2, <3>3
  <2> QED BY <2>1, <2>2
<1>4. \A a \in 1 .. n : s[a] \in T => \E i \in 1 .. Len(w) : w[i] = s[a]
  <2> SUFFICES ASSUME NEW a \in 1 .. n, s[a] \in T PROVE \E i \in 1 .. Len(w) : w[i] = s[a]
    OBVIOUS
  <2>1. CASE a = n
    <3>1. Len(k) + 1 \in 1 .. Len(w)
      BY <1>1, <1>2
    <3> QED BY <1>2, <2>1, <3>1
  <2>2. CASE a # n
    <3>1. a \in 1 .. n - 1
      BY <1>1, <2>2
    <3>2. PICK i \in 1 .. Len(k) : k[i] = s[a]
      BY <3>1 DEF SelectsTo
    <3>3. i \in 1 .. Len(w) /\ w[i] = s[a]
      BY <1>1, <1>2, <3>2
    <3> QED BY <3>3
  <2> QED BY <2>1, <2>2
<1> QED BY <1>3, <1>4 DEF SelectsTo, w

LEMMA SelectsNoMore ==
    ASSUME NEW s, NEW T, NEW n \in Nat \ {0}, NEW k, SelectsTo(k, n - 1, s, T), s[n] \notin T
    PROVE  SelectsTo(k, n, s, T)
<1>1. \A a \in 1 .. n - 1 : a \in 1 .. n
  OBVIOUS
<1>2. \A a \in 1 .. n : s[a] \in T => a \in 1 .. n - 1
  OBVIOUS
<1> QED BY <1>1, <1>2 DEF SelectsTo

LEMMA KeptFacts ==
    ASSUME NEW M, NEW s \in Seq(M), NEW T
    PROVE  Kept(s, T) \in Seq(M) /\ Selects(Kept(s, T), s, T)
<1>1. Len(s) \in Nat /\ \A k \in 1 .. Len(s) : s[k] \in M
  BY SeqFacts
<1>2. PICK g : Keeps(g, Len(s), s, T) /\ Kept(s, T) = g[Len(s)]
  BY <1>1, KeptIsKept
<1> DEFINE Good(n) == g[n] \in Seq(M) /\ SelectsTo(g[n], n, s, T)
           Bad == {n \in Nat : n <= Len(s) /\ ~Good(n)}
<1>3. Bad = {}
  <2> SUFFICES ASSUME Bad # {} PROVE FALSE
    OBVIOUS
  <2>1. PICK n \in Bad : \A k \in Bad : n <= k
    BY LeastOfSet
  <2>2. n \in Nat /\ n <= Len(s) /\ ~Good(n) /\ n \in 0 .. Len(s)
    BY <1>1
  <2>3. CASE n = 0
    <3>1. g[0] = <<>>
      BY <1>2, <2>2, <2>3 DEF Keeps, OneMore
    <3>2. Len(<<>>) = 0 /\ <<>> \in Seq(M)
      BY EmptyFacts
    <3>3. SelectsTo(<<>>, 0, s, T)
      BY <3>2 DEF SelectsTo
    <3> QED BY <2>2, <2>3, <3>1, <3>2, <3>3
  <2>4. CASE n # 0
    <3>1. n - 1 \in Nat /\ n - 1 <= Len(s) /\ ~(n <= n - 1) /\ n \in 1 .. Len(s) /\ n \in Nat \ {0}
      BY <1>1, <2>2, <2>4
    <3>2. Good(n - 1)
      BY <2>1, <3>1
    <3>3. g[n] = IF s[n] \in T THEN Append(g[n - 1], s[n]) ELSE g[n - 1]
      BY <1>2, <2>2, <2>4 DEF Keeps, OneMore
    <3>4. CASE s[n] \in T
      <4>1. g[n] \in Seq(M)
        BY <1>1, <3>1, <3>2, <3>3, <3>4
      <4> HIDE DEF Bad
      <4> QED BY <2>2, <3>1, <3>2, <3>3, <3>4, <4>1, SelectsOneMore
    <3>5. CASE s[n] \notin T
      <4> HIDE DEF Bad
      <4> QED BY <2>2, <3>1, <3>2, <3>3, <3>5, SelectsNoMore
    <3> QED BY <3>4, <3>5
  <2> QED BY <2>3, <2>4
<1>4. Good(Len(s))
  <2>1. Len(s) \notin Bad
    <3> HIDE DEF Bad
    <3> QED BY <1>3
  <2> HIDE DEF Good
  <2> QED BY <1>1, <2>1
<1> QED BY <1>2, <1>4 DEF Selects


------------------------------------------------------------------------------
(* The blocks of a file by their types                                       *)

\* What is given for 1, 2, ..., n is a sequence.
LEMMA GivenIsSeq ==
    ASSUME NEW n \in Nat, NEW f, f = [k \in 1 .. n |-> f[k]]
    PROVE  IsSeq(f) /\ Len(f) = n /\ DOMAIN f = 1 .. n
<1> DEFINE S == {f[k] : k \in 1 .. n}
<1>1. \A k \in 1 .. n : f[k] \in S
  OBVIOUS
<1> HIDE DEF S
<1>2. f \in Seq(S) /\ Len(f) = n /\ DOMAIN f = 1 .. n
  BY <1>1, FunctionIsSeq
<1> QED BY <1>2, SeqIsSeq

\* The elements of s in T, all of them and no others.
LEMMA KeptSet ==
    ASSUME NEW s, IsSeq(s), NEW T
    PROVE  /\ IsSeq(Kept(s, T))
           /\ \A i \in 1 .. Len(Kept(s, T)) : Kept(s, T)[i] \in T /\ \E a \in 1 .. Len(s) : s[a] = Kept(s, T)[i]
           /\ \A a \in 1 .. Len(s) : s[a] \in T => \E i \in 1 .. Len(Kept(s, T)) : Kept(s, T)[i] = s[a]
<1>1. s \in Seq(ToSet(s))
  BY DEF IsSeq
<1>2. Kept(s, T) \in Seq(ToSet(s)) /\ Selects(Kept(s, T), s, T)
  BY <1>1, KeptFacts
<1>3. IsSeq(Kept(s, T))
  BY <1>2, SeqIsSeq
<1> QED BY <1>2, <1>3 DEF Selects, SelectsTo

\* p is the payloads of the blocks of a type in y.
PayloadsOf(p, y, type) ==
    /\ IsSeq(p)
    /\ \A i \in 1 .. Len(p) : \E a \in 1 .. Len(y) : y[a].type = type /\ y[a].payload = p[i]
    /\ \A a \in 1 .. Len(y) : y[a].type = type => \E i \in 1 .. Len(p) : p[i] = y[a].payload

LEMMA PayloadsAre ==
    ASSUME NEW f, IsSeq(Yielded(f)), NEW type
    PROVE  PayloadsOf(Payloads(f, type), Yielded(f), type)
<1> DEFINE y == Yielded(f)
           T == {b \in ToSet(y) : b.type = type}
           u == Kept(y, T)
           p == [i \in DOMAIN u |-> u[i].payload]
<1>1. Payloads(f, type) = p
  BY DEF Payloads
<1>2. IsSeq(y) /\ Len(y) \in Nat /\ DOMAIN y = 1 .. Len(y)
  BY SeqDomain
<1>3. \A a \in 1 .. Len(y) : y[a] \in ToSet(y)
  BY <1>2 DEF ToSet
<1> HIDE DEF y
<1>4. \A a \in 1 .. Len(y) : y[a] \in T <=> y[a].type = type
  BY <1>3
<1> HIDE DEF T
<1>5. /\ IsSeq(u)
      /\ \A i \in 1 .. Len(u) : u[i] \in T /\ \E a \in 1 .. Len(y) : y[a] = u[i]
      /\ \A a \in 1 .. Len(y) : y[a] \in T => \E i \in 1 .. Len(u) : u[i] = y[a]
  BY <1>2, KeptSet
<1> HIDE DEF u
<1>6. DOMAIN u = 1 .. Len(u) /\ Len(u) \in Nat
  BY <1>5, SeqDomain
<1>7. p = [i \in 1 .. Len(u) |-> p[i]] /\ \A i \in 1 .. Len(u) : p[i] = u[i].payload
  BY <1>6
<1> HIDE DEF p
<1>8. IsSeq(p) /\ Len(p) = Len(u)
  BY <1>6, <1>7, GivenIsSeq
<1>9. \A i \in 1 .. Len(p) : \E a \in 1 .. Len(y) : y[a].type = type /\ y[a].payload = p[i]
  BY <1>4, <1>5, <1>7, <1>8
<1>10. \A a \in 1 .. Len(y) : y[a].type = type => \E i \in 1 .. Len(p) : p[i] = y[a].payload
  BY <1>4, <1>5, <1>7, <1>8
<1> QED BY <1>1, <1>8, <1>9, <1>10 DEF PayloadsOf, y
\* f gives the concatenations of the first 1, ..., m of ts.
Flattens(f, m, ts) ==
    DOMAIN f = 1 .. m /\ \A i \in 1 .. m : f[i] = IF i = 1 THEN ts[i] ELSE f[i - 1] \o ts[i]

\* The recursion of FlattenSeq has a solution up to any length.
LEMMA FlattenerExists ==
    ASSUME NEW ts, NEW m \in Nat
    PROVE  \E f : Flattens(f, m, ts)
<1> DEFINE Bad == {n \in Nat : ~ \E f : Flattens(f, n, ts)}
<1> SUFFICES ASSUME Bad # {} PROVE FALSE
  OBVIOUS
<1>1. PICK n \in Bad : \A k \in Bad : n <= k
  BY LeastOfSet
<1>2. n \in Nat /\ ~ \E f : Flattens(f, n, ts)
  OBVIOUS
<1>3. CASE n = 0
  <2>1. Flattens([i \in 1 .. 0 |-> <<>>], 0, ts)
    BY DEF Flattens
  <2> QED BY <1>2, <1>3, <2>1
<1>4. CASE n # 0
  <2>1. n - 1 \in Nat /\ ~(n <= n - 1)
    BY <1>2, <1>4
  <2>2. n - 1 \notin Bad
    BY <1>1, <2>1
  <2>3. PICK h : Flattens(h, n - 1, ts)
    BY <2>1, <2>2
  <2> DEFINE last == IF n = 1 THEN ts[n] ELSE h[n - 1] \o ts[n]
             f == [i \in 1 .. n |-> IF i = n THEN last ELSE h[i]]
  <2>4. \A i \in 1 .. n : i # n => f[i] = h[i]
    OBVIOUS
  <2>5. f[n] = last /\ DOMAIN f = 1 .. n
    BY <1>2, <1>4
  <2> HIDE DEF f
  <2>6. ASSUME NEW i \in 1 .. n PROVE f[i] = IF i = 1 THEN ts[i] ELSE f[i - 1] \o ts[i]
    <3>1. i # 1 => i - 1 \in 1 .. n /\ i - 1 # n
      BY <1>2
    <3>2. i # 1 => f[i - 1] = h[i - 1]
      BY <2>4, <3>1
    <3>3. CASE i = n
      BY <2>5, <3>2, <3>3
    <3>4. CASE i # n
      <4>1. i \in 1 .. n - 1
        BY <1>2, <3>4
      <4> QED BY <2>3, <2>4, <3>2, <3>4, <4>1 DEF Flattens
    <3> QED BY <3>3, <3>4
  <2>7. Flattens(f, n, ts)
    BY <2>5, <2>6 DEF Flattens
  <2> QED BY <1>2, <2>7
<1> QED BY <1>3, <1>4

\* f[n] is the concatenation of the first n of ts, all of them texts over S.
Stages(f, ts, S) ==
    /\ f[0] = <<>> /\ \A n \in 0 .. Len(ts) : f[n] \in Seq(S)
    /\ \A n \in 1 .. Len(ts) : f[n] = f[n - 1] \o ts[n]

\* FlattenSeq is the last of these stages.
LEMMA FlattenStages ==
    ASSUME NEW S, NEW ts \in Seq(Seq(S))
    PROVE  \E f : Stages(f, ts, S) /\ FlattenSeq(ts) = f[Len(ts)]
<1>1. Len(ts) \in Nat /\ \A i \in 1 .. Len(ts) : ts[i] \in Seq(S)
  BY SeqFacts
<1>2. CASE Len(ts) = 0
  <2> DEFINE f == [n \in 0 .. 0 |-> <<>>]
  <2>1. f[0] = <<>> /\ <<>> \in Seq(S)
    BY EmptySeq
  <2>2. ts = <<>>
    BY <1>2, EmptyFacts
  <2>3. Stages(f, ts, S)
    <3> HIDE DEF f
    <3>1. 0 .. Len(ts) = {0} /\ 1 .. Len(ts) = {}
      BY <1>2
    <3> QED BY <2>1, <3>1 DEF Stages
  <2>4. FlattenSeq(ts) = f[Len(ts)]
    BY <1>2, <2>1, <2>2 DEF FlattenSeq
  <2> QED BY <2>3, <2>4
<1>3. CASE Len(ts) # 0
  <2> DEFINE P(f) == f = [i \in 1 .. Len(ts) |-> IF i = 1 THEN ts[i] ELSE f[i - 1] \o ts[i]]
             flatten == CHOOSE f : P(f)
  <2>1. PICK h : Flattens(h, Len(ts), ts)
    BY <1>1, FlattenerExists
  <2>2. \E f : P(f)
    <3> DEFINE f == [i \in 1 .. Len(ts) |-> h[i]]
    <3>1. \A i \in 1 .. Len(ts) : i # 1 => i - 1 \in 1 .. Len(ts)
      BY <1>1
    <3>2. \A i \in 1 .. Len(ts) : i # 1 => f[i - 1] = h[i - 1]
      BY <3>1
    <3>3. \A i \in 1 .. Len(ts) : h[i] = IF i = 1 THEN ts[i] ELSE f[i - 1] \o ts[i]
      BY <2>1, <3>2 DEF Flattens
    <3>4. P(f)
      BY <3>3
    <3> QED BY <3>4
  <2>3. P(flatten)
    BY <2>2
  <2>4. FlattenSeq(ts) = flatten[Len(ts)]
    BY <1>3 DEF FlattenSeq
  <2> HIDE DEF flatten
  <2> DEFINE f == [n \in 0 .. Len(ts) |-> IF n = 0 THEN <<>> ELSE flatten[n]]
  <2>5. f[0] = <<>> /\ \A n \in 1 .. Len(ts) : f[n] = flatten[n] /\ n # 0
    BY <1>1
  <2>6. \A n \in 1 .. Len(ts) : n = 1 \/ n - 1 \in 1 .. Len(ts)
    BY <1>1
  <2>7. f[Len(ts)] = flatten[Len(ts)]
    BY <1>1, <1>3
  <2> HIDE DEF f
  <2>8. \A n \in 1 .. Len(ts) : flatten[n] = IF n = 1 THEN ts[n] ELSE flatten[n - 1] \o ts[n]
    BY <2>3
  <2> HIDE DEF P
  <2>9. ASSUME NEW n \in 1 .. Len(ts) PROVE f[n] = f[n - 1] \o ts[n]
    <3>1. CASE n = 1
      <4>1. f[n] = ts[n] /\ f[n - 1] = <<>>
        BY <2>5, <2>8, <3>1
      <4>2. <<>> \o ts[n] = ts[n]
        BY <1>1, EmptyFacts
      <4> QED BY <4>1, <4>2
    <3>2. CASE n # 1
      BY <2>5, <2>6, <2>8, <3>2
    <3> QED BY <3>1, <3>2
  <2> DEFINE Bad == {n \in Nat : n <= Len(ts) /\ f[n] \notin Seq(S)}
  <2>10. Bad = {}
    <3> SUFFICES ASSUME Bad # {} PROVE FALSE
      OBVIOUS
    <3>1. PICK n \in Bad : \A k \in Bad : n <= k
      BY LeastOfSet
    <3>2. n \in Nat /\ n <= Len(ts) /\ f[n] \notin Seq(S)
      OBVIOUS
    <3>3. n # 0
      BY <2>5, <3>2, EmptySeq
    <3>4. n - 1 \in Nat /\ n - 1 <= Len(ts) /\ ~(n <= n - 1) /\ n \in 1 .. Len(ts)
      BY <1>1, <3>2, <3>3
    <3>5. f[n - 1] \in Seq(S)
      BY <3>1, <3>4
    <3> QED BY <1>1, <2>9, <3>2, <3>4, <3>5, ConcatFacts
  <2>11. \A n \in 0 .. Len(ts) : f[n] \in Seq(S)
    <3> TAKE n \in 0 .. Len(ts)
    <3>1. n \in Nat /\ n <= Len(ts) /\ n \notin Bad
      BY <1>1, <2>10
    <3> QED BY <3>1
  <2>12. Stages(f, ts, S)
    BY <2>5, <2>9, <2>11 DEF Stages
  <2> QED BY <2>4, <2>7, <2>12
<1> QED BY <1>2, <1>3

------------------------------------------------------------------------------
(* Fields and offsets                                                        *)

Fields == Seq([w : Nat \ {0}, v : Int])

\* g gives where the fields of p end.
Running(g, m, p) == DOMAIN g = 0 .. m /\ \A i \in 0 .. m : g[i] = IF i = 0 THEN 0 ELSE g[i - 1] + p[i].w

\* The recursion of Ends has a solution up to any length.
LEMMA RunnerExists ==
    ASSUME NEW p, NEW m \in Nat
    PROVE  \E g : Running(g, m, p)
<1> DEFINE Bad == {n \in Nat : ~ \E g : Running(g, n, p)}
<1> SUFFICES ASSUME Bad # {} PROVE FALSE
  OBVIOUS
<1>1. PICK n \in Bad : \A k \in Bad : n <= k
  BY LeastOfSet
<1>2. n \in Nat /\ ~ \E g : Running(g, n, p)
  OBVIOUS
<1>3. CASE n = 0
  <2> DEFINE g == [k \in 0 .. 0 |-> 0]
  <2>1. Running(g, 0, p)
    BY DEF Running
  <2> QED BY <1>2, <1>3, <2>1
<1>4. CASE n # 0
  <2>1. n - 1 \in Nat /\ ~(n <= n - 1)
    BY <1>2, <1>4
  <2>2. n - 1 \notin Bad
    BY <1>1, <2>1
  <2>3. PICK h : Running(h, n - 1, p)
    BY <2>1, <2>2
  <2> DEFINE g == [k \in 0 .. n |-> IF k = n THEN h[n - 1] + p[n].w ELSE h[k]]
  <2>4. \A k \in 0 .. n : k # n => g[k] = h[k]
    OBVIOUS
  <2>5. g[n] = h[n - 1] + p[n].w /\ DOMAIN g = 0 .. n
    BY <1>2
  <2> HIDE DEF g
  <2>6. ASSUME NEW k \in 0 .. n PROVE g[k] = IF k = 0 THEN 0 ELSE g[k - 1] + p[k].w
    <3>1. k # 0 => k - 1 \in 0 .. n /\ k - 1 # n
      BY <1>2
    <3>2. k # 0 => g[k - 1] = h[k - 1]
      BY <2>4, <3>1
    <3>3. CASE k = n
      BY <1>4, <2>5, <3>2, <3>3
    <3>4. CASE k # n
      <4>1. k \in 0 .. n - 1
        BY <1>2, <3>4
      <4> QED BY <2>3, <2>4, <3>2, <3>4, <4>1 DEF Running
    <3> QED BY <3>3, <3>4
  <2>7. Running(g, n, p)
    BY <2>5, <2>6 DEF Running
  <2> QED BY <1>2, <2>7
<1> QED BY <1>3, <1>4

\* Ends is that solution.
LEMMA EndsRun ==
    ASSUME NEW p, Len(p) \in Nat
    PROVE  Running(Ends(p), Len(p), p)
<1> DEFINE P(g) == g = [i \in 0 .. Len(p) |-> IF i = 0 THEN 0 ELSE g[i - 1] + p[i].w]
           end == CHOOSE g : P(g)
<1>1. PICK h : Running(h, Len(p), p)
  BY RunnerExists
<1>2. \E g : P(g)
  <2> DEFINE g == [n \in 0 .. Len(p) |-> h[n]]
  <2>1. \A n \in 0 .. Len(p) : n # 0 => n - 1 \in 0 .. Len(p)
    OBVIOUS
  <2>2. \A n \in 0 .. Len(p) : n # 0 => g[n - 1] = h[n - 1]
    BY <2>1
  <2>3. \A n \in 0 .. Len(p) : h[n] = IF n = 0 THEN 0 ELSE g[n - 1] + p[n].w
    BY <1>1, <2>2 DEF Running
  <2>4. P(g)
    BY <2>3
  <2> QED BY <2>4
<1>3. P(end)
  BY <1>2
<1>4. Ends(p) = end
  BY DEF Ends
<1> HIDE DEF end
<1>5. Running(end, Len(p), p)
  BY <1>3 DEF Running
<1> QED BY <1>4, <1>5

\* A field ends where the one before it ends, and its width later.
LEMMA EndsFacts ==
    ASSUME NEW p \in Fields
    PROVE  /\ Len(p) \in Nat /\ Ends(p)[0] = 0 /\ \A i \in 0 .. Len(p) : Ends(p)[i] \in Nat
           /\ \A i \in 1 .. Len(p) : Ends(p)[i] = Ends(p)[i - 1] + p[i].w /\ p[i].w \in Nat \ {0} /\ p[i].v \in Int
<1>1. Len(p) \in Nat /\ \A i \in 1 .. Len(p) : p[i] \in [w : Nat \ {0}, v : Int]
  BY SeqFacts DEF Fields
<1>2. \A i \in 1 .. Len(p) : p[i].w \in Nat \ {0} /\ p[i].v \in Int
  BY <1>1
<1>3. Running(Ends(p), Len(p), p)
  BY <1>1, EndsRun
<1> DEFINE e == Ends(p)
<1> HIDE DEF e
<1>4. e[0] = 0 /\ \A i \in 1 .. Len(p) : e[i] = e[i - 1] + p[i].w
  <2>1. 0 \in 0 .. Len(p) /\ \A i \in 1 .. Len(p) : i \in 0 .. Len(p) /\ i # 0
    BY <1>1
  <2> QED BY <1>3, <2>1 DEF Running, e
<1> DEFINE Bad == {n \in Nat : n <= Len(p) /\ e[n] \notin Nat}
<1>5. Bad = {}
  <2> SUFFICES ASSUME Bad # {} PROVE FALSE
    OBVIOUS
  <2>1. PICK n \in Bad : \A k \in Bad : n <= k
    BY LeastOfSet
  <2>2. n \in Nat /\ n <= Len(p) /\ e[n] \notin Nat
    OBVIOUS
  <2>3. n # 0
    BY <1>4, <2>2
  <2>4. n - 1 \in Nat /\ n - 1 <= Len(p) /\ ~(n <= n - 1) /\ n \in 1 .. Len(p)
    BY <1>1, <2>2, <2>3
  <2>5. e[n - 1] \in Nat
    BY <2>1, <2>4
  <2> QED BY <1>2, <1>4, <2>2, <2>4, <2>5
<1>6. \A i \in 0 .. Len(p) : e[i] \in Nat
  <2> TAKE i \in 0 .. Len(p)
  <2>1. i \in Nat /\ i <= Len(p) /\ i \notin Bad
    BY <1>1, <1>5
  <2> QED BY <2>1
<1> QED BY <1>1, <1>2, <1>4, <1>6 DEF e

LEMMA SizeIs ==
    ASSUME NEW p \in Fields
    PROVE  Size(p) = Ends(p)[Len(p)] /\ Size(p) \in Nat
<1>1. Len(p) \in 0 .. Len(p)
  BY EndsFacts
<1> QED BY <1>1, EndsFacts DEF Size

\* No two fields lie at one offset.
LEMMA EndsGrow ==
    ASSUME NEW p \in Fields, NEW i \in 0 .. Len(p), NEW j \in 0 .. Len(p), i < j
    PROVE  Ends(p)[i] < Ends(p)[j]
<1> DEFINE e == Ends(p)
           Bad == {n \in Nat : i < n /\ n <= Len(p) /\ ~(e[i] < e[n])}
<1>1. /\ Len(p) \in Nat /\ \A k \in 0 .. Len(p) : e[k] \in Nat
      /\ \A k \in 1 .. Len(p) : e[k] = e[k - 1] + p[k].w /\ p[k].w \in Nat \ {0}
  BY EndsFacts
<1> HIDE DEF e
<1>2. Bad = {}
  <2> SUFFICES ASSUME Bad # {} PROVE FALSE
    OBVIOUS
  <2>1. PICK n \in Bad : \A k \in Bad : n <= k
    BY LeastOfSet
  <2>2. n \in Nat /\ i < n /\ n <= Len(p) /\ ~(e[i] < e[n])
    OBVIOUS
  <2>3. n \in 1 .. Len(p) /\ n - 1 \in 0 .. Len(p) /\ ~(n <= n - 1) /\ i <= n - 1
    BY <1>1, <2>2
  <2>4. CASE i = n - 1
    BY <1>1, <2>2, <2>3, <2>4
  <2>5. CASE i # n - 1
    <3>1. e[i] < e[n - 1]
      BY <2>1, <2>3, <2>5
    <3>2. e[n] = e[n - 1] + p[n].w /\ p[n].w \in Nat \ {0} /\ n \in 0 .. Len(p)
      BY <1>1, <2>3
    <3>3. e[i] \in Nat /\ e[n - 1] \in Nat
      BY <1>1, <2>3
    <3> QED BY <2>2, <3>1, <3>2, <3>3
  <2> QED BY <2>4, <2>5
<1>3. j \notin Bad
  BY <1>2
<1> QED BY <1>1, <1>3 DEF e

\* A field of width w and value v lies at off.
At(p, off, w, v) == \E i \in 1 .. Len(p) : off = Ends(p)[i - 1] /\ p[i].w = w /\ p[i].v = v

\* Who reads there gets that value.
LEMMA SliceReads ==
    ASSUME NEW p \in Fields, NEW off, NEW w, NEW v, At(p, off, w, v)
    PROVE  Slice(Layout(p), off, w) = v
<1>1. PICK i \in 1 .. Len(p) : off = Ends(p)[i - 1] /\ p[i].w = w /\ p[i].v = v
  BY DEF At
<1>2. Len(p) \in Nat /\ DOMAIN p = 1 .. Len(p) /\ w # 0
  BY <1>1, EndsFacts, SeqFacts DEF Fields
<1> DEFINE start == [k \in DOMAIN p |-> Ends(p)[k - 1]]
           O == {start[k] : k \in DOMAIN p}
           c == CHOOSE k \in DOMAIN p : start[k] = off
<1>3. i \in DOMAIN p /\ start[i] = off
  BY <1>1, <1>2
<1>4. off \in O
  BY <1>3
<1>5. c \in DOMAIN p /\ start[c] = off
  BY <1>3
<1>6. start[c] = Ends(p)[c - 1]
  BY <1>5
<1> HIDE DEF c
<1>7. c \in 1 .. Len(p) /\ Ends(p)[c - 1] = off /\ Ends(p)[i - 1] = off
  BY <1>1, <1>2, <1>5, <1>6
<1>8. i - 1 \in 0 .. Len(p) /\ c - 1 \in 0 .. Len(p)
  BY <1>1, <1>2, <1>7
<1>9. c = i
  <2>1. Ends(p)[i - 1] \in Nat
    BY <1>8, EndsFacts
  <2>2. ~(i - 1 < c - 1)
    <3> SUFFICES ASSUME i - 1 < c - 1 PROVE FALSE
      OBVIOUS
    <3>1. Ends(p)[i - 1] < Ends(p)[c - 1]
      BY <1>8, EndsGrow
    <3> QED BY <1>7, <2>1, <3>1
  <2>3. ~(c - 1 < i - 1)
    <3> SUFFICES ASSUME c - 1 < i - 1 PROVE FALSE
      OBVIOUS
    <3>1. Ends(p)[c - 1] < Ends(p)[i - 1]
      BY <1>8, EndsGrow
    <3> QED BY <1>7, <2>1, <3>1
  <2> QED BY <1>1, <1>2, <1>7, <2>2, <2>3
<1>10. Layout(p) = [o \in O |-> p[CHOOSE k \in DOMAIN p : start[k] = o]]
  BY DEF Layout
<1>11. off \in DOMAIN Layout(p) /\ Layout(p)[off] = p[c]
  <2> HIDE DEF start, O
  <2> QED BY <1>4, <1>10 DEF c
<1> QED BY <1>1, <1>2, <1>9, <1>11 DEF Slice

\* One part of a payload behind another.
LEMMA EndsConcat ==
    ASSUME NEW p \in Fields, NEW q \in Fields
    PROVE  /\ p \o q \in Fields /\ Size(p \o q) = Size(p) + Size(q) /\ Len(p \o q) = Len(p) + Len(q)
           /\ \A i \in 0 .. Len(p) : Ends(p \o q)[i] = Ends(p)[i]
           /\ \A i \in 0 .. Len(q) : Ends(p \o q)[Len(p) + i] = Size(p) + Ends(q)[i]
<1> DEFINE r == p \o q
<1>1. /\ r \in Fields /\ Len(r) = Len(p) + Len(q) /\ \A i \in 1 .. Len(p) : r[i] = p[i]
      /\ \A i \in 1 .. Len(q) : r[Len(p) + i] = q[i]
  BY ConcatFacts DEF Fields
<1> HIDE DEF r
<1> DEFINE e == Ends(r)
           f == Ends(p)
           g == Ends(q)
<1>2. /\ Len(p) \in Nat /\ f[0] = 0 /\ \A i \in 0 .. Len(p) : f[i] \in Nat
      /\ \A i \in 1 .. Len(p) : f[i] = f[i - 1] + p[i].w
  BY EndsFacts
<1>3. /\ Len(q) \in Nat /\ g[0] = 0 /\ \A i \in 0 .. Len(q) : g[i] \in Nat
      /\ \A i \in 1 .. Len(q) : g[i] = g[i - 1] + q[i].w /\ q[i].w \in Nat
  BY EndsFacts
<1>4. /\ Len(r) \in Nat /\ e[0] = 0 /\ \A i \in 0 .. Len(r) : e[i] \in Nat
      /\ \A i \in 1 .. Len(r) : e[i] = e[i - 1] + r[i].w
  BY <1>1, EndsFacts
<1> HIDE DEF e, f, g
<1> DEFINE Bad1 == {n \in Nat : n <= Len(p) /\ e[n] # f[n]}
           Bad2 == {n \in Nat : n <= Len(q) /\ e[Len(p) + n] # f[Len(p)] + g[n]}
<1>5. Bad1 = {}
  <2> SUFFICES ASSUME Bad1 # {} PROVE FALSE
    OBVIOUS
  <2>1. PICK n \in Bad1 : \A k \in Bad1 : n <= k
    BY LeastOfSet
  <2>2. n \in Nat /\ n <= Len(p) /\ e[n] # f[n]
    OBVIOUS
  <2>3. n # 0
    BY <1>2, <1>4, <2>2
  <2>4. n - 1 \in Nat /\ n - 1 <= Len(p) /\ ~(n <= n - 1) /\ n \in 1 .. Len(p) /\ n \in 1 .. Len(r)
    BY <1>1, <1>2, <1>3, <2>2, <2>3
  <2>5. e[n - 1] = f[n - 1]
    BY <2>1, <2>4
  <2> QED BY <1>1, <1>2, <1>4, <2>2, <2>4, <2>5
<1>6. \A i \in 0 .. Len(p) : e[i] = f[i]
  <2> TAKE i \in 0 .. Len(p)
  <2>1. i \in Nat /\ i <= Len(p) /\ i \notin Bad1
    BY <1>2, <1>5
  <2> QED BY <2>1
<1>7. Bad2 = {}
  <2> SUFFICES ASSUME Bad2 # {} PROVE FALSE
    OBVIOUS
  <2>1. PICK n \in Bad2 : \A k \in Bad2 : n <= k
    BY LeastOfSet
  <2>2. n \in Nat /\ n <= Len(q) /\ e[Len(p) + n] # f[Len(p)] + g[n]
    OBVIOUS
  <2> HIDE DEF Bad1
  <2>3. Len(p) \in 0 .. Len(p) /\ f[Len(p)] \in Nat
    BY <1>2
  <2>4. n # 0
    <3>1. e[Len(p)] = f[Len(p)]
      BY <1>6, <2>3
    <3> QED BY <1>2, <1>3, <2>2, <2>3, <3>1
  <2>5. /\ n - 1 \in Nat /\ n - 1 <= Len(q) /\ ~(n <= n - 1) /\ n \in 1 .. Len(q) /\ Len(p) + n \in 1 .. Len(r)
        /\ Len(p) + n - 1 = Len(p) + (n - 1) /\ n - 1 \in 0 .. Len(q)
    BY <1>1, <1>2, <1>3, <2>2, <2>4
  <2>6. e[Len(p) + (n - 1)] = f[Len(p)] + g[n - 1]
    BY <2>1, <2>5
  <2>7. e[Len(p) + n] = e[Len(p) + (n - 1)] + q[n].w
    BY <1>1, <1>4, <2>5
  <2>8. g[n] = g[n - 1] + q[n].w /\ g[n - 1] \in Nat /\ q[n].w \in Nat
    BY <1>3, <2>5
  <2> HIDE DEF Bad2
  <2> QED BY <2>2, <2>3, <2>6, <2>7, <2>8
<1>8. \A i \in 0 .. Len(q) : e[Len(p) + i] = f[Len(p)] + g[i]
  <2> TAKE i \in 0 .. Len(q)
  <2>1. i \in Nat /\ i <= Len(q)
    BY <1>3
  <2>2. i \notin Bad2
    BY <1>7, Zenon
  <2> HIDE DEF Bad1
  <2> QED BY <2>1, <2>2
<1>9. e[Len(r)] = f[Len(p)] + g[Len(q)]
  BY <1>1, <1>3, <1>8
<1> QED BY <1>1, <1>6, <1>8, <1>9 DEF e, f, g, r, Size

\* A field keeps its place if something follows, ...
LEMMA AtLeft ==
    ASSUME NEW p \in Fields, NEW q \in Fields, NEW off, NEW w, NEW v, At(p, off, w, v)
    PROVE  At(p \o q, off, w, v)
<1>1. PICK i \in 1 .. Len(p) : off = Ends(p)[i - 1] /\ p[i].w = w /\ p[i].v = v
  BY DEF At
<1>2. Len(p) \in Nat /\ Len(q) \in Nat
  BY EndsFacts
<1>3. i - 1 \in 0 .. Len(p) /\ i \in 1 .. Len(p) + Len(q)
  BY <1>2
<1>4. Ends(p \o q)[i - 1] = Ends(p)[i - 1] /\ Len(p \o q) = Len(p) + Len(q)
  BY <1>3, EndsConcat
<1>5. (p \o q)[i] = p[i]
  BY ConcatFacts DEF Fields
<1> QED BY <1>1, <1>3, <1>4, <1>5 DEF At

\* ... and moves by the size of what is put in front.
LEMMA AtRight ==
    ASSUME NEW p \in Fields, NEW q \in Fields, NEW off, NEW w, NEW v, At(q, off, w, v)
    PROVE  At(p \o q, Size(p) + off, w, v)
<1>1. PICK i \in 1 .. Len(q) : off = Ends(q)[i - 1] /\ q[i].w = w /\ q[i].v = v
  BY DEF At
<1>2. Len(p) \in Nat /\ Len(q) \in Nat
  BY EndsFacts
<1>3. i - 1 \in 0 .. Len(q) /\ Len(p) + i \in 1 .. Len(p) + Len(q) /\ Len(p) + i - 1 = Len(p) + (i - 1)
  BY <1>2
<1>4. Ends(p \o q)[Len(p) + (i - 1)] = Size(p) + Ends(q)[i - 1] /\ Len(p \o q) = Len(p) + Len(q)
  BY <1>3, EndsConcat
<1>5. (p \o q)[Len(p) + i] = q[i]
  BY ConcatFacts DEF Fields
<1> QED BY <1>1, <1>3, <1>4, <1>5 DEF At

------------------------------------------------------------------------------
(* The parts that payloads are made of                                       *)

LEMMA Pad8Facts == ASSUME NEW n \in Nat PROVE Pad8(n) \in Nat /\ n <= Pad8(n) /\ Pad8(n) - n \in Nat
<1>1. n <= Pad8(n)
  BY SMT DEF Pad8
<1>2. Pad8(n) \in Int
  BY SMT DEF Pad8
<1> QED BY <1>1, <1>2

LEMMA NoFields == <<>> \in Fields /\ Size(<<>>) = 0
<1>1. <<>> \in Fields /\ Len(<<>>) = 0
  BY DEF Fields
<1> QED BY <1>1, SizeIs, EndsFacts

LEMMA RawFacts ==
    ASSUME NEW width \in Nat, NEW value \in Int
    PROVE  /\ Raw(width, value) \in Fields /\ Size(Raw(width, value)) = width
           /\ width # 0 => At(Raw(width, value), 0, width, value)
<1>1. CASE width = 0
  BY <1>1, NoFields DEF Raw
<1>2. CASE width # 0
  <2> DEFINE p == <<[w |-> width, v |-> value]>>
  <2>1. p \in Fields /\ Len(p) = 1 /\ p[1].w = width /\ p[1].v = value
    BY <1>2 DEF Fields
  <2>2. Raw(width, value) = p
    BY <1>2 DEF Raw
  <2> HIDE DEF p
  <2>3. Ends(p)[0] = 0 /\ Ends(p)[1] = Ends(p)[0] + p[1].w
    BY <2>1, EndsFacts
  <2>4. At(p, 0, width, value)
    BY <2>1, <2>3 DEF At
  <2>5. Size(p) = Ends(p)[Len(p)]
    BY <2>1, SizeIs, Zenon
  <2> QED BY <2>1, <2>2, <2>3, <2>4, <2>5
<1> QED BY <1>1, <1>2

\* p is made of n fields of these widths and values.
Packed(p, n, widths, values) ==
    /\ p \in Fields /\ Size(p) = Ends(p)[n] /\ Ends(p)[0] = 0
    /\ \A i \in 1 .. n : Ends(p)[i] = Ends(p)[i - 1] + widths[i] /\ At(p, Ends(p)[i - 1], widths[i], values[i])

LEMMA PackFacts ==
    ASSUME NEW n \in Nat, NEW widths, NEW values, DOMAIN widths = 1 .. n,
           \A i \in 1 .. n : widths[i] \in Nat \ {0} /\ values[i] \in Int
    PROVE  Packed(Pack(widths, values), n, widths, values)
<1> DEFINE p == Pack(widths, values)
           F == [w : Nat \ {0}, v : Int]
<1>1. p = [i \in 1 .. n |-> [w |-> widths[i], v |-> values[i]]]
  BY DEF Pack
<1>2. \A i \in 1 .. n : p[i].w = widths[i] /\ p[i].v = values[i] /\ p[i] \in F
  BY <1>1
<1>3. p = [i \in 1 .. n |-> p[i]]
  BY <1>1
<1> HIDE DEF p, F
<1>4. p \in Seq(F) /\ Len(p) = n
  BY <1>2, <1>3, FunctionIsSeq
<1>5. p \in Fields
  BY <1>4 DEF Fields, F
<1>6. Ends(p)[0] = 0 /\ \A i \in 1 .. n : Ends(p)[i] = Ends(p)[i - 1] + widths[i]
  BY <1>2, <1>4, <1>5, EndsFacts
<1>7. \A i \in 1 .. n : At(p, Ends(p)[i - 1], widths[i], values[i])
  BY <1>2, <1>4 DEF At
<1>8. Size(p) = Ends(p)[Len(p)]
  BY <1>5, SizeIs, Zenon
<1> QED BY <1>4, <1>5, <1>6, <1>7, <1>8 DEF Packed, p

\* The fixed part of a table and of the end of a module entry, ...
LEMMA PairFacts ==
    ASSUME NEW a \in Int, NEW b \in Int
    PROVE  LET p == Pack(<<4, 4>>, <<a, b>>) IN p \in Fields /\ Size(p) = 8 /\ At(p, 0, 4, a)
<1> DEFINE u == <<4, 4>>
           x == <<a, b>>
           p == Pack(u, x)
<1>1. DOMAIN u = 1 .. 2 /\ u[1] = 4 /\ u[2] = 4
  OBVIOUS
<1>2. x[1] = a /\ x[2] = b
  OBVIOUS
<1> HIDE DEF u, x
<1>3. \A i \in 1 .. 2 : u[i] \in Nat \ {0} /\ x[i] \in Int
  <2>1. \A i \in 1 .. 2 : i = 1 \/ i = 2
    OBVIOUS
  <2> QED BY <1>1, <1>2, <2>1
<1>4. Packed(p, 2, u, x)
  BY <1>1, <1>3, PackFacts
<1> HIDE DEF p
<1>5. Ends(p)[0] = 0 /\ Ends(p)[1] = Ends(p)[0] + 4 /\ Ends(p)[2] = Ends(p)[1] + 4
  BY <1>1, <1>4 DEF Packed
<1>6. Size(p) = 8
  BY <1>4, <1>5 DEF Packed
<1>7. At(p, Ends(p)[0], 4, a)
  BY <1>1, <1>2, <1>4 DEF Packed
<1> QED BY <1>4, <1>5, <1>6, <1>7 DEF Packed, p, u, x

\* ... of a build id, ...
LEMMA BlobHeadFacts ==
    ASSUME NEW a \in Int, NEW b \in Int, NEW c \in Int, NEW d \in Int
    PROVE  LET p == Pack(<<1, 1, 1, 1>>, <<a, b, c, d>>) IN p \in Fields /\ Size(p) = 4
<1> DEFINE u == <<1, 1, 1, 1>>
           x == <<a, b, c, d>>
           p == Pack(u, x)
<1>1. DOMAIN u = 1 .. 4 /\ \A i \in 1 .. 4 : u[i] = 1
  OBVIOUS
<1>2. x[1] = a /\ x[2] = b /\ x[3] = c /\ x[4] = d
  OBVIOUS
<1> HIDE DEF u, x
<1>3. \A i \in 1 .. 4 : u[i] \in Nat \ {0} /\ x[i] \in Int
  <2>1. \A i \in 1 .. 4 : i = 1 \/ i = 2 \/ i = 3 \/ i = 4
    OBVIOUS
  <2> QED BY <1>1, <1>2, <2>1
<1>4. Packed(p, 4, u, x)
  BY <1>1, <1>3, PackFacts
<1> HIDE DEF p
<1>5. Ends(p)[0] = 0 /\ Ends(p)[1] = Ends(p)[0] + 1 /\ Ends(p)[2] = Ends(p)[1] + 1 /\ Ends(p)[3] = Ends(p)[2] + 1 /\ Ends(p)[4] = Ends(p)[3] + 1
  BY <1>1, <1>4 DEF Packed
<1>6. Size(p) = 4
  BY <1>4, <1>5 DEF Packed
<1> QED BY <1>4, <1>6 DEF Packed, p, u, x

\* ... of a module entry, ...
LEMMA ModuleHeadFacts ==
    ASSUME NEW a \in Int, NEW b \in Int, NEW c \in Int, NEW d \in Int, NEW e \in Int
    PROVE  LET p == Pack(<<8, 8, 2, 2, 4>>, <<a, b, c, d, e>>) IN
           p \in Fields /\ Size(p) = 24 /\ At(p, 0, 8, a) /\ At(p, 16, 2, c) /\ At(p, 18, 2, d)
<1> DEFINE u == <<8, 8, 2, 2, 4>>
           x == <<a, b, c, d, e>>
           p == Pack(u, x)
<1>1. DOMAIN u = 1 .. 5 /\ u[1] = 8 /\ u[2] = 8 /\ u[3] = 2 /\ u[4] = 2 /\ u[5] = 4
  OBVIOUS
<1>2. x[1] = a /\ x[2] = b /\ x[3] = c /\ x[4] = d /\ x[5] = e
  OBVIOUS
<1> HIDE DEF u, x
<1>3. \A i \in 1 .. 5 : u[i] \in Nat \ {0} /\ x[i] \in Int
  <2>1. \A i \in 1 .. 5 : i = 1 \/ i = 2 \/ i = 3 \/ i = 4 \/ i = 5
    OBVIOUS
  <2> QED BY <1>1, <1>2, <2>1
<1>4. Packed(p, 5, u, x)
  BY <1>1, <1>3, PackFacts
<1> HIDE DEF p
<1>5. /\ Ends(p)[0] = 0 /\ Ends(p)[1] = Ends(p)[0] + 8 /\ Ends(p)[2] = Ends(p)[1] + 8 /\ Ends(p)[3] = Ends(p)[2] + 2
      /\ Ends(p)[4] = Ends(p)[3] + 2 /\ Ends(p)[5] = Ends(p)[4] + 4
  BY <1>1, <1>4 DEF Packed
<1>6. Size(p) = 24
  BY <1>4, <1>5 DEF Packed
<1>7. At(p, Ends(p)[0], 8, a) /\ At(p, Ends(p)[2], 2, c) /\ At(p, Ends(p)[3], 2, d)
  BY <1>1, <1>2, <1>4 DEF Packed
<1>8. Ends(p)[2] = 16 /\ Ends(p)[3] = 18
  BY <1>4, <1>5 DEF Packed
<1> QED BY <1>4, <1>6, <1>7, <1>8 DEF Packed, p, u, x

\* ... of a row of a manifest, ...
LEMMA RowHeadFacts ==
    ASSUME NEW a \in Int, NEW b \in Int, NEW c \in Int, NEW d \in Int, NEW e \in Int
    PROVE  LET p == Pack(<<8, 1, 1, 1, 1>>, <<a, b, c, d, e>>) IN
           p \in Fields /\ Size(p) = 12 /\ At(p, 0, 8, a) /\ At(p, 8, 1, b)
<1> DEFINE u == <<8, 1, 1, 1, 1>>
           x == <<a, b, c, d, e>>
           p == Pack(u, x)
<1>1. DOMAIN u = 1 .. 5 /\ u[1] = 8 /\ u[2] = 1 /\ u[3] = 1 /\ u[4] = 1 /\ u[5] = 1
  OBVIOUS
<1>2. x[1] = a /\ x[2] = b /\ x[3] = c /\ x[4] = d /\ x[5] = e
  OBVIOUS
<1> HIDE DEF u, x
<1>3. \A i \in 1 .. 5 : u[i] \in Nat \ {0} /\ x[i] \in Int
  <2>1. \A i \in 1 .. 5 : i = 1 \/ i = 2 \/ i = 3 \/ i = 4 \/ i = 5
    OBVIOUS
  <2> QED BY <1>1, <1>2, <2>1
<1>4. Packed(p, 5, u, x)
  BY <1>1, <1>3, PackFacts
<1> HIDE DEF p
<1>5. /\ Ends(p)[0] = 0 /\ Ends(p)[1] = Ends(p)[0] + 8 /\ Ends(p)[2] = Ends(p)[1] + 1 /\ Ends(p)[3] = Ends(p)[2] + 1
      /\ Ends(p)[4] = Ends(p)[3] + 1 /\ Ends(p)[5] = Ends(p)[4] + 1
  BY <1>1, <1>4 DEF Packed
<1>6. Size(p) = 12
  BY <1>4, <1>5 DEF Packed
<1>7. At(p, Ends(p)[0], 8, a) /\ At(p, Ends(p)[1], 1, b)
  BY <1>1, <1>2, <1>4 DEF Packed
<1>8. Ends(p)[1] = 8
  BY <1>4, <1>5 DEF Packed
<1> QED BY <1>4, <1>6, <1>7, <1>8 DEF Packed, p, u, x

\* ... and of a region.
LEMMA RegionHeadFacts ==
    ASSUME NEW a \in Int, NEW b \in Int, NEW c \in Int, NEW d \in Int, NEW e \in Int, NEW f \in Int, NEW g \in Int
    PROVE  LET p == Pack(<<8, 8, 1, 1, 1, 5, 8>>, <<a, b, c, d, e, f, g>>) IN
           p \in Fields /\ Size(p) = 32 /\ At(p, 0, 8, a) /\ At(p, 8, 8, b) /\ At(p, 18, 1, e)
<1> DEFINE u == <<8, 8, 1, 1, 1, 5, 8>>
           x == <<a, b, c, d, e, f, g>>
           p == Pack(u, x)
<1>1. DOMAIN u = 1 .. 7 /\ u[1] = 8 /\ u[2] = 8 /\ u[3] = 1 /\ u[4] = 1 /\ u[5] = 1 /\ u[6] = 5 /\ u[7] = 8
  OBVIOUS
<1>2. x[1] = a /\ x[2] = b /\ x[3] = c /\ x[4] = d /\ x[5] = e /\ x[6] = f /\ x[7] = g
  OBVIOUS
<1> HIDE DEF u, x
<1>3. \A i \in 1 .. 7 : u[i] \in Nat \ {0} /\ x[i] \in Int
  <2>1. \A i \in 1 .. 7 : i = 1 \/ i = 2 \/ i = 3 \/ i = 4 \/ i = 5 \/ i = 6 \/ i = 7
    OBVIOUS
  <2> QED BY <1>1, <1>2, <2>1
<1>4. Packed(p, 7, u, x)
  BY <1>1, <1>3, PackFacts
<1> HIDE DEF p
<1>5. /\ Ends(p)[0] = 0 /\ Ends(p)[1] = Ends(p)[0] + 8 /\ Ends(p)[2] = Ends(p)[1] + 8 /\ Ends(p)[3] = Ends(p)[2] + 1
      /\ Ends(p)[4] = Ends(p)[3] + 1 /\ Ends(p)[5] = Ends(p)[4] + 1 /\ Ends(p)[6] = Ends(p)[5] + 5
      /\ Ends(p)[7] = Ends(p)[6] + 8
  BY <1>1, <1>4 DEF Packed
<1>6. Size(p) = 32
  BY <1>4, <1>5 DEF Packed
<1>7. At(p, Ends(p)[0], 8, a) /\ At(p, Ends(p)[1], 8, b) /\ At(p, Ends(p)[4], 1, e)
  BY <1>1, <1>2, <1>4 DEF Packed
<1>8. Ends(p)[1] = 8 /\ Ends(p)[4] = 18
  BY <1>4, <1>5 DEF Packed
<1> QED BY <1>4, <1>6, <1>7, <1>8 DEF Packed, p, u, x

LEMMA StringsAre ==
    ASSUME NEW s \in Strings
    PROVE  s \in Nat /\ Bytes[s] \in Nat /\ (Bytes[s] = 0 <=> s = 0) /\ RawLen(s) \in Nat /\ OptLen(s) \in Nat
<1>1. s \in Nat /\ Bytes[s] \in Nat /\ (Bytes[s] = 0 <=> s = 0)
  BY FormatAssumption
<1> QED BY <1>1 DEF RawLen, OptLen

LEMMA StringFacts ==
    ASSUME NEW s \in Strings
    PROVE  /\ Str(s) \in Fields /\ Size(Str(s)) = Pad8(RawLen(s))
           /\ OptStr(s) \in Fields /\ Size(OptStr(s)) = Pad8(OptLen(s))
<1>1. s \in Int /\ Pad8(RawLen(s)) \in Nat /\ Pad8(OptLen(s)) \in Nat
  BY StringsAre, Pad8Facts
<1> QED BY <1>1, RawFacts DEF Str, OptStr

\* The padding of a payload moves nothing.
LEMMA PaddedAt ==
    ASSUME NEW p \in Fields
    PROVE  PadPayload(p) \in Fields /\ \A off, w, v : At(p, off, w, v) => At(PadPayload(p), off, w, v)
<1>1. Size(p) \in Nat
  BY SizeIs, Zenon
<1>2. Pad8(Size(p)) - Size(p) \in Nat
  BY <1>1, Pad8Facts, Zenon
<1>3. Raw(Pad8(Size(p)) - Size(p), 0) \in Fields
  BY <1>2, RawFacts
<1> QED BY <1>3, EndsConcat, AtLeft DEF PadPayload

LEMMA BlockReads ==
    ASSUME NEW p \in Fields, NEW type, NEW off, NEW w, NEW v, At(p, off, w, v)
    PROVE  Slice(Block(type, p).payload, off, w) = v
<1>1. Block(type, p).payload = Layout(PadPayload(p))
  BY DEF Block
<1>2. PadPayload(p) \in Fields /\ At(PadPayload(p), off, w, v)
  BY PaddedAt
<1> QED BY <1>1, <1>2, SliceReads

------------------------------------------------------------------------------
(* Blocks as their readers see them                                          *)

BuildIds == {s \in Strings : Bytes[s] <= 255}
Entries == [base : Int, size : Int, path : Strings, version : Strings, hash : Int,
            blob : {<<>>} \cup {<<b>> : b \in [id : BuildIds, source : Int, flags : Int]}]

LEMMA BlobFacts ==
    ASSUME NEW b \in [id : BuildIds, source : Int, flags : Int]
    PROVE  NativeBlob(b) \in Fields /\ Size(NativeBlob(b)) \in Nat \ {0}
<1>1. b.id \in Strings /\ b.source \in Int /\ b.flags \in Int
  BY DEF BuildIds
<1> DEFINE n == Bytes[b.id]
           p == Pack(<<1, 1, 1, 1>>, <<n, b.source, b.flags, 0>>)
           q == Raw(n, b.id)
<1>2. n \in Nat /\ n \in Int /\ b.id \in Int
  BY <1>1, StringsAre
<1> HIDE DEF n
<1>3. p \in Fields /\ Size(p) = 4
  BY <1>1, <1>2, BlobHeadFacts
<1>4. q \in Fields /\ Size(q) = n
  BY <1>2, RawFacts
<1>5. NativeBlob(b) = p \o q
  BY DEF NativeBlob, n
<1> HIDE DEF p, q
<1>6. p \o q \in Fields /\ Size(p \o q) = Size(p) + Size(q)
  BY <1>3, <1>4, EndsConcat
<1> QED BY <1>2, <1>3, <1>4, <1>5, <1>6

\* The offsets at which a module entry is read, ...
LEMMA EntryAt ==
    ASSUME NEW m \in Entries
    PROVE  LET p == ModuleEntry(m)
               version == 24 + Pad8(RawLen(m.path))
               hash == version + Pad8(OptLen(m.version))
           IN /\ p \in Fields /\ At(p, 0, 8, m.base)
              /\ At(p, 16, 2, RawLen(m.path)) /\ At(p, 18, 2, OptLen(m.version))
              /\ \E n \in Nat : At(p, hash + 32, 4, n) /\ (n = 0 <=> m.blob = <<>>)
<1> DEFINE blob == IF m.blob = <<>> THEN <<>> ELSE NativeBlob(m.blob[1])
           p1 == Pack(<<8, 8, 2, 2, 4>>, <<m.base, m.size, RawLen(m.path), OptLen(m.version), 0>>)
           p2 == Str(m.path)
           p3 == OptStr(m.version)
           p4 == Raw(32, m.hash)
           p5 == Pack(<<4, 4>>, <<Size(blob), 0>>)
           r2 == p1 \o p2
           r3 == r2 \o p3
           r4 == r3 \o p4
           r5 == r4 \o p5
           r6 == r5 \o blob
           path == Pad8(RawLen(m.path))
           version == Pad8(OptLen(m.version))
<1>1. /\ m.base \in Int /\ m.size \in Int /\ m.path \in Strings /\ m.version \in Strings /\ m.hash \in Int
      /\ m.blob = <<>> \/ \E b \in [id : BuildIds, source : Int, flags : Int] : m.blob = <<b>>
  BY DEF Entries
<1>2. /\ RawLen(m.path) \in Int /\ OptLen(m.version) \in Int /\ path \in Nat /\ version \in Nat
  <2>1. RawLen(m.path) \in Nat /\ OptLen(m.version) \in Nat
    BY <1>1, StringsAre
  <2> QED BY <2>1, Pad8Facts
<1>3. ModuleEntry(m) = r6
  BY DEF ModuleEntry
<1>4. blob \in Fields /\ Size(blob) \in Nat /\ (Size(blob) = 0 <=> m.blob = <<>>)
  <2>1. CASE m.blob = <<>>
    BY <2>1, NoFields
  <2>2. CASE m.blob # <<>>
    <3>1. PICK b \in [id : BuildIds, source : Int, flags : Int] : m.blob = <<b>>
      BY <1>1, <2>2
    <3>2. m.blob[1] = b
      BY <3>1
    <3>3. blob = NativeBlob(b)
      BY <2>2, <3>2
    <3> HIDE DEF blob
    <3> QED BY <2>2, <3>3, BlobFacts
  <2> QED BY <2>1, <2>2
<1> HIDE DEF blob
<1>5. /\ p1 \in Fields /\ Size(p1) = 24 /\ At(p1, 0, 8, m.base) /\ At(p1, 16, 2, RawLen(m.path))
      /\ At(p1, 18, 2, OptLen(m.version))
  <2> DEFINE a == m.base
             b == m.size
             c == RawLen(m.path)
             d == OptLen(m.version)
  <2>1. a \in Int /\ b \in Int /\ c \in Int /\ d \in Int /\ 0 \in Int
    BY <1>1, <1>2
  <2>2. p1 = Pack(<<8, 8, 2, 2, 4>>, <<a, b, c, d, 0>>)
    OBVIOUS
  <2> HIDE DEF p1, a, b, c, d
  <2>3. p1 \in Fields /\ Size(p1) = 24 /\ At(p1, 0, 8, a) /\ At(p1, 16, 2, c) /\ At(p1, 18, 2, d)
    BY <2>1, <2>2, ModuleHeadFacts
  <2> QED BY <2>3 DEF a, c, d
<1>6. p2 \in Fields /\ Size(p2) = path /\ p3 \in Fields /\ Size(p3) = version
  BY <1>1, StringFacts
<1>7. p4 \in Fields /\ Size(p4) = 32
  BY <1>1, RawFacts
<1>8. p5 \in Fields /\ At(p5, 0, 4, Size(blob))
  BY <1>4, PairFacts
<1> HIDE DEF p1, p2, p3, p4, p5
<1>9. r2 \in Fields /\ Size(r2) = 24 + path
  <2>1. r2 \in Fields /\ Size(r2) = Size(p1) + Size(p2)
    BY <1>5, <1>6, EndsConcat
  <2> QED BY <1>5, <1>6, <2>1
<1>10. At(r2, 0, 8, m.base) /\ At(r2, 16, 2, RawLen(m.path)) /\ At(r2, 18, 2, OptLen(m.version))
  BY <1>5, <1>6, AtLeft
<1> HIDE DEF r2
<1>11. r3 \in Fields /\ Size(r3) = 24 + path + version
  <2>1. r3 \in Fields /\ Size(r3) = Size(r2) + Size(p3)
    BY <1>6, <1>9, EndsConcat
  <2> QED BY <1>6, <1>9, <2>1
<1>12. At(r3, 0, 8, m.base) /\ At(r3, 16, 2, RawLen(m.path)) /\ At(r3, 18, 2, OptLen(m.version))
  BY <1>6, <1>9, <1>10, AtLeft
<1> HIDE DEF r3
<1>13. r4 \in Fields /\ Size(r4) = 24 + path + version + 32
  <2>1. r4 \in Fields /\ Size(r4) = Size(r3) + Size(p4)
    BY <1>7, <1>11, EndsConcat
  <2> QED BY <1>7, <1>11, <2>1
<1>14. At(r4, 0, 8, m.base) /\ At(r4, 16, 2, RawLen(m.path)) /\ At(r4, 18, 2, OptLen(m.version))
  BY <1>7, <1>11, <1>12, AtLeft
<1> HIDE DEF r4
<1>15. r5 \in Fields /\ At(r5, 0, 8, m.base) /\ At(r5, 16, 2, RawLen(m.path)) /\ At(r5, 18, 2, OptLen(m.version))
  BY <1>8, <1>13, <1>14, AtLeft, EndsConcat
<1>16. At(r5, 24 + path + version + 32, 4, Size(blob))
  <2>1. At(r5, Size(r4) + 0, 4, Size(blob))
    BY <1>8, <1>13, AtRight
  <2>2. Size(r4) + 0 = 24 + path + version + 32
    BY <1>2, <1>13
  <2> QED BY <2>1, <2>2
<1> HIDE DEF r5
<1>17. /\ r6 \in Fields /\ At(r6, 0, 8, m.base) /\ At(r6, 16, 2, RawLen(m.path)) /\ At(r6, 18, 2, OptLen(m.version))
       /\ At(r6, 24 + path + version + 32, 4, Size(blob))
  BY <1>4, <1>15, <1>16, AtLeft, EndsConcat
<1> HIDE DEF r6
<1> QED BY <1>3, <1>4, <1>17

\* ... and what the enrich tool reads: it skips what has a build id, and only that.
LEMMA ReadBack ==
    ASSUME NEW m \in Entries
    PROVE  LET e == ReadModule(Block("ModuleEntry", ModuleEntry(m)).payload)
           IN e.base = m.base /\ (e.blob = <<>> <=> m.blob = <<>>)
<1> DEFINE q == ModuleEntry(m)
           p == Block("ModuleEntry", q).payload
           version == 24 + Pad8(RawLen(m.path))
           hash == version + Pad8(OptLen(m.version))
<1>1. /\ q \in Fields /\ At(q, 0, 8, m.base) /\ At(q, 16, 2, RawLen(m.path)) /\ At(q, 18, 2, OptLen(m.version))
      /\ \E n \in Nat : At(q, hash + 32, 4, n) /\ (n = 0 <=> m.blob = <<>>)
  BY EntryAt
<1> HIDE DEF q
<1>2. PICK n \in Nat : At(q, hash + 32, 4, n) /\ (n = 0 <=> m.blob = <<>>)
  BY <1>1
<1>3. /\ Slice(p, 0, 8) = m.base /\ Slice(p, 16, 2) = RawLen(m.path) /\ Slice(p, 18, 2) = OptLen(m.version)
      /\ Slice(p, hash + 32, 4) = n
  <2> HIDE DEF hash
  <2> QED BY <1>1, <1>2, BlockReads
<1> HIDE DEF p
<1> DEFINE e == ReadModule(p)
<1>4. e.base = Slice(p, 0, 8)
  BY DEF ReadModule
<1>5. e.blob = IF Slice(p, hash + 32, 4) = 0 THEN <<>> ELSE <<BlobFields(p, hash + 40)>>
  BY <1>3 DEF ReadModule
<1>6. \A x : <<x>> # <<>>
  OBVIOUS
<1> HIDE DEF e, hash
<1>7. e.base = m.base /\ (e.blob = <<>> <=> m.blob = <<>>)
  BY <1>2, <1>3, <1>4, <1>5, <1>6
<1> QED BY <1>7 DEF e, p, q

\* Rows of 64 bytes one behind the other.
LEMMA FlatAt ==
    ASSUME NEW rs \in Seq(Fields), \A i \in 1 .. Len(rs) : Size(rs[i]) = 64
    PROVE  /\ FlattenSeq(rs) \in Fields
           /\ \A i \in 1 .. Len(rs), off \in Nat : \A w, v :
                 At(rs[i], off, w, v) => At(FlattenSeq(rs), 64 * (i - 1) + off, w, v)
<1> DEFINE F == [w : Nat \ {0}, v : Int]
<1>1. rs \in Seq(Seq(F)) /\ Fields = Seq(F)
  BY DEF Fields
<1> HIDE DEF F
<1>2. PICK f : Stages(f, rs, F) /\ FlattenSeq(rs) = f[Len(rs)]
  BY <1>1, FlattenStages
<1>3. /\ Len(rs) \in Nat /\ f[0] = <<>> /\ \A n \in 0 .. Len(rs) : f[n] \in Fields
      /\ \A n \in 1 .. Len(rs) : f[n] = f[n - 1] \o rs[n] /\ rs[n] \in Fields
  <2>1. Len(rs) \in Nat /\ \A n \in 1 .. Len(rs) : rs[n] \in Fields
    BY SeqFacts
  <2> QED BY <1>1, <1>2, <2>1 DEF Stages
<1> DEFINE Good(n) ==
             /\ Size(f[n]) = 64 * n
             /\ \A i \in 1 .. n, off \in Nat : \A w, v : At(rs[i], off, w, v) => At(f[n], 64 * (i - 1) + off, w, v)
           Bad == {n \in Nat : n <= Len(rs) /\ ~Good(n)}
<1>4. Bad = {}
  <2> SUFFICES ASSUME Bad # {} PROVE FALSE
    OBVIOUS
  <2>1. PICK n \in Bad : \A k \in Bad : n <= k
    BY LeastOfSet
  <2>2. n \in Nat /\ n <= Len(rs) /\ ~Good(n)
    OBVIOUS
  <2>3. CASE n = 0
    <3>1. Size(f[0]) = 64 * 0
      BY <1>3, NoFields
    <3>2. 1 .. 0 = {}
      OBVIOUS
    <3>3. Good(0)
      BY <3>1, <3>2
    <3> QED BY <2>2, <2>3, <3>3
  <2>4. CASE n # 0
    <3>1. /\ n - 1 \in Nat /\ n - 1 <= Len(rs) /\ ~(n <= n - 1) /\ n \in 1 .. Len(rs)
          /\ n - 1 \in 0 .. Len(rs) /\ n \in 0 .. Len(rs)
      BY <1>3, <2>2, <2>4
    <3>2. Good(n - 1)
      BY <2>1, <3>1
    <3> DEFINE g == f[n - 1]
               r == rs[n]
    <3>3. g \in Fields /\ r \in Fields /\ f[n] = g \o r /\ Size(g) = 64 * (n - 1) /\ Size(r) = 64
      BY <1>3, <3>1, <3>2
    <3>4. \A i \in 1 .. n - 1, off \in Nat : \A w, v : At(rs[i], off, w, v) => At(g, 64 * (i - 1) + off, w, v)
      BY <3>2
    <3> HIDE DEF g, Good, Bad
    <3>5. Size(f[n]) = 64 * n
      <4>1. Size(g \o r) = Size(g) + Size(r)
        BY <3>3, EndsConcat, Zenon
      <4> QED BY <2>2, <3>3, <4>1
    <3>6. \A i \in 1 .. n, off \in Nat : \A w, v : At(rs[i], off, w, v) => At(f[n], 64 * (i - 1) + off, w, v)
      <4> SUFFICES ASSUME NEW i \in 1 .. n, NEW off \in Nat, NEW w, NEW v, At(rs[i], off, w, v)
                   PROVE  At(f[n], 64 * (i - 1) + off, w, v)
        OBVIOUS
      <4>1. CASE i = n
        <5>1. At(g \o r, Size(g) + off, w, v)
          BY <3>3, <4>1, AtRight
        <5> QED BY <3>3, <4>1, <5>1
      <4>2. CASE i # n
        <5>1. i \in 1 .. n - 1
          BY <2>2, <4>2
        <5>2. At(g, 64 * (i - 1) + off, w, v)
          BY <3>4, <5>1
        <5> DEFINE o == 64 * (i - 1) + off
        <5>3. At(g, o, w, v)
          BY <5>2
        <5> HIDE DEF o
        <5>4. At(g \o r, o, w, v)
          BY <3>3, <5>3, AtLeft
        <5> QED BY <3>3, <5>4 DEF o
      <4> QED BY <4>1, <4>2
    <3> QED BY <2>2, <3>5, <3>6 DEF Good
  <2> QED BY <2>3, <2>4
<1>5. Len(rs) \notin Bad
  <2> HIDE DEF Bad
  <2> QED BY <1>4
<1>6. Good(Len(rs))
  <2> HIDE DEF Good
  <2> QED BY <1>3, <1>5
<1>7. FlattenSeq(rs) \in Fields
  <2>1. Len(rs) \in 0 .. Len(rs)
    BY <1>3
  <2> QED BY <1>2, <1>3, <2>1
<1> DEFINE g == f[Len(rs)]
<1>8. \A i \in 1 .. Len(rs), off \in Nat : \A w, v : At(rs[i], off, w, v) => At(g, 64 * (i - 1) + off, w, v)
  BY <1>6
<1>9. FlattenSeq(rs) = g
  BY <1>2
<1> HIDE DEF g, Good, Bad
<1> QED BY <1>7, <1>8, <1>9

\* What the rows of a manifest are made of.
ManifestEntries == {q \in [base : Int, len : Nat, hash : Int, id : Strings, source : Int, flags : Int] :
                        q.len = Bytes[q.id] /\ q.id # 0 /\ Bytes[q.id] <= 20}

LEMMA ManifestRowAt ==
    ASSUME NEW q \in ManifestEntries
    PROVE  LET r == ManifestRow(q)
           IN /\ r \in Fields /\ Size(r) = 64 /\ At(r, 0, 8, q.base) /\ At(r, 8, 1, q.len)
              /\ At(r, 12, q.len, q.id) /\ At(r, 32, 32, q.hash)
<1> DEFINE p1 == Pack(<<8, 1, 1, 1, 1>>, <<q.base, q.len, q.source, q.flags, 0>>)
           p2 == Raw(Bytes[q.id], q.id)
           p3 == Raw(20 - Bytes[q.id], 0)
           p4 == Raw(32, q.hash)
           r2 == p1 \o p2
           r3 == r2 \o p3
           r4 == r3 \o p4
           n == Bytes[q.id]
<1>1. /\ q.base \in Int /\ q.len \in Nat /\ q.hash \in Int /\ q.id \in Strings /\ q.source \in Int /\ q.flags \in Int
      /\ q.len = n /\ q.id # 0 /\ n <= 20
  BY DEF ManifestEntries
<1>2. n \in Nat /\ n # 0 /\ q.id \in Int /\ 20 - n \in Nat
  BY <1>1, StringsAre
<1>3. ManifestRow(q) = r4
  BY DEF ManifestRow
<1>4. p1 \in Fields /\ Size(p1) = 12 /\ At(p1, 0, 8, q.base) /\ At(p1, 8, 1, n)
  <2> DEFINE a == q.base
             c == q.source
             d == q.flags
  <2>1. a \in Int /\ n \in Int /\ c \in Int /\ d \in Int /\ 0 \in Int
    BY <1>1, <1>2
  <2>2. p1 = Pack(<<8, 1, 1, 1, 1>>, <<a, n, c, d, 0>>)
    BY <1>1
  <2> HIDE DEF p1, n, a, c, d
  <2>3. p1 \in Fields /\ Size(p1) = 12 /\ At(p1, 0, 8, a) /\ At(p1, 8, 1, n)
    BY <2>1, <2>2, RowHeadFacts
  <2> QED BY <2>3 DEF a
<1>5. p2 \in Fields /\ Size(p2) = n /\ At(p2, 0, n, q.id)
  BY <1>2, RawFacts
<1>6. p3 \in Fields /\ Size(p3) = 20 - n
  BY <1>2, RawFacts
<1>7. p4 \in Fields /\ Size(p4) = 32 /\ At(p4, 0, 32, q.hash)
  BY <1>1, RawFacts
<1> HIDE DEF p1, p2, p3, p4, n
<1>8. r2 \in Fields /\ Size(r2) = 12 + n
  <2>1. r2 \in Fields /\ Size(r2) = Size(p1) + Size(p2)
    BY <1>4, <1>5, EndsConcat
  <2> QED BY <1>4, <1>5, <2>1
<1>9. At(r2, 0, 8, q.base) /\ At(r2, 8, 1, n)
  BY <1>4, <1>5, AtLeft
<1>10. At(r2, 12, n, q.id)
  <2>1. At(r2, Size(p1) + 0, n, q.id)
    BY <1>4, <1>5, AtRight
  <2> QED BY <1>4, <2>1
<1> HIDE DEF r2
<1>11. r3 \in Fields /\ Size(r3) = 32
  <2>1. r3 \in Fields /\ Size(r3) = Size(r2) + Size(p3)
    BY <1>6, <1>8, EndsConcat
  <2> QED BY <1>2, <1>6, <1>8, <2>1
<1>12. At(r3, 0, 8, q.base) /\ At(r3, 8, 1, n) /\ At(r3, 12, n, q.id)
  BY <1>6, <1>8, <1>9, <1>10, AtLeft
<1> HIDE DEF r3
<1>13. r4 \in Fields /\ Size(r4) = 64
  <2>1. r4 \in Fields /\ Size(r4) = Size(r3) + Size(p4)
    BY <1>7, <1>11, EndsConcat
  <2> QED BY <1>7, <1>11, <2>1
<1>14. At(r4, 0, 8, q.base) /\ At(r4, 8, 1, n) /\ At(r4, 12, n, q.id)
  BY <1>7, <1>11, <1>12, AtLeft
<1>15. At(r4, 32, 32, q.hash)
  <2>1. At(r4, Size(r3) + 0, 32, q.hash)
    BY <1>7, <1>11, AtRight
  <2> QED BY <1>11, <2>1
<1> HIDE DEF r4
<1> QED BY <1>1, <1>3, <1>13, <1>14, <1>15 DEF n

\* A manifest is read as it was written, row by row.
LEMMA ManifestReadBack ==
    ASSUME NEW qs \in Seq(ManifestEntries), NEW type
    PROVE  LET p == Block(type, Table([i \in DOMAIN qs |-> ManifestRow(qs[i])])).payload
           IN /\ Slice(p, 0, 4) = Len(qs)
              /\ \A i \in 1 .. Len(qs) :
                    RowAt(p, i) = [base |-> qs[i].base, len |-> qs[i].len, id |-> qs[i].id, hash |-> qs[i].hash]
<1> DEFINE rs == [i \in DOMAIN qs |-> ManifestRow(qs[i])]
           head == Pack(<<4, 4>>, <<Len(rs), 0>>)
           body == FlattenSeq(rs)
           t == head \o body
           p == Block(type, t).payload
<1>1. Len(qs) \in Nat /\ DOMAIN qs = 1 .. Len(qs) /\ \A i \in 1 .. Len(qs) : qs[i] \in ManifestEntries
  BY SeqFacts
<1>2. rs = [i \in 1 .. Len(qs) |-> rs[i]] /\ \A i \in 1 .. Len(qs) : rs[i] = ManifestRow(qs[i])
  BY <1>1
<1>3. Table(rs) = t
  BY DEF Table
<1> HIDE DEF rs
<1>4. \A i \in 1 .. Len(qs) : rs[i] \in Fields /\ Size(rs[i]) = 64
  BY <1>1, <1>2, ManifestRowAt
<1>5. rs \in Seq(Fields) /\ Len(rs) = Len(qs)
  BY <1>1, <1>2, <1>4, FunctionIsSeq
<1>6. head \in Fields /\ Size(head) = 8 /\ At(head, 0, 4, Len(qs))
  BY <1>1, <1>5, PairFacts
<1>7. /\ body \in Fields
      /\ \A i \in 1 .. Len(qs), off \in Nat : \A w, v : At(rs[i], off, w, v) => At(body, 64 * (i - 1) + off, w, v)
  BY <1>4, <1>5, FlatAt
<1> HIDE DEF head, body
<1>8. t \in Fields
  BY <1>6, <1>7, EndsConcat
<1>9. At(t, 0, 4, Len(qs))
  BY <1>6, <1>7, AtLeft
<1>10. ASSUME NEW i \in 1 .. Len(qs), NEW off \in Nat, NEW w, NEW v, At(rs[i], off, w, v)
       PROVE  At(t, 64 * i - 56 + off, w, v)
  <2> DEFINE o == 64 * (i - 1) + off
  <2>1. At(body, o, w, v)
    BY <1>7, <1>10
  <2>2. Size(head) + o = 64 * i - 56 + off
    BY <1>1, <1>6
  <2> HIDE DEF o
  <2>3. At(t, Size(head) + o, w, v)
    BY <1>6, <1>7, <2>1, AtRight
  <2> QED BY <2>2, <2>3
<1> HIDE DEF t
<1>11. ASSUME NEW off, NEW w, NEW v, At(t, off, w, v)
       PROVE  Slice(p, off, w) = v
  BY <1>8, <1>11, BlockReads
<1> HIDE DEF p
<1>12. Slice(p, 0, 4) = Len(qs)
  BY <1>9, <1>11
<1>13. ASSUME NEW i \in 1 .. Len(qs)
       PROVE  RowAt(p, i) = [base |-> qs[i].base, len |-> qs[i].len, id |-> qs[i].id, hash |-> qs[i].hash]
  <2> DEFINE q == qs[i]
  <2>1. /\ At(rs[i], 0, 8, q.base) /\ At(rs[i], 8, 1, q.len)
        /\ At(rs[i], 12, q.len, q.id) /\ At(rs[i], 32, 32, q.hash)
    BY <1>1, <1>2, ManifestRowAt
  <2>2. /\ 64 * i - 56 + 0 = 64 * i - 56 /\ 64 * i - 56 + 8 = 64 * i - 48
        /\ 64 * i - 56 + 12 = 64 * i - 44 /\ 64 * i - 56 + 32 = 64 * i - 24
    BY <1>1
  <2>3. At(t, 64 * i - 56 + 0, 8, q.base) /\ At(t, 64 * i - 56 + 8, 1, q.len)
    BY <1>10, <2>1
  <2>4. At(t, 64 * i - 56 + 12, q.len, q.id) /\ At(t, 64 * i - 56 + 32, 32, q.hash)
    BY <1>10, <2>1
  <2> HIDE DEF q
  <2>5. /\ Slice(p, 64 * i - 56, 8) = q.base /\ Slice(p, 64 * i - 48, 1) = q.len
        /\ Slice(p, 64 * i - 44, q.len) = q.id /\ Slice(p, 64 * i - 24, 32) = q.hash
    BY <1>11, <2>2, <2>3, <2>4
  <2> QED BY <2>5 DEF RowAt, q
<1> QED BY <1>3, <1>12, <1>13 DEF p, rs

\* Regions as write_memory_region takes them.
Regular(r) ==
    /\ r.base \in Nat /\ r.prot \in Nat /\ r.type \in Nat /\ r.log2 \in Nat /\ r.time \in Nat
    /\ PageSize(r.log2) \in Nat \ {0} /\ r.size = Len(r.states) * PageSize(r.log2)
    /\ r.states \in Seq(0 .. 3) /\ r.pages \in Seq(DOMAIN Images)
    /\ Len(r.pages) = Cardinality({k \in DOMAIN r.states : r.states[k] = CAPTURED})

Shown(r) == r.states # <<>> /\ r.states[1] = CAPTURED

LEMMA ShownHasPage ==
    ASSUME NEW r, Regular(r), Shown(r)
    PROVE  1 \in 1 .. Len(r.pages) /\ r.pages[1] \in DOMAIN Images
<1> DEFINE T == {k \in DOMAIN r.states : r.states[k] = CAPTURED}
<1>1. r.states \in Seq(0 .. 3) /\ r.pages \in Seq(DOMAIN Images) /\ Len(r.pages) = Cardinality(T)
  BY DEF Regular
<1>2. Len(r.states) \in Nat /\ DOMAIN r.states = 1 .. Len(r.states) /\ Len(r.states) # 0
  BY <1>1, EmptyFacts, SeqFacts DEF Shown
<1>3. 1 \in T /\ T \subseteq 1 .. Len(r.states)
  BY <1>2 DEF Shown
<1> HIDE DEF T
<1>4. IsFiniteSet(1 .. Len(r.states))
  BY <1>2, FS_Interval
<1>5. IsFiniteSet(T)
  BY <1>3, <1>4, FS_Subset
<1>6. Cardinality(T) # 0 /\ Cardinality(T) \in Nat
  BY <1>3, <1>5, FS_EmptySet, FS_CardinalityType
<1>7. 1 \in 1 .. Len(r.pages)
  BY <1>1, <1>6
<1> QED BY <1>1, <1>7, SeqFacts

LEMMA ProductDivides ==
    ASSUME NEW n \in Nat, NEW s \in Nat \ {0}
    PROVE  (n * s) \div s = n /\ (n * s > 0 <=> n > 0) /\ n * s \in Nat
<1> DEFINE x == n * s
           q == x \div s
<1>1. x \in Int /\ q \in Int
  BY SMT
<1>2. s * q <= x /\ x < s * q + s
  BY <1>1, SMT
<1> HIDE DEF q
<1>3. ~(q < n)
  BY <1>1, <1>2, SMT
<1>4. ~(n < q)
  BY <1>1, <1>2, SMT
<1>5. q = n
  BY <1>1, <1>3, <1>4, SMT
<1>6. n * s > 0 <=> n > 0
  BY SMT
<1>7. n * s \in Nat
  BY SMT
<1> QED BY <1>5, <1>6, <1>7 DEF q

\* Bytes one behind the other.
LEMMA BytesFacts ==
    ASSUME NEW k \in Nat, NEW values, \A i \in 1 .. k : values[i] \in Int
    PROVE  LET p == Pack([b \in 1 .. k |-> 1], values)
           IN p \in Fields /\ Size(p) = k /\ (k # 0 => At(p, 0, 1, values[1]))
<1> DEFINE u == [b \in 1 .. k |-> 1]
           p == Pack(u, values)
<1>1. DOMAIN u = 1 .. k /\ \A i \in 1 .. k : u[i] = 1
  OBVIOUS
<1> HIDE DEF u
<1>2. \A i \in 1 .. k : u[i] \in Nat \ {0} /\ values[i] \in Int
  BY <1>1
<1>3. Packed(p, k, u, values)
  BY <1>1, <1>2, PackFacts
<1> HIDE DEF p
<1> DEFINE e == Ends(p)
<1>4. e[0] = 0 /\ \A i \in 1 .. k : e[i] = e[i - 1] + 1
  BY <1>1, <1>3 DEF Packed
<1> HIDE DEF e
<1> DEFINE Bad == {n \in Nat : n <= k /\ e[n] # n}
<1>5. Bad = {}
  <2> SUFFICES ASSUME Bad # {} PROVE FALSE
    OBVIOUS
  <2>1. PICK n \in Bad : \A j \in Bad : n <= j
    BY LeastOfSet
  <2>2. n \in Nat /\ n <= k /\ e[n] # n
    OBVIOUS
  <2>3. n # 0
    BY <1>4, <2>2
  <2>4. n - 1 \in Nat /\ n - 1 <= k /\ ~(n <= n - 1) /\ n \in 1 .. k
    BY <2>2, <2>3
  <2>5. e[n - 1] = n - 1
    BY <2>1, <2>4
  <2> QED BY <1>4, <2>2, <2>4, <2>5
<1>6. k \notin Bad
  <2> HIDE DEF Bad
  <2> QED BY <1>5
<1>7. e[k] = k
  BY <1>6
<1>8. Size(p) = k
  BY <1>3, <1>7 DEF Packed, e
<1>9. k # 0 => At(p, 0, 1, values[1])
  <2> SUFFICES ASSUME k # 0 PROVE At(p, 0, 1, values[1])
    OBVIOUS
  <2>1. 1 \in 1 .. k
    OBVIOUS
  <2>2. At(p, Ends(p)[1 - 1], u[1], values[1])
    BY <1>3, <2>1 DEF Packed
  <2>3. Ends(p)[1 - 1] = 0 /\ u[1] = 1
    BY <1>1, <1>4, <2>1 DEF e
  <2> QED BY <2>2, <2>3
<1>10. p \in Fields
  BY <1>3 DEF Packed
<1> QED BY <1>8, <1>9, <1>10 DEF p, u

\* The first page is the first field behind the map.
LEMMA PagesFacts ==
    ASSUME NEW s \in Nat \ {0}, NEW k \in Nat, NEW values, \A i \in 1 .. k : values[i] \in Int
    PROVE  LET p == Pack([i \in 1 .. k |-> s], values)
           IN p \in Fields /\ (k # 0 => At(p, 0, s, values[1]))
<1> DEFINE u == [b \in 1 .. k |-> s]
           p == Pack(u, values)
<1>1. DOMAIN u = 1 .. k /\ \A i \in 1 .. k : u[i] = s
  OBVIOUS
<1> HIDE DEF u
<1>2. \A i \in 1 .. k : u[i] \in Nat \ {0} /\ values[i] \in Int
  BY <1>1
<1>3. Packed(p, k, u, values)
  BY <1>1, <1>2, PackFacts
<1> HIDE DEF p
<1>4. k # 0 => At(p, 0, s, values[1])
  <2> SUFFICES ASSUME k # 0 PROVE At(p, 0, s, values[1])
    OBVIOUS
  <2>1. 1 \in 1 .. k
    OBVIOUS
  <2>2. At(p, Ends(p)[1 - 1], u[1], values[1])
    BY <1>3, <2>1 DEF Packed
  <2>3. Ends(p)[1 - 1] = 0 /\ u[1] = s
    BY <1>1, <1>3, <2>1 DEF Packed
  <2> QED BY <2>2, <2>3
<1>5. p \in Fields
  BY <1>3 DEF Packed
<1> QED BY <1>4, <1>5 DEF p, u

\* The first page's state stands in the high bits of the first byte.
LEMMA MapFacts ==
    ASSUME NEW states \in Seq(0 .. 3)
    PROVE  LET map == PageStateMap(states)
               k == (Len(states) + 3) \div 4
           IN /\ k \in Nat /\ DOMAIN map = 1 .. k /\ Len(map) = k /\ \A b \in 1 .. k : map[b] \in Int
              /\ states # <<>> => k # 0 /\ map[1] \div 64 = states[1]
<1> DEFINE n == Len(states)
           k == (n + 3) \div 4
           State(i) == IF i <= n THEN states[i] ELSE 0
           map == [b \in 1 .. k |-> 64 * State(4 * b - 3) + 16 * State(4 * b - 2) + 4 * State(4 * b - 1) + State(4 * b)]
<1>1. n \in Nat /\ (\A i \in 1 .. n : states[i] \in 0 .. 3) /\ (states # <<>> => n # 0)
  BY SeqFacts, EmptyFacts
<1>2. k \in Nat /\ (n # 0 => k # 0)
  BY <1>1, SMT
<1>3. PageStateMap(states) = map
  BY DEF PageStateMap
<1>4. \A i \in Nat \ {0} : State(i) \in 0 .. 3
  BY <1>1
<1>5. \A b \in 1 .. k : map[b] = 64 * State(4 * b - 3) + 16 * State(4 * b - 2) + 4 * State(4 * b - 1) + State(4 * b)
  OBVIOUS
<1>6. map = [b \in 1 .. k |-> map[b]]
  OBVIOUS
<1>7. states # <<>> => State(1) = states[1]
  BY <1>1
<1> HIDE DEF map, State, k
<1>8. \A b \in 1 .. k : 4 * b - 3 \in Nat \ {0} /\ 4 * b - 2 \in Nat \ {0} /\ 4 * b - 1 \in Nat \ {0} /\ 4 * b \in Nat \ {0}
  BY <1>2
<1>9. \A b \in 1 .. k : map[b] \in Int
  <2> TAKE b \in 1 .. k
  <2> DEFINE a1 == State(4 * b - 3)
             a2 == State(4 * b - 2)
             a3 == State(4 * b - 1)
             a4 == State(4 * b)
  <2>1. a1 \in 0 .. 3 /\ a2 \in 0 .. 3 /\ a3 \in 0 .. 3 /\ a4 \in 0 .. 3
    BY <1>4, <1>8
  <2>2. map[b] = 64 * a1 + 16 * a2 + 4 * a3 + a4
    BY <1>5
  <2> HIDE DEF a1, a2, a3, a4
  <2> QED BY <2>1, <2>2
<1>10. ASSUME states # <<>> PROVE k # 0 /\ map[1] \div 64 = states[1]
  <2>1. k # 0 /\ 1 \in 1 .. k
    BY <1>1, <1>2, <1>10
  <2>2. map[1] = 64 * State(1) + 16 * State(2) + 4 * State(3) + State(4)
    BY <1>5, <2>1
  <2>3. State(1) \in 0 .. 3 /\ State(2) \in 0 .. 3 /\ State(3) \in 0 .. 3 /\ State(4) \in 0 .. 3
    BY <1>4
  <2>4. \A a, b, c, d \in 0 .. 3 : (64 * a + 16 * b + 4 * c + d) \div 64 = a
    BY SMT
  <2>5. map[1] \div 64 = State(1)
    <3> DEFINE a1 == State(1)
               a2 == State(2)
               a3 == State(3)
               a4 == State(4)
    <3>1. a1 \in 0 .. 3 /\ a2 \in 0 .. 3 /\ a3 \in 0 .. 3 /\ a4 \in 0 .. 3
      BY <2>3
    <3>2. map[1] = 64 * a1 + 16 * a2 + 4 * a3 + a4
      BY <2>2
    <3> HIDE DEF a1, a2, a3, a4
    <3>3. map[1] \div 64 = a1
      BY <2>4, <3>1, <3>2
    <3> QED BY <3>3 DEF a1
  <2> QED BY <1>7, <1>10, <2>1, <2>5
<1>11. Len(map) = k /\ DOMAIN map = 1 .. k
  BY <1>2, <1>6, <1>9, FunctionIsSeq
<1> QED BY <1>2, <1>3, <1>9, <1>10, <1>11 DEF k

LEMMA RegionAt ==
    ASSUME NEW r, Regular(r)
    PROVE  LET p == MemoryRegion(r)
               k == (Len(r.states) + 3) \div 4
           IN /\ p \in Fields /\ At(p, 0, 8, r.base) /\ At(p, 8, 8, r.size) /\ At(p, 18, 1, r.log2)
              /\ r.states # <<>> =>
                    \E first \in Int : At(p, 32, 1, first) /\ first \div 64 = r.states[1]
              /\ Shown(r) => At(p, 32 + Pad8(k), PageSize(r.log2), r.pages[1])
<1> DEFINE map == PageStateMap(r.states)
           k == (Len(r.states) + 3) \div 4
           s == PageSize(r.log2)
           p1 == Pack(<<8, 8, 1, 1, 1, 5, 8>>, <<r.base, r.size, r.prot, r.type, r.log2, 0, r.time>>)
           p2 == Pack([b \in 1 .. k |-> 1], map)
           p3 == Raw(Pad8(k) - k, 0)
           p4 == Pack([i \in 1 .. Len(r.pages) |-> s], r.pages)
           r2 == p1 \o p2
           r3 == r2 \o p3
           r4 == r3 \o p4
<1>1. /\ r.base \in Nat /\ r.prot \in Nat /\ r.type \in Nat /\ r.log2 \in Nat /\ r.time \in Nat
      /\ s \in Nat \ {0} /\ r.size = Len(r.states) * s
      /\ r.states \in Seq(0 .. 3) /\ r.pages \in Seq(DOMAIN Images)
  BY DEF Regular
<1>2. r.size \in Nat
  <2>1. Len(r.states) \in Nat
    BY <1>1, SeqFacts
  <2> QED BY <1>1, <2>1, ProductDivides
<1>3. /\ k \in Nat /\ DOMAIN map = 1 .. k /\ Len(map) = k /\ \A b \in 1 .. k : map[b] \in Int
      /\ r.states # <<>> => k # 0 /\ map[1] \div 64 = r.states[1]
  BY <1>1, MapFacts
<1>4. Len(r.pages) \in Nat /\ DOMAIN r.pages = 1 .. Len(r.pages) /\ \A i \in 1 .. Len(r.pages) : r.pages[i] \in Int
  <2>1. Len(r.pages) \in Nat /\ DOMAIN r.pages = 1 .. Len(r.pages) /\ \A i \in 1 .. Len(r.pages) : r.pages[i] \in DOMAIN Images
    BY <1>1, SeqFacts
  <2>2. DOMAIN Images \subseteq Int
    BY ImageAssumption
  <2> QED BY <2>1, <2>2
<1>5. MemoryRegion(r) = r4
  BY <1>3, <1>4 DEF MemoryRegion
<1> HIDE DEF map, k, s
<1>6. p1 \in Fields /\ Size(p1) = 32 /\ At(p1, 0, 8, r.base) /\ At(p1, 8, 8, r.size) /\ At(p1, 18, 1, r.log2)
  <2> DEFINE a == r.base
             b == r.size
             c == r.prot
             d == r.type
             e == r.log2
             g == r.time
  <2>1. a \in Int /\ b \in Int /\ c \in Int /\ d \in Int /\ e \in Int /\ 0 \in Int /\ g \in Int
    BY <1>1, <1>2
  <2>2. p1 = Pack(<<8, 8, 1, 1, 1, 5, 8>>, <<a, b, c, d, e, 0, g>>)
    OBVIOUS
  <2> HIDE DEF p1, a, b, c, d, e, g
  <2>3. p1 \in Fields /\ Size(p1) = 32 /\ At(p1, 0, 8, a) /\ At(p1, 8, 8, b) /\ At(p1, 18, 1, e)
    BY <2>1, <2>2, RegionHeadFacts
  <2> QED BY <2>3 DEF a, b, e
<1>7. p2 \in Fields /\ Size(p2) = k /\ (k # 0 => At(p2, 0, 1, map[1]))
  BY <1>3, BytesFacts
<1>8. Pad8(k) \in Nat /\ Pad8(k) - k \in Nat
  BY <1>3, Pad8Facts
<1>9. p3 \in Fields /\ Size(p3) = Pad8(k) - k
  BY <1>8, RawFacts
<1>10. p4 \in Fields /\ (Len(r.pages) # 0 => At(p4, 0, s, r.pages[1]))
  BY <1>1, <1>4, PagesFacts
<1> HIDE DEF p1, p2, p3, p4
<1>11. r2 \in Fields /\ Size(r2) = 32 + k
  <2>1. r2 \in Fields /\ Size(r2) = Size(p1) + Size(p2)
    BY <1>6, <1>7, EndsConcat
  <2> QED BY <1>6, <1>7, <2>1
<1>12. At(r2, 0, 8, r.base) /\ At(r2, 8, 8, r.size) /\ At(r2, 18, 1, r.log2)
  BY <1>6, <1>7, AtLeft
<1>13. k # 0 => At(r2, 32, 1, map[1])
  <2> SUFFICES ASSUME k # 0 PROVE At(r2, 32, 1, map[1])
    OBVIOUS
  <2>1. At(r2, Size(p1) + 0, 1, map[1])
    BY <1>6, <1>7, AtRight
  <2> QED BY <1>6, <2>1
<1> HIDE DEF r2
<1>14. r3 \in Fields /\ Size(r3) = 32 + Pad8(k)
  <2>1. r3 \in Fields /\ Size(r3) = Size(r2) + Size(p3)
    BY <1>9, <1>11, EndsConcat
  <2> QED BY <1>3, <1>8, <1>9, <1>11, <2>1
<1>15. At(r3, 0, 8, r.base) /\ At(r3, 8, 8, r.size) /\ At(r3, 18, 1, r.log2) /\ (k # 0 => At(r3, 32, 1, map[1]))
  BY <1>9, <1>11, <1>12, <1>13, AtLeft
<1> HIDE DEF r3
<1>16. /\ r4 \in Fields
       /\ At(r4, 0, 8, r.base) /\ At(r4, 8, 8, r.size) /\ At(r4, 18, 1, r.log2) /\ (k # 0 => At(r4, 32, 1, map[1]))
  BY <1>10, <1>14, <1>15, AtLeft, EndsConcat
<1>17. Shown(r) => At(r4, 32 + Pad8(k), s, r.pages[1])
  <2> SUFFICES ASSUME Shown(r) PROVE At(r4, 32 + Pad8(k), s, r.pages[1])
    OBVIOUS
  <2>1. Len(r.pages) # 0
    BY <1>4, ShownHasPage
  <2>2. At(r4, Size(r3) + 0, s, r.pages[1])
    BY <1>10, <1>14, <2>1, AtRight
  <2> QED BY <1>8, <1>14, <2>2
<1> HIDE DEF r4
<1>18. r.states # <<>> => \E first \in Int : At(r4, 32, 1, first) /\ first \div 64 = r.states[1]
  <2> SUFFICES ASSUME r.states # <<>> PROVE \E first \in Int : At(r4, 32, 1, first) /\ first \div 64 = r.states[1]
    OBVIOUS
  <2>1. k # 0 /\ map[1] \div 64 = r.states[1] /\ 1 \in 1 .. k
    BY <1>3
  <2> QED BY <1>3, <1>16, <2>1
<1> QED BY <1>5, <1>16, <1>17, <1>18 DEF k, s

\* The enrich tool finds the base address and the first page where the writer
\* put them, or that there is none.
LEMMA FirstPageReadBack ==
    ASSUME NEW r, Regular(r)
    PROVE  FirstPage(Block("MemoryRegion", MemoryRegion(r)).payload)
              = [base |-> r.base, page |-> IF Shown(r) THEN r.pages[1] ELSE 0]
<1> DEFINE q == MemoryRegion(r)
           p == Block("MemoryRegion", q).payload
           n == Len(r.states)
           k == (n + 3) \div 4
           s == PageSize(r.log2)
<1>1. /\ q \in Fields /\ At(q, 0, 8, r.base) /\ At(q, 8, 8, r.size) /\ At(q, 18, 1, r.log2)
      /\ r.states # <<>> => \E first \in Int : At(q, 32, 1, first) /\ first \div 64 = r.states[1]
      /\ Shown(r) => At(q, 32 + Pad8(k), s, r.pages[1])
  BY RegionAt
<1>2. s \in Nat \ {0} /\ r.size = n * s /\ n \in Nat /\ (n > 0 <=> r.states # <<>>)
  <2>1. s \in Nat \ {0} /\ r.size = n * s /\ r.states \in Seq(0 .. 3)
    BY DEF Regular
  <2>2. n \in Nat /\ (r.states = <<>> <=> n = 0)
    BY <2>1, SeqFacts, EmptyFacts
  <2> QED BY <2>1, <2>2
<1>3. r.size \div s = n /\ (r.size > 0 <=> n > 0)
  BY <1>2, ProductDivides
<1> HIDE DEF q
<1>4. Slice(p, 0, 8) = r.base /\ Slice(p, 8, 8) = r.size /\ Slice(p, 18, 1) = r.log2
  BY <1>1, BlockReads
<1>5. r.states # <<>> => Slice(p, 32, 1) \div 64 = r.states[1]
  BY <1>1, BlockReads
<1>6. Shown(r) => Slice(p, 32 + Pad8(k), s) = r.pages[1]
  <2> DEFINE off == 32 + Pad8(k)
  <2>1. Shown(r) => At(q, off, s, r.pages[1])
    BY <1>1
  <2> HIDE DEF off, s
  <2>2. Shown(r) => Slice(p, off, s) = r.pages[1]
    BY <1>1, <2>1, BlockReads
  <2> QED BY <2>2 DEF off
<1> HIDE DEF p
<1>7. FirstPage(p) = [base |-> r.base,
                      page |-> IF r.size > 0 /\ Slice(p, 32, 1) \div 64 = CAPTURED
                               THEN Slice(p, 32 + Pad8((r.size \div s + 3) \div 4), s) ELSE 0]
  BY <1>4 DEF FirstPage
<1>8. FirstPage(p) = [base |-> r.base,
                      page |-> IF r.size > 0 /\ Slice(p, 32, 1) \div 64 = CAPTURED
                               THEN Slice(p, 32 + Pad8(k), s) ELSE 0]
  BY <1>3, <1>7
<1> HIDE DEF k, s
<1>9. (r.size > 0 /\ Slice(p, 32, 1) \div 64 = CAPTURED) <=> Shown(r)
  BY <1>2, <1>3, <1>5 DEF Shown
<1>10. FirstPage(p) = [base |-> r.base, page |-> IF Shown(r) THEN r.pages[1] ELSE 0]
  BY <1>6, <1>8, <1>9
<1> QED BY <1>10 DEF p, q

------------------------------------------------------------------------------
(* Build ids                                                                 *)

LEMMA BuildIdInFacts ==
    ASSUME NEW notes, IsSeq(notes)
    PROVE  LET id == BuildIdIn(notes)
           IN /\ id = 0 \/ \E i \in DOMAIN notes :
                              notes[i].gnu /\ notes[i].type = 3 /\ notes[i].desc # 0 /\ notes[i].desc = id
              /\ (\A i \in DOMAIN notes : notes[i].whole)
                    /\ (\E i \in DOMAIN notes : notes[i].gnu /\ notes[i].type = 3 /\ notes[i].desc # 0) => id # 0
<1> DEFINE read == {i \in DOMAIN notes : \A j \in 1 .. i : notes[j].whole}
           hits == {i \in read : notes[i].gnu /\ notes[i].type = 3 /\ notes[i].desc # 0}
           c == CHOOSE i \in hits : \A j \in hits : i <= j
           id == BuildIdIn(notes)
<1>1. Len(notes) \in Nat /\ DOMAIN notes = 1 .. Len(notes)
  BY SeqDomain
<1>2. id = IF hits = {} THEN 0 ELSE notes[c].desc
  BY DEF BuildIdIn
<1>3. hits \in SUBSET Nat /\ hits \subseteq DOMAIN notes
  BY <1>1
<1>4. \A i \in hits : i \in DOMAIN notes /\ notes[i].gnu /\ notes[i].type = 3 /\ notes[i].desc # 0
  OBVIOUS
<1>5. ASSUME \A i \in DOMAIN notes : notes[i].whole,
             NEW i \in DOMAIN notes, notes[i].gnu, notes[i].type = 3, notes[i].desc # 0
      PROVE  hits # {}
  <2>1. \A j \in 1 .. i : j \in DOMAIN notes
    BY <1>1
  <2>2. i \in read
    BY <1>5, <2>1
  <2> HIDE DEF read
  <2>3. i \in hits
    BY <1>5, <2>2
  <2> HIDE DEF hits
  <2> QED BY <2>3
<1> HIDE DEF hits, id
<1>6. hits # {} => c \in hits
  <2> SUFFICES ASSUME hits # {} PROVE c \in hits
    OBVIOUS
  <2>1. \E i \in hits : \A j \in hits : i <= j
    BY <1>3, LeastOfSet
  <2> QED BY <2>1
<1> HIDE DEF c
<1>7. id = 0 \/ \E i \in DOMAIN notes :
                   notes[i].gnu /\ notes[i].type = 3 /\ notes[i].desc # 0 /\ notes[i].desc = id
  BY <1>2, <1>4, <1>6
<1>8. (\A i \in DOMAIN notes : notes[i].whole)
      /\ (\E i \in DOMAIN notes : notes[i].gnu /\ notes[i].type = 3 /\ notes[i].desc # 0) => id # 0
  BY <1>2, <1>4, <1>5, <1>6
<1> QED BY <1>7, <1>8 DEF id

LEMMA NoId == 0 \in BuildIds
  BY FormatAssumption DEF BuildIds

LEMMA PagesAre ==
    ASSUME NEW page \in DOMAIN Images
    PROVE  /\ page \in Nat \ {0} /\ Images[page].len \in Nat /\ IsSeq(Images[page].notes)
           /\ \A i \in DOMAIN Images[page].notes :
                 LET seg == Images[page].notes[i] IN
                 /\ seg.end \in Nat /\ IsSeq(seg.notes)
                 /\ \A j \in DOMAIN seg.notes : seg.notes[j].desc \in BuildIds
                 /\ \A j \in DOMAIN seg.notes :
                       seg.notes[j].gnu /\ seg.notes[j].type = 3 => seg.notes[j].desc \in IdsOf(page)
<1> DEFINE segs == Images[page].notes
<1>1. /\ page \in Nat \ {0} /\ Images[page].len \in Nat /\ IsSeq(segs)
      /\ \A seg \in ToSet(segs) :
            /\ seg.end \in Nat /\ IsSeq(seg.notes)
            /\ \A note \in ToSet(seg.notes) : note.desc \in Strings /\ Bytes[note.desc] <= 255
  BY ImageAssumption DEF IsSeq
<1>2. ASSUME NEW i \in DOMAIN segs
      PROVE  LET seg == segs[i] IN
             /\ seg.end \in Nat /\ IsSeq(seg.notes)
             /\ \A j \in DOMAIN seg.notes : seg.notes[j].desc \in BuildIds
             /\ \A j \in DOMAIN seg.notes :
                   seg.notes[j].gnu /\ seg.notes[j].type = 3 => seg.notes[j].desc \in IdsOf(page)
  <2> DEFINE seg == segs[i]
  <2>1. seg \in ToSet(segs)
    BY DEF ToSet
  <2> HIDE DEF seg
  <2>2. seg.end \in Nat /\ IsSeq(seg.notes)
    BY <1>1, <2>1
  <2>3. ASSUME NEW j \in DOMAIN seg.notes
        PROVE  /\ seg.notes[j].desc \in BuildIds
               /\ seg.notes[j].gnu /\ seg.notes[j].type = 3 => seg.notes[j].desc \in IdsOf(page)
    <3> DEFINE note == seg.notes[j]
    <3>1. note \in ToSet(seg.notes)
      BY DEF ToSet
    <3> HIDE DEF note
    <3>2. note.desc \in BuildIds
      BY <1>1, <2>1, <3>1 DEF BuildIds
    <3>3. ASSUME note.gnu, note.type = 3 PROVE note.desc \in IdsOf(page)
      <4> DEFINE G(s) == {x \in ToSet(s.notes) : x.gnu /\ x.type = 3}
      <4>1. note \in G(seg)
        BY <3>1, <3>3
      <4>2. G(seg) \in {G(s) : s \in ToSet(segs)}
        BY <2>1
      <4>3. note \in UNION {G(s) : s \in ToSet(segs)}
        BY <4>1, <4>2
      <4> QED BY <4>3 DEF IdsOf
    <3> QED BY <3>2, <3>3 DEF note
  <2> QED BY <2>2, <2>3 DEF seg
<1> QED BY <1>1, <1>2

\* What the notes of a page say stands in one of its segments.
LEMMA IdStands ==
    ASSUME NEW page, NEW id \in IdsOf(page)
    PROVE  \E i \in DOMAIN Images[page].notes :
              \E j \in DOMAIN Images[page].notes[i].notes :
                 LET note == Images[page].notes[i].notes[j]
                 IN note.gnu /\ note.type = 3 /\ note.desc = id
<1> DEFINE segs == Images[page].notes
           G(s) == {x \in ToSet(s.notes) : x.gnu /\ x.type = 3}
<1>1. IdsOf(page) = {n.desc : n \in UNION {G(s) : s \in ToSet(segs)}}
  BY DEF IdsOf
<1>2. PICK n \in UNION {G(s) : s \in ToSet(segs)} : n.desc = id
  BY <1>1
<1>3. PICK s \in ToSet(segs) : n \in G(s)
  BY <1>2
<1>4. n \in ToSet(s.notes) /\ n.gnu /\ n.type = 3
  BY <1>3
<1>5. PICK i \in DOMAIN segs : segs[i] = s
  BY <1>3 DEF ToSet
<1>6. PICK j \in DOMAIN s.notes : s.notes[j] = n
  BY <1>4 DEF ToSet
<1> QED BY <1>2, <1>4, <1>5, <1>6

\* Whatever length is read: the identifier found is one that the page shows.
LEMMA ExtractFacts ==
    ASSUME NEW page \in DOMAIN Images, NEW len
    PROVE  LET id == ExtractBuildId(Images[page], len)
           IN id \in BuildIds /\ (id # 0 => id \in IdsOf(page))
<1> DEFINE segs == Images[page].notes
           stop == {i \in DOMAIN segs : segs[i].end > len \/ BuildIdIn(segs[i].notes) # 0}
           first == CHOOSE i \in stop : \A j \in stop : i <= j
           id == ExtractBuildId(Images[page], len)
<1>1. id = 0 \/ (stop # {} /\ id = BuildIdIn(segs[first].notes))
  BY DEF ExtractBuildId
<1>2. IsSeq(segs) /\ DOMAIN segs = 1 .. Len(segs) /\ Len(segs) \in Nat
  BY PagesAre, SeqDomain
<1>3. stop \in SUBSET Nat /\ stop \subseteq DOMAIN segs
  BY <1>2
<1> HIDE DEF stop, id
<1>4. stop # {} => first \in stop
  <2> SUFFICES ASSUME stop # {} PROVE first \in stop
    OBVIOUS
  <2>1. \E i \in stop : \A j \in stop : i <= j
    BY <1>3, LeastOfSet
  <2> QED BY <2>1
<1> HIDE DEF first
<1>5. ASSUME stop # {}, id = BuildIdIn(segs[first].notes), id # 0
      PROVE  id \in BuildIds /\ id \in IdsOf(page)
  <2> DEFINE notes == segs[first].notes
  <2>1. first \in DOMAIN segs
    BY <1>3, <1>4, <1>5
  <2>2. /\ IsSeq(notes) /\ \A j \in DOMAIN notes : notes[j].desc \in BuildIds
        /\ \A j \in DOMAIN notes : notes[j].gnu /\ notes[j].type = 3 => notes[j].desc \in IdsOf(page)
    BY <2>1, PagesAre
  <2> HIDE DEF notes
  <2>3. PICK i \in DOMAIN notes : notes[i].gnu /\ notes[i].type = 3 /\ notes[i].desc = id
    <3>1. id = BuildIdIn(notes)
      BY <1>5 DEF notes
    <3> QED BY <1>5, <2>2, <3>1, BuildIdInFacts
  <2> QED BY <2>2, <2>3
<1>6. id \in BuildIds /\ (id # 0 => id \in IdsOf(page))
  BY <1>1, <1>5, NoId
<1> QED BY <1>6 DEF id

\* The page that holds all its notes is found to have an identifier.
LEMMA ReadableFacts ==
    ASSUME NEW page \in DOMAIN Images, Readable(page)
    PROVE  LET len == Smaller(Images[page].len, ReadSize)
           IN ~(len < 64) /\ ExtractBuildId(Images[page], len) # 0
<1> DEFINE image == Images[page]
           len == Smaller(image.len, ReadSize)
           segs == image.notes
           stop == {i \in DOMAIN segs : segs[i].end > len \/ BuildIdIn(segs[i].notes) # 0}
           first == CHOOSE i \in stop : \A j \in stop : i <= j
<1>1. /\ len >= 64 /\ image.elf /\ image.header <= len /\ IdsOf(page) \ {0} # {}
      /\ \A seg \in ToSet(segs) : seg.end <= len /\ \A note \in ToSet(seg.notes) : note.whole
  BY DEF Readable
<1>2. image.len \in Nat /\ image.header \in Nat /\ IsSeq(segs) /\ \A i \in DOMAIN segs : segs[i].end \in Nat /\ IsSeq(segs[i].notes)
  <2>1. image.header \in Nat
    BY ImageAssumption
  <2> QED BY <2>1, PagesAre
<1>3. DOMAIN segs = 1 .. Len(segs) /\ Len(segs) \in Nat
  BY <1>2, SeqDomain
<1>4. len \in Nat
  BY <1>2 DEF Smaller, ReadSize
<1> HIDE DEF image, len
<1>5. \A i \in DOMAIN segs : ~(segs[i].end > len) /\ \A j \in DOMAIN segs[i].notes : segs[i].notes[j].whole
  <2> TAKE i \in DOMAIN segs
  <2>1. segs[i] \in ToSet(segs)
    BY DEF ToSet
  <2>2. \A j \in DOMAIN segs[i].notes : segs[i].notes[j] \in ToSet(segs[i].notes)
    BY DEF ToSet
  <2>3. segs[i].end \in Nat /\ segs[i].end <= len
    BY <1>1, <1>2, <2>1
  <2>4. ~(segs[i].end > len)
    BY <1>4, <2>3
  <2> QED BY <1>1, <2>1, <2>2, <2>4
<1>6. PICK id \in IdsOf(page) : id # 0
  BY <1>1
<1>7. PICK i \in DOMAIN segs : \E j \in DOMAIN segs[i].notes :
         LET note == segs[i].notes[j] IN note.gnu /\ note.type = 3 /\ note.desc = id
  BY IdStands DEF image
<1>8. BuildIdIn(segs[i].notes) # 0
  <2> DEFINE notes == segs[i].notes
  <2>1. IsSeq(notes) /\ \A j \in DOMAIN notes : notes[j].whole
    BY <1>2, <1>5, <1>7
  <2>2. \E j \in DOMAIN notes : notes[j].gnu /\ notes[j].type = 3 /\ notes[j].desc # 0
    BY <1>6, <1>7
  <2> HIDE DEF notes
  <2>3. BuildIdIn(notes) # 0
    BY <2>1, <2>2, BuildIdInFacts
  <2> QED BY <2>3 DEF notes
<1>9. i \in stop /\ stop \in SUBSET Nat
  BY <1>3, <1>7, <1>8
<1> HIDE DEF stop
<1>10. first \in stop
  <2>1. \E k \in stop : \A j \in stop : k <= j
    BY <1>9, LeastOfSet
  <2> QED BY <2>1
<1> HIDE DEF first
<1>11. first \in DOMAIN segs /\ ~(segs[first].end > len) /\ BuildIdIn(segs[first].notes) # 0
  <2>1. first \in DOMAIN segs /\ (segs[first].end > len \/ BuildIdIn(segs[first].notes) # 0)
    BY <1>10 DEF stop
  <2> QED BY <1>5, <2>1
<1>12. ~(image.header > len) /\ ~(len < 64)
  BY <1>1, <1>2, <1>4
<1>13. ExtractBuildId(image, len) = BuildIdIn(segs[first].notes)
  <2>1. ExtractBuildId(image, len) = IF ~image.elf \/ image.header > len \/ stop = {} THEN 0
                                     ELSE IF segs[first].end > len THEN 0 ELSE BuildIdIn(segs[first].notes)
    BY DEF ExtractBuildId, stop, first
  <2> QED BY <1>1, <1>9, <1>11, <1>12, <2>1
<1> QED BY <1>11, <1>12, <1>13 DEF image, len

------------------------------------------------------------------------------
(* Modules                                                                   *)

\* A page's identifier, as far as the page is read.
IdOf(page) == ExtractBuildId(Images[page], Smaller(Images[page].len, ReadSize))
Blob(page, source, path) == [id |-> IdOf(page), source |-> source, flags |-> ModuleFlags(path)]
FullEntry(x) == [base |-> x.base, size |-> x.size, path |-> x.path, version |-> x.version,
                 hash |-> x.hash, blob |-> x.blob]

LEMMA FlagsAre == ASSUME NEW path PROVE ModuleFlags(path) \in Int
  BY DEF ModuleFlags

Names == {"base", "size", "path", "version", "hash", "blob"}

\* An entry with another hash and another blob.
LEMMA ExceptIs ==
    ASSUME NEW x, x = FullEntry(x), NEW blob, NEW hash
    PROVE  [x EXCEPT !.blob = blob, !.hash = hash] =
             [base |-> x.base, size |-> x.size, path |-> x.path, version |-> x.version,
              hash |-> hash, blob |-> blob]
<1> DEFINE full == FullEntry(x)
           e == [x EXCEPT !.blob = blob, !.hash = hash]
           g == [base |-> x.base, size |-> x.size, path |-> x.path, version |-> x.version,
                 hash |-> hash, blob |-> blob]
<1>1. full = [n \in Names |-> full[n]]
  BY DEF FullEntry, Names
<1> HIDE DEF full
<1>2. x = [n \in Names |-> x[n]]
  BY <1>1 DEF full
<1>3. /\ e = [n \in Names |-> e[n]] /\ e.base = x.base /\ e.size = x.size /\ e.path = x.path
      /\ e.version = x.version /\ e.hash = hash /\ e.blob = blob
  BY <1>2 DEF Names
<1>4. /\ g = [n \in Names |-> g[n]] /\ g.base = x.base /\ g.size = x.size /\ g.path = x.path
      /\ g.version = x.version /\ g.hash = hash /\ g.blob = blob
  BY DEF Names
<1> HIDE DEF e, g
<1>5. \A n \in Names : e[n] = g[n]
  BY <1>3, <1>4 DEF Names
<1>6. [n \in Names |-> e[n]] = [n \in Names |-> g[n]]
  BY <1>5, Zenon
<1>7. e = g
  BY <1>3, <1>4, <1>6, Zenon
<1> QED BY <1>7 DEF e, g

LEMMA ExtractedIs ==
    ASSUME NEW x, x = FullEntry(x), NEW page \in DOMAIN Images, NEW source \in Int
    PROVE  Extracted(x, page, source) =
             IF Images[page].len < 64 THEN x
             ELSE [base |-> x.base, size |-> x.size, path |-> x.path, version |-> x.version,
                   hash |-> page, blob |-> <<Blob(page, source, x.path)>>]
<1> DEFINE len == Smaller(Images[page].len, ReadSize)
           b == Blob(page, source, x.path)
<1>1. Images[page].len \in Nat
  BY PagesAre
<1>2. len < 64 <=> Images[page].len < 64
  BY <1>1 DEF Smaller, ReadSize
<1>3. Extracted(x, page, source) = IF len < 64 THEN x ELSE [x EXCEPT !.blob = <<b>>, !.hash = page]
  BY DEF Extracted, Blob, IdOf
<1> HIDE DEF len, b
<1>4. [x EXCEPT !.blob = <<b>>, !.hash = page] =
         [base |-> x.base, size |-> x.size, path |-> x.path, version |-> x.version, hash |-> page, blob |-> <<b>>]
  BY ExceptIs
<1> QED BY <1>2, <1>3, <1>4 DEF b

Mods == [base : Nat, size : Nat, path : Strings, version : Strings, live : {0} \cup DOMAIN Images]

\* The acquisition found no build id, nor that there is none.
Stub(m) == m.live = 0 \/ Images[m.live].len < 64

LEMMA EntryOf ==
    ASSUME NEW m \in Mods
    PROVE  LET e == PopulateFromBridge(m)
           IN e \in Entries /\ e.base = m.base /\ (e.blob = <<>> <=> Stub(m))
<1> DEFINE entry == [base |-> m.base, size |-> m.size, path |-> m.path, version |-> m.version,
                     hash |-> 0, blob |-> <<>>]
           e == PopulateFromBridge(m)
           B == [id : BuildIds, source : Int, flags : Int]
<1>1. /\ m.base \in Int /\ m.size \in Int /\ m.path \in Strings /\ m.version \in Strings
      /\ m.live \in {0} \cup DOMAIN Images
  BY DEF Mods
<1>2. e = IF m.live = 0 THEN entry ELSE Extracted(entry, m.live, 1)
  BY DEF PopulateFromBridge
<1>3. entry \in Entries
  BY <1>1 DEF Entries
<1>4. entry = FullEntry(entry) /\ entry.base = m.base /\ entry.blob = <<>> /\ entry.path = m.path
  BY DEF FullEntry
<1>5. /\ entry.size = m.size /\ entry.version = m.version
  OBVIOUS
<1> HIDE DEF entry, e
<1>6. CASE m.live = 0
  BY <1>2, <1>3, <1>4, <1>6 DEF Stub, e
<1>7. CASE m.live # 0
  <2> DEFINE page == m.live
             b == Blob(page, 1, m.path)
  <2>1. page \in DOMAIN Images
    BY <1>1, <1>7
  <2> HIDE DEF page
  <2>2. e = Extracted(entry, page, 1)
    BY <1>2, <1>7 DEF page
  <2>3. Extracted(entry, page, 1) =
             IF Images[page].len < 64 THEN entry
             ELSE [base |-> m.base, size |-> m.size, path |-> m.path, version |-> m.version,
                   hash |-> page, blob |-> <<b>>]
    BY <1>4, <1>5, <2>1, ExtractedIs
  <2>4. CASE Images[page].len < 64
    BY <1>3, <1>4, <2>2, <2>3, <2>4 DEF Stub, e, page
  <2>5. CASE ~(Images[page].len < 64)
    <3>1. b \in B
      <4>1. IdOf(page) \in BuildIds
        BY <2>1, ExtractFacts DEF IdOf
      <4>2. ModuleFlags(m.path) \in Int
        BY FlagsAre
      <4> QED BY <4>1, <4>2 DEF Blob
    <3> HIDE DEF b
    <3> DEFINE full == [base |-> m.base, size |-> m.size, path |-> m.path, version |-> m.version,
                        hash |-> page, blob |-> <<b>>]
    <3>2. e = full
      BY <2>2, <2>3, <2>5
    <3>3. page \in Int
      BY <2>1, PagesAre
    <3>4. <<b>> \in {<<x>> : x \in B}
      BY <3>1
    <3>5. full \in Entries
      BY <1>1, <3>3, <3>4 DEF Entries
    <3>6. full.base = m.base /\ full.blob = <<b>> /\ <<b>> # <<>>
      OBVIOUS
    <3>7. ~Stub(m)
      BY <1>7, <2>5 DEF Stub, page
    <3> HIDE DEF full
    <3> QED BY <3>2, <3>5, <3>6, <3>7 DEF e
  <2> QED BY <2>4, <2>5
<1> QED BY <1>6, <1>7


------------------------------------------------------------------------------
(* What an acquisition writes                                                *)

ModuleBlock(m) == Block("ModuleEntry", ModuleEntry(PopulateFromBridge(m)))
RegionBlock(r) == Block("MemoryRegion", MemoryRegion(r))

\* A block of the acquisition of o, neither its end nor a manifest.
Acquired(b, o) ==
    /\ b.type # "EndOfCapture" /\ b.type # "ModuleBuildIdManifest"
    /\ b.type = "ModuleEntry" => \E m \in ToSet(o.modules) : b = ModuleBlock(m)
    /\ b.type = "MemoryRegion" => \E r \in ToSet(o.regions) : b = RegionBlock(r)

\* Blocks of the acquisition of o, some of them or all.
PartOf(s, o) == IsSeq(s) /\ \A b \in ToSet(s) : Acquired(b, o)
AllOf(s, o) ==
    /\ PartOf(s, o)
    /\ \A m \in ToSet(o.modules) : ModuleBlock(m) \in ToSet(s)
    /\ \A r \in ToSet(o.regions) : RegionBlock(r) \in ToSet(s)

\* A sequence, element by element.
LEMMA SetOf ==
    ASSUME NEW s, IsSeq(s)
    PROVE  /\ \A i \in 1 .. Len(s) : s[i] \in ToSet(s)
           /\ \A x \in ToSet(s) : \E i \in 1 .. Len(s) : s[i] = x
  BY SeqDomain DEF ToSet

LEMMA ConcatSet ==
    ASSUME NEW s, NEW t, IsSeq(s), IsSeq(t)
    PROVE  IsSeq(s \o t) /\ ToSet(s \o t) = ToSet(s) \cup ToSet(t)
<1>1. /\ IsSeq(s \o t) /\ Len(s \o t) = Len(s) + Len(t)
      /\ \A i \in 1 .. Len(s) + Len(t) : (s \o t)[i] = IF i <= Len(s) THEN s[i] ELSE t[i - Len(s)]
  BY ConcatIsSeq
<1>2. Len(s) \in Nat /\ Len(t) \in Nat
  BY SeqDomain
<1> DEFINE u == s \o t
<1> HIDE DEF u
<1>3. IsSeq(u) /\ Len(u) = Len(s) + Len(t)
  BY <1>1 DEF u
<1>4. \A i \in 1 .. Len(s) : i \in 1 .. Len(u) /\ u[i] = s[i]
  BY <1>1, <1>2 DEF u
<1>5. \A i \in 1 .. Len(t) : Len(s) + i \in 1 .. Len(u) /\ u[Len(s) + i] = t[i]
  <2> TAKE i \in 1 .. Len(t)
  <2>1. Len(s) + i \in 1 .. Len(s) + Len(t) /\ ~(Len(s) + i <= Len(s)) /\ Len(s) + i - Len(s) = i
    BY <1>2
  <2> QED BY <1>1, <2>1 DEF u
<1>6. \A i \in 1 .. Len(u) : u[i] \in ToSet(s) \/ u[i] \in ToSet(t)
  <2> TAKE i \in 1 .. Len(u)
  <2>1. CASE i <= Len(s)
    <3>1. i \in 1 .. Len(s)
      BY <1>2, <1>3, <2>1
    <3> QED BY <1>4, <3>1, SetOf
  <2>2. CASE ~(i <= Len(s))
    <3>1. i - Len(s) \in 1 .. Len(t) /\ i = Len(s) + (i - Len(s))
      BY <1>2, <1>3, <2>2
    <3>2. u[i] = t[i - Len(s)]
      BY <1>5, <3>1
    <3> QED BY <3>1, <3>2, SetOf
  <2> QED BY <2>1, <2>2
<1>7. ToSet(u) \subseteq ToSet(s) \cup ToSet(t)
  BY <1>3, <1>6, SetOf
<1>8. ToSet(s) \subseteq ToSet(u)
  BY <1>3, <1>4, SetOf
<1>9. \A x \in ToSet(t) : x \in ToSet(u)
  <2> TAKE x \in ToSet(t)
  <2>1. PICK i \in 1 .. Len(t) : t[i] = x
    BY SetOf
  <2>2. Len(s) + i \in 1 .. Len(u) /\ u[Len(s) + i] = x
    BY <1>5, <2>1
  <2> QED BY <1>3, <2>2, SetOf
<1> QED BY <1>3, <1>7, <1>8, <1>9 DEF u

LEMMA PartsTogether ==
    ASSUME NEW o, NEW s, NEW t, PartOf(s, o), PartOf(t, o)
    PROVE  PartOf(s \o t, o) /\ ToSet(s) \subseteq ToSet(s \o t) /\ ToSet(t) \subseteq ToSet(s \o t)
<1>1. IsSeq(s \o t) /\ ToSet(s \o t) = ToSet(s) \cup ToSet(t)
  BY ConcatSet DEF PartOf
<1>2. PartOf(s \o t, o)
  BY <1>1 DEF PartOf
<1> QED BY <1>1, <1>2

\* One block for each element of a sequence.
LEMMA EachIsSeq ==
    ASSUME NEW s, IsSeq(s), NEW t, t = [i \in DOMAIN s |-> t[i]]
    PROVE  IsSeq(t) /\ Len(t) = Len(s)
<1>1. Len(s) \in Nat /\ DOMAIN s = 1 .. Len(s)
  BY SeqDomain
<1> QED BY <1>1, GivenIsSeq

LEMMA OriginalIs ==
    ASSUME NEW o \in Originals
    PROVE  /\ o.damage \in {"none", "cut", "torn", "swallowed"}
           /\ IsSeq(o.modules) /\ (\A m \in ToSet(o.modules) : m \in Mods)
           /\ IsSeq(o.tables) /\ (\A b \in ToSet(o.tables) : b.type \in InformationBlocks)
           /\ IsSeq(o.threads) /\ IsSeq(o.regions) /\ (\A r \in ToSet(o.regions) : Regular(r))
           /\ (o.damage # "none" => o.regions # <<>>)
<1>1. o.modules \in Seq(Mods)
  BY OriginalsAssumption DEF Mods
<1>2. IsSeq(o.modules)
  BY <1>1, SeqIsSeq
<1>3. \A m \in ToSet(o.modules) : m \in Mods
  BY <1>1, <1>2, SetOf, SeqFacts
<1>4. /\ o.damage \in {"none", "cut", "torn", "swallowed"} /\ (o.damage # "none" => o.regions # <<>>)
      /\ IsSeq(o.tables) /\ (\A b \in ToSet(o.tables) : b.type \in InformationBlocks)
      /\ IsSeq(o.threads) /\ IsSeq(o.regions)
  BY OriginalsAssumption DEF IsSeq
<1>5. \A r \in ToSet(o.regions) : Regular(r)
  BY OriginalsAssumption DEF Regular
<1> QED BY <1>2, <1>3, <1>4, <1>5

\* The blocks of an acquisition, without its end.
Content(o) ==
    LET entries == [i \in DOMAIN o.modules |-> PopulateFromBridge(o.modules[i])]
    IN <<Block("ProcessIdentity", ProcessIdentity(o.process)), Block("ModuleListIndex", ModuleListIndex(entries))>>
            \o [i \in DOMAIN entries |-> Block("ModuleEntry", ModuleEntry(entries[i]))]
            \o o.tables
            \o [i \in DOMAIN o.threads |-> Block("ThreadContext", ThreadContext(o.threads[i]))]
            \o [i \in DOMAIN o.regions |-> Block("MemoryRegion", MemoryRegion(o.regions[i]))]

LEMMA ContentIs ==
    ASSUME NEW o \in Originals
    PROVE  AllOf(Content(o), o)
<1> DEFINE entries == [i \in DOMAIN o.modules |-> PopulateFromBridge(o.modules[i])]
           a == Block("ProcessIdentity", ProcessIdentity(o.process))
           b == Block("ModuleListIndex", ModuleListIndex(entries))
           s1 == <<a, b>>
           s2 == [i \in DOMAIN entries |-> Block("ModuleEntry", ModuleEntry(entries[i]))]
           s3 == o.tables
           s4 == [i \in DOMAIN o.threads |-> Block("ThreadContext", ThreadContext(o.threads[i]))]
           s5 == [i \in DOMAIN o.regions |-> Block("MemoryRegion", MemoryRegion(o.regions[i]))]
<1>1. Content(o) = s1 \o s2 \o s3 \o s4 \o s5
  BY DEF Content
<1>2. PartOf(s1, o)
  <2>1. a.type = "ProcessIdentity" /\ b.type = "ModuleListIndex"
    BY DEF Block
  <2> HIDE DEF a, b
  <2>2. s1 \in Seq({a, b})
    OBVIOUS
  <2>3. IsSeq(s1)
    BY <2>2, SeqIsSeq
  <2>4. \A i \in 1 .. Len(s1) : s1[i] = a \/ s1[i] = b
    BY <2>2, SeqFacts
  <2> HIDE DEF s1
  <2>5. \A x \in ToSet(s1) : x = a \/ x = b
    BY <2>3, <2>4, SetOf
  <2>6. Acquired(a, o) /\ Acquired(b, o)
    BY <2>1 DEF Acquired
  <2> QED BY <2>3, <2>5, <2>6 DEF PartOf
<1>3. PartOf(s2, o) /\ \A m \in ToSet(o.modules) : ModuleBlock(m) \in ToSet(s2)
  <2>1. IsSeq(o.modules) /\ DOMAIN o.modules = 1 .. Len(o.modules) /\ Len(o.modules) \in Nat
    BY OriginalIs, SeqDomain
  <2>2. s2 = [i \in DOMAIN o.modules |-> s2[i]] /\ \A i \in DOMAIN o.modules : s2[i] = ModuleBlock(o.modules[i])
    BY DEF ModuleBlock
  <2> HIDE DEF s2
  <2>3. IsSeq(s2) /\ Len(s2) = Len(o.modules)
    BY <2>1, <2>2, EachIsSeq
  <2>4. \A i \in 1 .. Len(s2) : o.modules[i] \in ToSet(o.modules) /\ s2[i] = ModuleBlock(o.modules[i])
    BY <2>1, <2>2, <2>3, SetOf
  <2>5. \A x \in ToSet(s2) : Acquired(x, o)
    <3> TAKE x \in ToSet(s2)
    <3>1. PICK i \in 1 .. Len(s2) : s2[i] = x
      BY <2>3, SetOf
    <3>2. x = ModuleBlock(o.modules[i]) /\ o.modules[i] \in ToSet(o.modules)
      BY <2>4, <3>1
    <3>3. x.type = "ModuleEntry"
      BY <3>2 DEF ModuleBlock, Block
    <3> QED BY <3>2, <3>3 DEF Acquired
  <2>6. \A m \in ToSet(o.modules) : ModuleBlock(m) \in ToSet(s2)
    <3> TAKE m \in ToSet(o.modules)
    <3>1. PICK i \in 1 .. Len(o.modules) : o.modules[i] = m
      BY <2>1, SetOf
    <3>2. i \in 1 .. Len(s2) /\ s2[i] = ModuleBlock(m)
      BY <2>3, <2>4, <3>1
    <3>3. s2[i] \in ToSet(s2)
      BY <2>3, <3>2, SetOf
    <3> QED BY <3>2, <3>3
  <2> QED BY <2>3, <2>5, <2>6 DEF PartOf
<1>4. PartOf(s3, o)
  <2>1. \A x \in ToSet(s3) : Acquired(x, o)
    BY OriginalIs DEF Acquired, InformationBlocks
  <2> QED BY <2>1, OriginalIs DEF PartOf
<1>5. PartOf(s4, o)
  <2>1. IsSeq(o.threads) /\ DOMAIN o.threads = 1 .. Len(o.threads)
    BY OriginalIs, SeqDomain
  <2>2. s4 = [i \in DOMAIN o.threads |-> s4[i]] /\ \A i \in DOMAIN o.threads : s4[i].type = "ThreadContext"
    BY DEF Block
  <2> HIDE DEF s4
  <2>3. IsSeq(s4) /\ Len(s4) = Len(o.threads)
    BY <2>1, <2>2, EachIsSeq
  <2>4. \A x \in ToSet(s4) : Acquired(x, o)
    <3> TAKE x \in ToSet(s4)
    <3>1. PICK i \in 1 .. Len(s4) : s4[i] = x
      BY <2>3, SetOf
    <3>2. x.type = "ThreadContext"
      BY <2>1, <2>2, <2>3, <3>1
    <3> QED BY <3>2 DEF Acquired
  <2> QED BY <2>3, <2>4 DEF PartOf
<1>6. PartOf(s5, o) /\ \A r \in ToSet(o.regions) : RegionBlock(r) \in ToSet(s5)
  <2>1. IsSeq(o.regions) /\ DOMAIN o.regions = 1 .. Len(o.regions) /\ Len(o.regions) \in Nat
    BY OriginalIs, SeqDomain
  <2>2. s5 = [i \in DOMAIN o.regions |-> s5[i]] /\ \A i \in DOMAIN o.regions : s5[i] = RegionBlock(o.regions[i])
    BY DEF RegionBlock
  <2> HIDE DEF s5
  <2>3. IsSeq(s5) /\ Len(s5) = Len(o.regions)
    BY <2>1, <2>2, EachIsSeq
  <2>4. \A i \in 1 .. Len(s5) : o.regions[i] \in ToSet(o.regions) /\ s5[i] = RegionBlock(o.regions[i])
    BY <2>1, <2>2, <2>3, SetOf
  <2>5. \A x \in ToSet(s5) : Acquired(x, o)
    <3> TAKE x \in ToSet(s5)
    <3>1. PICK i \in 1 .. Len(s5) : s5[i] = x
      BY <2>3, SetOf
    <3>2. x = RegionBlock(o.regions[i]) /\ o.regions[i] \in ToSet(o.regions)
      BY <2>4, <3>1
    <3>3. x.type = "MemoryRegion"
      BY <3>2 DEF RegionBlock, Block
    <3> QED BY <3>2, <3>3 DEF Acquired
  <2>6. \A r \in ToSet(o.regions) : RegionBlock(r) \in ToSet(s5)
    <3> TAKE r \in ToSet(o.regions)
    <3>1. PICK i \in 1 .. Len(o.regions) : o.regions[i] = r
      BY <2>1, SetOf
    <3>2. i \in 1 .. Len(s5) /\ s5[i] = RegionBlock(r)
      BY <2>3, <2>4, <3>1
    <3>3. s5[i] \in ToSet(s5)
      BY <2>3, <3>2, SetOf
    <3> QED BY <3>2, <3>3
  <2> QED BY <2>3, <2>5, <2>6 DEF PartOf
<1> HIDE DEF s1, s2, s3, s4, s5
<1> DEFINE t2 == s1 \o s2
           t3 == t2 \o s3
           t4 == t3 \o s4
           t5 == t4 \o s5
<1>7. PartOf(t2, o) /\ ToSet(s2) \subseteq ToSet(t2)
  BY <1>2, <1>3, PartsTogether
<1> HIDE DEF t2
<1>8. PartOf(t3, o) /\ ToSet(s2) \subseteq ToSet(t3)
  BY <1>4, <1>7, PartsTogether
<1> HIDE DEF t3
<1>9. PartOf(t4, o) /\ ToSet(s2) \subseteq ToSet(t4)
  BY <1>5, <1>8, PartsTogether
<1> HIDE DEF t4
<1>10. PartOf(t5, o) /\ ToSet(s2) \subseteq ToSet(t5) /\ ToSet(s5) \subseteq ToSet(t5)
  BY <1>6, <1>9, PartsTogether
<1>11. Content(o) = t5
  BY <1>1 DEF t2, t3, t4
<1> HIDE DEF t5
<1> QED BY <1>3, <1>6, <1>10, <1>11 DEF AllOf

\* The file of an acquisition: a part of its blocks, or all of them and an
\* End-of-Capture.
Sealed(s, o) ==
    /\ IsSeq(s) /\ Len(s) \in Nat \ {0} /\ s[Len(s)] = EndOfCapture
    /\ \A i \in 1 .. Len(s) - 1 : Acquired(s[i], o)
    /\ \A m \in ToSet(o.modules) : \E i \in 1 .. Len(s) - 1 : s[i] = ModuleBlock(m)
    /\ \A r \in ToSet(o.regions) : \E i \in 1 .. Len(s) - 1 : s[i] = RegionBlock(r)
Unsealed(s) ==
    IsSeq(s) /\ \A i \in 1 .. Len(s) : s[i].type # "EndOfCapture" /\ s[i].type # "ModuleBuildIdManifest"

LEMMA AppendFacts ==
    ASSUME NEW s, IsSeq(s), NEW x
    PROVE  /\ IsSeq(Append(s, x)) /\ Len(Append(s, x)) = Len(s) + 1 /\ Append(s, x)[Len(s) + 1] = x
           /\ \A i \in 1 .. Len(s) : Append(s, x)[i] = s[i]
<1> DEFINE S == ToSet(s) \cup {x}
<1>1. s \in Seq(S) /\ x \in S
  BY DEF IsSeq
<1> HIDE DEF S
<1>2. Append(s, x) \in Seq(S)
  BY <1>1
<1>3. IsSeq(Append(s, x))
  BY <1>2, SeqIsSeq
<1> QED BY <1>1, <1>3

LEMMA FrontFacts ==
    ASSUME NEW s, IsSeq(s), s # <<>>
    PROVE  IsSeq(Front(s)) /\ \A i \in 1 .. Len(Front(s)) : \E k \in 1 .. Len(s) : Front(s)[i] = s[k]
<1>1. Len(s) \in Nat /\ Len(s) # 0
  BY EmptyFacts, SeqDomain DEF IsSeq
<1>2. Len(s) - 1 \in 0 .. Len(s)
  BY <1>1
<1> DEFINE k == Len(s) - 1
<1> HIDE DEF k
<1>3. /\ IsSeq(SubSeq(s, 1, k)) /\ Len(SubSeq(s, 1, k)) = k
      /\ \A i \in 1 .. k : SubSeq(s, 1, k)[i] = s[i]
  BY <1>2, PrefixIsSeq DEF k
<1>4. Front(s) = SubSeq(s, 1, k)
  BY DEF Front, k
<1>5. \A i \in 1 .. k : i \in 1 .. Len(s)
  BY <1>1 DEF k
<1> QED BY <1>3, <1>4, <1>5

LEMMA PartIsUnsealed ==
    ASSUME NEW o, NEW s, PartOf(s, o)
    PROVE  Unsealed(s)
  BY SetOf DEF PartOf, Unsealed, Acquired

LEMMA SealedIs ==
    ASSUME NEW o, NEW s, AllOf(s, o)
    PROVE  Sealed(Append(s, EndOfCapture), o)
<1> DEFINE t == Append(s, EndOfCapture)
<1>1. IsSeq(s) /\ Len(s) \in Nat
  BY SeqDomain DEF AllOf, PartOf
<1>2. IsSeq(t) /\ Len(t) = Len(s) + 1 /\ t[Len(s) + 1] = EndOfCapture /\ \A i \in 1 .. Len(s) : t[i] = s[i]
  BY <1>1, AppendFacts
<1> HIDE DEF t
<1>3. Len(t) \in Nat \ {0} /\ Len(t) - 1 = Len(s)
  BY <1>1, <1>2
<1>4. \A i \in 1 .. Len(s) : Acquired(t[i], o)
  BY <1>1, <1>2, SetOf DEF AllOf, PartOf
<1>5. \A m \in ToSet(o.modules) : \E i \in 1 .. Len(s) : t[i] = ModuleBlock(m)
  <2> TAKE m \in ToSet(o.modules)
  <2>1. PICK i \in 1 .. Len(s) : s[i] = ModuleBlock(m)
    BY <1>1, SetOf DEF AllOf
  <2> QED BY <1>2, <2>1
<1>6. \A r \in ToSet(o.regions) : \E i \in 1 .. Len(s) : t[i] = RegionBlock(r)
  <2> TAKE r \in ToSet(o.regions)
  <2>1. PICK i \in 1 .. Len(s) : s[i] = RegionBlock(r)
    BY <1>1, SetOf DEF AllOf
  <2> QED BY <1>2, <2>1
<1> QED BY <1>2, <1>3, <1>4, <1>5, <1>6 DEF Sealed, t

LEMMA EncodeShape ==
    ASSUME NEW o \in Originals
    PROVE  Sealed(Encode(o).blocks, o) \/ Unsealed(Encode(o).blocks)
<1> DEFINE s == Content(o)
           b == Block("MemoryRegion", Front(MemoryRegion(Last(o.regions))) \o Raw(128, 0))
<1>1. AllOf(s, o) /\ PartOf(s, o) /\ IsSeq(s)
  BY ContentIs DEF AllOf, PartOf
<1>2. o.damage \in {"none", "cut", "torn", "swallowed"} /\ IsSeq(o.regions) /\ (o.damage # "none" => o.regions # <<>>)
  BY OriginalIs
<1>3. Encode(o).blocks = CASE o.damage = "none" -> Append(s, EndOfCapture)
                           [] o.damage = "cut" -> s
                           [] o.damage = "torn" -> Front(s)
                           [] o.damage = "swallowed" -> Append(Front(s), b)
  BY <1>2 DEF Encode, File, Content
<1>4. b.type = "MemoryRegion"
  BY DEF Block
<1>5. o.damage # "none" => s # <<>>
  <2> SUFFICES ASSUME o.damage # "none" PROVE s # <<>>
    OBVIOUS
  <2>1. Len(o.regions) \in Nat /\ Len(o.regions) # 0
    BY <1>2, EmptyFacts, SeqDomain DEF IsSeq
  <2>2. 1 \in 1 .. Len(o.regions)
    BY <2>1
  <2>3. o.regions[1] \in ToSet(o.regions)
    BY <1>2, <2>2, SetOf
  <2>4. RegionBlock(o.regions[1]) \in ToSet(s)
    BY <1>1, <2>3 DEF AllOf
  <2> HIDE DEF s
  <2>5. PICK i \in 1 .. Len(s) : s[i] = RegionBlock(o.regions[1])
    BY <1>1, <2>4, SetOf
  <2>6. Len(<<>>) = 0
    OBVIOUS
  <2> QED BY <2>5, <2>6
<1> HIDE DEF s, b
<1>6. CASE o.damage = "none"
  BY <1>1, <1>3, <1>6, SealedIs
<1>7. CASE o.damage = "cut"
  BY <1>1, <1>3, <1>7, PartIsUnsealed
<1>8. Unsealed(s)
  BY <1>1, PartIsUnsealed
<1>9. o.damage # "none" => Unsealed(Front(s))
  <2> SUFFICES ASSUME o.damage # "none" PROVE Unsealed(Front(s))
    OBVIOUS
  <2>1. IsSeq(Front(s)) /\ \A i \in 1 .. Len(Front(s)) : \E k \in 1 .. Len(s) : Front(s)[i] = s[k]
    BY <1>1, <1>5, FrontFacts
  <2> QED BY <1>8, <2>1 DEF Unsealed
<1>10. CASE o.damage = "torn"
  BY <1>3, <1>9, <1>10
<1>11. CASE o.damage = "swallowed"
  <2> DEFINE f == Front(s)
             t == Append(f, b)
  <2>1. IsSeq(f) /\ Unsealed(f) /\ Len(f) \in Nat
    BY <1>9, <1>11, SeqDomain DEF Unsealed
  <2> HIDE DEF f
  <2>2. IsSeq(t) /\ Len(t) = Len(f) + 1 /\ t[Len(f) + 1] = b /\ \A i \in 1 .. Len(f) : t[i] = f[i]
    BY <2>1, AppendFacts
  <2> HIDE DEF t
  <2>3. Unsealed(t)
    <3>1. \A i \in 1 .. Len(t) : i \in 1 .. Len(f) \/ i = Len(f) + 1
      BY <2>1, <2>2
    <3> QED BY <1>4, <2>1, <2>2, <3>1 DEF Unsealed
  <2> QED BY <1>3, <1>11, <2>3 DEF t, f
<1> QED BY <1>2, <1>6, <1>7, <1>10, <1>11

\* Nothing follows an End-of-Capture in it, and no acquisition writes a manifest.
LEMMA EncodedIs ==
    ASSUME NEW o \in Originals
    PROVE  LET s == Encode(o).blocks
           IN /\ IsSeq(s)
              /\ \A i \in DOMAIN s : s[i].type = "EndOfCapture" => i = Len(s)
              /\ \A i \in DOMAIN s : s[i].type # "ModuleBuildIdManifest"
<1> DEFINE s == Encode(o).blocks
<1>1. Sealed(s, o) \/ Unsealed(s)
  BY EncodeShape
<1> HIDE DEF s
<1>2. IsSeq(s) /\ Len(s) \in Nat /\ DOMAIN s = 1 .. Len(s)
  BY <1>1, SeqDomain DEF Sealed, Unsealed
<1>3. CASE Unsealed(s)
  BY <1>2, <1>3 DEF Unsealed, s
<1>4. CASE Sealed(s, o)
  <2>1. s[Len(s)].type = "EndOfCapture"
    BY <1>4 DEF Sealed, EndOfCapture, Block
  <2>2. \A i \in DOMAIN s : i \in 1 .. Len(s) - 1 \/ i = Len(s)
    BY <1>2
  <2>3. \A i \in 1 .. Len(s) - 1 : s[i].type # "EndOfCapture" /\ s[i].type # "ModuleBuildIdManifest"
    BY <1>4 DEF Sealed, Acquired
  <2> QED BY <1>2, <2>1, <2>2, <2>3 DEF s
<1> QED BY <1>1, <1>3, <1>4

------------------------------------------------------------------------------
(* What is read of a slice                                                   *)

\* y holds the modules and the regions of o, whatever else it holds.
Holds(y, o) ==
    /\ IsSeq(y)
    /\ \A a \in 1 .. Len(y) :
          /\ y[a].type = "ModuleEntry" => \E m \in ToSet(o.modules) : y[a] = ModuleBlock(m)
          /\ y[a].type = "MemoryRegion" => \E r \in ToSet(o.regions) : y[a] = RegionBlock(r)
    /\ \A m \in ToSet(o.modules) : \E a \in 1 .. Len(y) : y[a] = ModuleBlock(m)
    /\ \A r \in ToSet(o.regions) : \E a \in 1 .. Len(y) : y[a] = RegionBlock(r)

\* PagesAt of the capture o.
PagesOf(base, o) ==
    {o.regions[i].pages[1] : i \in {k \in DOMAIN o.regions :
        /\ o.regions[k].base = base /\ o.regions[k].states # <<>>
        /\ o.regions[k].states[1] = CAPTURED}}

\* The index has a page that was captured for every address that has one.
IndexTrue(ix, o) ==
    /\ \A b \in DOMAIN ix : ix[b] \in PagesOf(b, o)
    /\ \A b \in Int : PagesOf(b, o) # {} => b \in DOMAIN ix

\* The modules are those the acquisition found nothing about.
LoadedModules(ms, o) ==
    /\ IsSeq(ms)
    /\ \A i \in 1 .. Len(ms) :
          /\ ms[i] = FullEntry(ms[i]) /\ ms[i].blob = <<>>
          /\ \E m \in ToSet(o.modules) : m.base = ms[i].base /\ Stub(m)
    /\ \A m \in ToSet(o.modules) : Stub(m) => \E i \in 1 .. Len(ms) : ms[i].base = m.base

\* A bounded set that is not empty holds its maximum.
LEMMA MaxInside ==
    ASSUME NEW d \in Nat, NEW T \in SUBSET (0 .. d), T # {}
    PROVE  Max(T) \in T
<1> DEFINE U == {y \in 0 .. d : d - y \in T}
<1>1. \A x \in T : x \in 0 .. d /\ d - x \in 0 .. d /\ d - (d - x) = x
  OBVIOUS
<1>2. \A x \in T : d - x \in U
  BY <1>1
<1>3. U # {} /\ U \in SUBSET Nat
  <2>1. U \in SUBSET Nat
    OBVIOUS
  <2> HIDE DEF U
  <2> QED BY <1>2, <2>1
<1>4. PICK u \in U : \A y \in U : u <= y
  BY <1>3, LeastOfSet
<1>5. d - u \in T /\ u \in 0 .. d
  OBVIOUS
<1> HIDE DEF U
<1>6. \A x \in T : d - u >= x
  BY <1>1, <1>2, <1>4, <1>5
<1> QED BY <1>5, <1>6 DEF Max

LEMMA PagesOfIs ==
    ASSUME NEW o, IsSeq(o.regions), NEW base, NEW page
    PROVE  page \in PagesOf(base, o) <=> \E r \in ToSet(o.regions) : r.base = base /\ Shown(r) /\ r.pages[1] = page
<1>1. \A r \in ToSet(o.regions) : \E i \in DOMAIN o.regions : o.regions[i] = r
  BY DEF ToSet
<1>2. \A i \in DOMAIN o.regions : o.regions[i] \in ToSet(o.regions)
  BY DEF ToSet
<1> DEFINE K == {k \in DOMAIN o.regions : o.regions[k].base = base /\ Shown(o.regions[k])}
<1>3. PagesOf(base, o) = {o.regions[i].pages[1] : i \in K}
  BY DEF PagesOf, Shown
<1>4. page \in PagesOf(base, o) <=> \E i \in K : page = o.regions[i].pages[1]
  BY <1>3
<1> QED BY <1>1, <1>2, <1>4

LEMMA PageIsCaptured ==
    ASSUME NEW o \in Originals, NEW base, NEW page \in PagesOf(base, o)
    PROVE  page \in DOMAIN Images /\ base \in Nat
<1>1. PICK r \in ToSet(o.regions) : r.base = base /\ Shown(r) /\ r.pages[1] = page
  BY OriginalIs, PagesOfIs
<1>2. Regular(r)
  BY OriginalIs
<1> QED BY <1>1, <1>2, ShownHasPage DEF Regular

LEMMA FirstPagesTrue ==
    ASSUME NEW o \in Originals, NEW f, Holds(Yielded(f), o)
    PROVE  IndexTrue(FirstPages(f), o)
<1> DEFINE y == Yielded(f)
           p == Payloads(f, "MemoryRegion")
           pages == [i \in DOMAIN p |-> FirstPage(p[i])]
           Taken == {i \in DOMAIN pages : pages[i].page # 0}
           At1(b) == {i \in Taken : pages[i].base = b}
           Bases == {pages[i].base : i \in Taken}
           ix == FirstPages(f)
<1>1. ix = [b \in Bases |-> pages[Max(At1(b))].page]
  BY DEF FirstPages
<1>2. IsSeq(y) /\ PayloadsOf(p, y, "MemoryRegion")
  BY PayloadsAre DEF Holds
<1> HIDE DEF p, y, ix
<1>3. IsSeq(p) /\ DOMAIN p = 1 .. Len(p) /\ Len(p) \in Nat
  BY <1>2, SeqDomain DEF PayloadsOf
<1>4. DOMAIN pages = 1 .. Len(p) /\ \A i \in 1 .. Len(p) : pages[i] = FirstPage(p[i])
  BY <1>3
<1> HIDE DEF pages
<1> DEFINE Of(i, r) == pages[i] = [base |-> r.base, page |-> IF Shown(r) THEN r.pages[1] ELSE 0]
<1>5. \A r \in ToSet(o.regions) : Regular(r) /\ (Shown(r) => r.pages[1] # 0)
  <2> TAKE r \in ToSet(o.regions)
  <2>1. Regular(r)
    BY OriginalIs
  <2>2. Shown(r) => r.pages[1] \in Nat \ {0}
    BY <2>1, ShownHasPage, PagesAre
  <2> QED BY <2>1, <2>2
<1>6. \A i \in 1 .. Len(p) : \E r \in ToSet(o.regions) : Of(i, r)
  <2> TAKE i \in 1 .. Len(p)
  <2>1. PICK a \in 1 .. Len(y) : y[a].type = "MemoryRegion" /\ y[a].payload = p[i]
    BY <1>2 DEF PayloadsOf
  <2>2. PICK r \in ToSet(o.regions) : y[a] = RegionBlock(r)
    BY <2>1 DEF Holds, y
  <2>3. p[i] = Block("MemoryRegion", MemoryRegion(r)).payload
    BY <2>1, <2>2 DEF RegionBlock
  <2>4. Of(i, r)
    BY <1>4, <1>5, <2>3, FirstPageReadBack
  <2> QED BY <2>4
<1>7. \A r \in ToSet(o.regions) : \E i \in 1 .. Len(p) : Of(i, r)
  <2> TAKE r \in ToSet(o.regions)
  <2>1. PICK a \in 1 .. Len(y) : y[a] = RegionBlock(r)
    BY DEF Holds, y
  <2>2. y[a].type = "MemoryRegion" /\ y[a].payload = Block("MemoryRegion", MemoryRegion(r)).payload
    BY <2>1 DEF RegionBlock, Block
  <2>3. PICK i \in 1 .. Len(p) : p[i] = y[a].payload
    BY <1>2, <2>2 DEF PayloadsOf
  <2>4. Of(i, r)
    BY <1>4, <1>5, <2>2, <2>3, FirstPageReadBack
  <2> QED BY <2>4
<1>8. ASSUME NEW b \in Bases PROVE pages[Max(At1(b))].page \in PagesOf(b, o)
  <2>1. At1(b) \in SUBSET (0 .. Len(p)) /\ At1(b) # {}
    <3>1. \A i \in Taken : i \in 0 .. Len(p)
      BY <1>3, <1>4
    <3>2. PICK i \in Taken : pages[i].base = b
      OBVIOUS
    <3> QED BY <3>1, <3>2
  <2> DEFINE k == Max(At1(b))
  <2>2. k \in At1(b)
    BY <1>3, <2>1, MaxInside
  <2> HIDE DEF k
  <2>3. k \in 1 .. Len(p) /\ pages[k].page # 0 /\ pages[k].base = b
    BY <1>4, <2>2
  <2>4. PICK r \in ToSet(o.regions) : Of(k, r)
    BY <1>6, <2>3
  <2>5. r.base = b /\ Shown(r) /\ r.pages[1] = pages[k].page
    BY <2>3, <2>4
  <2>6. pages[k].page \in PagesOf(b, o)
    BY <2>5, OriginalIs, PagesOfIs
  <2> QED BY <2>6 DEF k
<1>9. DOMAIN ix = Bases /\ \A b \in Bases : ix[b] = pages[Max(At1(b))].page
  BY <1>1
<1>10. ASSUME NEW b \in Int, PagesOf(b, o) # {} PROVE b \in Bases
  <2>1. PICK page : page \in PagesOf(b, o)
    BY <1>10
  <2>2. PICK r \in ToSet(o.regions) : r.base = b /\ Shown(r) /\ r.pages[1] = page
    BY <2>1, OriginalIs, PagesOfIs
  <2>3. PICK i \in 1 .. Len(p) : Of(i, r)
    BY <1>7
  <2>4. pages[i].base = b /\ pages[i].page = page /\ page # 0
    BY <1>5, <2>2, <2>3
  <2>5. i \in Taken
    BY <1>4, <2>4
  <2> QED BY <2>4, <2>5
<1> HIDE DEF Bases, At1
<1>11. IndexTrue(ix, o)
  BY <1>8, <1>9, <1>10 DEF IndexTrue
<1> QED BY <1>11 DEF ix

\* The modules without a blob, as the enrich tool reads them.
ReadModules(f) ==
    LET modulesIn == Payloads(f, "ModuleEntry")
        all == [i \in DOMAIN modulesIn |-> ReadModule(modulesIn[i])]
    IN Kept(all, {m \in ToSet(all) : m.blob = <<>>})

LEMMA ModulesLoaded ==
    ASSUME NEW o \in Originals, NEW f, Holds(Yielded(f), o)
    PROVE  LoadedModules(ReadModules(f), o)
<1> DEFINE y == Yielded(f)
           p == Payloads(f, "ModuleEntry")
           all == [i \in DOMAIN p |-> ReadModule(p[i])]
           T == {m \in ToSet(all) : m.blob = <<>>}
           ms == Kept(all, T)
<1>1. ReadModules(f) = ms
  BY DEF ReadModules
<1>2. IsSeq(y) /\ PayloadsOf(p, y, "ModuleEntry")
  BY PayloadsAre DEF Holds
<1> HIDE DEF p, y
<1>3. IsSeq(p) /\ DOMAIN p = 1 .. Len(p) /\ Len(p) \in Nat
  BY <1>2, SeqDomain DEF PayloadsOf
<1>4. all = [i \in 1 .. Len(p) |-> all[i]] /\ \A i \in 1 .. Len(p) : all[i] = ReadModule(p[i])
  BY <1>3
<1> HIDE DEF all
<1>5. IsSeq(all) /\ Len(all) = Len(p)
  BY <1>3, <1>4, GivenIsSeq
<1>6. \A i \in 1 .. Len(all) : all[i] \in T <=> all[i].blob = <<>>
  BY <1>5, SetOf
<1> DEFINE Of(i, m) == all[i].base = m.base /\ (all[i].blob = <<>> <=> Stub(m))
<1>7. ASSUME NEW m \in ToSet(o.modules), NEW i \in 1 .. Len(p), p[i] = ModuleBlock(m).payload PROVE Of(i, m)
  <2> DEFINE e == PopulateFromBridge(m)
  <2>1. e \in Entries /\ e.base = m.base /\ (e.blob = <<>> <=> Stub(m))
    BY OriginalIs, EntryOf
  <2>2. p[i] = Block("ModuleEntry", ModuleEntry(e)).payload
    BY <1>7 DEF ModuleBlock
  <2> HIDE DEF e
  <2>3. ReadModule(p[i]).base = e.base /\ (ReadModule(p[i]).blob = <<>> <=> e.blob = <<>>)
    BY <2>1, <2>2, ReadBack
  <2> QED BY <1>4, <2>1, <2>3
<1>8. \A i \in 1 .. Len(all) : \E m \in ToSet(o.modules) : Of(i, m)
  <2> TAKE i \in 1 .. Len(all)
  <2>1. PICK a \in 1 .. Len(y) : y[a].type = "ModuleEntry" /\ y[a].payload = p[i]
    BY <1>2, <1>5 DEF PayloadsOf
  <2>2. PICK m \in ToSet(o.modules) : y[a] = ModuleBlock(m)
    BY <2>1 DEF Holds, y
  <2>3. Of(i, m)
    BY <1>5, <1>7, <2>1, <2>2
  <2> QED BY <2>3
<1>9. \A m \in ToSet(o.modules) : \E i \in 1 .. Len(all) : Of(i, m)
  <2> TAKE m \in ToSet(o.modules)
  <2>1. PICK a \in 1 .. Len(y) : y[a] = ModuleBlock(m)
    BY DEF Holds, y
  <2>2. y[a].type = "ModuleEntry"
    BY <2>1 DEF ModuleBlock, Block
  <2>3. PICK i \in 1 .. Len(p) : p[i] = y[a].payload
    BY <1>2, <2>2 DEF PayloadsOf
  <2>4. Of(i, m)
    BY <1>7, <2>1, <2>3
  <2> QED BY <1>5, <2>4
<1> HIDE DEF T
<1>10. /\ IsSeq(ms)
       /\ \A i \in 1 .. Len(ms) : ms[i] \in T /\ \E a \in 1 .. Len(all) : all[a] = ms[i]
       /\ \A a \in 1 .. Len(all) : all[a] \in T => \E i \in 1 .. Len(ms) : ms[i] = all[a]
  BY <1>5, KeptSet
<1> HIDE DEF ms
<1>11. \A i \in 1 .. Len(all) : all[i] = FullEntry(all[i])
  <2> TAKE i \in 1 .. Len(all)
  <2>1. all[i] = ReadModule(p[i])
    BY <1>4, <1>5
  <2>2. ReadModule(p[i]) = FullEntry(ReadModule(p[i]))
    BY DEF ReadModule, FullEntry
  <2> QED BY <2>1, <2>2
<1>12. ASSUME NEW i \in 1 .. Len(ms)
       PROVE  /\ ms[i] = FullEntry(ms[i]) /\ ms[i].blob = <<>>
              /\ \E m \in ToSet(o.modules) : m.base = ms[i].base /\ Stub(m)
  <2>1. PICK a \in 1 .. Len(all) : all[a] = ms[i]
    BY <1>10
  <2>2. ms[i].blob = <<>>
    BY <1>6, <1>10, <2>1
  <2>3. PICK m \in ToSet(o.modules) : Of(a, m)
    BY <1>8
  <2> QED BY <1>11, <2>1, <2>2, <2>3
<1>13. ASSUME NEW m \in ToSet(o.modules), Stub(m) PROVE \E i \in 1 .. Len(ms) : ms[i].base = m.base
  <2>1. PICK a \in 1 .. Len(all) : Of(a, m)
    BY <1>9
  <2>2. all[a] \in T /\ all[a].base = m.base
    BY <1>6, <1>13, <2>1
  <2>3. PICK i \in 1 .. Len(ms) : ms[i] = all[a]
    BY <1>10, <2>2
  <2> QED BY <2>2, <2>3
<1>14. LoadedModules(ms, o)
  BY <1>10, <1>12, <1>13 DEF LoadedModules
<1> QED BY <1>1, <1>14

------------------------------------------------------------------------------
(* What is found in the captured memory                                      *)

Populated(ms, ix) ==
    [i \in DOMAIN ms |-> IF ms[i].base \in DOMAIN ix THEN Extracted(ms[i], ix[ms[i].base], 5) ELSE ms[i]]

\* A row of a manifest that says what a captured page shows of a module.
TrueRow(row, o) ==
    /\ \E m \in ToSet(o.modules) : m.base = row.base /\ Stub(m)
    /\ row.hash \in PagesOf(row.base, o) /\ row.id \in IdsOf(row.hash)

RowRecords == {q \in [base : Int, len : Nat, hash : Int, id : Strings, source : Int, flags : Int] :
                    q.len = Bytes[q.id] /\ q.id # 0}
RowsTrue(rs, o) == rs \in Seq(RowRecords) /\ \A i \in 1 .. Len(rs) : TrueRow(rs[i], o)

\* No module has to have a row that is not there.
Due(m, o) == m.live = 0 /\ \E page \in PagesOf(m.base, o) : PagesOf(m.base, o) = {page} /\ Readable(page)
Covers(rs, o) == \A m \in ToSet(o.modules) : Due(m, o) => \E k \in 1 .. Len(rs) : rs[k].base = m.base

\* A module without a blob gets one if its page is long enough.
LEMMA PopulatedIs ==
    ASSUME NEW o \in Originals, NEW ms, NEW ix, LoadedModules(ms, o), IndexTrue(ix, o), NEW i \in 1 .. Len(ms)
    PROVE  LET e == Populated(ms, ix)[i]
               base == ms[i].base
               page == ix[base]
           IN IF base \in DOMAIN ix /\ ~(Images[page].len < 64)
              THEN /\ page \in PagesOf(base, o) /\ page \in DOMAIN Images /\ base \in Nat
                   /\ e.base = base /\ e.hash = page /\ e.blob = <<Blob(page, 5, ms[i].path)>>
              ELSE e.blob = <<>>
<1> DEFINE e == Populated(ms, ix)[i]
           base == ms[i].base
           page == ix[base]
           b == Blob(page, 5, ms[i].path)
<1>1. DOMAIN ms = 1 .. Len(ms) /\ ms[i] = FullEntry(ms[i]) /\ ms[i].blob = <<>>
  BY SeqDomain DEF LoadedModules
<1>2. e = IF base \in DOMAIN ix THEN Extracted(ms[i], page, 5) ELSE ms[i]
  BY <1>1 DEF Populated
<1>3. CASE base \notin DOMAIN ix
  BY <1>1, <1>2, <1>3
<1>4. CASE base \in DOMAIN ix
  <2>1. page \in PagesOf(base, o)
    BY <1>4 DEF IndexTrue
  <2>2. page \in DOMAIN Images /\ base \in Nat
    BY <2>1, PageIsCaptured
  <2> HIDE DEF page
  <2>3. Extracted(ms[i], page, 5) =
             IF Images[page].len < 64 THEN ms[i]
             ELSE [base |-> ms[i].base, size |-> ms[i].size, path |-> ms[i].path, version |-> ms[i].version,
                   hash |-> page, blob |-> <<b>>]
    BY <1>1, <2>2, ExtractedIs
  <2> HIDE DEF e, b
  <2>4. IF ~(Images[page].len < 64) THEN e.base = base /\ e.hash = page /\ e.blob = <<b>> ELSE e.blob = <<>>
    BY <1>1, <1>2, <1>4, <2>3
  <2> QED BY <1>4, <2>1, <2>2, <2>4 DEF e, b, page
<1> QED BY <1>3, <1>4

LEMMA PopulateFacts ==
    ASSUME NEW o \in Originals, NEW ms, NEW ix, LoadedModules(ms, o), IndexTrue(ix, o)
    PROVE  RowsTrue(ManifestRows(Populated(ms, ix)), o) /\ Covers(ManifestRows(Populated(ms, ix)), o)
<1> DEFINE es == Populated(ms, ix)
           T == {m \in ToSet(es) : m.blob # <<>> /\ m.blob[1].id # 0}
           hit == Kept(es, T)
           Row(m) == [base |-> m.base, len |-> Bytes[m.blob[1].id], hash |-> m.hash,
                      id |-> m.blob[1].id, source |-> m.blob[1].source, flags |-> m.blob[1].flags]
           rs == [i \in DOMAIN hit |-> Row(hit[i])]
<1>1. ManifestRows(es) = rs
  BY DEF ManifestRows
<1>2. IsSeq(ms) /\ DOMAIN ms = 1 .. Len(ms) /\ Len(ms) \in Nat
  BY SeqDomain DEF LoadedModules
<1>3. es = [i \in DOMAIN ms |-> es[i]]
  BY DEF Populated
<1>4. ASSUME NEW i \in 1 .. Len(ms)
      PROVE  LET base == ms[i].base
                 page == ix[base]
             IN IF base \in DOMAIN ix /\ ~(Images[page].len < 64)
                THEN /\ page \in PagesOf(base, o) /\ page \in DOMAIN Images /\ base \in Nat
                     /\ es[i].base = base /\ es[i].hash = page /\ es[i].blob = <<Blob(page, 5, ms[i].path)>>
                ELSE es[i].blob = <<>>
  BY PopulatedIs
<1> HIDE DEF es
<1>5. IsSeq(es) /\ Len(es) = Len(ms)
  BY <1>2, <1>3, EachIsSeq
<1>6. \A i \in 1 .. Len(es) : es[i] \in T <=> es[i].blob # <<>> /\ es[i].blob[1].id # 0
  BY <1>5, SetOf
<1> HIDE DEF T
<1>7. /\ IsSeq(hit)
      /\ \A i \in 1 .. Len(hit) : hit[i] \in T /\ \E a \in 1 .. Len(es) : es[a] = hit[i]
      /\ \A a \in 1 .. Len(es) : es[a] \in T => \E i \in 1 .. Len(hit) : hit[i] = es[a]
  BY <1>5, KeptSet
<1> HIDE DEF hit, Row
<1>8. DOMAIN hit = 1 .. Len(hit) /\ Len(hit) \in Nat
  BY <1>7, SeqDomain
<1>9. rs = [i \in 1 .. Len(hit) |-> rs[i]] /\ \A i \in 1 .. Len(hit) : rs[i] = Row(hit[i])
  BY <1>8
<1> HIDE DEF rs
<1>10. ASSUME NEW i \in 1 .. Len(ms), es[i] \in T PROVE Row(es[i]) \in RowRecords /\ TrueRow(Row(es[i]), o)
  <2> DEFINE base == ms[i].base
             page == ix[base]
             id == IdOf(page)
             flags == ModuleFlags(ms[i].path)
             b == Blob(page, 5, ms[i].path)
             q == [base |-> base, len |-> Bytes[id], hash |-> page, id |-> id, source |-> 5, flags |-> flags]
  <2>1. es[i].blob # <<>> /\ es[i].blob[1].id # 0
    BY <1>5, <1>6, <1>10
  <2>2. /\ page \in PagesOf(base, o) /\ page \in DOMAIN Images /\ base \in Nat
        /\ es[i].base = base /\ es[i].hash = page /\ es[i].blob = <<b>>
    BY <1>4, <2>1
  <2>3. b.id = id /\ b.source = 5 /\ b.flags = flags
    BY DEF Blob
  <2> HIDE DEF page, b
  <2>4. es[i].blob[1] = b
    BY <2>2
  <2>5. id # 0 /\ id \in BuildIds /\ id \in IdsOf(page)
    BY <2>1, <2>2, <2>3, <2>4, ExtractFacts DEF IdOf
  <2> HIDE DEF id, flags
  <2>6. Row(es[i]) = q
    BY <2>2, <2>3, <2>4 DEF Row
  <2>7. flags \in Int
    BY FlagsAre DEF flags
  <2>8. id \in Strings /\ Bytes[id] \in Nat
    BY <2>5, StringsAre DEF BuildIds
  <2>9. page \in Int /\ base \in Int
    BY <2>2, PagesAre
  <2>10. q \in RowRecords
    BY <2>5, <2>7, <2>8, <2>9 DEF RowRecords
  <2>11. \E m \in ToSet(o.modules) : m.base = base /\ Stub(m)
    BY DEF LoadedModules
  <2>12. q.base = base /\ q.hash = page /\ q.id = id
    OBVIOUS
  <2> HIDE DEF q
  <2>13. TrueRow(q, o)
    BY <2>2, <2>5, <2>11, <2>12 DEF TrueRow
  <2> QED BY <2>6, <2>10, <2>13
<1>11. \A i \in 1 .. Len(hit) : rs[i] \in RowRecords /\ TrueRow(rs[i], o)
  <2> TAKE i \in 1 .. Len(hit)
  <2>1. PICK a \in 1 .. Len(es) : es[a] = hit[i]
    BY <1>7
  <2>2. es[a] \in T
    BY <1>7, <2>1
  <2>3. Row(es[a]) \in RowRecords /\ TrueRow(Row(es[a]), o)
    BY <1>5, <1>10, <2>2
  <2> QED BY <1>9, <2>1, <2>3
<1>12. rs \in Seq(RowRecords) /\ Len(rs) = Len(hit)
  BY <1>8, <1>9, <1>11, FunctionIsSeq
<1>13. RowsTrue(rs, o)
  BY <1>11, <1>12 DEF RowsTrue
<1>14. ASSUME NEW m \in ToSet(o.modules), Due(m, o) PROVE \E k \in 1 .. Len(rs) : rs[k].base = m.base
  <2>1. PICK page \in PagesOf(m.base, o) : PagesOf(m.base, o) = {page} /\ Readable(page)
    BY <1>14 DEF Due
  <2>2. m.base \in Int /\ Stub(m)
    BY <1>14, OriginalIs DEF Mods, Due, Stub
  <2>3. PICK i \in 1 .. Len(ms) : ms[i].base = m.base
    BY <2>2 DEF LoadedModules
  <2>4. m.base \in DOMAIN ix /\ ix[m.base] = page
    BY <2>1, <2>2 DEF IndexTrue
  <2>5. page \in DOMAIN Images
    BY PageIsCaptured
  <2> DEFINE len == Smaller(Images[page].len, ReadSize)
  <2>6. ~(len < 64) /\ ExtractBuildId(Images[page], len) # 0
    BY <2>1, <2>5, ReadableFacts
  <2>7. Images[page].len \in Nat
    BY <2>5, PagesAre
  <2>8. ~(Images[page].len < 64)
    BY <2>6, <2>7 DEF Smaller, ReadSize
  <2> DEFINE b == Blob(page, 5, ms[i].path)
  <2>9. es[i].base = m.base /\ es[i].blob = <<b>>
    BY <1>4, <2>3, <2>4, <2>8
  <2>10. b.id # 0
    BY <2>6 DEF Blob, IdOf
  <2> HIDE DEF b
  <2>11. es[i].blob # <<>> /\ es[i].blob[1] = b
    BY <2>9
  <2>12. es[i] \in T
    BY <1>5, <1>6, <2>10, <2>11
  <2>13. PICK k \in 1 .. Len(hit) : hit[k] = es[i]
    BY <1>5, <1>7, <2>12
  <2>14. rs[k].base = m.base
    BY <1>9, <2>9, <2>13 DEF Row
  <2> QED BY <1>12, <2>14
<1>15. Covers(rs, o)
  BY <1>14 DEF Covers
<1> QED BY <1>1, <1>13, <1>15 DEF es

------------------------------------------------------------------------------
(* What a manifest says                                                      *)

Manifest(rs) == Block("ModuleBuildIdManifest", Table([i \in DOMAIN rs |-> ManifestRow(rs[i])]))

\* The manifests among the blocks of s are true.
TrueManifests(s, o) ==
    \A i \in 1 .. Len(s) : s[i].type = "ModuleBuildIdManifest" =>
        \A row \in RowsIn(s[i].payload) : TrueRow(row, o)

\* One of the blocks of s is a manifest that covers what the capture shows.
Complete(s, o) ==
    \E i \in 1 .. Len(s) :
        /\ s[i].type = "ModuleBuildIdManifest"
        /\ \A m \in ToSet(o.modules) : Due(m, o) => \E row \in RowsIn(s[i].payload) : row.base = m.base

LEMMA ManifestFacts ==
    ASSUME NEW o, NEW rs, RowsTrue(rs, o), Covers(rs, o), ManifestAccepted(rs)
    PROVE  /\ Manifest(rs).type = "ModuleBuildIdManifest"
           /\ \A row \in RowsIn(Manifest(rs).payload) : TrueRow(row, o)
           /\ \A m \in ToSet(o.modules) : Due(m, o) => \E row \in RowsIn(Manifest(rs).payload) : row.base = m.base
<1> DEFINE p == Manifest(rs).payload
<1>1. Manifest(rs).type = "ModuleBuildIdManifest"
  BY DEF Manifest, Block
<1>2. rs \in Seq(RowRecords) /\ Len(rs) \in Nat /\ DOMAIN rs = 1 .. Len(rs) /\ \A i \in 1 .. Len(rs) : rs[i] \in RowRecords
  BY SeqFacts DEF RowsTrue
<1>3. \A i \in 1 .. Len(rs) : rs[i] \in ManifestEntries
  BY <1>2 DEF RowRecords, ManifestEntries, ManifestAccepted
<1>4. rs \in Seq(ManifestEntries)
  BY <1>2, <1>3, WiderSeq
<1>5. /\ Slice(p, 0, 4) = Len(rs)
      /\ \A i \in 1 .. Len(rs) :
            RowAt(p, i) = [base |-> rs[i].base, len |-> rs[i].len, id |-> rs[i].id, hash |-> rs[i].hash]
  BY <1>4, ManifestReadBack DEF Manifest
<1> HIDE DEF p
<1>6. RowsIn(p) = {RowAt(p, i) : i \in 1 .. Len(rs)}
  BY <1>5 DEF RowsIn
<1>7. \A i \in 1 .. Len(rs) : /\ RowAt(p, i).base = rs[i].base /\ RowAt(p, i).hash = rs[i].hash
                              /\ RowAt(p, i).id = rs[i].id /\ RowAt(p, i) \in RowsIn(p)
  BY <1>5, <1>6
<1>8. \A row \in RowsIn(p) : \E i \in 1 .. Len(rs) : row = RowAt(p, i)
  BY <1>6
<1>9. \A row \in RowsIn(p) : TrueRow(row, o)
  BY <1>7, <1>8 DEF RowsTrue, TrueRow
<1>10. \A m \in ToSet(o.modules) : Due(m, o) => \E row \in RowsIn(p) : row.base = m.base
  BY <1>7 DEF Covers
<1> QED BY <1>1, <1>9, <1>10 DEF p

------------------------------------------------------------------------------
(* The invariant of the files                                                *)

\* The slice is what the acquisition wrote until a run that came to its end
\* took its place.
SliceStands == files["slice"] = captured \/ Accepted(files["slice"])

Shape ==
    /\ DOMAIN files = Paths /\ \A p \in Paths : IsSeq(files[p].blocks)
    /\ IsSeq(captured.blocks) /\ cmd \in Commands
    /\ \A i \in DOMAIN captured.blocks : captured.blocks[i].type = "EndOfCapture" => i = Len(captured.blocks)
    /\ pc \in {"populate", "keep", "render"} => Accepted(files[cmd.src])

\* What is written and what is left to write make a slice.
Copying ==
    pc = "copy" =>
        /\ ~files[cmd.dst].torn /\ (files[cmd.dst].kind = "clear" \/ files[cmd.dst].blocks = <<>>)
        /\ IsSeq(left) /\ Whole(files[cmd.dst].blocks \o left)

EnrichInv == Shape /\ Copying /\ AcceptedIsWhole /\ SliceStands /\ DebrisIsFromBreaks

\* That the only End-of-Capture stands last, as a set and position by position.
LEMMA EndsLast ==
    ASSUME NEW s, IsSeq(s)
    PROVE  {i \in DOMAIN s : s[i].type = "EndOfCapture"} = {Len(s)}
           <=> /\ Len(s) \in DOMAIN s
               /\ \A i \in DOMAIN s : (s[i].type = "EndOfCapture" <=> i = Len(s))
<1> DEFINE E == {i \in DOMAIN s : s[i].type = "EndOfCapture"}
<1>1. \A i \in DOMAIN s : i \in E <=> s[i].type = "EndOfCapture"
  OBVIOUS
<1>2. E \subseteq DOMAIN s
  OBVIOUS
<1> HIDE DEF E
<1>3. ASSUME E = {Len(s)}
      PROVE  Len(s) \in DOMAIN s /\ \A i \in DOMAIN s : (s[i].type = "EndOfCapture" <=> i = Len(s))
  BY <1>1, <1>2, <1>3, Zenon
<1>4. ASSUME Len(s) \in DOMAIN s, \A i \in DOMAIN s : (s[i].type = "EndOfCapture" <=> i = Len(s))
      PROVE  E = {Len(s)}
  BY <1>1, <1>2, <1>4, Zenon
<1>5. E = {Len(s)} <=> /\ Len(s) \in DOMAIN s
                       /\ \A i \in DOMAIN s : (s[i].type = "EndOfCapture" <=> i = Len(s))
  BY <1>3, <1>4, Zenon
<1> QED
  BY <1>5, Zenon DEF E

\* What makes a sequence a slice, position by position.
LEMMA WholeIs ==
    ASSUME NEW s, IsSeq(s), IsSeq(captured.blocks)
    PROVE  Whole(s) <=>
           /\ Len(captured.blocks) \in 1 .. Len(s)
           /\ \A i \in 1 .. Len(captured.blocks) :
                 (captured.blocks[i].type = "EndOfCapture" <=> i = Len(captured.blocks))
           /\ \A i \in 1 .. Len(s) : (s[i].type = "EndOfCapture" <=> i = Len(s))
           /\ \A i \in 1 .. Len(captured.blocks) - 1 : s[i] = captured.blocks[i]
           /\ \A i \in Len(captured.blocks) .. Len(s) - 1 : s[i].type = "ModuleBuildIdManifest"
<1> DEFINE n == Len(captured.blocks)
           m == Len(s)
           Ends1 == {i \in DOMAIN captured.blocks : captured.blocks[i].type = "EndOfCapture"} = {n}
           Ends2 == {i \in DOMAIN s : s[i].type = "EndOfCapture"} = {m}
           Rest == /\ \A i \in 1 .. n - 1 : s[i] = captured.blocks[i]
                   /\ \A i \in n .. m - 1 : s[i].type = "ModuleBuildIdManifest"
           Last1 == \A i \in 1 .. n : (captured.blocks[i].type = "EndOfCapture" <=> i = n)
           Last2 == \A i \in 1 .. m : (s[i].type = "EndOfCapture" <=> i = m)
<1>1. n \in Nat /\ m \in Nat /\ DOMAIN captured.blocks = 1 .. n /\ DOMAIN s = 1 .. m
  BY SeqDomain
<1>2. Ends1 <=> n \in 1 .. n /\ Last1
  BY <1>1, EndsLast, Zenon
<1>3. Ends2 <=> m \in 1 .. m /\ Last2
  BY <1>1, EndsLast, Zenon
<1>4. Whole(s) <=> Ends1 /\ Ends2 /\ n <= m /\ Rest
  BY Zenon DEF Whole
<1> HIDE DEF Ends1, Ends2, Rest, Last1, Last2
<1>5. Whole(s) <=> n \in 1 .. m /\ Last1 /\ Last2 /\ Rest
  <2> HIDE DEF n, m
  <2> QED
    BY <1>1, <1>2, <1>3, <1>4
<1> QED
  BY <1>5, Zenon DEF Last1, Last2, Rest

LEMMA WholeEnds == ASSUME NEW s, IsSeq(s), IsSeq(captured.blocks), Whole(s) PROVE Ended(s)
<1>1. DOMAIN s = 1 .. Len(s) /\ Len(s) \in Nat /\ Len(captured.blocks) \in Nat
  BY SeqDomain
<1>2. Len(captured.blocks) \in 1 .. Len(s) /\ \A i \in 1 .. Len(s) : (s[i].type = "EndOfCapture" <=> i = Len(s))
  BY WholeIs, Zenon
<1>3. Len(captured.blocks) \in 1 .. Len(s)
  BY <1>2, Zenon
<1>4. Len(s) \in 1 .. Len(s)
  BY <1>1, <1>3
<1> QED
  BY <1>1, <1>2, <1>4, Zenon DEF Ended

\* A copy cut short is not accepted unless it is the whole.
LEMMA CutShort ==
    ASSUME NEW s, NEW t, IsSeq(s), IsSeq(t), IsSeq(captured.blocks), Whole(t), Ended(s),
           Len(s) <= Len(t), \A i \in 1 .. Len(s) : s[i] = t[i]
    PROVE  Whole(s)
<1> DEFINE n == Len(captured.blocks)
<1>1. Len(s) \in Nat /\ DOMAIN s = 1 .. Len(s) /\ Len(t) \in Nat /\ n \in Nat
  BY SeqDomain
<1>2. /\ n \in 1 .. Len(t)
      /\ \A i \in 1 .. n : (captured.blocks[i].type = "EndOfCapture" <=> i = n)
      /\ \A i \in 1 .. Len(t) : (t[i].type = "EndOfCapture" <=> i = Len(t))
      /\ \A i \in 1 .. n - 1 : t[i] = captured.blocks[i]
      /\ \A i \in n .. Len(t) - 1 : t[i].type = "ModuleBuildIdManifest"
  BY WholeIs, Zenon
<1>3. PICK e \in 1 .. Len(s) : s[e].type = "EndOfCapture"
  BY <1>1 DEF Ended
<1>4. e \in 1 .. Len(t) /\ t[e].type = "EndOfCapture"
  BY <1>1, <1>3
<1>5. e = Len(t)
  BY <1>2, <1>4, Zenon
<1>6. Len(s) = Len(t) /\ n \in 1 .. Len(s)
  <2>1. n \in 1 .. Len(t)
    BY <1>2, Zenon
  <2>2. Len(t) \in 1 .. Len(s)
    BY <1>3, <1>5, Zenon
  <2>3. Len(s) = Len(t)
    BY <1>1, <2>2
  <2> QED
    BY <2>1, <2>3, Zenon
<1>7. /\ \A i \in 1 .. Len(s) : (s[i].type = "EndOfCapture" <=> i = Len(s))
      /\ \A i \in 1 .. n - 1 : s[i] = captured.blocks[i]
      /\ \A i \in n .. Len(s) - 1 : s[i].type = "ModuleBuildIdManifest"
  <2>1. /\ \A i \in 1 .. n - 1 : i \in 1 .. Len(s)
        /\ \A i \in n .. Len(s) - 1 : i \in 1 .. Len(s)
    BY <1>1, <1>6
  <2> QED
    BY <1>2, <1>6, <2>1, Zenon
<1> QED
  BY <1>2, <1>6, <1>7, WholeIs, Zenon

\* A part of a copy that passes for a slice is one.
LEMMA Prefix ==
    ASSUME NEW s, NEW t, IsSeq(s), IsSeq(t), IsSeq(captured.blocks), Whole(s \o t), Ended(s)
    PROVE  Whole(s)
<1>1. /\ IsSeq(s \o t) /\ Len(s \o t) = Len(s) + Len(t)
      /\ \A i \in 1 .. Len(s) + Len(t) : (s \o t)[i] = IF i <= Len(s) THEN s[i] ELSE t[i - Len(s)]
  BY ConcatIsSeq
<1>2. Len(s) \in Nat /\ Len(t) \in Nat
  BY SeqDomain
<1>3. Len(s) <= Len(s \o t) /\ \A i \in 1 .. Len(s) : s[i] = (s \o t)[i]
  BY <1>1, <1>2
<1> QED
  BY <1>1, <1>3, CutShort

------------------------------------------------------------------------------
(* The files                                                                 *)

LEMMA MissingFile == IsSeq(<<>>) /\ Len(<<>>) = 0 /\ DOMAIN <<>> = {} /\ ~Accepted(Missing)
<1>1. <<>> \in Seq({}) /\ Len(<<>>) = 0 /\ DOMAIN <<>> = {}
  OBVIOUS
<1>2. IsSeq(<<>>)
  BY <1>1, SeqIsSeq
<1> QED
  BY <1>1, <1>2 DEF Accepted, Raises, Missing, File

\* A file is accepted exactly if it is in the clear and holds an End-of-Capture.
LEMMA AcceptedIs == ASSUME NEW f PROVE Accepted(f) <=> f.kind = "clear" /\ Ended(f.blocks)
  BY DEF Accepted, Raises, EndAt, Ended

LEMMA CommandIs ==
    ASSUME NEW c \in Commands
    PROVE  /\ c.src \in Paths /\ c.dst \in Paths /\ c.src # c.dst /\ c.dst # "slice"
           /\ c.src # "slice.tmp"
  BY DEF Commands, Paths

LEMMA InitEnrich == Init => EnrichInv
<1> SUFFICES ASSUME Init
             PROVE  EnrichInv
  OBVIOUS
<1>1. /\ captured = Encode(original) /\ original \in Originals /\ pc = "idle" /\ cmd \in Commands
      /\ files = [p \in Paths |-> IF p = "slice" THEN captured ELSE Missing]
  BY DEF Init
<1>2. /\ IsSeq(captured.blocks)
      /\ \A i \in DOMAIN captured.blocks : captured.blocks[i].type = "EndOfCapture" => i = Len(captured.blocks)
  BY <1>1, EncodedIs
<1>3. Shape
  BY <1>1, <1>2, MissingFile DEF Shape, Missing, File
<1>4. AcceptedIsWhole
  <2> SUFFICES ASSUME NEW p \in Paths, Accepted(files[p])
               PROVE  Whole(files[p].blocks)
    BY DEF AcceptedIsWhole
  <2>1. files[p] = captured
    BY <1>1, MissingFile
  <2>2. PICK e \in DOMAIN captured.blocks : captured.blocks[e].type = "EndOfCapture"
    BY <2>1, AcceptedIs DEF Ended
  <2>3. /\ Len(captured.blocks) \in Nat /\ DOMAIN captured.blocks = 1 .. Len(captured.blocks)
        /\ e = Len(captured.blocks)
    BY <1>2, <2>2, SeqDomain
  <2>4. \A i \in DOMAIN captured.blocks : (captured.blocks[i].type = "EndOfCapture" <=> i = Len(captured.blocks))
    BY <1>2, <2>2, <2>3, Zenon
  <2>5. ~\E i \in Len(captured.blocks) .. Len(captured.blocks) - 1 : TRUE
    BY <2>3
  <2>6. Len(captured.blocks) \in 1 .. Len(captured.blocks)
    BY <2>2, <2>3
  <2>7. Whole(captured.blocks)
    BY <1>2, <2>3, <2>4, <2>5, <2>6, WholeIs, Zenon
  <2> QED
    BY <2>1, <2>7
<1>5. Copying /\ SliceStands /\ DebrisIsFromBreaks
  BY <1>1 DEF Copying, SliceStands, DebrisIsFromBreaks, Paths, Missing, File
<1> QED
  BY <1>3, <1>4, <1>5 DEF EnrichInv

\* Steps before the output is opened touch no file.
LEMMA QuietInv ==
    ASSUME EnrichInv, UNCHANGED <<files, original, captured, broken>>, cmd' \in Commands,
           pc # "copy", pc' # "copy", pc' \in {"populate", "keep", "render"} => Accepted(files[cmd'.src])
    PROVE  EnrichInv'
<1>1. Shape'
  BY DEF EnrichInv, Shape
<1>2. AcceptedIsWhole'
  BY DEF EnrichInv, AcceptedIsWhole, Whole
<1>3. Copying' /\ SliceStands' /\ DebrisIsFromBreaks'
  BY DEF EnrichInv, Copying, SliceStands, DebrisIsFromBreaks
<1> QED
  BY <1>1, <1>2, <1>3 DEF EnrichInv

LEMMA ReadingInv == ASSUME EnrichInv, Invoke \/ Refuse \/ Load \/ Populate PROVE EnrichInv'
<1>1. CASE Invoke
  BY <1>1, QuietInv DEF Invoke
<1>2. CASE Refuse
  BY <1>2, QuietInv DEF Refuse, EnrichInv, Shape
<1>3. CASE Load
  BY <1>3, QuietInv DEF Load, EnrichInv, Shape
<1>4. CASE Populate
  BY <1>4, QuietInv DEF Populate, EnrichInv, Shape
<1> QED
  BY <1>1, <1>2, <1>3, <1>4

LEMMA AllWhole ==
    ASSUME captured' = captured, \A p \in Paths : Accepted(files'[p]) => Whole(files'[p].blocks)
    PROVE  AcceptedIsWhole'
<1> SUFFICES ASSUME NEW p \in Paths, Accepted(files'[p])
             PROVE  Whole(files[p].blocks)'
  BY DEF AcceptedIsWhole, Accepted, Raises, EndAt
<1>1. Whole(files'[p].blocks)
  OBVIOUS
<1> QED
  BY <1>1 DEF Whole

LEMMA OthersWhole ==
    ASSUME AcceptedIsWhole, captured' = captured, NEW d \in Paths,
           \A p \in Paths : p # d => files'[p] = files[p],
           Accepted(files'[d]) => Whole(files'[d].blocks)
    PROVE  AcceptedIsWhole'
<1>1. \A p \in Paths : Accepted(files'[p]) => Whole(files'[p].blocks)
  BY DEF AcceptedIsWhole
<1> QED
  BY <1>1, AllWhole

\* The output is opened, which empties it, and `left' is a slice.
LEMMA OpenInv ==
    ASSUME EnrichInv, pc \in {"keep", "render"}, pc' = "copy",
           files' = [files EXCEPT ![cmd.dst] = File("other", <<>>, FALSE)],
           UNCHANGED <<original, captured, cmd, broken>>,
           IsSeq(left'), Whole(left')
    PROVE  EnrichInv'
<1>1. cmd \in Commands /\ cmd.dst \in Paths /\ cmd.dst # "slice" /\ DOMAIN files = Paths
  BY CommandIs DEF EnrichInv, Shape
<1>2. /\ files'[cmd.dst] = File("other", <<>>, FALSE)
      /\ \A p \in Paths : p # cmd.dst => files'[p] = files[p]
      /\ DOMAIN files' = Paths
  BY <1>1
<1>3. Shape'
  BY <1>1, <1>2, MissingFile DEF EnrichInv, Shape, File
<1>4. Copying'
  <2>1. <<>> \o left' = left'
    BY ConcatEmptySeq DEF IsSeq
  <2>2. files'[cmd'.dst].blocks = <<>> /\ ~files'[cmd'.dst].torn
    BY <1>2 DEF File
  <2>3. Whole(files'[cmd'.dst].blocks \o left')
    BY <2>1, <2>2
  <2>4. Whole(files[cmd.dst].blocks \o left)'
    BY <2>3 DEF Whole
  <2> QED
    BY <2>1, <2>2, <2>3, <2>4 DEF Copying
<1>5. ~Accepted(files'[cmd.dst])
  BY <1>2 DEF Accepted, Raises, File
<1>6. AcceptedIsWhole'
  BY <1>1, <1>2, <1>5, OthersWhole DEF EnrichInv
<1>7. SliceStands' /\ DebrisIsFromBreaks'
  BY <1>1, <1>2 DEF EnrichInv, SliceStands, DebrisIsFromBreaks, Paths
<1> QED
  BY <1>3, <1>4, <1>6, <1>7 DEF EnrichInv

LEMMA KeepInv == ASSUME EnrichInv, Keep PROVE EnrichInv'
<1>1. pc = "keep" /\ UNCHANGED <<original, captured, cmd, broken>>
  BY DEF Keep
<1>2. Accepted(files[cmd.src]) /\ cmd.src \in Paths /\ cmd \in Commands
  BY <1>1, CommandIs DEF EnrichInv, Shape
<1>3. CASE cmd.inPlace
  BY <1>1, <1>2, <1>3, QuietInv DEF Keep
<1>4. CASE ~cmd.inPlace
  <2>1. IsSeq(left') /\ Whole(left')
    BY <1>2, <1>4, AcceptedIs DEF Keep, EnrichInv, Shape, AcceptedIsWhole
  <2> QED
    BY <1>1, <1>4, <2>1, OpenInv DEF Keep
<1> QED
  BY <1>3, <1>4

------------------------------------------------------------------------------
(* The output                                                                *)

\* The blocks that iterate_blocks yields are those up to an End-of-Capture.
LEMMA YieldedIs ==
    ASSUME NEW f, IsSeq(f.blocks), Ended(f.blocks)
    PROVE  \E e \in 1 .. Len(f.blocks) :
              /\ Yielded(f) = SubSeq(f.blocks, 1, e) /\ f.blocks[e].type = "EndOfCapture"
<1>1. DOMAIN f.blocks = 1 .. Len(f.blocks) /\ Len(f.blocks) \in Nat
  BY SeqDomain
<1>2. EndAt(f) \in SUBSET Nat /\ EndAt(f) # {}
  BY <1>1 DEF EndAt, Ended
<1> DEFINE e == CHOOSE i \in EndAt(f) : \A j \in EndAt(f) : i <= j
<1>3. e \in EndAt(f) /\ \A j \in EndAt(f) : e <= j
  BY <1>2, LeastOfSet
<1>4. Yielded(f) = SubSeq(f.blocks, 1, e)
  BY <1>2 DEF Yielded
<1> HIDE DEF e
<1> QED
  BY <1>1, <1>3, <1>4 DEF EndAt

\* Of a slice all blocks are yielded.
LEMMA YieldedAll ==
    ASSUME NEW f, IsSeq(f.blocks), Whole(f.blocks), IsSeq(captured.blocks)
    PROVE  LET y == SubSeq(f.blocks, 1, Len(f.blocks))
           IN /\ Yielded(f) = y /\ IsSeq(y) /\ Len(y) = Len(f.blocks)
              /\ \A i \in 1 .. Len(f.blocks) : y[i] = f.blocks[i]
<1> DEFINE e == Len(f.blocks)
<1>1. e \in Nat /\ Ended(f.blocks) /\ \A i \in 1 .. e : (f.blocks[i].type = "EndOfCapture" <=> i = e)
  BY WholeIs, WholeEnds, SeqDomain, Zenon
<1>2. PICK k \in 1 .. e : Yielded(f) = SubSeq(f.blocks, 1, k) /\ f.blocks[k].type = "EndOfCapture"
  BY <1>1, YieldedIs
<1>3. k = e /\ e \in 0 .. e
  BY <1>1, <1>2
<1> HIDE DEF e
<1>4. Yielded(f) = SubSeq(f.blocks, 1, e)
  BY <1>2, <1>3
<1> QED BY <1>3, <1>4, PrefixIsSeq DEF e

\* The slice with a manifest in front of a new End-of-Capture is a slice.
LEMMA EnrichedWhole ==
    ASSUME NEW f, IsSeq(f.blocks), Whole(f.blocks), IsSeq(captured.blocks),
           NEW m, m.type = "ModuleBuildIdManifest"
    PROVE  LET s == Front(Yielded(f)) \o <<m, EndOfCapture>>
           IN /\ IsSeq(s) /\ Whole(s) /\ Len(s) = Len(f.blocks) + 1
              /\ \A i \in 1 .. Len(f.blocks) - 1 : s[i] = f.blocks[i]
              /\ s[Len(f.blocks)] = m /\ s[Len(f.blocks) + 1].type = "EndOfCapture"
<1> DEFINE n == Len(captured.blocks)
           e == Len(f.blocks)
<1>1. /\ n \in 1 .. e /\ Ended(f.blocks)
      /\ \A i \in 1 .. n : (captured.blocks[i].type = "EndOfCapture" <=> i = n)
      /\ \A i \in 1 .. e : (f.blocks[i].type = "EndOfCapture" <=> i = e)
      /\ \A i \in 1 .. n - 1 : f.blocks[i] = captured.blocks[i]
      /\ \A i \in n .. e - 1 : f.blocks[i].type = "ModuleBuildIdManifest"
  BY WholeIs, WholeEnds, Zenon
<1>2. n \in Nat /\ e \in Nat
  BY SeqDomain
<1> DEFINE y == SubSeq(f.blocks, 1, e)
           front == SubSeq(y, 1, e - 1)
           tail == <<m, EndOfCapture>>
<1>3. Yielded(f) = y /\ IsSeq(y) /\ Len(y) = e /\ \A i \in 1 .. e : y[i] = f.blocks[i]
  BY YieldedAll
<1>4. Front(Yielded(f)) = front
  BY <1>3 DEF Front
<1>5. IsSeq(front) /\ Len(front) = e - 1 /\ \A i \in 1 .. e - 1 : front[i] = f.blocks[i]
  <2>1. e - 1 \in 0 .. Len(y) /\ \A i \in 1 .. e - 1 : i \in 1 .. e
    BY <1>1, <1>2, <1>3
  <2> HIDE DEF y, e
  <2> QED
    BY <2>1, <1>3, PrefixIsSeq
<1>6. IsSeq(tail) /\ Len(tail) = 2 /\ tail[1] = m /\ tail[2].type = "EndOfCapture"
  <2>1. tail \in Seq({m, EndOfCapture}) /\ Len(tail) = 2 /\ tail[1] = m /\ tail[2] = EndOfCapture
    OBVIOUS
  <2> HIDE DEF tail
  <2> QED
    BY <2>1, SeqIsSeq DEF EndOfCapture, Block
<1> DEFINE s == front \o tail
<1>7. IsSeq(s) /\ Len(s) = e + 1 /\ \A i \in 1 .. e + 1 : s[i] = IF i <= e - 1 THEN front[i] ELSE tail[i - (e - 1)]
  <2> HIDE DEF front, tail, e
  <2>1. /\ IsSeq(s) /\ Len(s) = Len(front) + Len(tail)
        /\ \A i \in 1 .. Len(front) + Len(tail) : s[i] = IF i <= Len(front) THEN front[i] ELSE tail[i - Len(front)]
    BY <1>5, <1>6, ConcatIsSeq
  <2> HIDE DEF s
  <2>2. Len(front) = e - 1 /\ Len(front) + Len(tail) = e + 1
    BY <1>1, <1>2, <1>5, <1>6
  <2> QED
    BY <2>1, <2>2
<1> HIDE DEF front, tail, s, y, n, e
<1>8. /\ \A i \in 1 .. e - 1 : s[i] = f.blocks[i]
      /\ s[e] = m /\ s[e + 1].type = "EndOfCapture"
  <2>1. \A i \in 1 .. e - 1 : s[i] = f.blocks[i]
    BY <1>2, <1>5, <1>7
  <2>2. s[e] = tail[1] /\ s[e + 1] = tail[2]
    BY <1>1, <1>2, <1>7
  <2> QED
    BY <1>6, <2>1, <2>2
<1>9. /\ n \in 1 .. Len(s)
      /\ \A i \in 1 .. Len(s) : (s[i].type = "EndOfCapture" <=> i = Len(s))
      /\ \A i \in 1 .. n - 1 : s[i] = captured.blocks[i]
      /\ \A i \in n .. Len(s) - 1 : s[i].type = "ModuleBuildIdManifest"
  <2>1. \A i \in 1 .. e + 1 : (s[i].type = "EndOfCapture" <=> i = e + 1)
    BY <1>1, <1>2, <1>8
  <2>2. \A i \in 1 .. n - 1 : s[i] = captured.blocks[i]
    BY <1>1, <1>2, <1>8
  <2>3. \A i \in n .. e : s[i].type = "ModuleBuildIdManifest"
    BY <1>1, <1>2, <1>8
  <2> QED
    BY <1>1, <1>2, <1>7, <2>1, <2>2, <2>3
<1>10. Whole(s)
  BY <1>1, <1>7, <1>9, WholeIs, Zenon DEF n
<1>11. Len(s) = e + 1 /\ (\A i \in 1 .. e - 1 : s[i] = f.blocks[i]) /\ s[e] = m /\ s[e + 1].type = "EndOfCapture"
  BY <1>7, <1>8
<1> QED
  BY <1>4, <1>7, <1>10, <1>11 DEF s, tail, e

LEMMA RenderInv == ASSUME EnrichInv, Render PROVE EnrichInv'
<1>1. pc = "render" /\ UNCHANGED <<original, captured, cmd, broken>>
  BY DEF Render
<1>2. /\ Accepted(files[cmd.src]) /\ cmd.src \in Paths /\ cmd \in Commands
      /\ IsSeq(files[cmd.src].blocks) /\ IsSeq(captured.blocks)
  BY <1>1, CommandIs DEF EnrichInv, Shape
<1>3. CASE ManifestAccepted(rows)
  <2>1. IsSeq(Enriched) /\ Whole(Enriched)
    BY <1>2, EnrichedWhole DEF Enriched, EnrichInv, AcceptedIsWhole, Block
  <2>2. left' = Enriched /\ pc' = "copy" /\ files' = [files EXCEPT ![cmd.dst] = File("other", <<>>, FALSE)]
    BY <1>3 DEF Render
  <2> QED
    BY <1>1, <2>1, <2>2, OpenInv
<1>4. CASE ~ManifestAccepted(rows)
  BY <1>1, <1>2, <1>4, QuietInv DEF Render
<1> QED
  BY <1>3, <1>4

\* The next block goes from what is left to the output.
LEMMA HandOver ==
    ASSUME NEW b, NEW rest, IsSeq(b), IsSeq(rest), rest # <<>>
    PROVE  /\ IsSeq(Append(b, Head(rest))) /\ IsSeq(Tail(rest))
           /\ Append(b, Head(rest)) \o Tail(rest) = b \o rest
<1> DEFINE S == ToSet(b) \cup ToSet(rest)
           c == Append(b, Head(rest))
<1>1. b \in Seq(S) /\ rest \in Seq(S)
  BY DEF IsSeq
<1> HIDE DEF S
<1>2. c \in Seq(S) /\ Tail(rest) \in Seq(S) /\ c \o Tail(rest) = b \o rest
  BY <1>1
<1> QED BY <1>2, SeqIsSeq

LEMMA CopyInv == ASSUME EnrichInv, Copy PROVE EnrichInv'
<1> DEFINE b == files[cmd.dst].blocks
           c == Append(b, Head(left))
<1>1. /\ pc = "copy" /\ pc' = "copy" /\ left # <<>> /\ left' = Tail(left)
      /\ files' = [files EXCEPT ![cmd.dst] = File("clear", c, FALSE)]
      /\ UNCHANGED <<original, captured, cmd, broken>>
  BY DEF Copy
<1>2. /\ cmd \in Commands /\ cmd.dst \in Paths /\ cmd.dst # "slice" /\ DOMAIN files = Paths
      /\ IsSeq(b) /\ IsSeq(captured.blocks)
  BY CommandIs DEF EnrichInv, Shape
<1>3. IsSeq(left) /\ Whole(b \o left)
  BY <1>1 DEF EnrichInv, Copying
<1>4. IsSeq(c) /\ IsSeq(left') /\ c \o left' = b \o left
  BY <1>1, <1>2, <1>3, HandOver
<1> HIDE DEF b, c
<1>5. /\ files'[cmd.dst] = File("clear", c, FALSE)
      /\ \A p \in Paths : p # cmd.dst => files'[p] = files[p]
      /\ DOMAIN files' = Paths
  BY <1>1, <1>2
<1>6. files'[cmd.dst].blocks = c /\ ~files'[cmd.dst].torn /\ files'[cmd.dst].kind = "clear"
  BY <1>5 DEF File
<1>7. Shape'
  BY <1>1, <1>2, <1>4, <1>5, <1>6 DEF EnrichInv, Shape
<1>8. Copying'
  <2>1. Whole(files[cmd.dst].blocks \o left)'
    <3>1. files'[cmd'.dst].blocks \o left' = b \o left
      BY <1>1, <1>4, <1>6
    <3>2. Whole(files'[cmd'.dst].blocks \o left')
      BY <1>3, <3>1
    <3> QED
      BY <1>1, <3>2 DEF Whole
  <2> QED
    BY <1>1, <1>4, <1>6, <2>1 DEF Copying
<1>9. Ended(c) => Whole(c)
  BY <1>2, <1>3, <1>4, Prefix
<1>10. AcceptedIsWhole'
  <2>1. Accepted(files'[cmd.dst]) => Whole(files'[cmd.dst].blocks)
    BY <1>6, <1>9, AcceptedIs
  <2> QED
    BY <1>1, <1>2, <1>5, <2>1, OthersWhole DEF EnrichInv
<1>11. SliceStands' /\ DebrisIsFromBreaks'
  BY <1>1, <1>2, <1>5 DEF EnrichInv, SliceStands, DebrisIsFromBreaks, Paths
<1> QED
  BY <1>7, <1>8, <1>10, <1>11 DEF EnrichInv

\* Once nothing is left the output is a slice.
LEMMA FinishedIsSlice ==
    ASSUME EnrichInv, pc = "copy", left = <<>>
    PROVE  Accepted(files[cmd.dst]) /\ files[cmd.dst].blocks \o left = files[cmd.dst].blocks
<1>1. IsSeq(files[cmd.dst].blocks)
  BY CommandIs DEF EnrichInv, Shape
<1>2. files[cmd.dst].blocks \o left = files[cmd.dst].blocks
  BY <1>1, ConcatEmptySeq DEF IsSeq
<1>3. Ended(files[cmd.dst].blocks)
  BY <1>1, <1>2, WholeEnds DEF EnrichInv, Shape, Copying
<1>4. files[cmd.dst].blocks # <<>>
  BY <1>3 DEF Ended
<1> QED
  BY <1>2, <1>3, <1>4, AcceptedIs DEF EnrichInv, Copying

LEMMA FinishInv == ASSUME EnrichInv, Finish PROVE EnrichInv'
<1>1. /\ pc = "copy" /\ pc' = "idle" /\ left = <<>> /\ broken' = broken \ {cmd.dst}
      /\ files' = IF cmd.inPlace
                  THEN [files EXCEPT ![cmd.src] = files[cmd.dst], ![cmd.dst] = Missing] ELSE files
      /\ UNCHANGED <<original, captured, cmd>>
  BY DEF Finish
<1>2. /\ cmd \in Commands /\ cmd.dst \in Paths /\ cmd.src \in Paths /\ cmd.src # cmd.dst
      /\ cmd.dst # "slice" /\ DOMAIN files = Paths /\ IsSeq(files[cmd.dst].blocks)
  BY CommandIs DEF EnrichInv, Shape
<1>3. Accepted(files[cmd.dst])
  BY <1>1, FinishedIsSlice
<1>4. CASE ~cmd.inPlace
  <2>1. files' = files
    BY <1>1, <1>4
  <2>2. AcceptedIsWhole'
    BY <1>1, <1>2, <2>1, OthersWhole DEF EnrichInv, AcceptedIsWhole
  <2>3. Shape' /\ Copying' /\ SliceStands' /\ DebrisIsFromBreaks'
    BY <1>1, <1>2, <1>3, <2>1 DEF EnrichInv, Shape, Copying, SliceStands, DebrisIsFromBreaks
  <2> QED
    BY <2>2, <2>3 DEF EnrichInv
<1>5. CASE cmd.inPlace
  <2>1. /\ files'[cmd.src] = files[cmd.dst] /\ files'[cmd.dst] = Missing /\ DOMAIN files' = Paths
        /\ \A p \in Paths : p # cmd.src /\ p # cmd.dst => files'[p] = files[p]
    BY <1>1, <1>2, <1>5
  <2>2. Shape'
    BY <1>1, <1>2, <2>1, MissingFile DEF EnrichInv, Shape, Missing, File
  <2>3. AcceptedIsWhole'
    <3> SUFFICES ASSUME NEW p \in Paths, Accepted(files'[p])
                 PROVE  Whole(files'[p].blocks)
      BY <1>1, AllWhole
    <3>1. p # cmd.dst
      BY <2>1, MissingFile
    <3> QED
      BY <1>2, <1>3, <2>1, <3>1 DEF EnrichInv, AcceptedIsWhole
  <2>4. SliceStands'
    BY <1>1, <1>2, <1>3, <2>1 DEF EnrichInv, SliceStands, Paths
  <2>5. DebrisIsFromBreaks'
    BY <1>1, <1>2, <1>3, <2>1 DEF EnrichInv, DebrisIsFromBreaks, Missing, File
  <2>6. Copying'
    BY <1>1 DEF Copying
  <2> QED
    BY <2>2, <2>3, <2>4, <2>5, <2>6 DEF EnrichInv
<1> QED
  BY <1>4, <1>5

LEMMA BreakInv == ASSUME EnrichInv, Break PROVE EnrichInv'
<1>1. pc' = "idle" /\ UNCHANGED <<original, captured, cmd>>
  BY DEF Break
<1>2. /\ cmd \in Commands /\ cmd.dst \in Paths /\ cmd.dst # "slice" /\ DOMAIN files = Paths
      /\ IsSeq(files[cmd.dst].blocks) /\ IsSeq(captured.blocks)
  BY CommandIs DEF EnrichInv, Shape
<1>3. CASE pc # "copy"
  BY <1>1, <1>2, <1>3, QuietInv DEF Break
<1>4. CASE pc = "copy"
  <2> DEFINE b == files[cmd.dst].blocks
  <2>1. PICK k \in 0 .. Len(b), torn \in BOOLEAN :
           files' = [files EXCEPT ![cmd.dst] = File(files[cmd.dst].kind, SubSeq(b, 1, k), torn)]
    BY <1>4, <1>2 DEF Break
  <2> DEFINE c == SubSeq(b, 1, k)
  <2>2. broken' = broken \cup {cmd.dst}
    BY <1>4 DEF Break
  <2>3. /\ files'[cmd.dst] = File(files[cmd.dst].kind, c, torn) /\ DOMAIN files' = Paths
        /\ \A p \in Paths : p # cmd.dst => files'[p] = files[p]
    BY <1>2, <2>1
  <2>4. IsSeq(c) /\ Len(c) = k /\ \A i \in 1 .. k : c[i] = b[i]
    BY <1>2, <2>1, PrefixIsSeq
  <2>5. IsSeq(left) /\ Whole(b \o left)
    BY <1>4 DEF EnrichInv, Copying
  <2>6. IsSeq(b)
    BY <1>2
  <2> HIDE DEF b, c
  <2>7. Len(b) \in Nat /\ DOMAIN b = 1 .. Len(b) /\ DOMAIN c = 1 .. Len(c)
    BY <2>4, <2>6, SeqDomain
  <2>8. Ended(c) => Whole(c)
    <3> SUFFICES ASSUME Ended(c)
                 PROVE  Whole(c)
      OBVIOUS
    <3>1. Ended(b)
      BY <2>1, <2>4, <2>7 DEF Ended
    <3>2. Whole(b)
      BY <1>2, <2>5, <2>6, <3>1, Prefix
    <3> QED
      BY <1>2, <2>1, <2>4, <2>6, <2>7, <3>2, CutShort
  <2>9. files'[cmd.dst].blocks = c
    BY <2>3 DEF File
  <2>10. Shape'
    BY <1>1, <1>2, <2>3, <2>4, <2>9 DEF EnrichInv, Shape
  <2>11. AcceptedIsWhole'
    <3>1. Accepted(files'[cmd.dst]) => Whole(files'[cmd.dst].blocks)
      BY <2>8, <2>9, AcceptedIs
    <3> QED
      BY <1>1, <1>2, <2>3, <3>1, OthersWhole DEF EnrichInv
  <2>12. Copying' /\ SliceStands' /\ DebrisIsFromBreaks'
    BY <1>1, <1>2, <1>4, <2>2, <2>3 DEF EnrichInv, Copying, SliceStands, DebrisIsFromBreaks, Paths
  <2> QED
    BY <2>10, <2>11, <2>12 DEF EnrichInv
<1> QED
  BY <1>3, <1>4

LEMMA EnrichKept == ASSUME EnrichInv, [Next]_enrichVars PROVE EnrichInv'
<1>1. CASE UNCHANGED enrichVars
  <2>1. AcceptedIsWhole'
    BY <1>1 DEF EnrichInv, AcceptedIsWhole, Whole, enrichVars
  <2>2. Copying'
    BY <1>1 DEF EnrichInv, Copying, Whole, enrichVars
  <2>3. Shape' /\ SliceStands' /\ DebrisIsFromBreaks'
    BY <1>1 DEF EnrichInv, Shape, SliceStands, DebrisIsFromBreaks, enrichVars
  <2> QED
    BY <2>1, <2>2, <2>3 DEF EnrichInv
<1> QED
  BY <1>1, ReadingInv, KeepInv, RenderInv, CopyInv, FinishInv, BreakInv DEF Next


------------------------------------------------------------------------------
(* The invariant of the manifests                                            *)

Origin == original \in Originals /\ captured = Encode(original)

FilesTrue == \A p \in Paths : TrueManifests(files[p].blocks, original)

\* What main has gathered, up to the rows.
Gathered ==
    /\ pc \in {"load", "populate", "keep"} => rows = <<>>
    /\ pc = "populate" => LoadedModules(modules, original) /\ IndexTrue(index, original)
    /\ pc \in {"keep", "render", "copy"} => RowsTrue(rows, original) /\ Covers(rows, original)

\* What is written and what is left to write have the manifest of the rows.
Passing ==
    pc = "copy" =>
        /\ TrueManifests(left, original)
        /\ rows = <<>> \/ Complete(files[cmd.dst].blocks \o left, original)

\* What the tool has said of its output, or of the slice in its place.
Output == IF cmd.inPlace THEN cmd.src ELSE cmd.dst
Answered ==
    outcome \in {"enriched", "copied", "nothing"} =>
        /\ pc = "idle"
        /\ Covers(<<>>, original) \/ (Accepted(files[Output]) /\ Complete(files[Output].blocks, original))

TruthInv == Origin /\ FilesTrue /\ Gathered /\ Passing /\ Answered

LEMMA NoManifests == ASSUME NEW o PROVE TrueManifests(<<>>, o) /\ RowsTrue(<<>>, o)
<1>1. <<>> \in Seq(RowRecords) /\ 1 .. Len(<<>>) = {}
  OBVIOUS
<1> QED BY <1>1 DEF TrueManifests, RowsTrue

LEMMA FilesOfCapture ==
    ASSUME NEW o \in Originals
    PROVE  TrueManifests(Encode(o).blocks, o)
<1> DEFINE s == Encode(o).blocks
<1>1. IsSeq(s) /\ \A i \in DOMAIN s : s[i].type # "ModuleBuildIdManifest"
  BY EncodedIs
<1> HIDE DEF s
<1>2. DOMAIN s = 1 .. Len(s)
  BY <1>1, SeqDomain
<1> QED BY <1>1, <1>2 DEF TrueManifests, s

LEMMA InitTruth == Init => TruthInv
<1> SUFFICES ASSUME Init
             PROVE  TruthInv
  OBVIOUS
<1>1. /\ captured = Encode(original) /\ original \in Originals /\ pc = "idle" /\ outcome = "none"
      /\ files = [p \in Paths |-> IF p = "slice" THEN captured ELSE Missing]
  BY DEF Init
<1>2. FilesTrue
  <2> SUFFICES ASSUME NEW p \in Paths
               PROVE  TrueManifests(files[p].blocks, original)
    BY DEF FilesTrue
  <2>1. CASE p = "slice"
    BY <1>1, <2>1, FilesOfCapture
  <2>2. CASE p # "slice"
    <3>1. files[p].blocks = <<>>
      BY <1>1, <2>2 DEF Missing, File
    <3> QED BY <3>1, NoManifests
  <2> QED BY <2>1, <2>2
<1>3. Origin /\ Gathered /\ Passing /\ Answered
  BY <1>1 DEF Origin, Gathered, Passing, Answered
<1> QED BY <1>2, <1>3 DEF TruthInv

\* A slice yields the modules and the regions of the capture.
LEMMA SliceHolds ==
    ASSUME NEW f, IsSeq(f.blocks), IsSeq(captured.blocks), Whole(f.blocks), Origin
    PROVE  Holds(Yielded(f), original)
<1> DEFINE c == captured.blocks
           n == Len(c)
           s == f.blocks
           m == Len(s)
           y == Yielded(f)
<1>1. /\ n \in 1 .. m
      /\ \A i \in 1 .. n : (c[i].type = "EndOfCapture" <=> i = n)
      /\ \A i \in 1 .. m : (s[i].type = "EndOfCapture" <=> i = m)
      /\ \A i \in 1 .. n - 1 : s[i] = c[i]
      /\ \A i \in n .. m - 1 : s[i].type = "ModuleBuildIdManifest"
  BY WholeIs, Zenon
<1>2. n \in Nat /\ m \in Nat
  BY SeqDomain
<1>3. IsSeq(y) /\ Len(y) = m /\ \A i \in 1 .. m : y[i] = s[i]
  BY YieldedAll
<1>4. Sealed(c, original)
  <2>1. Sealed(c, original) \/ Unsealed(c)
    BY EncodeShape DEF Origin
  <2>2. n \in 1 .. n
    BY <1>1, <1>2
  <2>3. c[n].type = "EndOfCapture"
    BY <1>1, <2>2
  <2> HIDE DEF c
  <2>4. ~Unsealed(c)
    BY <2>2, <2>3 DEF Unsealed
  <2> QED BY <2>1, <2>4
<1>5. /\ \A i \in 1 .. n - 1 : Acquired(c[i], original)
      /\ \A x \in ToSet(original.modules) : \E i \in 1 .. n - 1 : c[i] = ModuleBlock(x)
      /\ \A r \in ToSet(original.regions) : \E i \in 1 .. n - 1 : c[i] = RegionBlock(r)
  BY <1>4 DEF Sealed
<1> HIDE DEF c, s, y, n, m
<1>6. \A i \in 1 .. n - 1 : i \in 1 .. m /\ y[i] = c[i]
  BY <1>1, <1>2, <1>3
<1>7. \A a \in 1 .. Len(y) :
        /\ y[a].type = "ModuleEntry" => \E x \in ToSet(original.modules) : y[a] = ModuleBlock(x)
        /\ y[a].type = "MemoryRegion" => \E r \in ToSet(original.regions) : y[a] = RegionBlock(r)
  <2> TAKE a \in 1 .. Len(y)
  <2>1. CASE a \in 1 .. n - 1
    BY <1>5, <1>6, <2>1 DEF Acquired
  <2>2. CASE a \in n .. m - 1
    BY <1>1, <1>3, <2>2
  <2>3. CASE a = m
    BY <1>1, <1>3, <2>3
  <2>4. a \in 1 .. n - 1 \/ a \in n .. m - 1 \/ a = m
    BY <1>2, <1>3
  <2> QED BY <2>1, <2>2, <2>3, <2>4
<1>8. \A x \in ToSet(original.modules) : \E a \in 1 .. Len(y) : y[a] = ModuleBlock(x)
  BY <1>3, <1>5, <1>6
<1>9. \A r \in ToSet(original.regions) : \E a \in 1 .. Len(y) : y[a] = RegionBlock(r)
  BY <1>3, <1>5, <1>6
<1> QED BY <1>3, <1>7, <1>8, <1>9 DEF Holds, y

\* What the invariants say of the slice that is read.
LEMMA SourceIs ==
    ASSUME EnrichInv, TruthInv, Accepted(files[cmd.src])
    PROVE  /\ cmd.src \in Paths /\ IsSeq(files[cmd.src].blocks) /\ IsSeq(captured.blocks)
           /\ Whole(files[cmd.src].blocks) /\ Holds(Yielded(files[cmd.src]), original)
<1>1. /\ cmd.src \in Paths /\ IsSeq(files[cmd.src].blocks) /\ IsSeq(captured.blocks)
      /\ Whole(files[cmd.src].blocks)
  BY CommandIs DEF EnrichInv, Shape, AcceptedIsWhole
<1> QED BY <1>1, SliceHolds DEF TruthInv

LEMMA InvokeTruth == ASSUME TruthInv, Invoke PROVE TruthInv'
<1>1. /\ pc' = "load" /\ rows' = <<>> /\ outcome' = "none" /\ UNCHANGED <<files, original, captured>>
  BY DEF Invoke
<1>2. Origin' /\ FilesTrue'
  BY <1>1 DEF TruthInv, Origin, FilesTrue
<1>3. Gathered' /\ Passing' /\ Answered'
  BY <1>1 DEF Gathered, Passing, Answered
<1> QED BY <1>2, <1>3 DEF TruthInv

LEMMA RefuseTruth == ASSUME TruthInv, Refuse PROVE TruthInv'
<1>1. pc' = "idle" /\ outcome' = "refused" /\ UNCHANGED <<files, original, captured>>
  BY DEF Refuse
<1>2. Origin' /\ FilesTrue'
  BY <1>1 DEF TruthInv, Origin, FilesTrue
<1>3. Gathered' /\ Passing' /\ Answered'
  BY <1>1 DEF Gathered, Passing, Answered
<1> QED BY <1>2, <1>3 DEF TruthInv

LEMMA LoadTruth == ASSUME EnrichInv, TruthInv, Load PROVE TruthInv'
<1> DEFINE f == files[cmd.src]
<1>1. /\ pc = "load" /\ Accepted(f) /\ UNCHANGED <<files, original, captured, rows, outcome>>
      /\ modules' = ReadModules(f) /\ index' = FirstPages(f)
      /\ pc' = IF modules' = <<>> THEN "keep" ELSE "populate"
  BY DEF Load, ReadModules
<1>2. original \in Originals /\ Holds(Yielded(f), original)
  BY <1>1, SourceIs DEF TruthInv, Origin
<1> HIDE DEF f
<1>3. LoadedModules(modules', original) /\ IndexTrue(index', original)
  BY <1>1, <1>2, ModulesLoaded, FirstPagesTrue
<1>4. rows = <<>>
  BY <1>1 DEF TruthInv, Gathered
<1>5. modules' = <<>> => Covers(<<>>, original)
  <2> SUFFICES ASSUME modules' = <<>>, NEW m \in ToSet(original.modules), Due(m, original)
               PROVE  FALSE
    BY DEF Covers
  <2>1. PICK i \in 1 .. Len(modules') : modules'[i].base = m.base
    BY <1>3 DEF LoadedModules, Due, Stub
  <2>2. Len(<<>>) = 0
    OBVIOUS
  <2> QED BY <2>1, <2>2
<1>6. Origin' /\ FilesTrue'
  BY <1>1 DEF TruthInv, Origin, FilesTrue
<1>7. outcome \notin {"enriched", "copied", "nothing"}
  BY <1>1 DEF TruthInv, Answered
<1>8. Gathered'
  <2>1. RowsTrue(<<>>, original)
    BY NoManifests
  <2> QED BY <1>1, <1>3, <1>4, <1>5, <2>1 DEF Gathered
<1>9. Passing' /\ Answered'
  BY <1>1, <1>7 DEF Passing, Answered
<1> QED BY <1>6, <1>8, <1>9 DEF TruthInv

LEMMA PopulateTruth == ASSUME TruthInv, Populate PROVE TruthInv'
<1>1. /\ pc = "populate" /\ UNCHANGED <<files, original, captured, index, outcome>>
      /\ modules' = Populated(modules, index) /\ rows' = ManifestRows(modules')
      /\ pc' = IF rows' = <<>> THEN "keep" ELSE "render"
  BY DEF Populate, Populated
<1>2. LoadedModules(modules, original) /\ IndexTrue(index, original) /\ original \in Originals
  BY <1>1 DEF TruthInv, Gathered, Origin
<1>3. RowsTrue(rows', original) /\ Covers(rows', original)
  BY <1>1, <1>2, PopulateFacts
<1>4. Origin' /\ FilesTrue'
  BY <1>1 DEF TruthInv, Origin, FilesTrue
<1>5. outcome \notin {"enriched", "copied", "nothing"}
  BY <1>1 DEF TruthInv, Answered
<1>6. Gathered' /\ Passing' /\ Answered'
  BY <1>1, <1>3, <1>5 DEF Gathered, Passing, Answered
<1> QED BY <1>4, <1>6 DEF TruthInv

\* The output is opened.
LEMMA OpenedTrue ==
    ASSUME TruthInv, DOMAIN files = Paths, cmd.dst \in Paths, UNCHANGED original,
           files' = [files EXCEPT ![cmd.dst] = File("other", <<>>, FALSE)]
    PROVE  FilesTrue' /\ files'[cmd.dst].blocks = <<>>
<1>1. files'[cmd.dst].blocks = <<>> /\ \A p \in Paths : p # cmd.dst => files'[p] = files[p]
  BY DEF File
<1>2. FilesTrue'
  BY <1>1, NoManifests DEF TruthInv, FilesTrue
<1> QED BY <1>1, <1>2

LEMMA KeepTruth == ASSUME EnrichInv, TruthInv, Keep PROVE TruthInv'
<1>1. pc = "keep" /\ UNCHANGED <<original, captured, cmd, rows>>
  BY DEF Keep
<1>2. /\ rows = <<>> /\ RowsTrue(rows, original) /\ Covers(rows, original)
      /\ outcome \notin {"enriched", "copied", "nothing"}
  BY <1>1 DEF TruthInv, Gathered, Answered
<1>3. /\ cmd \in Commands /\ cmd.dst \in Paths /\ cmd.src \in Paths /\ DOMAIN files = Paths
  BY CommandIs DEF EnrichInv, Shape
<1>4. Origin'
  BY <1>1 DEF TruthInv, Origin
<1>5. CASE cmd.inPlace
  <2>1. pc' = "idle" /\ UNCHANGED files
    BY <1>5 DEF Keep
  <2>2. FilesTrue'
    BY <1>1, <2>1 DEF TruthInv, FilesTrue
  <2>3. Gathered' /\ Passing' /\ Answered'
    BY <1>1, <1>2, <2>1 DEF Gathered, Passing, Answered
  <2> QED BY <1>4, <2>2, <2>3 DEF TruthInv
<1>6. CASE ~cmd.inPlace
  <2>1. /\ pc' = "copy" /\ left' = files[cmd.src].blocks /\ UNCHANGED outcome
        /\ files' = [files EXCEPT ![cmd.dst] = File("other", <<>>, FALSE)]
    BY <1>6 DEF Keep
  <2>2. FilesTrue'
    BY <1>1, <1>3, <2>1, OpenedTrue
  <2>3. TrueManifests(left', original)
    BY <1>3, <2>1 DEF TruthInv, FilesTrue
  <2>4. Gathered' /\ Passing' /\ Answered'
    BY <1>1, <1>2, <2>1, <2>3 DEF Gathered, Passing, Answered
  <2> QED BY <1>4, <2>2, <2>4 DEF TruthInv
<1> QED BY <1>5, <1>6

\* The output with its manifest.
LEMMA EnrichedTrue ==
    ASSUME EnrichInv, TruthInv, pc = "render", ManifestAccepted(rows)
    PROVE  IsSeq(Enriched) /\ TrueManifests(Enriched, original) /\ Complete(Enriched, original)
<1> DEFINE f == files[cmd.src]
           m == Manifest(rows)
           e == Len(f.blocks)
           s == Enriched
<1>1. Accepted(f)
  BY DEF EnrichInv, Shape
<1>2. IsSeq(f.blocks) /\ IsSeq(captured.blocks) /\ Whole(f.blocks) /\ TrueManifests(f.blocks, original)
  BY <1>1, SourceIs DEF TruthInv, FilesTrue
<1>3. /\ m.type = "ModuleBuildIdManifest"
      /\ \A row \in RowsIn(m.payload) : TrueRow(row, original)
      /\ \A x \in ToSet(original.modules) : Due(x, original) => \E row \in RowsIn(m.payload) : row.base = x.base
  BY ManifestFacts DEF TruthInv, Gathered
<1>4. s = Front(Yielded(f)) \o <<m, EndOfCapture>>
  BY DEF Enriched, Manifest
<1> HIDE DEF f, m, s
<1>5. /\ IsSeq(s) /\ Len(s) = e + 1
      /\ \A i \in 1 .. e - 1 : s[i] = f.blocks[i]
      /\ s[e] = m /\ s[e + 1].type = "EndOfCapture"
  BY <1>2, <1>3, <1>4, EnrichedWhole
<1>6. e \in Nat /\ e # 0
  <2>1. Len(captured.blocks) \in 1 .. e
    BY <1>2, WholeIs, Zenon
  <2>2. e \in Nat
    BY <1>2, SeqDomain
  <2> QED BY <2>1, <2>2
<1> HIDE DEF e
<1>7. TrueManifests(s, original)
  <2> SUFFICES ASSUME NEW i \in 1 .. Len(s), s[i].type = "ModuleBuildIdManifest"
               PROVE  \A row \in RowsIn(s[i].payload) : TrueRow(row, original)
    BY DEF TrueManifests
  <2>1. CASE i \in 1 .. e - 1
    <3>1. i \in 1 .. e /\ s[i] = f.blocks[i]
      BY <1>5, <1>6, <2>1
    <3> QED BY <1>2, <3>1 DEF TrueManifests, e
  <2>2. CASE i = e
    BY <1>3, <1>5, <2>2
  <2>3. CASE i = e + 1
    BY <1>5, <2>3
  <2>4. i \in 1 .. e - 1 \/ i = e \/ i = e + 1
    BY <1>5, <1>6
  <2> QED BY <2>1, <2>2, <2>3, <2>4
<1>8. Complete(s, original)
  <2>1. e \in 1 .. Len(s)
    BY <1>5, <1>6
  <2> QED BY <1>3, <1>5, <2>1 DEF Complete
<1> QED BY <1>5, <1>7, <1>8 DEF s

LEMMA RenderTruth == ASSUME EnrichInv, TruthInv, Render PROVE TruthInv'
<1>1. pc = "render" /\ UNCHANGED <<original, captured, cmd, rows>>
  BY DEF Render
<1>2. /\ RowsTrue(rows, original) /\ Covers(rows, original)
      /\ outcome \notin {"enriched", "copied", "nothing"}
  BY <1>1 DEF TruthInv, Gathered, Answered
<1>3. cmd \in Commands /\ cmd.dst \in Paths /\ DOMAIN files = Paths
  BY CommandIs DEF EnrichInv, Shape
<1>4. Origin'
  BY <1>1 DEF TruthInv, Origin
<1>5. CASE ~ManifestAccepted(rows)
  <2>1. pc' = "idle" /\ outcome' = "raised" /\ UNCHANGED files
    BY <1>5 DEF Render
  <2>2. FilesTrue'
    BY <1>1, <2>1 DEF TruthInv, FilesTrue
  <2>3. Gathered' /\ Passing' /\ Answered'
    BY <2>1 DEF Gathered, Passing, Answered
  <2> QED BY <1>4, <2>2, <2>3 DEF TruthInv
<1>6. CASE ManifestAccepted(rows)
  <2>1. /\ pc' = "copy" /\ left' = Enriched /\ UNCHANGED outcome
        /\ files' = [files EXCEPT ![cmd.dst] = File("other", <<>>, FALSE)]
    BY <1>6 DEF Render
  <2>2. FilesTrue' /\ files'[cmd.dst].blocks = <<>>
    BY <1>1, <1>3, <2>1, OpenedTrue
  <2>3. IsSeq(left') /\ TrueManifests(left', original) /\ Complete(left', original)
    BY <1>1, <1>6, <2>1, EnrichedTrue
  <2>4. files'[cmd.dst].blocks \o left' = left'
    BY <2>2, <2>3, ConcatEmptySeq DEF IsSeq
  <2>5. Complete(files'[cmd'.dst].blocks \o left', original')
    BY <1>1, <2>3, <2>4
  <2>6. Gathered' /\ Passing' /\ Answered'
    BY <1>1, <1>2, <2>1, <2>3, <2>5 DEF Gathered, Passing, Answered
  <2> QED BY <1>4, <2>2, <2>6 DEF TruthInv
<1> QED BY <1>5, <1>6

LEMMA CopyTruth == ASSUME EnrichInv, TruthInv, Copy PROVE TruthInv'
<1> DEFINE b == files[cmd.dst].blocks
           c == Append(b, Head(left))
<1>1. /\ pc = "copy" /\ pc' = "copy" /\ left # <<>> /\ left' = Tail(left)
      /\ files' = [files EXCEPT ![cmd.dst] = File("clear", c, FALSE)]
      /\ UNCHANGED <<original, captured, cmd, rows, outcome>>
  BY DEF Copy
<1>2. cmd \in Commands /\ cmd.dst \in Paths /\ DOMAIN files = Paths /\ IsSeq(b) /\ IsSeq(left)
  BY <1>1, CommandIs DEF EnrichInv, Shape, Copying
<1>3. /\ TrueManifests(b, original) /\ TrueManifests(left, original)
      /\ rows = <<>> \/ Complete(b \o left, original)
      /\ RowsTrue(rows, original) /\ Covers(rows, original)
      /\ outcome \notin {"enriched", "copied", "nothing"}
  BY <1>1, <1>2 DEF TruthInv, FilesTrue, Passing, Gathered, Answered
<1>4. IsSeq(c) /\ IsSeq(left') /\ c \o left' = b \o left
  BY <1>1, <1>2, HandOver
<1>5. Len(c) = Len(b) + 1 /\ c[Len(b) + 1] = Head(left) /\ \A i \in 1 .. Len(b) : c[i] = b[i]
  BY <1>2, AppendFacts
<1> HIDE DEF b, c
<1>6. Len(left) \in Nat /\ Len(left) # 0 /\ Len(b) \in Nat
  BY <1>1, <1>2, EmptyFacts, SeqDomain DEF IsSeq
<1>7. Head(left) = left[1] /\ Len(left') = Len(left) - 1 /\ \A i \in 1 .. Len(left) - 1 : left'[i] = left[i + 1]
  BY <1>1, <1>2, <1>6, HeadTailProperties DEF IsSeq
<1>8. TrueManifests(c, original)
  <2>1. \A i \in 1 .. Len(c) : i \in 1 .. Len(b) \/ i = Len(b) + 1
    BY <1>5, <1>6
  <2>2. 1 \in 1 .. Len(left)
    BY <1>6
  <2> QED BY <1>3, <1>5, <1>7, <2>1, <2>2 DEF TrueManifests
<1>9. TrueManifests(left', original)
  <2>1. \A i \in 1 .. Len(left) - 1 : i + 1 \in 1 .. Len(left)
    BY <1>6
  <2> QED BY <1>3, <1>7, <2>1 DEF TrueManifests
<1>10. files'[cmd.dst].blocks = c /\ \A p \in Paths : p # cmd.dst => files'[p] = files[p]
  BY <1>1, <1>2 DEF File
<1>11. FilesTrue'
  BY <1>1, <1>8, <1>10 DEF TruthInv, FilesTrue
<1>12. rows' = <<>> \/ Complete(files'[cmd'.dst].blocks \o left', original')
  BY <1>1, <1>3, <1>4, <1>10
<1>13. Origin'
  BY <1>1 DEF TruthInv, Origin
<1>14. Gathered' /\ Passing' /\ Answered'
  BY <1>1, <1>3, <1>9, <1>12 DEF Gathered, Passing, Answered
<1> QED BY <1>11, <1>13, <1>14 DEF TruthInv

LEMMA FinishTruth == ASSUME EnrichInv, TruthInv, Finish PROVE TruthInv'
<1> DEFINE f == files[cmd.dst]
<1>1. /\ pc = "copy" /\ pc' = "idle" /\ left = <<>>
      /\ files' = IF cmd.inPlace
                  THEN [files EXCEPT ![cmd.src] = f, ![cmd.dst] = Missing] ELSE files
      /\ UNCHANGED <<original, captured, cmd, rows>>
  BY DEF Finish
<1>2. /\ cmd \in Commands /\ cmd.dst \in Paths /\ cmd.src \in Paths /\ cmd.src # cmd.dst /\ DOMAIN files = Paths
  BY CommandIs DEF EnrichInv, Shape
<1>3. Accepted(f) /\ f.blocks \o left = f.blocks
  BY <1>1, FinishedIsSlice
<1>4. TrueManifests(f.blocks, original) /\ Covers(rows, original) /\ (rows = <<>> \/ Complete(f.blocks, original))
  BY <1>1, <1>2, <1>3 DEF TruthInv, FilesTrue, Passing, Gathered
<1> HIDE DEF f
<1>5. files'[Output] = f /\ Output' = Output
  BY <1>1, <1>2 DEF Output, f
<1>6. \A p \in Paths : files'[p] = files[p] \/ files'[p] = f \/ files'[p] = Missing
  BY <1>1, <1>2
<1>7. Missing.blocks = <<>>
  BY DEF Missing, File
<1>8. FilesTrue'
  BY <1>1, <1>4, <1>6, <1>7, NoManifests DEF TruthInv, FilesTrue
<1>9. Answered'
  <2>1. Covers(<<>>, original) \/ Complete(f.blocks, original)
    BY <1>4
  <2>2. Accepted(files'[Output'])
    BY <1>3, <1>5
  <2>3. Accepted(files[Output])'
    BY <2>2 DEF Accepted, Raises, EndAt
  <2>4. Covers(<<>>, original') \/ Complete(files'[Output'].blocks, original')
    BY <1>1, <1>5, <2>1
  <2> QED BY <1>1, <2>3, <2>4 DEF Answered
<1>10. Origin' /\ Gathered' /\ Passing'
  BY <1>1 DEF TruthInv, Origin, Gathered, Passing
<1> QED BY <1>8, <1>9, <1>10 DEF TruthInv

LEMMA BreakTruth == ASSUME EnrichInv, TruthInv, Break PROVE TruthInv'
<1> DEFINE b == files[cmd.dst].blocks
<1>1. pc' = "idle" /\ outcome' = "broken" /\ UNCHANGED <<original, captured, cmd>>
  BY DEF Break
<1>2. cmd \in Commands /\ cmd.dst \in Paths /\ DOMAIN files = Paths /\ IsSeq(b)
  BY CommandIs DEF EnrichInv, Shape
<1>3. FilesTrue'
  <2>1. CASE pc # "copy"
    <3>1. UNCHANGED files
      BY <2>1 DEF Break
    <3> QED BY <1>1, <3>1 DEF TruthInv, FilesTrue
  <2>2. CASE pc = "copy"
    <3>1. PICK k \in 0 .. Len(b), torn \in BOOLEAN :
             files' = [files EXCEPT ![cmd.dst] = File(files[cmd.dst].kind, SubSeq(b, 1, k), torn)]
      BY <1>2, <2>2 DEF Break
    <3> DEFINE c == SubSeq(b, 1, k)
    <3>2. files'[cmd.dst].blocks = c /\ \A p \in Paths : p # cmd.dst => files'[p] = files[p]
      BY <1>2, <3>1 DEF File
    <3>3. TrueManifests(b, original)
      BY <1>2 DEF TruthInv, FilesTrue
    <3> HIDE DEF b
    <3>4. Len(c) = k /\ \A i \in 1 .. k : c[i] = b[i]
      BY <1>2, <3>1, PrefixIsSeq
    <3>5. \A i \in 1 .. k : i \in 1 .. Len(b)
      BY <1>2, <3>1, SeqDomain
    <3> HIDE DEF c
    <3>6. TrueManifests(c, original)
      BY <3>3, <3>4, <3>5 DEF TrueManifests
    <3> QED BY <1>1, <3>2, <3>6 DEF TruthInv, FilesTrue
  <2> QED BY <2>1, <2>2
<1>4. Origin' /\ Gathered' /\ Passing' /\ Answered'
  BY <1>1 DEF TruthInv, Origin, Gathered, Passing, Answered
<1> QED BY <1>3, <1>4 DEF TruthInv

LEMMA StutterTruth == ASSUME TruthInv, UNCHANGED enrichVars PROVE TruthInv'
<1>1. Origin' /\ FilesTrue' /\ Gathered'
  BY DEF TruthInv, Origin, FilesTrue, Gathered, enrichVars
<1>2. Passing'
  BY DEF TruthInv, Passing, enrichVars
<1>3. Answered'
  BY DEF TruthInv, Answered, Output, Accepted, Raises, EndAt, enrichVars
<1> QED BY <1>1, <1>2, <1>3 DEF TruthInv

LEMMA TruthKept == ASSUME EnrichInv, TruthInv, [Next]_enrichVars PROVE TruthInv'
  BY StutterTruth, InvokeTruth, RefuseTruth, LoadTruth, PopulateTruth, KeepTruth, RenderTruth, CopyTruth,
     FinishTruth, BreakTruth DEF Next

LEMMA RowsFollow == ASSUME EnrichInv, TruthInv PROVE RowsAreTrue
<1> SUFFICES ASSUME NEW p \in Paths, Accepted(files[p]), NEW t \in ToSet(ManifestsIn(files[p])),
                    NEW row \in RowsIn(t)
             PROVE  /\ \E i \in DOMAIN original.modules :
                          /\ original.modules[i].base = row.base
                          /\ original.modules[i].live = 0 \/ Images[original.modules[i].live].len < 64
                    /\ row.hash \in PagesAt(row.base) /\ row.id \in IdsOf(row.hash)
  BY DEF RowsAreTrue
<1> DEFINE f == files[p]
           ts == Payloads(f, "ModuleBuildIdManifest")
           y == Yielded(f)
<1>1. IsSeq(f.blocks) /\ IsSeq(captured.blocks) /\ Whole(f.blocks) /\ TrueManifests(f.blocks, original)
  BY DEF EnrichInv, Shape, AcceptedIsWhole, TruthInv, FilesTrue
<1>2. t \in ToSet(ts)
  BY DEF ManifestsIn
<1> HIDE DEF f
<1>3. IsSeq(y) /\ Len(y) = Len(f.blocks) /\ \A i \in 1 .. Len(f.blocks) : y[i] = f.blocks[i]
  BY <1>1, YieldedAll
<1>4. PayloadsOf(ts, y, "ModuleBuildIdManifest")
  BY <1>3, PayloadsAre
<1> HIDE DEF y, ts
<1>5. PICK k \in 1 .. Len(ts) : ts[k] = t
  BY <1>2, <1>4, SetOf DEF PayloadsOf
<1>6. PICK a \in 1 .. Len(y) : y[a].type = "ModuleBuildIdManifest" /\ y[a].payload = t
  BY <1>4, <1>5 DEF PayloadsOf
<1>7. TrueRow(row, original)
  BY <1>1, <1>3, <1>6 DEF TrueManifests
<1>8. PICK m \in ToSet(original.modules) : m.base = row.base /\ Stub(m)
  BY <1>7 DEF TrueRow
<1>9. PICK i \in DOMAIN original.modules : original.modules[i] = m
  BY DEF ToSet
<1>10. PagesAt(row.base) = PagesOf(row.base, original)
  BY DEF PagesAt, PagesOf
<1> QED BY <1>7, <1>8, <1>9, <1>10 DEF TrueRow, Stub

LEMMA CompletenessFollows == ASSUME EnrichInv, TruthInv PROVE EnrichedIsComplete
<1> DEFINE f == files[Output]
           ts == Payloads(f, "ModuleBuildIdManifest")
           y == Yielded(f)
<1> SUFFICES ASSUME outcome \in {"enriched", "copied", "nothing"}, NEW i \in DOMAIN original.modules,
                    original.modules[i].live = 0, NEW page \in PagesAt(original.modules[i].base),
                    PagesAt(original.modules[i].base) = {page}, Readable(page)
             PROVE  \E t \in ToSet(ManifestsIn(f)) : \E row \in RowsIn(t) : row.base = original.modules[i].base
  BY DEF EnrichedIsComplete, Output
<1> DEFINE m == original.modules[i]
<1>1. m \in ToSet(original.modules)
  BY DEF ToSet
<1>2. PagesAt(m.base) = PagesOf(m.base, original)
  BY DEF PagesAt, PagesOf
<1>3. Due(m, original)
  BY <1>2 DEF Due
<1> HIDE DEF m
<1>4. ~Covers(<<>>, original)
  <2>1. 1 .. Len(<<>>) = {}
    OBVIOUS
  <2> QED BY <1>1, <1>3, <2>1 DEF Covers
<1>5. Accepted(f) /\ Complete(f.blocks, original)
  BY <1>4 DEF TruthInv, Answered
<1>6. IsSeq(f.blocks) /\ IsSeq(captured.blocks) /\ Whole(f.blocks)
  BY <1>5, CommandIs DEF EnrichInv, Shape, AcceptedIsWhole, Output
<1> HIDE DEF f
<1>7. IsSeq(y) /\ Len(y) = Len(f.blocks) /\ \A k \in 1 .. Len(f.blocks) : y[k] = f.blocks[k]
  BY <1>6, YieldedAll
<1>8. PayloadsOf(ts, y, "ModuleBuildIdManifest")
  BY <1>7, PayloadsAre
<1>9. PICK a \in 1 .. Len(f.blocks) :
        /\ f.blocks[a].type = "ModuleBuildIdManifest"
        /\ \A x \in ToSet(original.modules) : Due(x, original) =>
              \E row \in RowsIn(f.blocks[a].payload) : row.base = x.base
  BY <1>5 DEF Complete
<1> HIDE DEF y
<1>10. ts = ManifestsIn(f)
  BY DEF ManifestsIn
<1> HIDE DEF ts
<1>14. a \in 1 .. Len(y) /\ y[a].type = "ModuleBuildIdManifest" /\ y[a].payload = f.blocks[a].payload
  BY <1>7, <1>9
<1>11. PICK k \in 1 .. Len(ts) : ts[k] = f.blocks[a].payload
  BY <1>8, <1>14 DEF PayloadsOf
<1>12. ts[k] \in ToSet(ts)
  BY <1>8, SetOf DEF PayloadsOf
<1>13. \E row \in RowsIn(ts[k]) : row.base = m.base
  BY <1>1, <1>3, <1>9, <1>11
<1> QED BY <1>10, <1>12, <1>13 DEF m
------------------------------------------------------------------------------
(* What holds of the files                                                   *)

\* What is in the files, and what is on its way into the output
\* (_write_enriched, shutil.copyfile, os.replace in main).
THEOREM EnrichInvariant == Spec => []EnrichInv
  BY InitEnrich, EnrichKept, PTL DEF Spec

\* At every moment the slice is the one that was captured, or holds all its
\* blocks in their order with manifests behind them, whichever run was killed
\* or failed (main, --in-place).
THEOREM EnrichSliceKept == Spec => []SliceKept
<1>1. EnrichInv => SliceKept
  BY DEF EnrichInv, SliceStands, AcceptedIsWhole, SliceKept, Paths
<1> QED
  BY <1>1, EnrichInvariant, PTL

\* What _load_slice accepts, a copy that was cut short included, holds all that
\* was captured; a file that it refuses is the output of a run that is under
\* way or was killed or could not write.
THEOREM EnrichFilesAreWholeOrDebris == Spec => []FilesAreWholeOrDebris
<1>1. EnrichInv => FilesAreWholeOrDebris
  BY DEF EnrichInv, FilesAreWholeOrDebris
<1> QED
  BY <1>1, EnrichInvariant, PTL

\* What main has gathered and written, given the invariant of the files.
THEOREM EnrichTruthInvariant == Spec => [](EnrichInv /\ TruthInv)
<1>1. Init => EnrichInv /\ TruthInv
  BY InitEnrich, InitTruth
<1>2. EnrichInv /\ TruthInv /\ [Next]_enrichVars => EnrichInv' /\ TruthInv'
  BY EnrichKept, TruthKept
<1> QED
  BY <1>1, <1>2, PTL DEF Spec

\* A row of a manifest, in any file that passes for a slice, names a module the
\* acquisition could not read, and the build id and the hash of one page that
\* was captured at its address; a run that ended by itself left out no module
\* whose only page can be read (populate_from_regions, _build_manifest_rows,
\* write_module_build_id_manifest).
THEOREM EnrichManifestIsTrue == Spec => []ManifestIsTrue
<1>1. EnrichInv /\ TruthInv => ManifestIsTrue
  BY RowsFollow, CompletenessFollows DEF ManifestIsTrue
<1> QED
  BY <1>1, EnrichTruthInvariant, PTL
==============================================================================

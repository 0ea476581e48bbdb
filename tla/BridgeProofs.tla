----------------------------- MODULE BridgeProofs -----------------------------
(***************************************************************************)
(* What can be relied on when memory is read through a bridge.             *)
(*                                                                         *)
(* RegionRead: for every region size, chunk size, readability, failure and *)
(* moment of abort, a bridge that answers all or nothing gives a slice     *)
(* whose Captured pages reload with their own content.  The invariant      *)
(* behind it: the pages in page_data_chunks are exactly the pages marked   *)
(* CAPTURED, in increasing order.  Then the c-th element of the data       *)
(* belongs to the c-th Captured page, which is what the loader, counting   *)
(* Captured pages, takes it for.                                           *)
(*                                                                         *)
(* GdbMi: for sessions of any length, any number of asynchronous records,  *)
(* under timeouts and a GDB that dies, an answer is as many commands       *)
(* behind as commands have timed out before it, and no further.  The       *)
(* invariant behind it: the result records in the queue, in the pipe and   *)
(* still to be made carry consecutive numbers, from the first that no      *)
(* command has taken to the last command sent.                             *)
(***************************************************************************)
EXTENDS RegionRead, GdbMi, FiniteSetTheorems, SequenceTheorems, TLAPS

\* d lists the pages that sts, a state map beginning at page lo, calls
\* CAPTURED, each once and in increasing order.
Enumerates(d, sts, lo) ==
    /\ \A i \in 1 .. Len(d) :
          d[i] >= lo /\ d[i] - lo + 1 \in 1 .. Len(sts) /\ sts[d[i] - lo + 1] = CAPTURED
    /\ \A i, j \in 1 .. Len(d) : i < j => d[i] < d[j]
    /\ \A k \in 1 .. Len(sts) :
          sts[k] = CAPTURED => \E i \in 1 .. Len(d) : d[i] = lo + k - 1

OnlyReadable ==
    /\ \A i \in 1 .. Len(data) : data[i] \in readable
    /\ \A i \in 1 .. Len(fbData) : fbData[i] \in readable

\* Where the three loops are, and what is not touched yet.
Progress ==
    /\ pc = "start" => offset = 0 /\ states = <<>> /\ data = <<>>
    /\ pc # "pages" => fbStates = <<>> /\ fbData = <<>>
    /\ pc = "pages" /\ NumPages <= MaxChunk =>
          offset = 0 /\ count = NumPages /\ states = <<>> /\ data = <<>>
    /\ pc = "pages" /\ NumPages > MaxChunk =>
          offset < NumPages /\ count = ChunkSize
    /\ pc = "chunks" => NumPages > MaxChunk
    /\ reading => \/ pc = "chunks" /\ offset < NumPages
                  \/ pc = "pages" /\ Len(fbStates) < count
    /\ pc \in {"chunks", "built", "loading", "loaded"} => Len(states) = NumPages
    /\ pc = "pages" /\ NumPages > MaxChunk => Len(states) = NumPages
    /\ pc # "refused"

\* The chunk loop has not touched the pages from offset on.
AheadUntouched ==
    pc \in {"chunks", "pages"} =>
        /\ \A i \in 1 .. Len(data) : data[i] < offset
        /\ \A k \in 1 .. Len(states) : k > offset => states[k] = FAILED

\* The loader has used up the data of exactly the pages it has passed.
LoaderInv ==
    /\ pc \notin {"loading", "loaded"} => next = 0 /\ captured = 0 /\ DOMAIN loaded = {}
    /\ captured <= Len(data) /\ captured <= next
    /\ \A i \in 1 .. Len(data) : data[i] < next <=> i <= captured
    /\ \A p \in DOMAIN loaded : loaded[p] = p /\ p \in readable /\ p < next

IInv ==
    /\ TypeOK
    /\ OnlyReadable
    /\ Enumerates(data, states, 0)
    /\ Enumerates(fbData, fbStates, offset)
    /\ Progress
    /\ AheadUntouched
    /\ LoaderInv

------------------------------------------------------------------------------
(* Facts about the sequences the model is built from                         *)

\* What a read of n pages returns.
LEMMA RunProps ==
    ASSUME NEW a \in Nat, NEW n \in Nat
    PROVE  /\ Run(a, n) \in Seq(Nat)
           /\ Len(Run(a, n)) = n
           /\ \A k \in 1 .. n : Run(a, n)[k] = a + k - 1
           /\ a + n <= NumPages => Run(a, n) \in Seq(Pages)
<1>1. Run(a, n) \in [1 .. n -> Nat]
  BY DEF Run
<1>2. a + n <= NumPages => Run(a, n) \in [1 .. n -> Pages]
  BY RegionAssumption DEF Run, Pages
<1>3. Run(a, n) \in Seq(Nat) /\ (a + n <= NumPages => Run(a, n) \in Seq(Pages))
  BY <1>1, <1>2, SeqDef
<1>4. DOMAIN Run(a, n) = 1 .. n
  BY DEF Run
<1>5. Len(Run(a, n)) = n
  BY <1>3, <1>4, LenProperties
<1>6. QED
  BY <1>3, <1>5 DEF Run

\* A state map of n equal states.
LEMMA RepeatProps ==
    ASSUME NEW x \in States, NEW n \in Nat
    PROVE  /\ Repeat(x, n) \in Seq(States)
           /\ Len(Repeat(x, n)) = n
           /\ \A k \in 1 .. n : Repeat(x, n)[k] = x
<1>1. Repeat(x, n) \in [1 .. n -> States]
  BY DEF Repeat
<1>2. Repeat(x, n) \in Seq(States)
  BY <1>1, SeqDef
<1>3. Len(Repeat(x, n)) = n
  BY <1>2, LenProperties DEF Repeat
<1>4. QED
  BY <1>2, <1>3 DEF Repeat

\* A state map rewritten pointwise keeps its length.
LEMMA RemapProps ==
    ASSUME NEW s \in Seq(States), NEW t \in [DOMAIN s -> States]
    PROVE  t \in Seq(States) /\ Len(t) = Len(s)
<1>1. Len(s) \in Nat /\ DOMAIN s = 1 .. Len(s)
  BY LenProperties
<1>2. t \in Seq(States)
  BY <1>1, SeqDef
<1>3. QED
  BY <1>1, <1>2, LenProperties

LEMMA ChunkSizeProps ==
    ASSUME offset \in 0 .. NumPages, offset < NumPages
    PROVE  /\ ChunkSize \in 1 .. NumPages
           /\ offset + ChunkSize <= NumPages
BY RegionAssumption DEF ChunkSize, MinOf

------------------------------------------------------------------------------
(* The invariant                                                             *)

LEMMA InitInv == Init => IInv
<1> SUFFICES ASSUME Init PROVE IInv
  OBVIOUS
<1>1. Len(<<>>) = 0 /\ <<>> \in Seq(States) /\ <<>> \in Seq(Pages)
  BY EmptySeq
<1>2. TypeOK
  <2>1. 0 \in 0 .. NumPages
    BY RegionAssumption
  <2>2. /\ readable \in SUBSET Pages /\ abort \in BOOLEAN /\ reading \in BOOLEAN
        /\ glitched \in BOOLEAN /\ late \in Nat /\ pc = "start"
    BY DEF Init
  <2>3. /\ offset \in 0 .. NumPages /\ count \in 0 .. NumPages
        /\ next \in 0 .. NumPages /\ captured \in 0 .. NumPages
    BY <2>1 DEF Init
  <2>4. fbStates \in Seq(States) /\ states \in Seq(States)
    BY <1>1 DEF Init
  <2>5. fbData \in Seq(Pages) /\ data \in Seq(Pages)
    BY <1>1 DEF Init
  <2>6. Len(fbStates) <= count
    BY <1>1 DEF Init
  <2>7. DOMAIN loaded = {}
    BY DEF Init
  <2>8. QED
    BY <2>2, <2>3, <2>4, <2>5, <2>6, <2>7 DEF TypeOK
<1>3. QED
  BY <1>1, <1>2, RegionAssumption
  DEF Init, IInv, OnlyReadable, Enumerates, Progress, AheadUntouched, LoaderInv

\* What TypeOK says of the sequences, in the form the steps below use.
LEMMA SeqFacts ==
    ASSUME TypeOK
    PROVE  /\ Len(data) \in Nat /\ Len(fbData) \in Nat
           /\ Len(states) \in Nat /\ Len(fbStates) \in Nat
           /\ \A i \in 1 .. Len(data) : data[i] \in Pages
           /\ \A i \in 1 .. Len(fbData) : fbData[i] \in Pages
           /\ \A k \in 1 .. Len(states) : states[k] \in States
           /\ \A k \in 1 .. Len(fbStates) : fbStates[k] \in States
           /\ DOMAIN data = 1 .. Len(data) /\ DOMAIN states = 1 .. Len(states)
           /\ DOMAIN fbStates = 1 .. Len(fbStates)
<1>1. data \in Seq(Pages) /\ fbData \in Seq(Pages)
      /\ states \in Seq(States) /\ fbStates \in Seq(States)
  BY DEF TypeOK
<1>2. /\ Len(data) \in Nat /\ data \in [1 .. Len(data) -> Pages]
      /\ DOMAIN data = 1 .. Len(data)
  BY <1>1, LenProperties
<1>3. Len(fbData) \in Nat /\ fbData \in [1 .. Len(fbData) -> Pages]
  BY <1>1, LenProperties
<1>4. /\ Len(states) \in Nat /\ states \in [1 .. Len(states) -> States]
      /\ DOMAIN states = 1 .. Len(states)
  BY <1>1, LenProperties
<1>5. /\ Len(fbStates) \in Nat /\ fbStates \in [1 .. Len(fbStates) -> States]
      /\ DOMAIN fbStates = 1 .. Len(fbStates)
  BY <1>1, LenProperties
<1>6. QED
  BY <1>2, <1>3, <1>4, <1>5

\* A bridge that answers all or nothing: the only answer is the whole range,
\* and then all of it could be read.
LEMMA WholeAnswers ==
    ASSUME ~FirstBlockOnly, NEW a \in Nat, NEW n \in Nat, NEW got \in Answers(a, n)
    PROVE  got = Run(a, n) /\ \A p \in a .. a + n - 1 : p \in readable
BY DEF Answers, AllReadable

------------------------------------------------------------------------------
(* How an enumeration grows                                                  *)

\* A range read as a whole, and its pages all marked CAPTURED.
LEMMA EnumeratesRun ==
    ASSUME NEW a \in Nat, NEW n \in Nat
    PROVE  Enumerates(Run(a, n), Repeat(CAPTURED, n), a)
<1>1. CAPTURED \in States
  BY DEF States
<1>2. Len(Run(a, n)) = n /\ \A k \in 1 .. n : Run(a, n)[k] = a + k - 1
  BY RunProps
<1>3. Len(Repeat(CAPTURED, n)) = n /\ \A k \in 1 .. n : Repeat(CAPTURED, n)[k] = CAPTURED
  BY <1>1, RepeatProps
<1>4. QED
  BY <1>2, <1>3 DEF Enumerates

\* More FAILED pages at the end of the state map ask for no data.
LEMMA EnumeratesFailed ==
    ASSUME NEW d \in Seq(Nat), NEW s \in Seq(States), NEW lo \in Nat,
           NEW t \in Seq(States), Len(t) >= Len(s),
           \A k \in 1 .. Len(s) : t[k] = s[k],
           \A k \in 1 .. Len(t) : k > Len(s) => t[k] = FAILED,
           Enumerates(d, s, lo)
    PROVE  Enumerates(d, t, lo)
<1>1. Len(d) \in Nat /\ Len(s) \in Nat /\ Len(t) \in Nat /\ \A i \in 1 .. Len(d) : d[i] \in Nat
  BY LenProperties
<1>2. FAILED # CAPTURED
  BY DEF FAILED, CAPTURED
<1>3. ASSUME NEW i \in 1 .. Len(d)
      PROVE  d[i] >= lo /\ d[i] - lo + 1 \in 1 .. Len(t)
  BY <1>1 DEF Enumerates
<1>4. ASSUME NEW i \in 1 .. Len(d)
      PROVE  t[d[i] - lo + 1] = CAPTURED
  BY <1>1 DEF Enumerates
<1>5. \A i, j \in 1 .. Len(d) : i < j => d[i] < d[j]
  BY DEF Enumerates
<1>6. ASSUME NEW k \in 1 .. Len(t), t[k] = CAPTURED
      PROVE  \E i \in 1 .. Len(d) : d[i] = lo + k - 1
  <2>1. k \in 1 .. Len(s) /\ s[k] = CAPTURED
    BY <1>1, <1>2, <1>6
  <2>2. QED
    BY <1>1, <2>1 DEF Enumerates
<1>7. QED
  BY <1>3, <1>4, <1>5, <1>6 DEF Enumerates

\* One more page, read: its number goes behind the data.
LEMMA EnumeratesPush ==
    ASSUME NEW d \in Seq(Nat), NEW s \in Seq(States), NEW lo \in Nat,
           Enumerates(d, s, lo)
    PROVE  Enumerates(d \o Run(lo + Len(s), 1), Append(s, CAPTURED), lo)
<1> DEFINE f == Run(lo + Len(s), 1)
<1> DEFINE e == d \o f
<1> DEFINE t == Append(s, CAPTURED)
<1>1. Len(d) \in Nat /\ Len(s) \in Nat /\ \A i \in 1 .. Len(d) : d[i] \in Nat
  BY LenProperties
<1>2. CAPTURED \in States
  BY DEF States
<1>3. /\ Len(t) = Len(s) + 1 /\ t[Len(s) + 1] = CAPTURED
      /\ \A k \in 1 .. Len(s) : t[k] = s[k]
  BY <1>2, AppendProperties
<1>4. f \in Seq(Nat) /\ Len(f) = 1 /\ f[1] = lo + Len(s)
  <2>1. lo + Len(s) \in Nat /\ 1 \in Nat
    BY <1>1
  <2>2. f \in Seq(Nat) /\ Len(f) = 1 /\ \A k \in 1 .. 1 : f[k] = lo + Len(s) + k - 1
    BY <2>1, RunProps
  <2>3. QED
    BY <1>1, <2>2
<1> HIDE DEF f
<1>5. /\ Len(e) = Len(d) + Len(f)
      /\ \A i \in 1 .. Len(d) + Len(f) : e[i] = IF i <= Len(d) THEN d[i] ELSE f[i - Len(d)]
  <2>1. f \in Seq(Nat)
    BY <1>4
  <2>2. QED
    BY <2>1, ConcatProperties
<1> HIDE DEF e, t
<1>6. /\ Len(e) = Len(d) + 1 /\ e[Len(d) + 1] = lo + Len(s)
      /\ \A i \in 1 .. Len(d) : e[i] = d[i]
  <2>1. /\ Len(d) + 1 \in 1 .. Len(d) + Len(f) /\ ~(Len(d) + 1 <= Len(d))
        /\ Len(d) + 1 - Len(d) = 1
    BY <1>1, <1>4
  <2>2. e[Len(d) + 1] = f[1]
    BY <1>5, <2>1
  <2>3. ASSUME NEW i \in 1 .. Len(d)
        PROVE  e[i] = d[i]
    <3>1. i \in 1 .. Len(d) + Len(f) /\ i <= Len(d)
      BY <1>1, <1>4
    <3>2. QED
      BY <1>5, <3>1
  <2>4. QED
    BY <1>4, <1>5, <2>2, <2>3
<1>7. ASSUME NEW i \in 1 .. Len(d)
      PROVE  /\ e[i] = d[i] /\ e[i] \in Nat /\ lo <= e[i] /\ e[i] < lo + Len(s)
             /\ e[i] - lo + 1 \in 1 .. Len(t) /\ t[e[i] - lo + 1] = CAPTURED
  <2>1. e[i] = d[i] /\ d[i] \in Nat
    BY <1>1, <1>6
  <2>2. d[i] >= lo /\ d[i] - lo + 1 \in 1 .. Len(s) /\ s[d[i] - lo + 1] = CAPTURED
    BY DEF Enumerates
  <2>3. d[i] < lo + Len(s)
    BY <1>1, <2>1, <2>2
  <2>4. d[i] - lo + 1 \in 1 .. Len(t) /\ t[d[i] - lo + 1] = CAPTURED
    BY <1>1, <1>3, <2>2
  <2>5. QED
    BY <2>1, <2>2, <2>3, <2>4
<1>8. ASSUME NEW i \in 1 .. Len(e)
      PROVE  e[i] >= lo /\ e[i] - lo + 1 \in 1 .. Len(t) /\ t[e[i] - lo + 1] = CAPTURED
  <2>1. CASE i \in 1 .. Len(d)
    BY <1>1, <1>7, <2>1
  <2>2. CASE i = Len(d) + 1
    <3>1. e[i] = lo + Len(s) /\ e[i] - lo + 1 = Len(s) + 1 /\ e[i] >= lo
      BY <1>1, <1>6, <2>2
    <3>2. QED
      BY <1>1, <1>3, <3>1
  <2>3. QED
    BY <1>1, <1>6, <2>1, <2>2
<1>9. ASSUME NEW i \in 1 .. Len(e), NEW j \in 1 .. Len(e), i < j
      PROVE  e[i] < e[j]
  <2>1. i \in 1 .. Len(d)
    BY <1>1, <1>6, <1>9
  <2>2. CASE j \in 1 .. Len(d)
    <3>1. d[i] < d[j]
      BY <1>9, <2>1, <2>2 DEF Enumerates
    <3>2. QED
      BY <1>7, <2>1, <2>2, <3>1
  <2>3. CASE j = Len(d) + 1
    BY <1>7, <1>6, <2>1, <2>3
  <2>4. QED
    BY <1>1, <1>6, <2>2, <2>3
<1>10. ASSUME NEW k \in 1 .. Len(t), t[k] = CAPTURED
      PROVE  \E i \in 1 .. Len(e) : e[i] = lo + k - 1
  <2>1. CASE k \in 1 .. Len(s)
    <3>1. s[k] = CAPTURED
      BY <1>3, <1>10, <2>1
    <3>2. PICK i \in 1 .. Len(d) : d[i] = lo + k - 1
      BY <2>1, <3>1 DEF Enumerates
    <3>3. i \in 1 .. Len(e) /\ e[i] = d[i]
      BY <1>1, <1>6, <1>7
    <3>4. QED
      BY <3>2, <3>3
  <2>2. CASE k = Len(s) + 1
    <3>1. Len(d) + 1 \in 1 .. Len(e) /\ lo + k - 1 = lo + Len(s)
      BY <1>1, <1>6, <2>2
    <3>2. QED
      BY <1>6, <3>1
  <2>3. QED
    BY <1>1, <1>3, <2>1, <2>2
<1>11. Enumerates(e, t, lo)
  BY <1>8, <1>9, <1>10 DEF Enumerates
<1>12. QED
  BY <1>11 DEF e, t, f

\* t is the state map s with the states g of the pages from `at' on, which d
\* did not reach and s called FAILED; f is the data of those pages.
Merges(d, s, at, f, g, t) ==
    /\ at + Len(g) <= Len(s) /\ Len(t) = Len(s)
    /\ \A k \in 1 .. Len(s) :
          t[k] = IF k - at \in 1 .. Len(g) THEN g[k - at] ELSE s[k]
    /\ \A i \in 1 .. Len(d) : d[i] < at
    /\ \A k \in 1 .. Len(s) : k > at => s[k] = FAILED
    /\ Enumerates(d, s, 0) /\ Enumerates(f, g, at)

\* After a merge the joined data enumerates the merged map, and what lies
\* ahead is untouched.
LEMMA EnumeratesMerge ==
    ASSUME NEW d \in Seq(Nat), NEW s \in Seq(States), NEW at \in Nat,
           NEW f \in Seq(Nat), NEW g \in Seq(States), NEW t \in Seq(States),
           Merges(d, s, at, f, g, t)
    PROVE  /\ Enumerates(d \o f, t, 0)
           /\ \A i \in 1 .. Len(d \o f) : (d \o f)[i] < at + Len(g)
           /\ \A k \in 1 .. Len(t) : k > at + Len(g) => t[k] = FAILED
<1>0. /\ at + Len(g) <= Len(s) /\ Len(t) = Len(s)
      /\ \A k \in 1 .. Len(s) :
            t[k] = IF k - at \in 1 .. Len(g) THEN g[k - at] ELSE s[k]
      /\ \A i \in 1 .. Len(d) : d[i] < at
      /\ \A k \in 1 .. Len(s) : k > at => s[k] = FAILED
      /\ Enumerates(d, s, 0) /\ Enumerates(f, g, at)
  BY DEF Merges
<1> USE <1>0
<1> DEFINE e == d \o f
<1>1. /\ Len(d) \in Nat /\ Len(f) \in Nat /\ Len(s) \in Nat /\ Len(g) \in Nat
      /\ \A i \in 1 .. Len(d) : d[i] \in Nat
      /\ \A i \in 1 .. Len(f) : f[i] \in Nat
  BY LenProperties
<1>2. /\ Len(e) = Len(d) + Len(f)
      /\ \A i \in 1 .. Len(d) + Len(f) : e[i] = IF i <= Len(d) THEN d[i] ELSE f[i - Len(d)]
  BY ConcatProperties
<1>3. FAILED # CAPTURED
  BY DEF FAILED, CAPTURED
<1> HIDE DEF e
<1>4. ASSUME NEW k \in 1 .. Len(s), k <= at
      PROVE  t[k] = s[k]
  BY <1>1, <1>4
<1>5. ASSUME NEW k \in 1 .. Len(g)
      PROVE  at + k \in 1 .. Len(s) /\ t[at + k] = g[k]
  <2>1. at + k \in 1 .. Len(s) /\ (at + k) - at = k
    BY <1>1
  <2>2. QED
    BY <2>1
<1>6. ASSUME NEW i \in 1 .. Len(d)
      PROVE  /\ e[i] = d[i] /\ e[i] \in Nat /\ e[i] < at
             /\ e[i] + 1 \in 1 .. Len(t) /\ t[e[i] + 1] = CAPTURED
  <2>1. e[i] = d[i] /\ d[i] \in Nat /\ d[i] < at
    BY <1>1, <1>2
  <2>2. d[i] - 0 + 1 \in 1 .. Len(s) /\ s[d[i] - 0 + 1] = CAPTURED
    BY DEF Enumerates
  <2>3. d[i] - 0 + 1 = d[i] + 1
    BY <2>1
  <2>4. t[d[i] + 1] = s[d[i] + 1]
    BY <1>1, <1>4, <2>1, <2>2, <2>3
  <2>5. QED
    BY <2>1, <2>2, <2>3, <2>4
<1>7. ASSUME NEW i \in 1 .. Len(f)
      PROVE  /\ Len(d) + i \in 1 .. Len(e)
             /\ e[Len(d) + i] = f[i] /\ f[i] \in Nat /\ at <= f[i] /\ f[i] < at + Len(g)
             /\ f[i] + 1 \in 1 .. Len(t) /\ t[f[i] + 1] = CAPTURED
  <2>1. Len(d) + i \in 1 .. Len(d) + Len(f) /\ ~(Len(d) + i <= Len(d)) /\ Len(d) + i - Len(d) = i
    BY <1>1
  <2>2. e[Len(d) + i] = f[i] /\ f[i] \in Nat
    BY <1>1, <1>2, <2>1
  <2>3. f[i] >= at /\ f[i] - at + 1 \in 1 .. Len(g) /\ g[f[i] - at + 1] = CAPTURED
    BY DEF Enumerates
  <2>4. at + (f[i] - at + 1) = f[i] + 1
    BY <2>2
  <2>5. f[i] + 1 \in 1 .. Len(t) /\ t[f[i] + 1] = CAPTURED
    BY <1>5, <2>3, <2>4
  <2>6. f[i] < at + Len(g)
    <3>1. f[i] \in Nat /\ Len(g) \in Nat /\ at \in Nat /\ f[i] - at + 1 <= Len(g)
      BY <1>1, <2>2, <2>3
    <3>2. QED
      BY <3>1
  <2>7. QED
    BY <1>2, <2>1, <2>2, <2>3, <2>5, <2>6
<1>8. ASSUME NEW i \in 1 .. Len(e)
      PROVE  i \in 1 .. Len(d) \/ (i - Len(d) \in 1 .. Len(f) /\ i = Len(d) + (i - Len(d)))
  BY <1>1, <1>2
<1>9. ASSUME NEW i \in 1 .. Len(e)
      PROVE  e[i] \in Nat /\ e[i] < at + Len(g) /\ e[i] + 1 \in 1 .. Len(t) /\ t[e[i] + 1] = CAPTURED
  <2>1. CASE i \in 1 .. Len(d)
    BY <1>1, <1>6, <2>1
  <2>2. CASE i - Len(d) \in 1 .. Len(f) /\ i = Len(d) + (i - Len(d))
    <3> DEFINE j == i - Len(d)
    <3>1. /\ e[Len(d) + j] = f[j] /\ f[j] \in Nat /\ f[j] < at + Len(g)
          /\ f[j] + 1 \in 1 .. Len(t) /\ t[f[j] + 1] = CAPTURED
      BY <1>7, <2>2
    <3>2. Len(d) + j = i
      BY <2>2
    <3>3. QED
      BY <3>1, <3>2
  <2>3. QED
    BY <1>8, <2>1, <2>2
<1>10. ASSUME NEW i \in 1 .. Len(e), NEW j \in 1 .. Len(e), i < j
       PROVE  e[i] < e[j]
  <2>1. CASE j \in 1 .. Len(d)
    <3>1. i \in 1 .. Len(d)
      BY <1>1, <1>10, <2>1
    <3>2. d[i] < d[j]
      BY <1>10, <2>1, <3>1 DEF Enumerates
    <3>3. QED
      BY <1>6, <2>1, <3>1, <3>2
  <2>2. CASE i \in 1 .. Len(d) /\ j - Len(d) \in 1 .. Len(f) /\ j = Len(d) + (j - Len(d))
    <3>1. e[i] \in Nat /\ e[i] < at
      BY <1>6, <2>2
    <3>2. e[j] = f[j - Len(d)] /\ e[j] \in Nat /\ at <= e[j]
      BY <1>7, <2>2
    <3>3. QED
      BY <3>1, <3>2
  <2>3. CASE /\ i - Len(d) \in 1 .. Len(f) /\ i = Len(d) + (i - Len(d))
             /\ j - Len(d) \in 1 .. Len(f) /\ j = Len(d) + (j - Len(d))
    <3>1. e[i] = f[i - Len(d)] /\ e[j] = f[j - Len(d)]
      BY <1>7, <2>3
    <3>2. i - Len(d) < j - Len(d)
      BY <1>1, <1>10
    <3>3. f[i - Len(d)] < f[j - Len(d)]
      BY <2>3, <3>2 DEF Enumerates
    <3>4. QED
      BY <3>1, <3>3
  <2>4. i \in 1 .. Len(d) \/ j \notin 1 .. Len(d)
    BY <1>1, <1>10
  <2>5. QED
    BY <1>8, <2>1, <2>2, <2>3, <2>4
<1>11. ASSUME NEW k \in 1 .. Len(t), t[k] = CAPTURED
       PROVE  \E i \in 1 .. Len(e) : e[i] = 0 + k - 1
  <2>1. CASE k - at \in 1 .. Len(g)
    <3>1. g[k - at] = CAPTURED
      BY <1>11, <2>1
    <3>2. PICK j \in 1 .. Len(f) : f[j] = at + (k - at) - 1
      BY <2>1, <3>1 DEF Enumerates
    <3>3. at + (k - at) - 1 = 0 + k - 1
      BY <1>1
    <3>4. QED
      BY <1>7, <3>2, <3>3
  <2>2. CASE k - at \notin 1 .. Len(g)
    <3>1. s[k] = CAPTURED
      BY <1>11, <2>2
    <3>2. PICK j \in 1 .. Len(d) : d[j] = 0 + k - 1
      BY <3>1 DEF Enumerates
    <3>3. j \in 1 .. Len(e) /\ e[j] = d[j]
      BY <1>1, <1>2, <1>6
    <3>4. QED
      BY <3>2, <3>3
  <2>3. QED
    BY <2>1, <2>2
<1>12. ASSUME NEW k \in 1 .. Len(t), k > at + Len(g)
       PROVE  t[k] = FAILED
  <2>1. k \in 1 .. Len(s) /\ k > at /\ k - at \notin 1 .. Len(g)
    BY <1>1, <1>12
  <2>2. QED
    BY <2>1
<1>13. ASSUME NEW i \in 1 .. Len(e)
       PROVE  e[i] >= 0 /\ e[i] - 0 + 1 \in 1 .. Len(t) /\ t[e[i] - 0 + 1] = CAPTURED
  <2>1. e[i] \in Nat /\ e[i] - 0 + 1 = e[i] + 1
    BY <1>9
  <2>2. QED
    BY <1>9, <2>1
<1>14. Enumerates(e, t, 0)
  BY <1>10, <1>11, <1>13 DEF Enumerates
<1>15. QED
  BY <1>9, <1>12, <1>14 DEF e

------------------------------------------------------------------------------
(* The invariant is kept                                                     *)

\* The steps that leave the region alone.
LEMMA QuietSteps ==
    ASSUME IInv, RequestAbort \/ BeginChunk \/ LeaveChunks \/ BeginPage \/ UNCHANGED readVars
    PROVE  IInv'
<1>1. /\ readable' = readable /\ glitched' = glitched /\ late' = late /\ offset' = offset
      /\ count' = count /\ fbStates' = fbStates /\ fbData' = fbData
      /\ states' = states /\ data' = data
      /\ next' = next /\ captured' = captured /\ loaded' = loaded
  BY DEF RequestAbort, BeginChunk, LeaveChunks, BeginPage, readVars, callVars, loaderVars
<1>2. /\ abort' \in BOOLEAN /\ reading' \in BOOLEAN
      /\ \/ pc' = pc /\ reading' = reading
         \/ pc = "chunks" /\ offset < NumPages /\ pc' = pc
         \/ pc = "pages" /\ Len(fbStates) < count /\ pc' = pc
         \/ pc = "chunks" /\ pc' = "built" /\ ~reading'
  <2>1. abort \in BOOLEAN /\ reading \in BOOLEAN
    BY DEF IInv, TypeOK
  <2>2. CASE RequestAbort \/ UNCHANGED readVars
    BY <2>1, <2>2 DEF RequestAbort, readVars, callVars
  <2>3. CASE BeginChunk \/ BeginPage
    BY <2>1, <2>3 DEF BeginChunk, BeginPage
  <2>4. CASE LeaveChunks
    BY <2>1, <2>4 DEF LeaveChunks, callVars
  <2> QED
    BY <2>2, <2>3, <2>4
<1>3. TypeOK'
  <2>1. pc' = pc \/ pc' = "built"
    BY <1>2
  <2> QED
    BY <1>1, <1>2, <2>1 DEF IInv, TypeOK
<1>4. OnlyReadable' /\ Enumerates(data, states, 0)' /\ Enumerates(fbData, fbStates, offset)'
  BY <1>1 DEF IInv, OnlyReadable, Enumerates
<1>5. Progress'
  BY <1>1, <1>2 DEF IInv, Progress, ChunkSize
<1>6. AheadUntouched'
  BY <1>1, <1>2 DEF IInv, AheadUntouched
<1>7. LoaderInv'
  BY <1>1, <1>2 DEF IInv, LoaderInv
<1>8. QED
  BY <1>3, <1>4, <1>5, <1>6, <1>7 DEF IInv

\* While the region is still read the loader has not begun.
LEMMA LoaderIdle ==
    ASSUME IInv, TypeOK', UNCHANGED loaderVars,
           pc \notin {"loading", "loaded"}, pc' \notin {"loading", "loaded"}
    PROVE  LoaderInv'
<1>1. next' = 0 /\ captured' = 0 /\ DOMAIN loaded' = {}
  BY DEF IInv, LoaderInv, loaderVars
<1>2. data' \in Seq(Pages)
  BY DEF TypeOK
<1>3. Len(data') \in Nat /\ \A i \in 1 .. Len(data') : data'[i] \in Pages
  BY <1>2, LenProperties
<1>4. ASSUME NEW i \in 1 .. Len(data')
      PROVE  ~(data'[i] < 0) /\ ~(i <= 0)
  <2>1. data'[i] \in Nat
    BY <1>3, RegionAssumption DEF Pages
  <2>2. QED
    BY <1>3, <2>1
<1>5. \A i \in 1 .. Len(data') : data'[i] < next' <=> i <= captured'
  BY <1>1, <1>4
<1>6. captured' <= Len(data') /\ captured' <= next'
  BY <1>1, <1>3
<1>7. QED
  BY <1>1, <1>5, <1>6 DEF LoaderInv

LEMMA ReadWholeInv ==
    ASSUME ~FirstBlockOnly, IInv, ReadWhole
    PROVE  IInv'
<1>1. /\ pc = "start" /\ NumPages <= MaxChunk
      /\ readable' = readable /\ abort' = abort /\ glitched' = glitched
      /\ reading' = FALSE /\ late' \in Nat
      /\ offset' = offset /\ fbStates' = fbStates /\ fbData' = fbData
      /\ UNCHANGED loaderVars
      /\ next' = next /\ captured' = captured /\ loaded' = loaded
  BY DEF ReadWhole, loaderVars, Returns, IInv, TypeOK
<1>2. offset = 0 /\ states = <<>> /\ data = <<>> /\ fbStates = <<>> /\ fbData = <<>>
  BY <1>1 DEF IInv, Progress
<1>3. 0 \in Nat /\ NumPages \in Nat /\ 0 + NumPages <= NumPages
  BY RegionAssumption
<1>4. Len(<<>>) = 0
  BY EmptySeq
<1>5. CASE data' \in Answers(0, NumPages) /\ states' = Repeat(CAPTURED, NumPages)
           /\ pc' = "built" /\ count' = count
  <2>1. data' = Run(0, NumPages) /\ \A p \in 0 .. 0 + NumPages - 1 : p \in readable
    BY <1>3, <1>5, WholeAnswers
  <2>2. /\ data' \in Seq(Pages) /\ Len(data') = NumPages
        /\ \A k \in 1 .. NumPages : data'[k] = 0 + k - 1
    BY <1>3, <2>1, RunProps
  <2>3. CAPTURED \in States
    BY DEF States
  <2>4. states' \in Seq(States) /\ Len(states') = NumPages
    BY <1>3, <1>5, <2>3, RepeatProps
  <2>5. TypeOK'
    BY <1>1, <1>5, <2>2, <2>4 DEF IInv, TypeOK
  <2>6. OnlyReadable'
    <3>1. \A i \in 1 .. Len(data') : data'[i] \in readable'
      BY <1>1, <1>3, <2>1, <2>2
    <3>2. QED
      BY <1>1, <3>1 DEF IInv, OnlyReadable
  <2>7. Enumerates(data, states, 0)'
    BY <1>3, <1>5, <2>1, EnumeratesRun
  <2>8. Enumerates(fbData, fbStates, offset)'
    BY <1>1 DEF IInv
  <2>9. Progress'
    BY <1>1, <1>2, <1>5, <2>4 DEF Progress
  <2>10. AheadUntouched'
    BY <1>5 DEF AheadUntouched
  <2>11. LoaderInv'
    BY <1>1, <1>5, <2>5, LoaderIdle
  <2>12. QED
    BY <2>5, <2>6, <2>7, <2>8, <2>9, <2>10, <2>11 DEF IInv
<1>6. CASE /\ pc' = "pages" /\ count' = NumPages
           /\ states' = states /\ data' = data
  <2>1. TypeOK'
    <3>1. NumPages \in 0 .. NumPages
      BY <1>3
    <3>2. Len(fbStates') <= count'
      BY <1>1, <1>2, <1>3, <1>4, <1>6
    <3>3. QED
      BY <1>1, <1>6, <3>1, <3>2 DEF IInv, TypeOK
  <2>2. OnlyReadable' /\ Enumerates(data, states, 0)' /\ Enumerates(fbData, fbStates, offset)'
    BY <1>1, <1>6 DEF IInv, OnlyReadable, Enumerates
  <2>3. Progress'
    BY <1>1, <1>2, <1>3, <1>6, RegionAssumption DEF Progress
  <2>4. AheadUntouched'
    BY <1>2, <1>4, <1>6 DEF AheadUntouched
  <2>5. LoaderInv'
    BY <1>1, <1>6, <2>1, LoaderIdle
  <2>6. QED
    BY <2>1, <2>2, <2>3, <2>4, <2>5 DEF IInv
<1>7. QED
  BY <1>5, <1>6 DEF ReadWhole

LEMMA StartChunksInv ==
    ASSUME IInv, StartChunks
    PROVE  IInv'
<1>1. /\ pc = "start" /\ NumPages > MaxChunk /\ pc' = "chunks"
      /\ states' = Repeat(FAILED, NumPages)
      /\ readable' = readable /\ abort' = abort /\ glitched' = glitched
      /\ reading' = reading /\ late' = late
      /\ offset' = offset /\ count' = count /\ data' = data
      /\ fbStates' = fbStates /\ fbData' = fbData /\ UNCHANGED loaderVars
      /\ next' = next /\ captured' = captured /\ loaded' = loaded
  BY DEF StartChunks, loaderVars, callVars
<1>2. offset = 0 /\ states = <<>> /\ data = <<>> /\ fbStates = <<>> /\ fbData = <<>>
  BY <1>1 DEF IInv, Progress
<1>3. FAILED \in States /\ NumPages \in Nat
  BY RegionAssumption DEF States
<1>4. /\ states' \in Seq(States) /\ Len(states') = NumPages
      /\ \A k \in 1 .. NumPages : states'[k] = FAILED
  BY <1>1, <1>3, RepeatProps
<1>5. Len(<<>>) = 0 /\ <<>> \in Seq(Nat) /\ <<>> \in Seq(States)
  BY EmptySeq
<1>6. TypeOK'
  BY <1>1, <1>4 DEF IInv, TypeOK
<1>7. OnlyReadable' /\ Enumerates(fbData, fbStates, offset)'
  BY <1>1 DEF IInv, OnlyReadable, Enumerates
<1>8. Enumerates(data, states, 0)'
  <2>1. Enumerates(<<>>, <<>>, 0)
    BY <1>2 DEF IInv
  <2>2. Len(states') >= Len(<<>>) /\ \A k \in 1 .. Len(<<>>) : states'[k] = <<>>[k]
    BY <1>3, <1>4, <1>5
  <2>3. \A k \in 1 .. Len(states') : k > Len(<<>>) => states'[k] = FAILED
    BY <1>4
  <2>4. Enumerates(<<>>, states', 0)
    BY <1>4, <1>5, <2>1, <2>2, <2>3, EnumeratesFailed
  <2>5. QED
    BY <1>1, <1>2, <2>4
<1>9. Progress'
  <2>1. ~reading'
    BY <1>1 DEF IInv, Progress
  <2> QED
    BY <1>1, <1>2, <1>4, <2>1 DEF Progress
<1>10. AheadUntouched'
  BY <1>1, <1>2, <1>4, <1>5 DEF AheadUntouched
<1>11. LoaderInv'
  BY <1>1, <1>6, LoaderIdle
<1>12. QED
  BY <1>6, <1>7, <1>8, <1>9, <1>10, <1>11 DEF IInv

\* A chunk arrives: its data goes behind what is there, its pages are CAPTURED.
LEMMA ReadChunkInv ==
    ASSUME ~FirstBlockOnly, IInv, ReadChunk
    PROVE  IInv'
<1>1. /\ pc = "chunks" /\ reading /\ offset < NumPages /\ pc' = pc
      /\ readable' = readable /\ abort' = abort /\ glitched' = glitched
      /\ reading' = FALSE /\ late' \in Nat
      /\ count' = count /\ fbStates' = fbStates /\ fbData' = fbData
      /\ UNCHANGED loaderVars
      /\ next' = next /\ captured' = captured /\ loaded' = loaded
      /\ offset' = offset + ChunkSize
      /\ states' = [k \in DOMAIN states |->
                       IF k - 1 \in offset .. offset + ChunkSize - 1
                       THEN CAPTURED ELSE states[k]]
  BY DEF ReadChunk, loaderVars, Returns, IInv, TypeOK, Progress
<1>2. PICK got \in Answers(offset, ChunkSize) : data' = data \o got
  BY DEF ReadChunk
<1>3. /\ offset \in Nat /\ ChunkSize \in Nat /\ offset + ChunkSize <= NumPages
      /\ ChunkSize > 0 /\ NumPages \in Nat
  BY <1>1, ChunkSizeProps, RegionAssumption DEF IInv, TypeOK
<1>4. /\ got = Run(offset, ChunkSize)
      /\ \A p \in offset .. offset + ChunkSize - 1 : p \in readable
  BY <1>3, WholeAnswers
<1>5. /\ got \in Seq(Pages) /\ got \in Seq(Nat) /\ Len(got) = ChunkSize
      /\ \A k \in 1 .. ChunkSize : got[k] = offset + k - 1
  BY <1>3, <1>4, RunProps
<1>6. /\ data \in Seq(Pages) /\ data \in Seq(Nat) /\ states \in Seq(States)
      /\ Len(states) = NumPages /\ DOMAIN states = 1 .. NumPages
  <2>1. data \in Seq(Pages) /\ states \in Seq(States) /\ Len(states) = NumPages
    BY <1>1 DEF IInv, TypeOK, Progress
  <2>2. Pages \subseteq Nat
    BY <1>3 DEF Pages
  <2>3. data \in Seq(Nat)
    BY <2>1, <2>2, SeqMonotonic
  <2>4. QED
    BY <2>1, <2>3, LenProperties
<1>7. states' \in Seq(States) /\ Len(states') = Len(states)
  <2>1. \A k \in DOMAIN states : states[k] \in States
    BY <1>6, ElementOfSeq
  <2>2. states' \in [DOMAIN states -> States]
    BY <1>1, <2>1 DEF States
  <2>3. QED
    BY <1>6, <2>2, RemapProps
<1>8. data' \in Seq(Pages)
  BY <1>2, <1>5, <1>6, ConcatProperties
<1>9. /\ Enumerates(data', states', 0)
      /\ \A i \in 1 .. Len(data') : data'[i] < offset'
      /\ \A k \in 1 .. Len(states') : k > offset' => states'[k] = FAILED
  <2> DEFINE g == Repeat(CAPTURED, ChunkSize)
  <2>1. CAPTURED \in States
    BY DEF States
  <2>2. /\ g \in Seq(States) /\ Len(g) = ChunkSize
        /\ \A k \in 1 .. ChunkSize : g[k] = CAPTURED
    BY <1>3, <2>1, RepeatProps
  <2>3. Enumerates(got, g, offset)
    BY <1>3, <1>4, EnumeratesRun
  <2> HIDE DEF g
  <2>4. ASSUME NEW k \in 1 .. Len(states)
        PROVE  states'[k] = IF k - offset \in 1 .. Len(g) THEN g[k - offset] ELSE states[k]
    <3>1. k \in DOMAIN states
      BY <1>6
    <3>2. k - 1 \in offset .. offset + ChunkSize - 1 <=> k - offset \in 1 .. ChunkSize
      BY <1>3, <1>6
    <3>3. QED
      BY <1>1, <2>2, <3>1, <3>2
  <2>5. /\ \A i \in 1 .. Len(data) : data[i] < offset
        /\ \A k \in 1 .. Len(states) : k > offset => states[k] = FAILED
    BY <1>1 DEF IInv, AheadUntouched
  <2>6. Enumerates(data, states, 0)
    BY DEF IInv
  <2>7. offset + Len(g) <= Len(states)
    BY <1>3, <1>6, <2>2
  <2>8. /\ Enumerates(data \o got, states', 0)
        /\ \A i \in 1 .. Len(data \o got) : (data \o got)[i] < offset + Len(g)
        /\ \A k \in 1 .. Len(states') : k > offset + Len(g) => states'[k] = FAILED
    <3>1. Merges(data, states, offset, got, g, states')
      BY <1>7, <2>3, <2>4, <2>5, <2>6, <2>7 DEF Merges
    <3>2. QED
      <4>1. /\ data \in Seq(Nat) /\ states \in Seq(States) /\ offset \in Nat
            /\ got \in Seq(Nat) /\ g \in Seq(States) /\ states' \in Seq(States)
        BY <1>3, <1>5, <1>6, <1>7, <2>2
      <4>2. QED
        BY <3>1, <4>1, EnumeratesMerge, SMT
  <2>9. QED
    BY <1>1, <1>2, <2>2, <2>8
<1>10. TypeOK'
  <2>1. offset' \in 0 .. NumPages
    BY <1>1, <1>3
  <2>2. QED
    BY <1>1, <1>7, <1>8, <2>1 DEF IInv, TypeOK
<1>11. OnlyReadable'
  <2>1. ASSUME NEW i \in 1 .. Len(data')
        PROVE  data'[i] \in readable
    <3>1. /\ Len(data) \in Nat /\ Len(data') = Len(data) + ChunkSize
          /\ data'[i] = IF i <= Len(data) THEN data[i] ELSE got[i - Len(data)]
      <4>1. /\ Len(data \o got) = Len(data) + Len(got)
            /\ \A j \in 1 .. Len(data) + Len(got) :
                  (data \o got)[j] = IF j <= Len(data) THEN data[j] ELSE got[j - Len(data)]
        BY <1>5, <1>6, ConcatProperties
      <4>2. Len(data) \in Nat
        BY <1>6, LenProperties
      <4>3. QED
        BY <1>2, <1>5, <4>1, <4>2
    <3>2. CASE i <= Len(data)
      BY <3>1, <3>2 DEF IInv, OnlyReadable
    <3>3. CASE i > Len(data)
      <4>1. i - Len(data) \in 1 .. ChunkSize
        BY <1>3, <3>1, <3>3
      <4>2. got[i - Len(data)] \in offset .. offset + ChunkSize - 1
        BY <1>3, <1>5, <4>1
      <4>3. QED
        BY <1>4, <3>1, <3>3, <4>2
    <3>4. QED
      BY <3>1, <3>2, <3>3
  <2>2. QED
    BY <1>1, <2>1 DEF IInv, OnlyReadable
<1>12. Enumerates(fbData, fbStates, offset)'
  <2>1. fbStates' = <<>> /\ fbData' = <<>>
    BY <1>1 DEF IInv, Progress
  <2>2. Len(<<>>) = 0
    BY EmptySeq
  <2>3. QED
    BY <2>1, <2>2 DEF Enumerates
<1>13. Progress'
  BY <1>1, <1>6, <1>7 DEF IInv, Progress
<1>14. AheadUntouched'
  BY <1>9 DEF AheadUntouched
<1>15. LoaderInv'
  BY <1>1, <1>10, LoaderIdle
<1>16. QED
  BY <1>9, <1>10, <1>11, <1>12, <1>13, <1>14, <1>15 DEF IInv

LEMMA ChunkFailsInv ==
    ASSUME IInv, ChunkFails
    PROVE  IInv'
<1>1. /\ pc = "chunks" /\ offset < NumPages /\ pc' = "pages" /\ count' = ChunkSize
      /\ readable' = readable /\ abort' = abort /\ glitched' = glitched
      /\ reading' = FALSE /\ late' \in Nat
      /\ offset' = offset /\ fbStates' = fbStates /\ fbData' = fbData
      /\ states' = states /\ data' = data /\ UNCHANGED loaderVars
      /\ next' = next /\ captured' = captured /\ loaded' = loaded
  BY DEF ChunkFails, loaderVars, Returns, IInv, TypeOK, Progress
<1>2. ChunkSize \in 1 .. NumPages /\ ChunkSize' = ChunkSize
  BY <1>1, ChunkSizeProps DEF IInv, TypeOK, ChunkSize
<1>3. fbStates = <<>> /\ Len(<<>>) = 0 /\ NumPages \in Nat /\ MaxChunk \in Nat
  BY <1>1, EmptySeq, RegionAssumption DEF IInv, Progress
<1>4. TypeOK'
  <2>1. Len(fbStates') <= count' /\ count' \in 0 .. NumPages
    BY <1>1, <1>2, <1>3
  <2>2. QED
    BY <1>1, <2>1 DEF IInv, TypeOK
<1>5. OnlyReadable' /\ Enumerates(data, states, 0)' /\ Enumerates(fbData, fbStates, offset)'
  BY <1>1 DEF IInv, OnlyReadable, Enumerates
<1>6. Progress'
  BY <1>1, <1>2, <1>3 DEF IInv, Progress
<1>7. AheadUntouched'
  BY <1>1 DEF IInv, AheadUntouched
<1>8. LoaderInv'
  BY <1>1, <1>4, LoaderIdle
<1>9. QED
  BY <1>4, <1>5, <1>6, <1>7, <1>8 DEF IInv

\* The page loop stays inside the region.
LEMMA PageBounds ==
    ASSUME IInv, pc = "pages"
    PROVE  /\ offset \in Nat /\ count \in Nat /\ offset + count <= NumPages
           /\ Len(fbStates) \in Nat /\ Len(fbStates) <= count
           /\ fbStates \in Seq(States) /\ fbData \in Seq(Pages) /\ fbData \in Seq(Nat)
<1>1. /\ offset \in Nat /\ count \in Nat /\ NumPages \in Nat /\ MaxChunk \in Nat
      /\ fbStates \in Seq(States) /\ fbData \in Seq(Pages) /\ Len(fbStates) <= count
  BY RegionAssumption DEF IInv, TypeOK
<1>2. offset + count <= NumPages
  <2>1. CASE NumPages <= MaxChunk
    BY <1>1, <2>1 DEF IInv, Progress
  <2>2. CASE NumPages > MaxChunk
    <3>1. offset < NumPages /\ count = ChunkSize /\ offset \in 0 .. NumPages
      BY <2>2 DEF IInv, Progress, TypeOK
    <3>2. QED
      BY <3>1, ChunkSizeProps
  <2>3. QED
    BY <1>1, <2>1, <2>2
<1>3. Pages \subseteq Nat
  BY <1>1 DEF Pages
<1>4. Len(fbStates) \in Nat /\ fbData \in Seq(Nat)
  BY <1>1, <1>3, SeqMonotonic, LenProperties
<1>5. QED
  BY <1>1, <1>2, <1>4

LEMMA ReadPageInv ==
    ASSUME ~FirstBlockOnly, IInv, ReadPage
    PROVE  IInv'
<1>1. /\ pc = "pages" /\ Len(fbStates) < count /\ pc' = pc
      /\ readable' = readable /\ abort' = abort
      /\ reading' = FALSE /\ late' \in Nat
      /\ offset' = offset /\ count' = count /\ states' = states /\ data' = data
      /\ UNCHANGED loaderVars
      /\ next' = next /\ captured' = captured /\ loaded' = loaded
  BY DEF ReadPage, loaderVars, Returns, IInv, TypeOK, Progress
<1>2. /\ offset \in Nat /\ count \in Nat /\ offset + count <= NumPages
      /\ Len(fbStates) \in Nat
      /\ fbStates \in Seq(States) /\ fbData \in Seq(Pages) /\ fbData \in Seq(Nat)
  BY <1>1, PageBounds
<1>3. fbPage \in Nat /\ fbPage + 1 <= NumPages /\ fbPage = offset + Len(fbStates)
  BY <1>1, <1>2, RegionAssumption DEF fbPage
<1>4. CAPTURED \in States /\ FAILED \in States /\ FAILED # CAPTURED
  BY DEF States, CAPTURED, FAILED
<1>5. /\ fbStates' \in Seq(States) /\ Len(fbStates') = Len(fbStates) + 1
      /\ fbData' \in Seq(Pages) /\ glitched' \in BOOLEAN
      /\ \A i \in 1 .. Len(fbData') : fbData'[i] \in readable
      /\ Enumerates(fbData', fbStates', offset)
  <2>1. CASE /\ \E got \in Answers(fbPage, 1) : fbData' = fbData \o got
             /\ fbStates' = Append(fbStates, CAPTURED) /\ glitched' = glitched
    <3>1. PICK got \in Answers(fbPage, 1) : fbData' = fbData \o got
      BY <2>1
    <3>2. 1 \in Nat /\ fbPage + 1 - 1 = fbPage
      BY <1>3
    <3>3. got = Run(fbPage, 1) /\ \A p \in fbPage .. fbPage + 1 - 1 : p \in readable
      BY <1>3, <3>2, WholeAnswers
    <3>4. /\ got \in Seq(Pages) /\ got \in Seq(Nat) /\ Len(got) = 1
          /\ got[1] = offset + Len(fbStates) /\ got[1] \in readable
      <4>1. /\ got \in Seq(Nat) /\ got \in Seq(Pages) /\ Len(got) = 1
            /\ \A k \in 1 .. 1 : got[k] = fbPage + k - 1
        BY <1>3, <3>2, <3>3, RunProps
      <4>2. got[1] = fbPage /\ fbPage \in readable
        BY <1>3, <3>3, <4>1
      <4>3. QED
        BY <1>3, <4>1, <4>2
    <3>5. Enumerates(fbData \o got, Append(fbStates, CAPTURED), offset)
      <4>1. Enumerates(fbData, fbStates, offset)
        BY DEF IInv
      <4>2. QED
        BY <1>2, <1>3, <3>3, <4>1, EnumeratesPush, SMT
    <3>6. fbStates' \in Seq(States) /\ Len(fbStates') = Len(fbStates) + 1
      BY <1>2, <1>4, <2>1, AppendProperties
    <3>7. /\ fbData' \in Seq(Pages)
          /\ Len(fbData') = Len(fbData) + 1
          /\ \A i \in 1 .. Len(fbData) + Len(got) :
                fbData'[i] = IF i <= Len(fbData) THEN fbData[i] ELSE got[i - Len(fbData)]
      <4>1. /\ fbData \o got \in Seq(Pages)
            /\ Len(fbData \o got) = Len(fbData) + Len(got)
            /\ \A i \in 1 .. Len(fbData) + Len(got) :
                  (fbData \o got)[i] = IF i <= Len(fbData) THEN fbData[i] ELSE got[i - Len(fbData)]
        <5>1. got \in Seq(Pages)
          BY <3>4
        <5>2. QED
          BY <1>2, <5>1, ConcatProperties
      <4>2. QED
        BY <3>1, <3>4, <4>1
    <3>8. ASSUME NEW i \in 1 .. Len(fbData')
          PROVE  fbData'[i] \in readable
      <4>1. Len(fbData) \in Nat
        BY <1>2, LenProperties
      <4>2. CASE i \in 1 .. Len(fbData)
        BY <3>4, <3>7, <4>1, <4>2 DEF IInv, OnlyReadable
      <4>3. CASE i = Len(fbData) + 1
        <5>1. i \in 1 .. Len(fbData) + Len(got) /\ ~(i <= Len(fbData)) /\ i - Len(fbData) = 1
          BY <3>4, <4>1, <4>3
        <5>2. QED
          BY <3>4, <3>7, <5>1
      <4>4. QED
        BY <3>7, <4>1, <4>2, <4>3
    <3>9. glitched' \in BOOLEAN
      BY <2>1 DEF IInv, TypeOK
    <3>10. QED
      BY <2>1, <3>1, <3>5, <3>6, <3>7, <3>8, <3>9
  <2>2. CASE /\ fbStates' = Append(fbStates, FAILED) /\ fbData' = fbData
             /\ glitched' = (glitched \/ fbPage \in readable)
    <3>1. /\ fbStates' \in Seq(States) /\ Len(fbStates') = Len(fbStates) + 1
          /\ \A k \in 1 .. Len(fbStates) : fbStates'[k] = fbStates[k]
          /\ fbStates'[Len(fbStates) + 1] = FAILED
      BY <1>2, <1>4, <2>2, AppendProperties
    <3>2. \A k \in 1 .. Len(fbStates') : k > Len(fbStates) => fbStates'[k] = FAILED
      BY <1>2, <3>1
    <3>3. Len(fbStates') >= Len(fbStates)
      BY <1>2, <3>1
    <3>4. Enumerates(fbData, fbStates', offset)
      <4>1. Enumerates(fbData, fbStates, offset)
        BY DEF IInv
      <4>2. QED
        BY <1>2, <3>1, <3>2, <3>3, <4>1, EnumeratesFailed, SMT
    <3>5. \A i \in 1 .. Len(fbData') : fbData'[i] \in readable
      BY <2>2 DEF IInv, OnlyReadable
    <3>6. glitched' \in BOOLEAN
      BY <2>2
    <3>7. QED
      BY <1>2, <2>2, <3>1, <3>4, <3>5, <3>6
  <2>3. QED
    BY <2>1, <2>2 DEF ReadPage
<1>6. TypeOK'
  <2>1. Len(fbStates') <= count
    BY <1>1, <1>2, <1>5
  <2>2. QED
    BY <1>1, <1>5, <2>1 DEF IInv, TypeOK
<1>7. OnlyReadable'
  BY <1>1, <1>5 DEF IInv, OnlyReadable
<1>8. Enumerates(data, states, 0)' /\ Enumerates(fbData, fbStates, offset)'
  BY <1>1, <1>5 DEF IInv
<1>9. Progress'
  BY <1>1 DEF IInv, Progress, ChunkSize
<1>10. AheadUntouched'
  BY <1>1 DEF IInv, AheadUntouched
<1>11. LoaderInv'
  BY <1>1, <1>6, LoaderIdle
<1>12. QED
  BY <1>6, <1>7, <1>8, <1>9, <1>10, <1>11 DEF IInv

LEMMA AbortPagesInv ==
    ASSUME IInv, AbortPages
    PROVE  IInv'
<1>1. /\ pc = "pages" /\ ~reading /\ Len(fbStates) < count /\ pc' = pc
      /\ fbStates' = fbStates \o Repeat(FAILED, count - Len(fbStates))
      /\ readable' = readable /\ abort' = abort /\ glitched' = glitched
      /\ reading' = reading /\ late' = late
      /\ offset' = offset /\ count' = count /\ states' = states /\ data' = data
      /\ fbData' = fbData /\ UNCHANGED loaderVars
      /\ next' = next /\ captured' = captured /\ loaded' = loaded
  BY DEF AbortPages, loaderVars, callVars
<1>2. /\ offset \in Nat /\ count \in Nat /\ Len(fbStates) \in Nat
      /\ fbStates \in Seq(States) /\ fbData \in Seq(Nat)
  BY <1>1, PageBounds
<1> DEFINE rest == Repeat(FAILED, count - Len(fbStates))
<1>3. FAILED \in States /\ count - Len(fbStates) \in Nat
  BY <1>1, <1>2 DEF States
<1>4. /\ rest \in Seq(States) /\ Len(rest) = count - Len(fbStates)
      /\ \A k \in 1 .. count - Len(fbStates) : rest[k] = FAILED
  BY <1>3, RepeatProps
<1> HIDE DEF rest
<1>5. /\ fbStates' \in Seq(States) /\ Len(fbStates') = Len(fbStates) + Len(rest)
      /\ \A k \in 1 .. Len(fbStates) + Len(rest) :
            fbStates'[k] = IF k <= Len(fbStates) THEN fbStates[k] ELSE rest[k - Len(fbStates)]
  BY <1>1, <1>2, <1>4, ConcatProperties DEF rest
<1>6. Len(fbStates') = count
  BY <1>2, <1>4, <1>5
<1>7. Enumerates(fbData, fbStates', offset)
  <2>1. \A k \in 1 .. Len(fbStates) : fbStates'[k] = fbStates[k]
    BY <1>2, <1>4, <1>5
  <2>2. ASSUME NEW k \in 1 .. Len(fbStates'), k > Len(fbStates)
        PROVE  fbStates'[k] = FAILED
    <3>1. k - Len(fbStates) \in 1 .. count - Len(fbStates)
      BY <1>2, <1>6, <2>2
    <3>2. k \in 1 .. Len(fbStates) + Len(rest) /\ ~(k <= Len(fbStates))
      BY <1>2, <1>5, <2>2
    <3>3. fbStates'[k] = rest[k - Len(fbStates)]
      BY <1>5, <3>2
    <3>4. QED
      BY <1>4, <3>1, <3>3
  <2>3. Len(fbStates') >= Len(fbStates)
    BY <1>1, <1>2, <1>6
  <2>4. Enumerates(fbData, fbStates, offset)
    BY DEF IInv
  <2>5. /\ fbData \in Seq(Nat) /\ fbStates \in Seq(States) /\ offset \in Nat
        /\ fbStates' \in Seq(States)
    BY <1>2, <1>5
  <2>6. QED
    BY <2>1, <2>2, <2>3, <2>4, <2>5, EnumeratesFailed, SMT
<1>8. TypeOK'
  <2>1. Len(fbStates') <= count
    BY <1>2, <1>6
  <2>2. QED
    BY <1>1, <1>5, <2>1 DEF IInv, TypeOK
<1>9. OnlyReadable'
  BY <1>1 DEF IInv, OnlyReadable
<1>10. Enumerates(data, states, 0)' /\ Enumerates(fbData, fbStates, offset)'
  BY <1>1, <1>7 DEF IInv
<1>11. Progress'
  <2>1. ~reading'
    BY <1>1
  <2> QED
    BY <1>1, <2>1 DEF IInv, Progress, ChunkSize
<1>12. AheadUntouched'
  BY <1>1 DEF IInv, AheadUntouched
<1>13. LoaderInv'
  BY <1>1, <1>8, LoaderIdle
<1>14. QED
  BY <1>8, <1>9, <1>10, <1>11, <1>12, <1>13 DEF IInv

LEMMA MergePagesInv ==
    ASSUME IInv, MergePages
    PROVE  IInv'
<1>1. /\ pc = "pages" /\ ~reading /\ ~reading' /\ Len(fbStates) = count
      /\ fbStates' = <<>> /\ fbData' = <<>>
      /\ readable' = readable /\ abort' = abort /\ glitched' = glitched
      /\ reading' = reading /\ late' = late
      /\ count' = count /\ UNCHANGED loaderVars
      /\ next' = next /\ captured' = captured /\ loaded' = loaded
  BY DEF MergePages, loaderVars, callVars
<1>2. /\ offset \in Nat /\ count \in Nat /\ offset + count <= NumPages
      /\ fbStates \in Seq(States) /\ fbData \in Seq(Pages) /\ fbData \in Seq(Nat)
      /\ DOMAIN fbStates = 1 .. count
  BY <1>1, PageBounds, LenProperties
<1>3. NumPages \in Nat /\ MaxChunk \in Nat /\ Pages \subseteq Nat
  BY RegionAssumption DEF Pages
<1>4. Len(<<>>) = 0 /\ <<>> \in Seq(States) /\ <<>> \in Seq(Pages)
  BY EmptySeq
<1>5. Enumerates(fbData', fbStates', offset')
  BY <1>1, <1>4 DEF Enumerates
<1>6. OnlyReadable /\ Enumerates(data, states, 0) /\ Enumerates(fbData, fbStates, offset)
  BY DEF IInv
<1>7. \A i \in 1 .. Len(fbData') : fbData'[i] \in readable'
  BY <1>1, <1>4
<1>8. CASE /\ NumPages <= MaxChunk
           /\ states' = fbStates /\ data' = fbData /\ pc' = "built" /\ offset' = offset
  <2>1. offset = 0 /\ count = NumPages
    BY <1>1, <1>8 DEF IInv, Progress
  <2>2. TypeOK'
    BY <1>1, <1>2, <1>4, <1>8 DEF IInv, TypeOK
  <2>3. OnlyReadable'
    BY <1>1, <1>6, <1>7, <1>8 DEF OnlyReadable
  <2>4. Enumerates(data', states', 0)
    BY <1>6, <1>8, <2>1
  <2>5. Progress'
    BY <1>1, <1>8, <2>1 DEF Progress
  <2>6. AheadUntouched'
    BY <1>8 DEF AheadUntouched
  <2>7. LoaderInv'
    BY <1>1, <1>8, <2>2, LoaderIdle
  <2>8. QED
    BY <1>5, <2>2, <2>3, <2>4, <2>5, <2>6, <2>7 DEF IInv
<1>9. CASE /\ ~(NumPages <= MaxChunk)
           /\ offset' = offset + count /\ pc' = "chunks"
           /\ IF fbData # <<>>
              THEN /\ states' = [k \in DOMAIN states |->
                        IF k - offset \in DOMAIN fbStates
                        THEN fbStates[k - offset] ELSE states[k]]
                   /\ data' = data \o fbData
              ELSE states' = states /\ data' = data
  <2>1. /\ data \in Seq(Pages) /\ data \in Seq(Nat) /\ states \in Seq(States)
        /\ Len(states) = NumPages /\ DOMAIN states = 1 .. NumPages
    <3>1. data \in Seq(Pages) /\ states \in Seq(States) /\ Len(states) = NumPages
      BY <1>1, <1>3, <1>9 DEF IInv, TypeOK, Progress
    <3>2. data \in Seq(Nat)
      BY <1>3, <3>1, SeqMonotonic
    <3>3. QED
      BY <3>1, <3>2, LenProperties
  <2>2. /\ \A i \in 1 .. Len(data) : data[i] < offset
        /\ \A k \in 1 .. Len(states) : k > offset => states[k] = FAILED
    BY <1>1 DEF IInv, AheadUntouched
  <2>3. /\ states' \in Seq(States) /\ Len(states') = NumPages /\ data' \in Seq(Pages)
        /\ \A i \in 1 .. Len(data') : data'[i] \in readable
        /\ Enumerates(data', states', 0)
        /\ \A i \in 1 .. Len(data') : data'[i] < offset'
        /\ \A k \in 1 .. Len(states') : k > offset' => states'[k] = FAILED
    <3>1. CASE /\ states' = [k \in DOMAIN states |->
                        IF k - offset \in DOMAIN fbStates
                        THEN fbStates[k - offset] ELSE states[k]]
               /\ data' = data \o fbData
      <4>1. states' \in Seq(States) /\ Len(states') = Len(states)
        <5>1. /\ \A k \in DOMAIN states : states[k] \in States
              /\ \A k \in DOMAIN fbStates : fbStates[k] \in States
          BY <1>2, <2>1, LenProperties
        <5>2. states' \in [DOMAIN states -> States]
          BY <3>1, <5>1
        <5>3. QED
          BY <2>1, <5>2, RemapProps
      <4>2. data' \in Seq(Pages)
        BY <1>2, <2>1, <3>1, ConcatProperties
      <4>3. \A k \in 1 .. Len(states) :
               states'[k] = IF k - offset \in 1 .. Len(fbStates)
                            THEN fbStates[k - offset] ELSE states[k]
        BY <1>1, <1>2, <2>1, <3>1
      <4>4. Merges(data, states, offset, fbData, fbStates, states')
        <5>1. offset + Len(fbStates) <= Len(states)
          BY <1>1, <1>2, <2>1
        <5>2. QED
          BY <1>6, <2>2, <4>1, <4>3, <5>1 DEF Merges
      <4>5. /\ data \in Seq(Nat) /\ states \in Seq(States) /\ offset \in Nat
            /\ fbData \in Seq(Nat) /\ fbStates \in Seq(States) /\ states' \in Seq(States)
        BY <1>2, <2>1, <4>1
      <4>6. /\ Enumerates(data \o fbData, states', 0)
            /\ \A i \in 1 .. Len(data \o fbData) : (data \o fbData)[i] < offset + Len(fbStates)
            /\ \A k \in 1 .. Len(states') : k > offset + Len(fbStates) => states'[k] = FAILED
        BY <4>4, <4>5, EnumeratesMerge, SMT
      <4>7. ASSUME NEW i \in 1 .. Len(data')
            PROVE  data'[i] \in readable
        <5>1. /\ Len(data \o fbData) = Len(data) + Len(fbData)
              /\ \A j \in 1 .. Len(data) + Len(fbData) :
                    (data \o fbData)[j] = IF j <= Len(data) THEN data[j] ELSE fbData[j - Len(data)]
          BY <1>2, <2>1, ConcatProperties
        <5>2. Len(data) \in Nat /\ Len(fbData) \in Nat
          BY <1>2, <2>1, LenProperties
        <5>3. CASE i <= Len(data)
          BY <1>6, <3>1, <5>1, <5>2, <5>3 DEF OnlyReadable
        <5>4. CASE i > Len(data)
          <6>1. i - Len(data) \in 1 .. Len(fbData) /\ i \in 1 .. Len(data) + Len(fbData)
            BY <3>1, <5>1, <5>2, <5>4
          <6>2. data'[i] = fbData[i - Len(data)]
            BY <3>1, <5>1, <5>2, <5>4, <6>1
          <6>3. QED
            BY <1>6, <6>1, <6>2 DEF OnlyReadable
        <5>5. QED
          BY <3>1, <5>1, <5>2, <5>3, <5>4
      <4>8. QED
        BY <1>1, <1>9, <2>1, <3>1, <4>1, <4>2, <4>6, <4>7
    <3>2. CASE states' = states /\ data' = data
      <4>1. \A i \in 1 .. Len(data) : data[i] \in Nat
        BY <2>1, LenProperties
      <4>2. \A i \in 1 .. Len(data) : data[i] < offset'
        BY <1>2, <1>9, <2>2, <4>1
      <4>3. \A k \in 1 .. Len(states) : k > offset' => states[k] = FAILED
        BY <1>2, <1>9, <2>1, <2>2
      <4>4. QED
        BY <1>6, <2>1, <3>2, <4>2, <4>3 DEF OnlyReadable
    <3>3. QED
      BY <1>9, <3>1, <3>2
  <2>4. TypeOK'
    <3>1. offset' \in 0 .. NumPages /\ Len(fbStates') <= count'
      BY <1>1, <1>2, <1>3, <1>4, <1>9
    <3>2. QED
      BY <1>1, <1>4, <1>9, <2>3, <3>1 DEF IInv, TypeOK
  <2>5. OnlyReadable'
    BY <1>1, <1>7, <2>3 DEF OnlyReadable
  <2>6. Progress'
    BY <1>1, <1>3, <1>9, <2>3 DEF Progress
  <2>7. AheadUntouched'
    BY <2>3 DEF AheadUntouched
  <2>8. LoaderInv'
    BY <1>1, <1>9, <2>4, LoaderIdle
  <2>9. QED
    BY <1>5, <2>3, <2>4, <2>5, <2>6, <2>7, <2>8 DEF IInv
<1>10. QED
  BY <1>8, <1>9 DEF MergePages

LEMMA WriteRegionInv ==
    ASSUME IInv, WriteRegion
    PROVE  IInv'
<1>1. /\ pc = "built"
      /\ pc' = IF Len(states) = NumPages THEN "loading" ELSE "refused"
      /\ readable' = readable /\ abort' = abort /\ glitched' = glitched
      /\ reading' = reading /\ late' = late
      /\ offset' = offset /\ count' = count
      /\ fbStates' = fbStates /\ fbData' = fbData /\ states' = states /\ data' = data
      /\ next' = next /\ captured' = captured /\ loaded' = loaded
  BY DEF WriteRegion, loaderVars, callVars
<1>2. pc' = "loading"
  BY <1>1 DEF IInv, Progress
<1>3. TypeOK'
  BY <1>1, <1>2 DEF IInv, TypeOK
<1>4. OnlyReadable' /\ Enumerates(data, states, 0)' /\ Enumerates(fbData, fbStates, offset)'
  BY <1>1 DEF IInv, OnlyReadable, Enumerates
<1>5. Progress'
  BY <1>1, <1>2 DEF IInv, Progress
<1>6. AheadUntouched'
  BY <1>2 DEF AheadUntouched
<1>7. LoaderInv'
  BY <1>1, <1>2 DEF IInv, LoaderInv
<1>8. QED
  BY <1>3, <1>4, <1>5, <1>6, <1>7 DEF IInv

\* A Captured page finds its own bytes: what is left of the data begins with
\* the lowest Captured page the loader has not passed.
LEMMA NextDatum ==
    ASSUME IInv, pc = "loading", next < NumPages, states[next + 1] = CAPTURED
    PROVE  /\ captured + 1 \in 1 .. Len(data)
           /\ data[captured + 1] = next
           /\ \A i \in 1 .. Len(data) : data[i] < next + 1 <=> i <= captured + 1
<1>1. /\ next \in Nat /\ captured \in Nat /\ NumPages \in Nat
      /\ data \in Seq(Nat) /\ Len(states) = NumPages
  <2>1. Pages \subseteq Nat /\ NumPages \in Nat
    BY RegionAssumption DEF Pages
  <2>2. data \in Seq(Nat)
    BY <2>1, SeqMonotonic DEF IInv, TypeOK
  <2>3. QED
    BY <2>1, <2>2 DEF IInv, TypeOK, Progress
<1>2. Len(data) \in Nat /\ \A i \in 1 .. Len(data) : data[i] \in Nat
  BY <1>1, LenProperties
<1>3. /\ \A i, j \in 1 .. Len(data) : i < j => data[i] < data[j]
      /\ \A k \in 1 .. Len(states) :
            states[k] = CAPTURED => \E i \in 1 .. Len(data) : data[i] = 0 + k - 1
  BY DEF IInv, Enumerates
<1>4. captured <= Len(data) /\ \A i \in 1 .. Len(data) : data[i] < next <=> i <= captured
  BY DEF IInv, LoaderInv
<1>5. PICK j \in 1 .. Len(data) : data[j] = next
  <2>1. next + 1 \in 1 .. Len(states) /\ 0 + (next + 1) - 1 = next
    BY <1>1
  <2>2. QED
    BY <1>3, <2>1
<1>6. j > captured
  BY <1>1, <1>2, <1>4, <1>5
<1>7. captured + 1 \in 1 .. Len(data)
  BY <1>1, <1>2, <1>6
<1>8. j = captured + 1
  <2>1. ASSUME j > captured + 1
        PROVE  FALSE
    <3>1. data[captured + 1] < next
      BY <1>3, <1>5, <1>7, <2>1
    <3>2. captured + 1 <= captured
      BY <1>4, <1>7, <3>1
    <3>3. QED
      BY <1>1, <3>2
  <2>2. QED
    BY <1>1, <1>2, <1>6, <2>1
<1>9. ASSUME NEW i \in 1 .. Len(data)
      PROVE  data[i] < next + 1 <=> i <= captured + 1
  <2>1. CASE i < j
    BY <1>1, <1>2, <1>3, <1>5, <1>8, <2>1
  <2>2. CASE i = j
    BY <1>1, <1>5, <1>8, <2>2
  <2>3. CASE i > j
    <3>1. data[i] > next /\ data[i] \in Nat
      BY <1>1, <1>2, <1>3, <1>5, <2>3
    <3>2. QED
      BY <1>1, <1>2, <1>8, <2>3, <3>1
  <2>4. QED
    BY <1>2, <2>1, <2>2, <2>3
<1>10. QED
  BY <1>5, <1>7, <1>8, <1>9

LEMMA LoadPageInv ==
    ASSUME IInv, LoadPage
    PROVE  IInv'
<1>1. /\ pc = "loading" /\ next < NumPages /\ pc' = pc /\ next' = next + 1
      /\ readable' = readable /\ abort' = abort /\ glitched' = glitched
      /\ reading' = reading /\ late' = late
      /\ offset' = offset /\ count' = count
      /\ fbStates' = fbStates /\ fbData' = fbData /\ states' = states /\ data' = data
  BY DEF LoadPage, callVars
<1>2. /\ next \in 0 .. NumPages /\ next \in Nat /\ captured \in Nat /\ NumPages \in Nat
      /\ captured <= next
      /\ \A p \in DOMAIN loaded : loaded[p] = p /\ p \in readable /\ p < next /\ p \in Pages
  BY RegionAssumption DEF IInv, TypeOK, LoaderInv
<1>3. next \in Pages /\ next' \in 0 .. NumPages
  BY <1>1, <1>2 DEF Pages
<1>4. OnlyReadable' /\ Enumerates(data, states, 0)' /\ Enumerates(fbData, fbStates, offset)'
  BY <1>1 DEF IInv, OnlyReadable, Enumerates
<1>5. Progress'
  BY <1>1 DEF IInv, Progress
<1>6. AheadUntouched'
  BY <1>1 DEF AheadUntouched
<1>7. /\ captured' \in Nat /\ captured' <= next' /\ captured' <= Len(data')
      /\ \A i \in 1 .. Len(data') : data'[i] < next' <=> i <= captured'
      /\ \A p \in DOMAIN loaded' : loaded'[p] = p /\ p \in readable' /\ p < next' /\ p \in Pages
  <2>1. CASE states[next + 1] = CAPTURED
    <3>1. /\ captured + 1 \in 1 .. Len(data) /\ data[captured + 1] = next
          /\ \A i \in 1 .. Len(data) : data[i] < next + 1 <=> i <= captured + 1
      BY <1>1, <2>1, NextDatum
    <3>2. /\ loaded' = [p \in DOMAIN loaded \cup {next} |->
                 IF p = next
                 THEN (IF captured + 1 \in DOMAIN data THEN data[captured + 1] ELSE Empty)
                 ELSE loaded[p]]
          /\ captured' = captured + 1
      BY <2>1 DEF LoadPage
    <3>3. DOMAIN data = 1 .. Len(data) /\ Len(data) \in Nat
      BY SeqFacts DEF IInv
    <3>4. next \in readable
      BY <3>1 DEF IInv, OnlyReadable
    <3>5. ASSUME NEW p \in DOMAIN loaded'
          PROVE  loaded'[p] = p /\ p \in readable' /\ p < next' /\ p \in Pages
      <4>1. CASE p = next
        BY <1>1, <1>2, <1>3, <3>1, <3>2, <3>3, <3>4, <4>1
      <4>2. CASE p \in DOMAIN loaded /\ p # next
        <5>1. loaded'[p] = loaded[p] /\ p \in Pages /\ p < next
          BY <1>2, <3>2, <4>2
        <5>2. p < next'
          BY <1>1, <1>2, <5>1 DEF Pages
        <5>3. QED
          BY <1>1, <1>2, <4>2, <5>1, <5>2
      <4>3. QED
        BY <3>2, <4>1, <4>2
    <3>6. captured' \in Nat /\ captured' <= next' /\ captured' <= Len(data')
      BY <1>1, <1>2, <3>1, <3>2, <3>3
    <3>7. \A i \in 1 .. Len(data') : data'[i] < next' <=> i <= captured'
      BY <1>1, <3>1, <3>2
    <3>8. QED
      BY <3>5, <3>6, <3>7
  <2>2. CASE states[next + 1] # CAPTURED
    <3>1. loaded' = loaded /\ captured' = captured
      BY <2>2 DEF LoadPage
    <3>2. /\ \A i \in 1 .. Len(data) : states[data[i] - 0 + 1] = CAPTURED
          /\ captured <= Len(data)
          /\ \A i \in 1 .. Len(data) : data[i] < next <=> i <= captured
      BY DEF IInv, Enumerates, LoaderInv
    <3>3. \A i \in 1 .. Len(data) : data[i] \in Nat
      BY <1>2, SeqFacts DEF IInv, Pages
    <3>4. ASSUME NEW i \in 1 .. Len(data)
          PROVE  data[i] < next + 1 <=> i <= captured
      <4>1. data[i] # next
        <5>1. states[data[i] - 0 + 1] = CAPTURED /\ data[i] - 0 + 1 = data[i] + 1
          BY <3>2, <3>3
        <5>2. QED
          BY <2>2, <5>1
      <4>2. data[i] < next + 1 <=> data[i] < next
        BY <1>2, <3>3, <4>1
      <4>3. QED
        BY <3>2, <4>2
    <3>5. ASSUME NEW p \in DOMAIN loaded
          PROVE  p < next'
      BY <1>1, <1>2 DEF Pages
    <3>6. QED
      BY <1>1, <1>2, <3>1, <3>2, <3>4, <3>5
  <2>3. QED
    BY <2>1, <2>2
<1>8. LoaderInv'
  BY <1>1, <1>7 DEF LoaderInv
<1>9. TypeOK'
  <2>1. captured' \in 0 .. NumPages
    BY <1>2, <1>3, <1>7
  <2>2. DOMAIN loaded' \subseteq Pages /\ \A p \in DOMAIN loaded' : loaded'[p] \in Pages \cup {Empty}
    BY <1>7
  <2>3. QED
    BY <1>1, <1>3, <2>1, <2>2 DEF IInv, TypeOK
<1>10. QED
  BY <1>4, <1>5, <1>6, <1>8, <1>9 DEF IInv

LEMMA LoadedInv ==
    ASSUME IInv, Loaded
    PROVE  IInv'
<1>1. /\ pc = "loading" /\ pc' = "loaded"
      /\ readable' = readable /\ abort' = abort /\ glitched' = glitched
      /\ reading' = reading /\ late' = late
      /\ offset' = offset /\ count' = count
      /\ fbStates' = fbStates /\ fbData' = fbData /\ states' = states /\ data' = data
      /\ next' = next /\ captured' = captured /\ loaded' = loaded
  BY DEF Loaded, loaderVars, callVars
<1>2. TypeOK'
  BY <1>1 DEF IInv, TypeOK
<1>3. OnlyReadable' /\ Enumerates(data, states, 0)' /\ Enumerates(fbData, fbStates, offset)'
  BY <1>1 DEF IInv, OnlyReadable, Enumerates
<1>4. Progress' /\ AheadUntouched' /\ LoaderInv'
  BY <1>1 DEF IInv, Progress, AheadUntouched, LoaderInv
<1>5. QED
  BY <1>2, <1>3, <1>4 DEF IInv

------------------------------------------------------------------------------
(* The theorems                                                              *)

\* Every step of the program, and the abort signal at any moment, keeps IInv.
LEMMA NextInv ==
    ASSUME ~FirstBlockOnly, IInv, [Next]_readVars
    PROVE  IInv'
<1>1. CASE RequestAbort \/ BeginChunk \/ LeaveChunks \/ BeginPage \/ UNCHANGED readVars
  BY <1>1, QuietSteps
<1>2. CASE ReadWhole
  BY <1>2, ReadWholeInv
<1>3. CASE StartChunks
  BY <1>3, StartChunksInv
<1>4. CASE ReadChunk
  BY <1>4, ReadChunkInv
<1>5. CASE ChunkFails
  BY <1>5, ChunkFailsInv
<1>6. CASE ReadPage
  BY <1>6, ReadPageInv
<1>7. CASE AbortPages
  BY <1>7, AbortPagesInv
<1>8. CASE MergePages
  BY <1>8, MergePagesInv
<1>9. CASE WriteRegion
  BY <1>9, WriteRegionInv
<1>10. CASE LoadPage
  BY <1>10, LoadPageInv
<1>11. CASE Loaded
  BY <1>11, LoadedInv
<1>12. QED
  BY <1>1, <1>2, <1>3, <1>4, <1>5, <1>6, <1>7, <1>8, <1>9, <1>10, <1>11
  DEF Next, Step

\* With a bridge that answers all or nothing, the data of the region always
\* enumerates its CAPTURED pages, whatever the order of reads, failures and
\* abort in _read_region and _try_read_pages.
THEOREM RegionInvariant == ~FirstBlockOnly => (Spec => []IInv)
<1>1. SUFFICES ASSUME ~FirstBlockOnly PROVE Spec => []IInv
  OBVIOUS
<1>2. Init => IInv
  BY InitInv
<1>3. IInv /\ [Next]_readVars => IInv'
  BY <1>1, NextInv
<1>4. QED
  BY <1>2, <1>3, PTL DEF Spec

\* The model's variables keep their types, for every region and chunk size.
THEOREM RegionTypes == ~FirstBlockOnly => (Spec => []TypeOK)
<1>1. IInv => TypeOK
  BY DEF IInv
<1>2. QED
  BY <1>1, RegionInvariant, PTL

\* Every page the loader hands out as Captured holds that page's own bytes.
THEOREM RegionFaithful == ~FirstBlockOnly => (Spec => []CapturedFaithful)
<1>1. IInv => CapturedFaithful
  BY DEF IInv, LoaderInv, CapturedFaithful
<1>2. QED
  BY <1>1, RegionInvariant, PTL

\* write_memory_region never raises on the state map of a region that was read.
THEOREM RegionAccepted == ~FirstBlockOnly => (Spec => []NeverRefused)
<1>1. IInv => NeverRefused
  BY DEF IInv, Progress, NeverRefused
<1>2. QED
  BY <1>1, RegionInvariant, PTL

\* An answer that came while the flag was up was the last.
StopInv == late \in {0, 1} /\ (late = 1 => abort /\ ~reading /\ pc # "start")

LEMMA StopKept == ASSUME IInv, StopInv, [Next]_readVars PROVE StopInv'
<1>1. CASE ReadWhole \/ ReadChunk \/ ChunkFails \/ ReadPage
  <2>1. Returns /\ (reading \/ pc = "start") /\ pc' # "start" /\ abort' = abort
    BY <1>1 DEF ReadWhole, ReadChunk, ChunkFails, ReadPage
  <2> QED
    BY <2>1 DEF StopInv, Returns, IInv, TypeOK
<1>2. CASE BeginChunk \/ BeginPage
  <2>1. ~abort /\ late' = late
    BY <1>2 DEF BeginChunk, BeginPage
  <2> QED
    BY <2>1 DEF StopInv
<1>3. CASE RequestAbort \/ UNCHANGED readVars
  BY <1>3 DEF StopInv, RequestAbort, readVars, callVars
<1>4. CASE StartChunks \/ LeaveChunks \/ AbortPages \/ MergePages \/ WriteRegion
           \/ LoadPage \/ Loaded
  BY <1>4 DEF StopInv, StartChunks, LeaveChunks, AbortPages, MergePages, WriteRegion,
              LoadPage, Loaded, callVars
<1> QED
  BY <1>1, <1>2, <1>3, <1>4 DEF Next, Step

\* What is read stays read: the data and the fallback's data only grow, or move
\* from the one to the other.
LEMMA NothingDropped ==
    ASSUME ~FirstBlockOnly, IInv, [Next]_readVars
    PROVE  /\ Len(data) <= Len(data') /\ Obtained <= Obtained'
           /\ ~(ReadWhole \/ ReadChunk \/ ReadPage) => Obtained' = Obtained
<1>1. /\ Len(data) \in Nat /\ Len(fbData) \in Nat
      /\ Len(data') \in Nat /\ Len(fbData') \in Nat
  <2>1. IInv'
    BY NextInv
  <2> QED
    BY <2>1, LenProperties DEF IInv, TypeOK
<1>2. data \in Seq(Pages) /\ fbData \in Seq(Pages) /\ Len(<<>>) = 0
  BY EmptySeq DEF IInv, TypeOK
<1>3. CASE ReadWhole
  <2>1. data = <<>> /\ fbData' = fbData
    BY <1>3 DEF ReadWhole, IInv, Progress
  <2> QED
    BY <1>1, <1>2, <1>3, <2>1 DEF Obtained
<1>4. CASE ReadChunk
  <2>1. fbData' = fbData /\ offset \in Nat /\ ChunkSize \in Nat /\ offset + ChunkSize <= NumPages
    BY <1>4, ChunkSizeProps, RegionAssumption DEF ReadChunk, IInv, TypeOK, Progress
  <2>2. PICK got \in Answers(offset, ChunkSize) : data' = data \o got
    BY <1>4 DEF ReadChunk
  <2>3. got = Run(offset, ChunkSize)
    BY <2>1, WholeAnswers
  <2>4. got \in Seq(Pages)
    BY <2>1, <2>3, RunProps
  <2>5. Len(data') = Len(data) + Len(got) /\ Len(got) \in Nat
    BY <1>2, <2>2, <2>4, ConcatProperties, LenProperties
  <2> QED
    BY <1>1, <1>4, <2>1, <2>5 DEF Obtained
<1>5. CASE ReadPage
  <2>1. /\ data' = data /\ pc = "pages" /\ Len(fbStates) < count
    BY <1>5 DEF ReadPage, IInv, Progress
  <2>2. fbPage \in Nat /\ fbPage + 1 <= NumPages
    BY <2>1, PageBounds, RegionAssumption DEF fbPage
  <2>3. CASE fbData' = fbData
    BY <1>1, <1>5, <2>1, <2>3 DEF Obtained
  <2>4. CASE \E got \in Answers(fbPage, 1) : fbData' = fbData \o got
    <3>1. PICK got \in Answers(fbPage, 1) : fbData' = fbData \o got
      BY <2>4
    <3>2. got = Run(fbPage, 1)
      BY <2>2, WholeAnswers
    <3>3. got \in Seq(Pages)
      BY <2>2, <3>2, RunProps
    <3>4. Len(fbData') = Len(fbData) + Len(got) /\ Len(got) \in Nat
      BY <1>2, <3>1, <3>3, ConcatProperties, LenProperties
    <3> QED
      BY <1>1, <1>5, <2>1, <3>4 DEF Obtained
  <2> QED
    BY <1>5, <2>3, <2>4 DEF ReadPage
<1>6. CASE MergePages
  <2>1. fbData' = <<>> /\ pc = "pages"
    BY <1>6 DEF MergePages
  <2>2. CASE NumPages <= MaxChunk /\ data' = fbData
    <3>1. data = <<>>
      BY <2>1, <2>2 DEF IInv, Progress
    <3> QED
      BY <1>1, <1>2, <2>1, <2>2, <3>1 DEF Obtained
  <2>3. CASE data' = data \o fbData
    <3>1. Len(data') = Len(data) + Len(fbData)
      BY <1>2, <2>3, ConcatProperties
    <3> QED
      BY <1>1, <1>2, <2>1, <3>1 DEF Obtained
  <2>4. CASE data' = data /\ fbData = <<>>
    BY <1>1, <2>1, <2>4 DEF Obtained
  <2> QED
    BY <1>6, <2>2, <2>3, <2>4 DEF MergePages
<1>7. CASE ~(ReadWhole \/ ReadChunk \/ ReadPage \/ MergePages)
  <2>1. data' = data /\ fbData' = fbData
    BY <1>7 DEF Next, Step, readVars, RequestAbort, StartChunks, BeginChunk, ChunkFails,
                LeaveChunks, BeginPage, AbortPages, WriteRegion, LoadPage, Loaded
  <2> QED
    BY <1>1, <2>1 DEF Obtained
<1>8. MergePages => ~(ReadWhole \/ ReadChunk \/ ReadPage)
  BY DEF MergePages, ReadWhole, ReadChunk, ReadPage
<1> QED
  BY <1>3, <1>4, <1>5, <1>6, <1>7, <1>8

\* Whatever the abort flag interrupts, at most the one read that was under way,
\* or the single read of a region that fits, brings anything after it, and nothing
\* that was read is dropped.
THEOREM RegionAbortStops == ~FirstBlockOnly => (Spec => AbortStopsReading)
<1> DEFINE Stopped == /\ late' <= 1
                      /\ late' = late => Obtained' = Obtained
                      /\ Obtained <= Obtained' /\ Len(data) <= Len(data')
<1>1. SUFFICES ASSUME ~FirstBlockOnly PROVE Spec => AbortStopsReading
  OBVIOUS
<1>2. Init => StopInv
  BY DEF Init, StopInv
<1>3. IInv /\ StopInv /\ [Next]_readVars => StopInv'
  BY StopKept
<1>4. ASSUME IInv, StopInv, [Next]_readVars, abort
      PROVE  Stopped
  <2>1. late' <= 1
    BY <1>4, StopKept DEF StopInv
  <2>2. ReadWhole \/ ReadChunk \/ ReadPage => late' # late
    <3>1. ReadWhole \/ ReadChunk \/ ReadPage => Returns
      BY DEF ReadWhole, ReadChunk, ReadPage
    <3> QED
      BY <1>4, <3>1 DEF Returns, StopInv
  <2> QED
    BY <1>1, <1>4, <2>1, <2>2, NothingDropped
<1>5. IInv /\ StopInv /\ [Next]_readVars => [abort => Stopped]_readVars
  BY <1>4
<1>6. QED
  BY <1>1, <1>2, <1>3, <1>5, RegionInvariant, PTL DEF Spec, AbortStopsReading

------------------------------------------------------------------------------
(* Nothing is missed                                                         *)

\* As long as no abort came and no single page failed: what is behind the
\* loops is CAPTURED if it could be read, and what is CAPTURED gets loaded.
CoverInv ==
    /\ ~abort /\ ~glitched =>
          /\ pc = "pages" =>
                \A k \in 1 .. Len(fbStates) : offset + k - 1 \in readable => fbStates[k] = CAPTURED
          /\ pc \in {"chunks", "pages"} /\ NumPages > MaxChunk =>
                \A p \in readable : p < offset => states[p + 1] = CAPTURED
          /\ pc \in {"built", "loading", "loaded"} => \A p \in readable : states[p + 1] = CAPTURED
    /\ \A p \in Pages : p < next /\ states[p + 1] = CAPTURED => p \in DOMAIN loaded
    /\ pc = "loaded" => next = NumPages

LEMMA InitCover == Init => CoverInv
<1> SUFFICES ASSUME Init
             PROVE  CoverInv
  OBVIOUS
<1>1. pc = "start" /\ next = 0
  BY DEF Init
<1>2. \A p \in Pages : ~(p < 0)
  BY DEF Pages
<1> QED
  BY <1>1, <1>2 DEF CoverInv

\* The steps before the loader leave its part alone.
LEMMA LoaderCover ==
    ASSUME IInv, UNCHANGED loaderVars, pc \notin {"loading", "loaded"}, pc' # "loaded"
    PROVE  /\ \A p \in Pages : p < next' /\ states'[p + 1] = CAPTURED => p \in DOMAIN loaded'
           /\ ~(pc' = "loaded")
<1>1. next' = 0
  BY DEF IInv, LoaderInv, loaderVars
<1>2. \A p \in Pages : ~(p < 0)
  BY DEF Pages
<1> QED
  BY <1>1, <1>2

LEMMA ReadWholeCover == ASSUME ~FirstBlockOnly, IInv, CoverInv, ReadWhole PROVE CoverInv'
<1>1. /\ pc = "start" /\ NumPages <= MaxChunk /\ UNCHANGED loaderVars /\ readable' = readable
      /\ fbStates' = fbStates
      /\ \/ states' = Repeat(CAPTURED, NumPages) /\ pc' = "built"
         \/ pc' = "pages"
  BY DEF ReadWhole
<1>2. \A p \in Pages : p + 1 \in 1 .. NumPages
  BY RegionAssumption DEF Pages
<1>3. readable \subseteq Pages /\ fbStates = <<>> /\ NumPages \in Nat /\ MaxChunk \in Nat
  BY <1>1, RegionAssumption DEF IInv, TypeOK, Progress
<1>4. states' = Repeat(CAPTURED, NumPages) => \A p \in readable : states'[p + 1] = CAPTURED
  BY <1>2, <1>3 DEF Repeat
<1>5. Len(fbStates') = 0 /\ ~(NumPages > MaxChunk)
  BY <1>1, <1>3, EmptySeq
<1> QED
  BY <1>1, <1>4, <1>5, LoaderCover DEF CoverInv

LEMMA ChunkCover ==
    ASSUME ~FirstBlockOnly, IInv, CoverInv, StartChunks \/ ReadChunk \/ ChunkFails \/ LeaveChunks
    PROVE  CoverInv'
<1>1. /\ UNCHANGED loaderVars /\ readable' = readable /\ abort' = abort /\ glitched' = glitched
      /\ fbStates' = fbStates /\ pc \in {"start", "chunks"} /\ pc' \in {"chunks", "pages", "built"}
  BY DEF StartChunks, ReadChunk, ChunkFails, LeaveChunks
<1>2. /\ readable \subseteq Pages /\ fbStates = <<>> /\ NumPages \in Nat /\ offset \in Nat
      /\ Len(fbStates') = 0 /\ \A p \in Pages : p \in Nat /\ p < NumPages
  BY <1>1, RegionAssumption, EmptySeq DEF IInv, TypeOK, Progress, Pages
<1>3. CASE StartChunks
  <2>1. offset' = 0 /\ pc' = "chunks"
    BY <1>3 DEF StartChunks, IInv, Progress
  <2>2. \A p \in readable : ~(p < offset')
    BY <1>2, <2>1
  <2> QED
    BY <1>1, <1>2, <2>1, <2>2, LoaderCover DEF CoverInv
<1>4. CASE ReadChunk
  <2>1. /\ pc = "chunks" /\ pc' = "chunks" /\ offset' = offset + ChunkSize
        /\ states' = [k \in DOMAIN states |->
                        IF k - 1 \in offset .. offset + ChunkSize - 1 THEN CAPTURED ELSE states[k]]
    BY <1>4 DEF ReadChunk
  <2>2. DOMAIN states = 1 .. NumPages /\ NumPages > MaxChunk
    BY <2>1, LenProperties DEF IInv, TypeOK, Progress
  <2>3. ChunkSize \in Nat
    BY <1>2, RegionAssumption DEF ChunkSize, MinOf, IInv, TypeOK
  <2>4. ASSUME ~abort, ~glitched, NEW p \in readable, p < offset'
        PROVE  states'[p + 1] = CAPTURED
    <3>1. p \in Nat /\ p < NumPages /\ p + 1 \in DOMAIN states /\ (p + 1) - 1 = p
      BY <1>2, <2>2
    <3>2. states'[p + 1] = IF p \in offset .. offset + ChunkSize - 1 THEN CAPTURED ELSE states[p + 1]
      BY <2>1, <3>1
    <3>3. p < offset => states[p + 1] = CAPTURED
      BY <2>1, <2>2, <2>4 DEF CoverInv
    <3>4. p < offset \/ p \in offset .. offset + ChunkSize - 1
      BY <1>2, <2>1, <2>3, <2>4, <3>1
    <3> QED
      BY <3>2, <3>3, <3>4
  <2> QED
    BY <1>1, <2>1, <2>4, LoaderCover DEF CoverInv
<1>5. CASE ChunkFails
  <2>1. offset' = offset /\ states' = states /\ pc = "chunks" /\ pc' = "pages"
    BY <1>5 DEF ChunkFails
  <2> QED
    BY <1>1, <1>2, <2>1, LoaderCover DEF CoverInv
<1>6. CASE LeaveChunks
  <2>1. /\ offset' = offset /\ states' = states /\ pc = "chunks" /\ pc' = "built"
        /\ offset >= NumPages \/ (abort /\ NumPages > MaxChunk)
    BY <1>6 DEF LeaveChunks, IInv, Progress
  <2>2. NumPages > MaxChunk
    BY <2>1 DEF IInv, Progress
  <2>3. ~abort => \A p \in readable : p < offset
    BY <1>2, <2>1
  <2> QED
    BY <1>1, <2>1, <2>2, <2>3, LoaderCover DEF CoverInv
<1> QED
  BY <1>3, <1>4, <1>5, <1>6

LEMMA ReadPageCover == ASSUME IInv, CoverInv, ReadPage PROVE CoverInv'
<1>1. /\ pc = "pages" /\ pc' = "pages" /\ UNCHANGED loaderVars
      /\ readable' = readable /\ abort' = abort /\ offset' = offset /\ states' = states
  BY DEF ReadPage
<1>2. /\ fbStates \in Seq(States) /\ Len(fbStates) \in Nat /\ offset \in Nat
      /\ CAPTURED \in States /\ FAILED \in States
  BY <1>1, PageBounds DEF States
<1>3. \/ fbStates' = Append(fbStates, CAPTURED) /\ glitched' = glitched
      \/ fbStates' = Append(fbStates, FAILED) /\ glitched' = (glitched \/ fbPage \in readable)
  BY DEF ReadPage
<1>4. glitched \in BOOLEAN
  BY DEF IInv, TypeOK
<1>5. ASSUME ~abort', ~glitched', NEW k \in 1 .. Len(fbStates'), offset + k - 1 \in readable
      PROVE  fbStates'[k] = CAPTURED
  <2>1. ~glitched
    BY <1>3, <1>4, <1>5
  <2>2. /\ Len(fbStates') = Len(fbStates) + 1
        /\ \A j \in 1 .. Len(fbStates) : fbStates'[j] = fbStates[j]
        /\ fbStates'[Len(fbStates) + 1] \in {CAPTURED, FAILED}
        /\ fbStates'[Len(fbStates) + 1] = CAPTURED \/ fbPage \notin readable
    <3>1. CASE fbStates' = Append(fbStates, CAPTURED)
      BY <1>2, <3>1
    <3>2. CASE fbStates' = Append(fbStates, FAILED) /\ glitched' = (glitched \/ fbPage \in readable)
      <4>1. fbPage \notin readable
        BY <1>5, <3>2
      <4> QED
        BY <1>2, <3>2, <4>1
    <3> QED
      BY <1>3, <3>1, <3>2
  <2>3. CASE k = Len(fbStates) + 1
    <3>1. fbPage \in readable
      <4>1. offset + k - 1 = fbPage
        BY <1>2, <2>3 DEF fbPage
      <4> QED
        BY <1>5, <4>1
    <3> QED
      BY <2>2, <2>3, <3>1
  <2>4. CASE k # Len(fbStates) + 1
    <3>1. k \in 1 .. Len(fbStates)
      BY <1>2, <2>2, <2>4
    <3> QED
      BY <1>1, <1>5, <2>1, <2>2, <3>1 DEF CoverInv
  <2> QED
    BY <2>3, <2>4
<1>6. ~glitched' => ~glitched
  BY <1>3, <1>4
<1> QED
  BY <1>1, <1>5, <1>6, LoaderCover DEF CoverInv

LEMMA MergePagesCover == ASSUME IInv, CoverInv, MergePages PROVE CoverInv'
<1>1. /\ pc = "pages" /\ Len(fbStates) = count /\ UNCHANGED loaderVars
      /\ readable' = readable /\ abort' = abort /\ glitched' = glitched
      /\ pc' \in {"built", "chunks"} /\ Len(fbStates') = 0
  BY EmptySeq DEF MergePages
<1>2. /\ offset \in Nat /\ count \in Nat /\ DOMAIN fbStates = 1 .. count /\ NumPages \in Nat
      /\ readable \subseteq Pages /\ \A p \in Pages : p \in Nat /\ p < NumPages
  BY <1>1, PageBounds, LenProperties, RegionAssumption DEF IInv, TypeOK, Pages
<1>3. ASSUME ~abort, ~glitched, NEW p \in readable, p >= offset, p < offset + count
      PROVE  /\ (p + 1) - offset \in 1 .. count /\ fbStates[(p + 1) - offset] = CAPTURED
             /\ fbData # <<>>
  <2>1. (p + 1) - offset \in 1 .. Len(fbStates) /\ offset + ((p + 1) - offset) - 1 = p
    BY <1>1, <1>2, <1>3
  <2>2. fbStates[(p + 1) - offset] = CAPTURED
    BY <1>1, <1>3, <2>1 DEF CoverInv
  <2>3. \E i \in 1 .. Len(fbData) : TRUE
    BY <2>1, <2>2 DEF IInv, Enumerates
  <2>4. fbData # <<>>
    BY <2>3, EmptySeq
  <2> QED
    BY <1>1, <2>1, <2>2, <2>4
<1>4. CASE NumPages <= MaxChunk
  <2>1. states' = fbStates /\ pc' = "built" /\ offset = 0 /\ count = NumPages
    BY <1>1, <1>4 DEF MergePages, IInv, Progress
  <2>2. ASSUME ~abort, ~glitched, NEW p \in readable
        PROVE  states'[p + 1] = CAPTURED
    <3>1. p >= offset /\ p < offset + count /\ (p + 1) - offset = p + 1
      BY <1>2, <2>1
    <3> QED
      BY <1>3, <2>1, <2>2, <3>1
  <2> QED
    BY <1>1, <2>1, <2>2, LoaderCover DEF CoverInv
<1>5. CASE NumPages > MaxChunk
  <2>1. /\ pc' = "chunks" /\ offset' = offset + count
        /\ IF fbData # <<>>
           THEN states' = [k \in DOMAIN states |->
                             IF k - offset \in DOMAIN fbStates THEN fbStates[k - offset] ELSE states[k]]
           ELSE states' = states
    BY <1>5, RegionAssumption DEF MergePages
  <2>2. DOMAIN states = 1 .. NumPages
    BY <1>1, <1>5, LenProperties DEF IInv, TypeOK, Progress
  <2>3. ASSUME ~abort, ~glitched, NEW p \in readable, p < offset + count
        PROVE  states'[p + 1] = CAPTURED
    <3>1. p \in Nat /\ p + 1 \in DOMAIN states
      BY <1>2, <2>2
    <3>2. CASE p < offset
      <4>1. states[p + 1] = CAPTURED /\ (p + 1) - offset \notin DOMAIN fbStates
        BY <1>1, <1>2, <1>5, <2>3, <3>1, <3>2 DEF CoverInv
      <4> QED
        BY <2>1, <3>1, <4>1
    <3>3. CASE p >= offset
      <4>1. /\ (p + 1) - offset \in DOMAIN fbStates /\ fbStates[(p + 1) - offset] = CAPTURED
            /\ fbData # <<>>
        BY <1>2, <1>3, <2>3, <3>3
      <4> QED
        BY <2>1, <3>1, <4>1
    <3> QED
      BY <1>2, <3>1, <3>2, <3>3
  <2> QED
    BY <1>1, <2>1, <2>3, LoaderCover DEF CoverInv
<1> QED
  BY <1>2, <1>4, <1>5, RegionAssumption

LEMMA LoaderStepsCover ==
    ASSUME IInv, CoverInv, WriteRegion \/ LoadPage \/ Loaded
    PROVE  CoverInv'
<1>1. /\ readable' = readable /\ abort' = abort /\ glitched' = glitched /\ states' = states
  BY DEF WriteRegion, LoadPage, Loaded
<1>2. CASE WriteRegion
  <2>1. pc = "built" /\ pc' \in {"loading", "refused"} /\ UNCHANGED loaderVars
    BY <1>2 DEF WriteRegion
  <2> QED
    BY <1>1, <2>1, LoaderCover DEF CoverInv
<1>3. CASE LoadPage
  <2>1. /\ pc = "loading" /\ pc' = "loading" /\ next' = next + 1 /\ next \in Nat
        /\ IF states[next + 1] = CAPTURED THEN DOMAIN loaded' = DOMAIN loaded \cup {next}
                                          ELSE loaded' = loaded
    BY <1>3, RegionAssumption DEF LoadPage, IInv, TypeOK
  <2>2. ASSUME NEW p \in Pages, p < next', states'[p + 1] = CAPTURED
        PROVE  p \in DOMAIN loaded'
    <3>1. p < next \/ p = next
      BY <2>1, <2>2, RegionAssumption DEF Pages
    <3> QED
      BY <1>1, <2>1, <2>2, <3>1 DEF CoverInv
  <2> QED
    BY <1>1, <2>1, <2>2 DEF CoverInv
<1>4. CASE Loaded
  BY <1>1, <1>4 DEF CoverInv, Loaded, callVars, loaderVars
<1> QED
  BY <1>2, <1>3, <1>4

LEMMA CoverKept == ASSUME ~FirstBlockOnly, IInv, CoverInv, [Next]_readVars PROVE CoverInv'
<1>1. CASE RequestAbort \/ BeginChunk \/ BeginPage \/ UNCHANGED readVars
  <2>1. /\ states' = states /\ next' = next /\ loaded' = loaded /\ pc' = pc
        /\ readable' = readable /\ glitched' = glitched /\ offset' = offset
        /\ fbStates' = fbStates /\ (abort' \/ abort' = abort)
    BY <1>1 DEF RequestAbort, BeginChunk, BeginPage, readVars, callVars, loaderVars
  <2>2. CASE abort'
    BY <2>1, <2>2 DEF CoverInv
  <2>3. CASE abort' = abort
    BY <2>1, <2>3 DEF CoverInv
  <2> QED
    BY <2>1, <2>2, <2>3
<1>2. CASE AbortPages
  <2>1. abort' /\ UNCHANGED loaderVars /\ pc = "pages" /\ pc' = "pages"
    BY <1>2 DEF AbortPages
  <2> QED
    BY <2>1, LoaderCover DEF CoverInv
<1> QED
  BY <1>1, <1>2, ReadWholeCover, ChunkCover, ReadPageCover, MergePagesCover, LoaderStepsCover DEF Next, Step

\* Without an abort and without a failing page, every readable page of the
\* region is in the slice: the tiers of reads leave nothing out.
THEOREM RegionNothingMissed == ~FirstBlockOnly => (Spec => []NothingMissed)
<1>1. SUFFICES ASSUME ~FirstBlockOnly PROVE Spec => []NothingMissed
  OBVIOUS
<1>2. IInv /\ CoverInv => NothingMissed
  <2> SUFFICES ASSUME IInv, CoverInv, pc = "loaded", ~abort, ~glitched
               PROVE  DOMAIN loaded = readable
    BY DEF NothingMissed
  <2>1. readable \subseteq Pages /\ next = NumPages /\ \A p \in Pages : p < NumPages
    BY RegionAssumption DEF IInv, TypeOK, CoverInv, Pages
  <2>2. \A p \in readable : p \in DOMAIN loaded
    BY <2>1 DEF CoverInv
  <2> QED
    BY <2>2 DEF IInv, LoaderInv
<1>3. IInv /\ CoverInv /\ [Next]_readVars => CoverInv'
  BY <1>1, CoverKept
<1>4. QED
  BY <1>1, <1>2, <1>3, InitCover, RegionInvariant, PTL DEF Spec

------------------------------------------------------------------------------
(* The GDB session                                                           *)

\* r counts the result records among the first lines of s, from `from' on, and
\* each of them answers the command of its number.
Ranks(r, s, from) ==
    /\ r \in [0 .. Len(s) -> Nat] /\ r[0] = from
    /\ \A a \in 1 .. Len(s) :
          IF Result(s[a]) THEN r[a] = r[a - 1] + 1 /\ s[a].of = r[a] ELSE r[a] = r[a - 1]

\* The result records of s answer the commands from + 1 .. to, in this order.
Numbers(s, from, to) == \E r \in [0 .. Len(s) -> Nat] : Ranks(r, s, from) /\ r[Len(s)] = to

Timeouts(s, n) == Cardinality({j \in 1 .. n : s[j].kind = "TimeoutError"})

\* The result records that commands have taken, as long as each ended with one
\* or with a timeout.
Taken == Len(outcomes) - Timeouts(outcomes, Len(outcomes))

\* A command ended without GDB's answer: it could not be written, or the reader had
\* ended.
Lost == \E j \in 1 .. Len(outcomes) : outcomes[j].of = 0 /\ outcomes[j].kind # "TimeoutError"

InOrder ==
    \E m, t \in Nat :
       /\ Numbers(queue, Taken, m) /\ Numbers(stdout, m, t)
       /\ \A s \in 1 .. Len(stdin) : stdin[s] = t + s
       /\ gdb = "running" => Len(commands) = t + Len(stdin)

\* Behind the None of the reader thread nothing comes.
EofIsLast ==
    /\ \A a \in 1 .. Len(stdout) : stdout[a].kind # "eof"
    /\ \A a \in 1 .. Len(queue) : queue[a].kind = "eof" => reader = "ended" /\ a = Len(queue)

\* No command takes a result record any more: the None has been taken, or GDB is
\* dead and no command waits.
NoMore ==
    \/ reader = "ended" /\ queue = <<>>
    \/ gdb = "dead" /\ caller # "waiting"

SessionInv ==
    /\ SessionTypeOK
    /\ Lost => NoMore
    /\ EofIsLast
    /\ ~Lost => InOrder
    /\ LagIsTimeouts

------------------------------------------------------------------------------
(* Numbered lines                                                            *)

\* Nothing is numbered in an empty sequence, or in one without results.
LEMMA NumbersNone ==
    ASSUME NEW s \in Seq(LineType), NEW n \in Nat, \A a \in 1 .. Len(s) : ~Result(s[a])
    PROVE  Numbers(s, n, n)
<1> DEFINE r == [a \in 0 .. Len(s) |-> n]
<1>1. Len(s) \in Nat
  OBVIOUS
<1>2. r \in [0 .. Len(s) -> Nat] /\ r[0] = n /\ r[Len(s)] = n
  BY <1>1
<1>3. \A a \in 1 .. Len(s) : r[a] = r[a - 1]
  BY <1>1
<1> HIDE DEF r
<1> QED
  BY <1>2, <1>3 DEF Numbers, Ranks

\* A line that is no result changes no number; one that is takes the next.
LEMMA NumbersAppend ==
    ASSUME NEW s \in Seq(LineType), NEW line \in LineType, NEW from \in Nat, NEW to \in Nat,
           Numbers(s, from, to), NEW behind \in Nat,
           behind = IF Result(line) THEN to + 1 ELSE to,
           Result(line) => line.of = behind
    PROVE  Numbers(Append(s, line), from, behind)
<1>1. Len(s) \in Nat
  OBVIOUS
<1>2. PICK r \in [0 .. Len(s) -> Nat] : Ranks(r, s, from) /\ r[Len(s)] = to
  BY DEF Numbers
<1> DEFINE q == [a \in 0 .. Len(s) + 1 |-> IF a = Len(s) + 1 THEN behind ELSE r[a]]
<1> DEFINE t == Append(s, line)
<1>3. Len(t) = Len(s) + 1 /\ t[Len(s) + 1] = line /\ \A a \in 1 .. Len(s) : t[a] = s[a]
  OBVIOUS
<1>4. q \in [0 .. Len(s) + 1 -> Nat]
  BY <1>1
<1>5. q[Len(s) + 1] = behind /\ \A a \in 0 .. Len(s) : q[a] = r[a]
  BY <1>1
<1> HIDE DEF q, t
<1>6. q[0] = from
  BY <1>1, <1>2, <1>5 DEF Ranks
<1>7. ASSUME NEW a \in 1 .. Len(s) + 1
      PROVE  IF Result(t[a]) THEN q[a] = q[a - 1] + 1 /\ t[a].of = q[a] ELSE q[a] = q[a - 1]
  <2>1. CASE a = Len(s) + 1
    <3>1. q[a - 1] = to
      BY <1>1, <1>2, <1>5, <2>1
    <3> QED
      BY <1>3, <1>5, <2>1, <3>1
  <2>2. CASE a # Len(s) + 1
    <3>1. a \in 1 .. Len(s) /\ a \in 0 .. Len(s) /\ a - 1 \in 0 .. Len(s)
      BY <1>1, <2>2
    <3>2. q[a] = r[a] /\ q[a - 1] = r[a - 1] /\ t[a] = s[a]
      BY <1>3, <1>5, <3>1
    <3> QED
      BY <1>2, <3>1, <3>2 DEF Ranks
  <2> QED
    BY <2>1, <2>2
<1>8. Ranks(q, t, from)
  BY <1>3, <1>4, <1>6, <1>7 DEF Ranks
<1>9. Numbers(t, from, behind)
  BY <1>3, <1>4, <1>5, <1>8 DEF Numbers
<1> QED
  BY <1>9 DEF t

\* Numbers are natural numbers, and so is what they begin after.
LEMMA NumbersFrom ==
    ASSUME NEW s \in Seq(LineType), NEW from, NEW to, Numbers(s, from, to)
    PROVE  from \in Nat
<1>1. PICK r \in [0 .. Len(s) -> Nat] : r[0] = from
  BY DEF Numbers, Ranks
<1>2. 0 \in 0 .. Len(s)
  OBVIOUS
<1> QED
  BY <1>1, <1>2

\* What stands first is next, and the rest begins after it.
LEMMA NumbersTail ==
    ASSUME NEW s \in Seq(LineType), s # <<>>, NEW from \in Nat, NEW to \in Nat, Numbers(s, from, to)
    PROVE  /\ Result(Head(s)) => Head(s).of = from + 1
           /\ Numbers(Tail(s), IF Result(Head(s)) THEN from + 1 ELSE from, to)
<1>1. Len(s) \in Nat /\ Len(s) # 0 /\ Head(s) = s[1]
  OBVIOUS
<1>2. PICK r \in [0 .. Len(s) -> Nat] : Ranks(r, s, from) /\ r[Len(s)] = to
  BY DEF Numbers
<1> DEFINE t == Tail(s)
<1> DEFINE first == IF Result(Head(s)) THEN from + 1 ELSE from
<1> DEFINE q == [a \in 0 .. Len(s) - 1 |-> r[a + 1]]
<1>3. Len(t) = Len(s) - 1 /\ \A a \in 1 .. Len(s) - 1 : t[a] = s[a + 1]
  BY <1>1
<1>4. q \in [0 .. Len(s) - 1 -> Nat]
  BY <1>1
<1>5. \A a \in 0 .. Len(s) - 1 : q[a] = r[a + 1]
  BY <1>1
<1> HIDE DEF q, t
<1>6. 1 \in 1 .. Len(s) /\ 1 - 1 = 0
  BY <1>1
<1>7. r[1] = first /\ (Result(Head(s)) => Head(s).of = from + 1)
  BY <1>1, <1>2, <1>6 DEF Ranks
<1> HIDE DEF first
<1>8. q[0] = first
  BY <1>1, <1>5, <1>7
<1>9. ASSUME NEW a \in 1 .. Len(s) - 1
      PROVE  IF Result(t[a]) THEN q[a] = q[a - 1] + 1 /\ t[a].of = q[a] ELSE q[a] = q[a - 1]
  <2>1. a + 1 \in 1 .. Len(s) /\ a \in 0 .. Len(s) - 1 /\ a - 1 \in 0 .. Len(s) - 1 /\ (a + 1) - 1 = a
    BY <1>1
  <2>2. q[a] = r[a + 1] /\ q[a - 1] = r[a] /\ t[a] = s[a + 1]
    <3>1. q[a - 1] = r[(a - 1) + 1] /\ (a - 1) + 1 = a
      BY <1>5, <2>1
    <3> QED
      BY <1>3, <1>5, <2>1, <3>1
  <2>3. IF Result(s[a + 1]) THEN r[a + 1] = r[(a + 1) - 1] + 1 /\ s[a + 1].of = r[a + 1]
                            ELSE r[a + 1] = r[(a + 1) - 1]
    BY <1>2, <2>1 DEF Ranks
  <2> QED
    BY <2>1, <2>2, <2>3
<1>10. Ranks(q, t, first)
  BY <1>3, <1>4, <1>8, <1>9 DEF Ranks
<1>11. q[Len(t)] = to
  BY <1>1, <1>2, <1>3, <1>5
<1>12. Numbers(t, first, to)
  BY <1>3, <1>4, <1>10, <1>11 DEF Numbers
<1> QED
  BY <1>7, <1>12 DEF t, first
------------------------------------------------------------------------------
(* Outcomes                                                                  *)

Outcomes == [kind : {"answer", "RuntimeError", "TimeoutError", "OSError"}, of : Nat]

\* One more outcome is one more timeout, or none.
LEMMA TimeoutsAppend ==
    ASSUME NEW s \in Seq(Outcomes), NEW o \in Outcomes
    PROVE  /\ \A n \in 0 .. Len(s) : /\ Timeouts(s, n) \in Nat
                                     /\ Timeouts(Append(s, o), n) = Timeouts(s, n)
           /\ Timeouts(Append(s, o), Len(s) + 1) =
                 Timeouts(s, Len(s)) + IF o.kind = "TimeoutError" THEN 1 ELSE 0
<1> DEFINE t == Append(s, o)
<1> DEFINE At(q, n) == {j \in 1 .. n : q[j].kind = "TimeoutError"}
<1>1. Len(s) \in Nat /\ t[Len(s) + 1] = o /\ \A j \in 1 .. Len(s) : t[j] = s[j]
  OBVIOUS
<1> HIDE DEF t
<1>2. ASSUME NEW n \in 0 .. Len(s)
      PROVE  IsFiniteSet(At(s, n)) /\ Cardinality(At(s, n)) \in Nat /\ At(t, n) = At(s, n)
  <2>1. IsFiniteSet(1 .. n)
    BY <1>1, FS_Interval
  <2>2. At(s, n) \subseteq 1 .. n
    OBVIOUS
  <2>3. At(t, n) = At(s, n)
    BY <1>1
  <2> QED
    BY <2>1, <2>2, <2>3, FS_Subset, FS_CardinalityType
<1>3. \A n \in 0 .. Len(s) : Timeouts(s, n) \in Nat /\ Timeouts(t, n) = Timeouts(s, n)
  BY <1>2 DEF Timeouts
<1>4. Len(s) \in 0 .. Len(s)
  BY <1>1
<1>5. CASE o.kind = "TimeoutError"
  <2>1. At(t, Len(s) + 1) = At(s, Len(s)) \cup {Len(s) + 1}
    BY <1>1, <1>5
  <2>2. Len(s) + 1 \notin At(s, Len(s))
    BY <1>1
  <2>3. Cardinality(At(t, Len(s) + 1)) = Cardinality(At(s, Len(s))) + 1
    <3>1. IsFiniteSet(At(s, Len(s)))
      BY <1>2, <1>4
    <3> HIDE DEF At
    <3> QED
      BY <2>1, <2>2, <3>1, FS_AddElement
  <2> QED
    BY <1>3, <1>5, <2>3 DEF Timeouts, t
<1>6. CASE o.kind # "TimeoutError"
  <2>1. At(t, Len(s) + 1) = At(s, Len(s))
    BY <1>1, <1>6
  <2>2. Timeouts(t, Len(s) + 1) = Timeouts(s, Len(s)) /\ Timeouts(s, Len(s)) \in Nat
    BY <1>3, <1>4, <2>1 DEF Timeouts
  <2> QED
    BY <1>3, <1>6, <2>2 DEF t
<1> QED
  BY <1>3, <1>5, <1>6 DEF t

\* What an outcome does to the number of records taken, and to the lag.
LEMMA OutcomeAdded ==
    ASSUME SessionTypeOK, LagIsTimeouts, NEW o \in Outcomes, outcomes' = Append(outcomes, o),
           o.of # 0 => o.of = Taken + 1 /\ o.kind # "TimeoutError"
    PROVE  /\ LagIsTimeouts'
           /\ Taken' = IF o.kind = "TimeoutError" THEN Taken ELSE Taken + 1
           /\ Lost' <=> Lost \/ (o.of = 0 /\ o.kind # "TimeoutError")
<1> DEFINE n == Len(outcomes)
<1>1. outcomes \in Seq(Outcomes) /\ n \in Nat
  BY DEF SessionTypeOK, Outcomes
<1>2. /\ Len(outcomes') = n + 1 /\ outcomes'[n + 1] = o
      /\ \A j \in 1 .. n : outcomes'[j] = outcomes[j]
  BY <1>1
<1>3. /\ \A k \in 0 .. n : Timeouts(outcomes, k) \in Nat /\ Timeouts(outcomes', k) = Timeouts(outcomes, k)
      /\ Timeouts(outcomes', n + 1) = Timeouts(outcomes, n) + IF o.kind = "TimeoutError" THEN 1 ELSE 0
  BY <1>1, TimeoutsAppend
<1>4. Timeouts(outcomes, n) \in Nat /\ n \in 0 .. n /\ Timeouts(outcomes', n) = Timeouts(outcomes, n)
  BY <1>1, <1>3
<1>5. /\ Taken = n - Timeouts(outcomes, n)
      /\ Taken' = (n + 1) - Timeouts(outcomes', n + 1)
  BY <1>2 DEF Taken
<1>6. Taken' = IF o.kind = "TimeoutError" THEN Taken ELSE Taken + 1
  BY <1>1, <1>3, <1>4, <1>5
<1>7. Lost' <=> Lost \/ (o.of = 0 /\ o.kind # "TimeoutError")
  BY <1>1, <1>2 DEF Lost
<1>8. ASSUME NEW i \in 1 .. n + 1, outcomes'[i].of # 0
      PROVE  outcomes'[i].of = i - Timeouts(outcomes', i - 1)
  <2>1. CASE i = n + 1
    <3>1. i - 1 = n
      BY <1>1, <2>1
    <3>2. o.of = Taken + 1
      BY <1>2, <1>8, <2>1
    <3> QED
      BY <1>1, <1>2, <1>4, <1>5, <2>1, <3>1, <3>2
  <2>2. CASE i # n + 1
    <3>1. i \in 1 .. n /\ i - 1 \in 0 .. n
      BY <1>1, <2>2
    <3>2. outcomes[i].of = i - Timeouts(outcomes, i - 1)
      BY <1>2, <1>8, <3>1 DEF LagIsTimeouts, TimeoutsBefore, Timeouts
    <3> QED
      BY <1>2, <1>3, <3>1, <3>2
  <2> QED
    BY <2>1, <2>2
<1>9. LagIsTimeouts'
  BY <1>2, <1>8 DEF LagIsTimeouts, TimeoutsBefore, Timeouts
<1> QED
  BY <1>6, <1>7, <1>9
------------------------------------------------------------------------------
(* The invariant                                                             *)

\* Printed lines are numbered on in the pipe.
LEMMA StdoutGrows ==
    ASSUME stdout \in Seq(LineType), NEW x \in LineType, NEW y \in LineType
    PROVE  stdout \o <<x, y>> = Append(Append(stdout, x), y)
  OBVIOUS

LEMMA InitIInv == SessionInit => SessionInv
<1> SUFFICES ASSUME SessionInit
             PROVE  SessionInv
  OBVIOUS
<1>1. Async \in LineType /\ Prompt \in LineType /\ ~Result(Async) /\ ~Result(Prompt)
      /\ Async.kind # "eof" /\ Prompt.kind # "eof"
  BY DEF Async, Prompt, Line, LineType, Result
<1>2. stdout = <<Async, Prompt>> /\ stdout \in Seq(LineType)
  BY <1>1 DEF SessionInit
<1>3. \A a \in 1 .. Len(stdout) : ~Result(stdout[a]) /\ stdout[a].kind # "eof"
  BY <1>1, <1>2
<1>4. SessionTypeOK
  <2>1. <<>> \in Seq(Nat) /\ <<>> \in Seq({"hello", "attach", "read", "detach"})
        /\ <<>> \in Seq([kind : {"answer", "RuntimeError", "TimeoutError", "OSError"}, of : Nat])
        /\ <<>> \in Seq(LineType) /\ Len(<<>>) = 0
    OBVIOUS
  <2>2. Len(outcomes) = Len(commands) - (IF caller = "waiting" THEN 1 ELSE 0)
    BY <2>1 DEF SessionInit
  <2> QED
    BY <1>2, <2>1, <2>2 DEF SessionInit, SessionTypeOK
<1>5. queue = <<>> /\ queue \in Seq(LineType) /\ stdin = <<>> /\ outcomes = <<>> /\ commands = <<>>
  BY DEF SessionInit
<1>6. Taken = 0
  <2>1. {j \in 1 .. 0 : outcomes[j].kind = "TimeoutError"} = {}
    OBVIOUS
  <2> QED
    BY <1>5, <2>1, FS_EmptySet DEF Taken, Timeouts
<1>7. Numbers(queue, 0, 0)
  <2>1. \A a \in 1 .. Len(queue) : ~Result(queue[a])
    BY <1>5
  <2> QED
    BY <1>5, <2>1, NumbersNone
<1>8. Numbers(stdout, 0, 0)
  BY <1>2, <1>3, NumbersNone
<1>9. InOrder
  BY <1>5, <1>6, <1>7, <1>8 DEF InOrder
<1>10. ~Lost /\ LagIsTimeouts /\ EofIsLast
  BY <1>3, <1>5 DEF Lost, LagIsTimeouts, EofIsLast
<1> QED
  BY <1>4, <1>9, <1>10 DEF SessionInv

\* The outcomes stand still.
LEMMA OutcomesKept ==
    ASSUME outcomes' = outcomes
    PROVE  Taken' = Taken /\ (Lost' <=> Lost) /\ (LagIsTimeouts' <=> LagIsTimeouts)
  BY DEF Taken, Timeouts, Lost, LagIsTimeouts, TimeoutsBefore

LEMMA AnswersKeeps == ASSUME SessionInv, GdbAnswers PROVE SessionInv'
<1> USE DEF SessionInv
<1>1. PICK status \in {"done", "error"} :
          /\ stdout' = stdout \o <<Line(status, Head(stdin)), Prompt>>
          /\ attached' = (attached \/ (commands[Head(stdin)] = "attach" /\ status = "done"))
  BY DEF GdbAnswers
<1>2. /\ stdin \in Seq(Nat) /\ stdin # <<>> /\ stdin' = Tail(stdin) /\ Head(stdin) = stdin[1]
      /\ Len(stdin) \in Nat /\ Len(stdin) # 0 /\ Head(stdin) \in Nat /\ Tail(stdin) \in Seq(Nat)
      /\ Len(stdin') = Len(stdin) - 1 /\ \A k \in 1 .. Len(stdin') : stdin'[k] = stdin[k + 1]
      /\ gdb = "running" /\ gdb' = gdb /\ queue' = queue /\ reader' = reader /\ caller' = caller
      /\ atStart' = atStart /\ commands' = commands /\ outcomes' = outcomes /\ asyncs' = asyncs
  <2>1. stdin \in Seq(Nat)
    BY DEF SessionTypeOK
  <2>2. /\ stdin # <<>> /\ stdin' = Tail(stdin)
        /\ gdb = "running" /\ gdb' = gdb /\ queue' = queue /\ reader' = reader /\ caller' = caller
        /\ atStart' = atStart /\ commands' = commands /\ outcomes' = outcomes /\ asyncs' = asyncs
    BY DEF GdbAnswers
  <2>3. /\ Head(stdin) = stdin[1] /\ Len(stdin) \in Nat /\ Len(stdin) # 0 /\ Head(stdin) \in Nat
        /\ Tail(stdin) \in Seq(Nat) /\ Len(stdin') = Len(stdin) - 1
        /\ \A k \in 1 .. Len(stdin') : stdin'[k] = stdin[k + 1]
    BY <2>1, <2>2
  <2> QED
    BY <2>1, <2>2, <2>3
<1> DEFINE x == Line(status, Head(stdin))
<1>3. x \in LineType /\ Result(x) /\ x.of = Head(stdin) /\ x.kind # "eof"
  BY <1>2 DEF Line, LineType, Result
<1>4. Prompt \in LineType /\ ~Result(Prompt) /\ Prompt.kind # "eof"
  BY DEF Prompt, Line, LineType, Result
<1> HIDE DEF x
<1>5. stdout \in Seq(LineType) /\ Append(stdout, x) \in Seq(LineType)
  BY <1>3 DEF SessionTypeOK
<1>6. stdout' = Append(Append(stdout, x), Prompt) /\ stdout' \in Seq(LineType)
  BY <1>1, <1>3, <1>4, <1>5, StdoutGrows DEF x
<1>7. attached' \in BOOLEAN
  BY <1>1 DEF SessionTypeOK
<1>8. SessionTypeOK'
  BY <1>2, <1>6, <1>7 DEF SessionTypeOK
<1>9. EofIsLast'
  <2>1. \A a \in 1 .. Len(stdout') : stdout'[a].kind # "eof"
    BY <1>3, <1>4, <1>5, <1>6 DEF EofIsLast
  <2> QED
    BY <1>2, <2>1 DEF EofIsLast
<1>10. ASSUME ~Lost'
       PROVE  InOrder'
  <2>1. ~Lost /\ Taken' = Taken
    BY <1>2, <1>10, OutcomesKept
  <2>2. PICK m \in Nat, t \in Nat : /\ Numbers(queue, Taken, m) /\ Numbers(stdout, m, t)
                                    /\ \A k \in 1 .. Len(stdin) : stdin[k] = t + k
                                    /\ gdb = "running" => Len(commands) = t + Len(stdin)
    BY <2>1 DEF InOrder
  <2>3. Head(stdin) = t + 1 /\ t + 1 \in Nat
    BY <1>2, <2>2
  <2>4. Numbers(Append(stdout, x), m, t + 1)
    BY <1>3, <1>5, <2>2, <2>3, NumbersAppend
  <2>5. Numbers(stdout', m, t + 1)
    BY <1>4, <1>5, <1>6, <2>2, <2>3, <2>4, NumbersAppend
  <2>6. \A k \in 1 .. Len(stdin') : stdin'[k] = (t + 1) + k
    BY <1>2, <2>2
  <2>7. gdb' = "running" => Len(commands') = (t + 1) + Len(stdin')
    BY <1>2, <2>2
  <2> QED
    BY <1>2, <2>1, <2>2, <2>3, <2>5, <2>6, <2>7 DEF InOrder
<1>11. (Lost' => NoMore') /\ LagIsTimeouts'
  BY <1>2, OutcomesKept DEF NoMore
<1> QED
  BY <1>8, <1>9, <1>10, <1>11

LEMMA NotifiesKeeps == ASSUME SessionInv, GdbNotifies PROVE SessionInv'
<1> USE DEF SessionInv
<1>1. /\ stdout' = Append(stdout, Async) /\ asyncs' = asyncs + 1
      /\ gdb' = gdb /\ attached' = attached /\ stdin' = stdin /\ queue' = queue /\ reader' = reader
      /\ caller' = caller /\ atStart' = atStart /\ commands' = commands /\ outcomes' = outcomes
  BY DEF GdbNotifies
<1>2. Async \in LineType /\ ~Result(Async) /\ Async.kind # "eof" /\ stdout \in Seq(LineType)
  BY DEF Async, Line, LineType, Result, SessionTypeOK
<1>3. SessionTypeOK'
  BY <1>1, <1>2 DEF SessionTypeOK
<1>4. EofIsLast'
  <2>1. \A a \in 1 .. Len(stdout') : stdout'[a].kind # "eof"
    BY <1>1, <1>2 DEF EofIsLast
  <2> QED
    BY <1>1, <2>1 DEF EofIsLast
<1>5. ASSUME ~Lost'
      PROVE  InOrder'
  <2>1. ~Lost /\ Taken' = Taken
    BY <1>1, <1>5, OutcomesKept
  <2>2. PICK m \in Nat, t \in Nat : /\ Numbers(queue, Taken, m) /\ Numbers(stdout, m, t)
                                    /\ \A k \in 1 .. Len(stdin) : stdin[k] = t + k
                                    /\ gdb = "running" => Len(commands) = t + Len(stdin)
    BY <2>1 DEF InOrder
  <2>3. Numbers(stdout', m, t)
    BY <1>1, <1>2, <2>2, NumbersAppend
  <2> QED
    BY <1>1, <2>1, <2>2, <2>3 DEF InOrder
<1>6. (Lost' => NoMore') /\ LagIsTimeouts'
  BY <1>1, OutcomesKept DEF NoMore
<1> QED
  BY <1>3, <1>4, <1>5, <1>6
LEMMA DiesKeeps == ASSUME SessionInv, GdbDies PROVE SessionInv'
<1> USE DEF SessionInv
<1>1. /\ gdb' = "dead" /\ stdin' = <<>> /\ gdb = "running" /\ asyncs' = asyncs
      /\ attached' = attached /\ stdout' = stdout /\ queue' = queue /\ reader' = reader
      /\ caller' = caller /\ atStart' = atStart /\ commands' = commands /\ outcomes' = outcomes
  BY DEF GdbDies
<1>2. SessionTypeOK'
  BY <1>1 DEF SessionTypeOK
<1>3. EofIsLast'
  BY <1>1 DEF EofIsLast
<1>4. ASSUME ~Lost'
      PROVE  InOrder'
  <2>1. ~Lost /\ Taken' = Taken
    BY <1>1, <1>4, OutcomesKept
  <2> QED
    BY <1>1, <2>1 DEF InOrder
<1>5. (Lost' => NoMore') /\ LagIsTimeouts'
  BY <1>1, OutcomesKept DEF NoMore
<1> QED
  BY <1>2, <1>3, <1>4, <1>5

LEMMA ReaderLineKeeps == ASSUME SessionInv, ReaderLine PROVE SessionInv'
<1> USE DEF SessionInv
<1>1. /\ reader = "reading" /\ stdout # <<>> /\ queue' = Append(queue, Head(stdout)) /\ stdout' = Tail(stdout)
      /\ gdb' = gdb /\ attached' = attached /\ stdin' = stdin /\ reader' = reader /\ asyncs' = asyncs
      /\ caller' = caller /\ atStart' = atStart /\ commands' = commands /\ outcomes' = outcomes
  BY DEF ReaderLine
<1>2. /\ stdout \in Seq(LineType) /\ queue \in Seq(LineType) /\ Head(stdout) \in LineType
      /\ Head(stdout) = stdout[1] /\ 1 \in 1 .. Len(stdout) /\ Tail(stdout) \in Seq(LineType)
      /\ Len(stdout') = Len(stdout) - 1 /\ Len(stdout) \in Nat
      /\ \A a \in 1 .. Len(stdout') : stdout'[a] = stdout[a + 1]
  BY <1>1 DEF SessionTypeOK
<1>3. SessionTypeOK'
  BY <1>1, <1>2 DEF SessionTypeOK
<1>4. EofIsLast'
  <2>1. Head(stdout).kind # "eof" /\ \A a \in 1 .. Len(stdout') : stdout'[a].kind # "eof"
    BY <1>2 DEF EofIsLast
  <2>2. \A a \in 1 .. Len(queue') : queue'[a].kind # "eof"
    BY <1>1, <1>2, <2>1 DEF EofIsLast
  <2> QED
    BY <2>1, <2>2 DEF EofIsLast
<1>5. ASSUME ~Lost'
      PROVE  InOrder'
  <2>1. ~Lost /\ Taken' = Taken
    BY <1>1, <1>5, OutcomesKept
  <2>2. PICK m \in Nat, t \in Nat : /\ Numbers(queue, Taken, m) /\ Numbers(stdout, m, t)
                                    /\ \A k \in 1 .. Len(stdin) : stdin[k] = t + k
                                    /\ gdb = "running" => Len(commands) = t + Len(stdin)
    BY <2>1 DEF InOrder
  <2> DEFINE behind == IF Result(Head(stdout)) THEN m + 1 ELSE m
  <2>3. Numbers(stdout', behind, t) /\ (Result(Head(stdout)) => Head(stdout).of = behind) /\ behind \in Nat
    BY <1>1, <1>2, <2>2, NumbersTail
  <2>4. Taken \in Nat
    BY <1>2, <2>2, NumbersFrom
  <2>5. Numbers(queue', Taken, behind)
    BY <1>1, <1>2, <2>2, <2>3, <2>4, NumbersAppend
  <2> HIDE DEF behind
  <2> QED
    BY <1>1, <2>1, <2>2, <2>3, <2>5 DEF InOrder
<1>6. (Lost' => NoMore') /\ LagIsTimeouts'
  BY <1>1, OutcomesKept DEF NoMore
<1> QED
  BY <1>3, <1>4, <1>5, <1>6

LEMMA ReaderEndsKeeps == ASSUME SessionInv, ReaderEnds PROVE SessionInv'
<1> USE DEF SessionInv
<1>1. /\ queue' = Append(queue, Eof) /\ reader = "reading" /\ reader' = "ended"
      /\ gdb' = gdb /\ attached' = attached /\ stdin' = stdin /\ stdout' = stdout /\ asyncs' = asyncs
      /\ caller' = caller /\ atStart' = atStart /\ commands' = commands /\ outcomes' = outcomes
  BY DEF ReaderEnds
<1>2. Eof \in LineType /\ ~Result(Eof) /\ queue \in Seq(LineType)
  BY DEF Eof, Line, LineType, Result, SessionTypeOK
<1>3. SessionTypeOK'
  BY <1>1, <1>2 DEF SessionTypeOK
<1>4. EofIsLast'
  BY <1>1, <1>2 DEF EofIsLast
<1>5. ASSUME ~Lost'
      PROVE  InOrder'
  <2>1. ~Lost /\ Taken' = Taken
    BY <1>1, <1>5, OutcomesKept
  <2>2. PICK m \in Nat, t \in Nat : /\ Numbers(queue, Taken, m) /\ Numbers(stdout, m, t)
                                    /\ \A k \in 1 .. Len(stdin) : stdin[k] = t + k
                                    /\ gdb = "running" => Len(commands) = t + Len(stdin)
    BY <2>1 DEF InOrder
  <2>3. Taken \in Nat
    BY <1>2, <2>2, NumbersFrom
  <2>4. Numbers(queue', Taken, m)
    BY <1>1, <1>2, <2>2, <2>3, NumbersAppend
  <2> QED
    BY <1>1, <2>1, <2>2, <2>4 DEF InOrder
<1>6. (Lost' => NoMore') /\ LagIsTimeouts'
  BY <1>1, OutcomesKept DEF NoMore
<1> QED
  BY <1>3, <1>4, <1>5, <1>6

\* A command is written to a GDB that runs, or raises.
LEMMA SendKeeps ==
    ASSUME SessionInv, NEW kind \in {"hello", "attach", "read", "detach"}, Send(kind)
    PROVE  SessionInv'
<1> USE DEF SessionInv
<1>1. /\ caller = "idle" /\ commands' = Append(commands, kind) /\ asyncs' = asyncs
      /\ gdb' = gdb /\ attached' = attached /\ stdout' = stdout /\ queue' = queue /\ reader' = reader
  BY DEF Send
<1>2. /\ commands \in Seq({"hello", "attach", "read", "detach"}) /\ Len(commands) \in Nat
      /\ Len(commands') = Len(commands) + 1 /\ Len(outcomes) = Len(commands)
      /\ commands' \in Seq({"hello", "attach", "read", "detach"})
  BY <1>1 DEF SessionTypeOK
<1>3. EofIsLast'
  BY <1>1 DEF EofIsLast
<1>4. CASE gdb = "running"
  <2>1. /\ stdin' = Append(stdin, Len(commands) + 1) /\ caller' = "waiting"
        /\ atStart' = TRUE /\ outcomes' = outcomes
    BY <1>4 DEF Send
  <2>2. /\ stdin \in Seq(Nat) /\ Len(stdin) \in Nat /\ stdin' \in Seq(Nat) /\ Len(stdin') = Len(stdin) + 1
        /\ stdin'[Len(stdin) + 1] = Len(commands) + 1 /\ \A k \in 1 .. Len(stdin) : stdin'[k] = stdin[k]
    BY <1>2, <2>1 DEF SessionTypeOK
  <2>3. SessionTypeOK'
    BY <1>1, <1>2, <2>1, <2>2 DEF SessionTypeOK
  <2>4. /\ Taken' = Taken /\ LagIsTimeouts' /\ (Lost' <=> Lost)
        /\ Lost => NoMore'
    BY <1>1, <1>4, <2>1, OutcomesKept DEF NoMore
  <2>10. CASE Lost
    BY <1>3, <2>3, <2>4, <2>10
  <2> SUFFICES ASSUME ~Lost PROVE SessionInv'
    BY <2>10
  <2>5. PICK m \in Nat, t \in Nat : /\ Numbers(queue, Taken, m) /\ Numbers(stdout, m, t)
                                    /\ \A k \in 1 .. Len(stdin) : stdin[k] = t + k
                                    /\ gdb = "running" => Len(commands) = t + Len(stdin)
    BY <2>4 DEF InOrder
  <2> DEFINE n == Len(stdin)
  <2>6. Len(commands) = t + n /\ \A k \in 1 .. n : stdin[k] = t + k
    BY <1>4, <2>5
  <2>7. ASSUME NEW k \in 1 .. n + 1
        PROVE  stdin'[k] = t + k
    <3>1. CASE k = n + 1
      BY <1>2, <2>2, <2>6, <3>1
    <3>2. CASE k # n + 1
      <4>1. k \in 1 .. n
        BY <2>2, <3>2
      <4> HIDE DEF n
      <4>2. stdin[k] = t + k
        BY <2>6, <4>1
      <4> QED
        BY <2>2, <4>1, <4>2 DEF n
    <3> QED
      BY <3>1, <3>2
  <2>8. Len(commands') = t + Len(stdin')
    BY <1>2, <2>2, <2>6
  <2>9. InOrder'
    BY <1>1, <2>2, <2>4, <2>5, <2>7, <2>8 DEF InOrder
  <2> QED
    BY <1>3, <2>3, <2>4, <2>9
<1>5. CASE gdb # "running"
  <2> DEFINE o == Outcome("OSError", 0)
  <2>1. outcomes' = Append(outcomes, o) /\ stdin' = stdin /\ caller' = caller /\ atStart' = atStart
    BY <1>5 DEF Send
  <2>2. o \in Outcomes /\ o.of = 0 /\ o.kind # "TimeoutError" /\ outcomes \in Seq(Outcomes)
    BY DEF Outcome, Outcomes, SessionTypeOK
  <2> HIDE DEF o
  <2>3. LagIsTimeouts' /\ Lost'
    BY <2>1, <2>2, OutcomeAdded
  <2>4. outcomes' \in Seq(Outcomes) /\ Len(outcomes') = Len(outcomes) + 1
    BY <2>1, <2>2
  <2>5. SessionTypeOK'
    BY <1>1, <1>2, <2>1, <2>4 DEF SessionTypeOK, Outcomes
  <2>6. gdb' = "dead" /\ caller' # "waiting"
    BY <1>1, <1>5, <2>1 DEF SessionTypeOK
  <2> QED
    BY <1>3, <2>3, <2>5, <2>6 DEF NoMore
<1> QED
  BY <1>4, <1>5

\* The next line ends the command, or is kept for it.
LEMMA ReceiveKeeps == ASSUME SessionInv, Receive PROVE SessionInv'
<1> USE DEF SessionInv
<1> DEFINE line == Head(queue)
<1>1. /\ caller = "waiting" /\ queue # <<>> /\ queue' = Tail(queue) /\ atStart' = FALSE
      /\ gdb' = gdb /\ attached' = attached /\ stdin' = stdin /\ stdout' = stdout
      /\ reader' = reader /\ commands' = commands /\ asyncs' = asyncs
  BY DEF Receive
<1>2. /\ queue \in Seq(LineType) /\ Len(queue) \in Nat /\ Len(queue) # 0
      /\ line = queue[1] /\ line \in LineType
      /\ Tail(queue) \in Seq(LineType) /\ Len(Tail(queue)) = Len(queue) - 1
      /\ \A a \in 1 .. Len(queue) - 1 : Tail(queue)[a] = queue[a + 1]
      /\ outcomes \in Seq(Outcomes) /\ Len(commands) \in Nat /\ Len(outcomes) = Len(commands) - 1
  BY <1>1 DEF SessionTypeOK, Outcomes
<1>3. line.of \in Nat
  BY <1>2 DEF LineType
<1>4. EofIsLast'
  <2>1. ASSUME NEW a \in 1 .. Len(queue'), queue'[a].kind = "eof"
        PROVE  reader' = "ended" /\ a = Len(queue')
    <3>1. a \in 1 .. Len(queue) - 1 /\ a + 1 \in 1 .. Len(queue)
      BY <1>1, <1>2
    <3>2. queue[a + 1].kind = "eof"
      BY <1>1, <1>2, <2>1, <3>1
    <3>3. reader = "ended" /\ a + 1 = Len(queue)
      BY <3>1, <3>2 DEF EofIsLast
    <3>4. Len(queue') = Len(queue) - 1 /\ Len(queue) \in Nat /\ reader' = reader
      BY <1>1, <1>2
    <3> QED
      BY <3>1, <3>3, <3>4
  <2> QED
    BY <1>1, <2>1 DEF EofIsLast
<1>5. ~Lost
  BY <1>1 DEF NoMore
<1>6. PICK m \in Nat, t \in Nat : /\ Numbers(queue, Taken, m) /\ Numbers(stdout, m, t)
                                  /\ \A k \in 1 .. Len(stdin) : stdin[k] = t + k
                                  /\ gdb = "running" => Len(commands) = t + Len(stdin)
  BY <1>5 DEF InOrder
<1>7. Taken \in Nat
  BY <1>2, <1>6, NumbersFrom
<1>8. /\ Result(line) => line.of = Taken + 1
      /\ Numbers(queue', IF Result(line) THEN Taken + 1 ELSE Taken, m)
  BY <1>1, <1>2, <1>6, <1>7, NumbersTail
<1> HIDE DEF line
<1>9. CASE line.kind = "eof"
  <2> DEFINE o == Outcome("RuntimeError", 0)
  <2>1. outcomes' = Append(outcomes, o) /\ caller' = "idle"
    BY <1>9 DEF Receive, Result, line
  <2>2. o \in Outcomes /\ o.of = 0 /\ o.kind # "TimeoutError"
    BY DEF Outcome, Outcomes
  <2> HIDE DEF o
  <2>3. LagIsTimeouts' /\ Lost'
    BY <2>1, <2>2, OutcomeAdded
  <2>4. outcomes' \in Seq(Outcomes) /\ Len(outcomes') = Len(outcomes) + 1
    BY <1>2, <2>1, <2>2
  <2>5. SessionTypeOK'
    <3>1. Len(outcomes') = Len(commands') /\ caller' = "idle"
      BY <1>1, <1>2, <2>1, <2>4
    <3>2. queue' \in Seq(LineType) /\ atStart' \in BOOLEAN
      BY <1>1, <1>2
    <3>3. outcomes' \in Seq([kind : {"answer", "RuntimeError", "TimeoutError", "OSError"}, of : Nat])
      BY <2>4 DEF Outcomes
    <3> QED
      BY <1>1, <3>1, <3>2, <3>3 DEF SessionTypeOK
  <2>6. NoMore'
    <3>1. 1 \in 1 .. Len(queue)
      BY <1>2
    <3>2. reader = "ended" /\ 1 = Len(queue)
      BY <1>2, <1>9, <3>1 DEF EofIsLast
    <3>3. queue' = <<>>
      BY <1>1, <1>2, <3>2
    <3> QED
      BY <1>1, <3>2, <3>3 DEF NoMore
  <2> QED
    BY <1>4, <2>3, <2>5, <2>6
<1>10. CASE Result(line)
  <2> DEFINE kind == IF line.kind = "error" /\ atStart THEN "RuntimeError" ELSE "answer"
  <2> DEFINE o == Outcome(kind, line.of)
  <2>1. outcomes' = Append(outcomes, o) /\ caller' = "idle"
    BY <1>10 DEF Receive, Result, line
  <2>2. o \in Outcomes /\ o.of = Taken + 1 /\ o.kind # "TimeoutError"
    BY <1>3, <1>8, <1>10 DEF Outcome, Outcomes
  <2> HIDE DEF o
  <2>3. o.of # 0
    BY <1>7, <2>2
  <2>4. LagIsTimeouts' /\ Taken' = Taken + 1 /\ ~Lost'
    BY <1>5, <2>1, <2>2, <2>3, OutcomeAdded
  <2>5. outcomes' \in Seq(Outcomes) /\ Len(outcomes') = Len(outcomes) + 1
    BY <1>2, <2>1, <2>2
  <2>6. SessionTypeOK'
    <3>1. Len(outcomes') = Len(commands') /\ caller' = "idle"
      BY <1>1, <1>2, <2>1, <2>5
    <3>2. queue' \in Seq(LineType) /\ atStart' \in BOOLEAN
      BY <1>1, <1>2
    <3>3. outcomes' \in Seq([kind : {"answer", "RuntimeError", "TimeoutError", "OSError"}, of : Nat])
      BY <2>5 DEF Outcomes
    <3> QED
      BY <1>1, <3>1, <3>2, <3>3 DEF SessionTypeOK
  <2>7. InOrder'
    BY <1>1, <1>6, <1>8, <1>10, <2>4 DEF InOrder
  <2> QED
    BY <1>4, <2>4, <2>6, <2>7
<1>11. CASE ~Result(line) /\ line.kind # "eof"
  <2>1. outcomes' = outcomes /\ caller' = caller
    BY <1>11 DEF Receive, line
  <2>2. Taken' = Taken /\ ~Lost' /\ LagIsTimeouts'
    BY <1>5, <2>1, OutcomesKept
  <2>3. SessionTypeOK'
    BY <1>1, <1>2, <2>1 DEF SessionTypeOK
  <2>4. InOrder'
    BY <1>1, <1>6, <1>8, <1>11, <2>2 DEF InOrder
  <2> QED
    BY <1>4, <2>2, <2>3, <2>4
<1> QED
  BY <1>9, <1>10, <1>11

\* A command that times out leaves its result record to the next.
LEMMA TimeoutKeeps == ASSUME SessionInv, Timeout PROVE SessionInv'
<1> USE DEF SessionInv
<1> DEFINE o == Outcome("TimeoutError", 0)
<1>1. /\ caller = "waiting" /\ outcomes' = Append(outcomes, o) /\ caller' = "idle"
      /\ gdb' = gdb /\ attached' = attached /\ stdin' = stdin /\ stdout' = stdout /\ queue' = queue
      /\ reader' = reader /\ atStart' = atStart /\ commands' = commands /\ asyncs' = asyncs
  BY DEF Timeout
<1>2. o \in Outcomes /\ o.of = 0 /\ o.kind = "TimeoutError"
  BY DEF Outcome, Outcomes
<1> HIDE DEF o
<1>3. /\ outcomes \in Seq(Outcomes) /\ Len(commands) \in Nat /\ Len(outcomes) = Len(commands) - 1
  BY <1>1 DEF SessionTypeOK, Outcomes
<1>4. LagIsTimeouts' /\ Taken' = Taken /\ (Lost' <=> Lost)
  BY <1>1, <1>2, OutcomeAdded
<1>5. outcomes' \in Seq(Outcomes) /\ Len(outcomes') = Len(outcomes) + 1
  BY <1>1, <1>2, <1>3
<1>6. SessionTypeOK'
  BY <1>1, <1>3, <1>5 DEF SessionTypeOK, Outcomes
<1>7. EofIsLast'
  BY <1>1 DEF EofIsLast
<1>8. InOrder => InOrder'
  BY <1>1, <1>4 DEF InOrder
<1>9. NoMore => NoMore'
  BY <1>1 DEF NoMore
<1> QED
  BY <1>4, <1>6, <1>7, <1>8, <1>9

LEMMA TerminateKeeps == ASSUME SessionInv, Terminate PROVE SessionInv'
<1> USE DEF SessionInv
<1>1. /\ caller = "idle" /\ gdb' = "dead" /\ stdin' = <<>> /\ caller' = "gone"
      /\ attached' = attached /\ stdout' = stdout /\ queue' = queue /\ reader' = reader
      /\ atStart' = atStart /\ commands' = commands /\ outcomes' = outcomes /\ asyncs' = asyncs
  BY DEF Terminate
<1>2. SessionTypeOK'
  BY <1>1 DEF SessionTypeOK
<1>3. EofIsLast'
  BY <1>1 DEF EofIsLast
<1>4. Taken' = Taken /\ (Lost' <=> Lost) /\ LagIsTimeouts'
  BY <1>1, OutcomesKept
<1>5. InOrder => InOrder'
  BY <1>1, <1>4 DEF InOrder
<1> QED
  BY <1>1, <1>2, <1>3, <1>4, <1>5 DEF NoMore

LEMMA StutterKeeps == ASSUME SessionInv, UNCHANGED gdbVars PROVE SessionInv'
<1>1. /\ gdb' = gdb /\ attached' = attached /\ stdin' = stdin /\ stdout' = stdout /\ queue' = queue
      /\ reader' = reader /\ caller' = caller /\ atStart' = atStart
      /\ commands' = commands /\ outcomes' = outcomes /\ asyncs' = asyncs
  BY DEF gdbVars
<1>2. Taken' = Taken /\ (Lost' <=> Lost) /\ (LagIsTimeouts' <=> LagIsTimeouts)
  BY <1>1, OutcomesKept
<1>3. SessionTypeOK' /\ EofIsLast' /\ (InOrder <=> InOrder')
  BY <1>1, <1>2 DEF SessionInv, SessionTypeOK, EofIsLast, InOrder
<1> QED
  BY <1>1, <1>2, <1>3 DEF SessionInv, NoMore

LEMMA NextKeeps == ASSUME SessionInv, [SessionNext]_gdbVars PROVE SessionInv'
<1>1. CASE GdbStep
  BY <1>1, AnswersKeeps, NotifiesKeeps, DiesKeeps DEF GdbStep
<1>2. CASE ReaderStep
  BY <1>2, ReaderLineKeeps, ReaderEndsKeeps DEF ReaderStep
<1>3. CASE CallerStep
  <2>1. ASSUME Connect \/ ReadMemory \/ Detach
        PROVE  SessionInv'
    <3>1. PICK kind \in {"hello", "attach", "read", "detach"} : Send(kind)
      BY <2>1 DEF Connect, ReadMemory, Detach
    <3> QED
      BY <3>1, SendKeeps
  <2> QED
    BY <1>3, <2>1, ReceiveKeeps, TimeoutKeeps, TerminateKeeps DEF CallerStep, Await
<1>4. CASE UNCHANGED gdbVars
  BY <1>4, StutterKeeps
<1> QED
  BY <1>1, <1>2, <1>3, <1>4 DEF SessionNext

------------------------------------------------------------------------------
(* Theorems                                                                  *)

\* The result records on their way carry consecutive numbers, in every state
\* of a session that has not lost GDB.
THEOREM GdbInvariant == SessionSpec => []SessionInv
  BY InitIInv, NextKeeps, PTL DEF SessionSpec

\* The bridge's state keeps its types; a command has ended or is waited for.
THEOREM GdbTypeOK == SessionSpec => []SessionTypeOK
<1>1. SessionInv => SessionTypeOK
  BY DEF SessionInv
<1> QED
  BY <1>1, GdbInvariant, PTL

\* _send_mi_command takes its own result record, set back by one for every
\* command before it that timed out.
THEOREM GdbLagIsTimeouts == SessionSpec => []LagIsTimeouts
<1>1. SessionInv => LagIsTimeouts
  BY DEF SessionInv
<1> QED
  BY <1>1, GdbInvariant, PTL
==============================================================================

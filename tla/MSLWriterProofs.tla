--------------------------- MODULE MSLWriterProofs ---------------------------
(***************************************************************************)
(* For every set of block types, any number of blocks, in the clear and    *)
(* encrypted, whatever write or finalize raises and wherever the process   *)
(* is killed: what a verifying reader finds in the file is a prefix of     *)
(* what the writer acknowledged, and all of it if the file is sealed.      *)
(*                                                                         *)
(* The invariant behind it: as long as no torn block has been met, the     *)
(* file agrees with the acknowledged blocks, and the n-th of these is      *)
(* numbered n and carries the number n - 1 of the block before it.         *)
(***************************************************************************)
EXTENDS MSLWriter, WellFoundedInduction, SequenceTheorems, TLAPS

AllWhole(s) == \A j \in 1 .. Len(s) : s[j].whole

\* Up to its first torn block, s agrees with t.
Mirrors(s, t) ==
    \A i \in 1 .. Len(s) :
        (\A j \in 1 .. i : s[j].whole) => i <= Len(t) /\ s[i] = t[i]

\* The acknowledged blocks are whole, numbered in order, and chained.
Numbered ==
    \A i \in 1 .. Len(accepted) :
        /\ accepted[i].num = i /\ accepted[i].whole
        /\ accepted[i].prev = IF encrypted THEN ZeroHash ELSE i - 1

\* What the chain and the counter hold after Len(accepted) blocks.
Counted ==
    /\ blockIndex = Len(accepted) /\ prevHash = Len(accepted)
    /\ Len(hashed) = Len(accepted) + 1
    /\ \A i \in 1 .. Len(hashed) : hashed[i] = i - 1

\* End-of-Capture comes last and sums up all blocks before it.
SealLast ==
    /\ \A i \in 1 .. Len(accepted) :
          accepted[i].type = "EndOfCapture" =>
             /\ i = Len(accepted) /\ caller \in {"closed", "failed"}
             /\ Len(accepted[i].sum) = i
             /\ \A k \in 1 .. i : accepted[i].sum[k] = k - 1
    /\ caller = "closed" =>
          Len(accepted) > 0 /\ accepted[Len(accepted)].type = "EndOfCapture"

\* How far the file is, by what the caller has been through.
Written ==
    /\ caller \in {"writing", "unwinding"} /\ encrypted => file = <<>> /\ plaintext = accepted
    /\ caller \in {"writing", "unwinding"} /\ ~encrypted =>
          (AllWhole(file) => Len(file) = Len(accepted))
    /\ caller = "writing" /\ ~encrypted => file = accepted
    /\ caller = "closed" =>
          (encrypted => tag) /\ (AllWhole(file) => Len(file) = Len(accepted))

IInv ==
    /\ TypeOK
    /\ Numbered
    /\ Counted
    /\ SealLast
    /\ Mirrors(file, accepted)
    /\ Written

------------------------------------------------------------------------------
(* Sequences of blocks                                                       *)

\* Appending to both keeps the agreement, if the shorter one is not behind.
LEMMA MirrorBoth ==
    ASSUME NEW S, NEW s \in Seq(S), NEW t \in Seq(S), NEW b \in S,
           Mirrors(s, t), AllWhole(s) => Len(s) = Len(t)
    PROVE  /\ Mirrors(Append(s, b), Append(t, b))
           /\ AllWhole(Append(s, b)) => Len(Append(s, b)) = Len(Append(t, b))
<1> DEFINE s2 == Append(s, b)
           t2 == Append(t, b)
<1>1. /\ Len(s2) = Len(s) + 1
      /\ \A i \in 1 .. Len(s) : s2[i] = s[i]
      /\ s2[Len(s) + 1] = b
  BY AppendProperties
<1>2. /\ Len(t2) = Len(t) + 1
      /\ \A i \in 1 .. Len(t) : t2[i] = t[i]
      /\ t2[Len(t) + 1] = b
  BY AppendProperties
<1>3. Len(s) \in Nat /\ Len(t) \in Nat
  BY LenProperties
<1> HIDE DEF s2, t2
<1>4. AllWhole(s2) => AllWhole(s)
  BY <1>1, <1>3 DEF AllWhole
<1>5. Mirrors(s2, t2)
  <2> SUFFICES ASSUME NEW i \in 1 .. Len(s2), \A j \in 1 .. i : s2[j].whole
               PROVE  i <= Len(t2) /\ s2[i] = t2[i]
    BY DEF Mirrors
  <2>1. CASE i <= Len(s)
    <3>1. \A j \in 1 .. i : s[j].whole
      BY <1>1, <1>3, <2>1
    <3>2. i \in 1 .. Len(s)
      BY <1>1, <1>3, <2>1
    <3>3. i <= Len(t) /\ s[i] = t[i]
      BY <3>1, <3>2 DEF Mirrors
    <3> QED BY <1>1, <1>2, <1>3, <3>2, <3>3
  <2>2. CASE i = Len(s) + 1
    <3>1. AllWhole(s)
      BY <1>1, <1>3, <2>2 DEF AllWhole
    <3> QED BY <1>1, <1>2, <1>3, <2>2, <3>1
  <2> QED BY <1>1, <1>3, <2>1, <2>2
<1> QED BY <1>1, <1>2, <1>3, <1>4, <1>5 DEF s2, t2

\* A torn block ends the agreement.
LEMMA MirrorTorn ==
    ASSUME NEW S, NEW s \in Seq(S), NEW t \in Seq(S), NEW b \in S,
           Mirrors(s, t), ~b.whole
    PROVE  Mirrors(Append(s, b), t) /\ ~AllWhole(Append(s, b))
<1> DEFINE s2 == Append(s, b)
<1>1. /\ Len(s2) = Len(s) + 1
      /\ \A i \in 1 .. Len(s) : s2[i] = s[i]
      /\ s2[Len(s) + 1] = b
  BY AppendProperties
<1>2. Len(s) \in Nat /\ Len(t) \in Nat
  BY LenProperties
<1> HIDE DEF s2
<1>3. ~AllWhole(s2)
  BY <1>1, <1>2 DEF AllWhole
<1>4. Mirrors(s2, t)
  <2> SUFFICES ASSUME NEW i \in 1 .. Len(s2), \A j \in 1 .. i : s2[j].whole
               PROVE  i <= Len(t) /\ s2[i] = t[i]
    BY DEF Mirrors
  <2>1. i \in 1 .. Len(s)
    BY <1>1, <1>2
  <2>2. \A j \in 1 .. i : s[j].whole
    BY <1>1, <1>2, <2>1
  <2>3. i <= Len(t) /\ s[i] = t[i]
    BY <2>1, <2>2 DEF Mirrors
  <2> QED BY <1>1, <2>1, <2>3
<1> QED BY <1>3, <1>4 DEF s2

\* Torn only changes the flag.
LEMMA TornBlock ==
    ASSUME NEW b \in Block
    PROVE  Torn(b) \in Block /\ ~Torn(b).whole
BY DEF Torn, Block

\* A sequence cut short agrees with whatever the sequence agreed with.
LEMMA MirrorCut ==
    ASSUME NEW s \in Seq(Block), NEW t \in Seq(Block), Mirrors(s, t),
           NEW c \in CutShort(s)
    PROVE  c \in Seq(Block) /\ Mirrors(c, t)
<1>1. Len(s) \in Nat /\ Len(t) \in Nat
  BY LenProperties
<1>2. \A i \in 1 .. Len(s) : s[i] \in Block
  BY ElementOfSeq
<1>3. ASSUME NEW n \in 0 .. Len(s)
      PROVE  SubSeq(s, 1, n) \in Seq(Block) /\ Mirrors(SubSeq(s, 1, n), t)
  <2> DEFINE p == SubSeq(s, 1, n)
  <2>1. \A i \in 1 .. n : s[i] \in Block
    BY <1>1, <1>2
  <2>2. /\ p \in Seq(Block)
        /\ Len(p) = IF 1 <= n THEN n - 1 + 1 ELSE 0
        /\ \A i \in 1 .. n - 1 + 1 : p[i] = s[1 + i - 1]
    BY <2>1, SubSeqProperties
  <2> HIDE DEF p
  <2>3. Len(p) = n /\ \A i \in 1 .. n : p[i] = s[i]
    BY <1>1, <2>2
  <2>4. ASSUME NEW i \in 1 .. Len(p), \A j \in 1 .. i : p[j].whole
        PROVE  i <= Len(t) /\ p[i] = t[i]
    <3>1. i \in 1 .. n /\ i \in 1 .. Len(s)
      BY <1>1, <2>3
    <3>2. \A j \in 1 .. i : p[j] = s[j]
      BY <1>1, <2>3, <3>1
    <3>3. \A j \in 1 .. i : s[j].whole
      BY <2>4, <3>2
    <3>4. i <= Len(t) /\ s[i] = t[i]
      BY <3>1, <3>3 DEF Mirrors
    <3> QED BY <2>3, <3>1, <3>4
  <2>5. Mirrors(p, t)
    BY <2>4 DEF Mirrors
  <2> QED BY <2>2, <2>5 DEF p
<1>4. CASE \E n \in 0 .. Len(s) : c = SubSeq(s, 1, n)
  BY <1>3, <1>4
<1>5. CASE \E n \in 1 .. Len(s) : c = Append(SubSeq(s, 1, n - 1), Torn(s[n]))
  <2>1. PICK n \in 1 .. Len(s) : c = Append(SubSeq(s, 1, n - 1), Torn(s[n]))
    BY <1>5
  <2>2. n - 1 \in 0 .. Len(s)
    BY <1>1
  <2>3. SubSeq(s, 1, n - 1) \in Seq(Block) /\ Mirrors(SubSeq(s, 1, n - 1), t)
    BY <1>3, <2>2
  <2>4. Torn(s[n]) \in Block /\ ~Torn(s[n]).whole
    BY <1>2, TornBlock
  <2>5. c \in Seq(Block)
    BY <2>1, <2>3, <2>4, AppendProperties
  <2>6. Mirrors(c, t)
    BY <2>1, <2>3, <2>4, MirrorTorn
  <2> QED BY <2>5, <2>6
<1> QED BY <1>4, <1>5 DEF CutShort

------------------------------------------------------------------------------
(* Feeding the chain                                                         *)

LEMMA NewBlockFacts ==
    ASSUME TypeOK, NEW type \in AllTypes
    PROVE  /\ NewBlock(type) \in Block
           /\ NewBlock(type).type = type
           /\ NewBlock(type).num = blockIndex + 1
           /\ NewBlock(type).whole
           /\ NewBlock(type).prev = IF encrypted THEN ZeroHash ELSE prevHash
           /\ type = "EndOfCapture" => NewBlock(type).sum = hashed
<1>1. blockIndex \in Nat /\ prevHash \in Nat /\ hashed \in Seq(Nat)
  BY DEF TypeOK
<1>2. (IF type = "EndOfCapture" THEN hashed ELSE <<>>) \in Seq(Nat)
  BY <1>1, EmptySeq
<1>3. (IF encrypted THEN ZeroHash ELSE prevHash) \in Nat \cup {ZeroHash}
  BY <1>1
<1> QED BY <1>1, <1>2, <1>3 DEF NewBlock, Block

\* What FeedChain does to the chain and to the acknowledged blocks.
LEMMA Fed ==
    ASSUME IInv, NEW type \in AllTypes,
           FeedChain(NewBlock(type)), encrypted' = encrypted
    PROVE  /\ prevHash' \in Nat /\ hashed' \in Seq(Nat) /\ blockIndex' \in Nat
           /\ accepted' \in Seq(Block)
           /\ Len(accepted') = Len(accepted) + 1
           /\ \A i \in 1 .. Len(accepted) : accepted'[i] = accepted[i]
           /\ accepted'[Len(accepted) + 1] = NewBlock(type)
           /\ Numbered' /\ Counted'
<1> DEFINE b == NewBlock(type)
           n == Len(accepted)
<1>1. TypeOK /\ Numbered /\ Counted
  BY DEF IInv
<1>2. /\ accepted \in Seq(Block) /\ hashed \in Seq(Nat)
      /\ blockIndex \in Nat /\ prevHash \in Nat
  BY <1>1 DEF TypeOK
<1>3. n \in Nat
  BY <1>2, LenProperties
<1>4. /\ b \in Block /\ b.num = n + 1 /\ b.whole
      /\ b.prev = IF encrypted THEN ZeroHash ELSE n
  BY <1>1, NewBlockFacts DEF Counted
<1> HIDE DEF b
<1>5. b.num \in Nat
  BY <1>3, <1>4
<1>6. /\ prevHash' = b.num /\ hashed' = Append(hashed, b.num)
      /\ blockIndex' = blockIndex + 1 /\ accepted' = Append(accepted, b)
  BY DEF FeedChain, b
<1>7. /\ accepted' \in Seq(Block) /\ Len(accepted') = n + 1
      /\ \A i \in 1 .. n : accepted'[i] = accepted[i]
      /\ accepted'[n + 1] = b
  BY <1>2, <1>4, <1>6, AppendProperties
<1>8. /\ hashed' \in Seq(Nat) /\ Len(hashed') = Len(hashed) + 1
      /\ \A i \in 1 .. Len(hashed) : hashed'[i] = hashed[i]
      /\ hashed'[Len(hashed) + 1] = b.num
  BY <1>2, <1>5, <1>6, AppendProperties
<1> HIDE DEF n
<1>9. Numbered'
  <2> SUFFICES ASSUME NEW i \in 1 .. n + 1
               PROVE  /\ accepted'[i].num = i /\ accepted'[i].whole
                      /\ accepted'[i].prev = IF encrypted' THEN ZeroHash ELSE i - 1
    BY <1>7 DEF Numbered
  <2>1. CASE i \in 1 .. n
    BY <1>1, <1>7, <2>1 DEF Numbered, n
  <2>2. CASE i = n + 1
    BY <1>3, <1>4, <1>7, <2>2
  <2> QED BY <1>3, <2>1, <2>2
<1>10. Counted'
  <2>1. Len(hashed) = n + 1 /\ \A i \in 1 .. Len(hashed) : hashed[i] = i - 1
    BY <1>1 DEF Counted, n
  <2>2. ASSUME NEW i \in 1 .. n + 2
        PROVE  hashed'[i] = i - 1
    <3>1. CASE i \in 1 .. n + 1
      BY <1>8, <2>1, <3>1
    <3>2. CASE i = n + 2
      BY <1>3, <1>4, <1>8, <2>1, <3>2
    <3> QED BY <1>3, <3>1, <3>2
  <2>3. blockIndex' = n + 1 /\ prevHash' = n + 1 /\ Len(hashed') = n + 2
    BY <1>1, <1>3, <1>4, <1>6, <1>8, <2>1 DEF Counted, n
  <2> QED BY <1>3, <1>7, <2>2, <2>3 DEF Counted
<1> QED BY <1>2, <1>3, <1>5, <1>6, <1>7, <1>8, <1>9, <1>10 DEF b, n

\* End-of-Capture after blocks none of which is one.
LEMMA SealFed ==
    ASSUME IInv, FeedChain(NewBlock("EndOfCapture")), encrypted' = encrypted,
           caller \in {"writing", "unwinding"}, caller' \in {"closed", "failed"}
    PROVE  SealLast'
<1> DEFINE n == Len(accepted)
<1>1. /\ TypeOK /\ SealLast /\ Counted
      /\ "EndOfCapture" \in AllTypes
  BY DEF IInv, AllTypes
<1>2. n \in Nat
  BY <1>1, LenProperties DEF TypeOK
<1>3. /\ Len(accepted') = n + 1
      /\ \A i \in 1 .. n : accepted'[i] = accepted[i]
      /\ accepted'[n + 1] = NewBlock("EndOfCapture")
  BY <1>1, Fed
<1>4. \A i \in 1 .. n : accepted[i].type # "EndOfCapture"
  BY <1>1 DEF SealLast
<1>5. /\ NewBlock("EndOfCapture").type = "EndOfCapture"
      /\ NewBlock("EndOfCapture").sum = hashed
  BY <1>1, NewBlockFacts
<1>6. Len(hashed) = n + 1 /\ \A k \in 1 .. n + 1 : hashed[k] = k - 1
  BY <1>1 DEF Counted
<1> HIDE DEF n
<1>7. ASSUME NEW i \in 1 .. n + 1, accepted'[i].type = "EndOfCapture"
      PROVE  /\ i = n + 1
             /\ Len(accepted'[i].sum) = i
             /\ \A k \in 1 .. i : accepted'[i].sum[k] = k - 1
  <2>1. i = n + 1
    BY <1>2, <1>3, <1>4, <1>7
  <2> QED BY <1>3, <1>5, <1>6, <2>1
<1>8. Len(accepted') > 0 /\ accepted'[Len(accepted')].type = "EndOfCapture"
  BY <1>2, <1>3, <1>5
<1> QED BY <1>3, <1>7, <1>8 DEF SealLast

------------------------------------------------------------------------------
(* The invariant is inductive                                                *)

LEMMA InitHolds == Init => IInv
<1> SUFFICES ASSUME Init PROVE IInv
  OBVIOUS
<1>1. /\ encrypted \in BOOLEAN /\ file = <<>> /\ tag = FALSE /\ plaintext = <<>>
      /\ prevHash = 0 /\ hashed = <<0>>
      /\ blockIndex = 0 /\ accepted = <<>> /\ caller = "writing"
  BY DEF Init, HeaderDigest
<1>2. <<>> \in Seq(Block) /\ Len(<<>>) = 0
  BY EmptySeq
<1>3. <<0>> \in Seq(Nat) /\ Len(<<0>>) = 1 /\ <<0>>[1] = 0
  OBVIOUS
<1>4. TypeOK
  BY <1>1, <1>2, <1>3 DEF TypeOK
<1>5. Numbered /\ Mirrors(file, accepted)
  BY <1>1, <1>2 DEF Numbered, Mirrors
<1>6. Counted
  BY <1>1, <1>2, <1>3 DEF Counted
<1>7. SealLast /\ Written
  BY <1>1, <1>2 DEF SealLast, Written
<1> QED BY <1>4, <1>5, <1>6, <1>7 DEF IInv

\* A block that was written and fed.
LEMMA WriteBlockKeeps ==
    ASSUME IInv, NEW type \in BlockTypes, WriteBlock(type)
    PROVE  IInv'
<1> DEFINE b == NewBlock(type)
<1>1. /\ TypeOK /\ Numbered /\ Counted /\ SealLast /\ Mirrors(file, accepted) /\ Written
      /\ type \in AllTypes /\ type # "EndOfCapture"
  BY WriterAssumption DEF IInv, AllTypes
<1>2. /\ caller = "writing" /\ FeedChain(b)
      /\ IF encrypted THEN plaintext' = Append(plaintext, b) /\ file' = file
                      ELSE file' = Append(file, b) /\ plaintext' = plaintext
      /\ encrypted' = encrypted /\ tag' = tag /\ caller' = caller
  BY DEF WriteBlock
<1>3. b \in Block /\ b.type = type /\ b.whole
  BY <1>1, NewBlockFacts
<1>4. /\ prevHash' \in Nat /\ hashed' \in Seq(Nat) /\ blockIndex' \in Nat
      /\ accepted' \in Seq(Block)
      /\ Len(accepted') = Len(accepted) + 1
      /\ \A i \in 1 .. Len(accepted) : accepted'[i] = accepted[i]
      /\ accepted'[Len(accepted) + 1] = b
      /\ Numbered' /\ Counted'
  BY <1>1, <1>2, Fed
<1>5. accepted' = Append(accepted, b)
  BY <1>2 DEF FeedChain
<1>6. /\ file \in Seq(Block) /\ plaintext \in Seq(Block) /\ accepted \in Seq(Block)
      /\ encrypted \in BOOLEAN /\ tag \in BOOLEAN
  BY <1>1 DEF TypeOK
<1>7. Len(accepted) \in Nat
  BY <1>6, LenProperties
<1> HIDE DEF b
<1>8. Append(file, b) \in Seq(Block) /\ Append(plaintext, b) \in Seq(Block)
  BY <1>3, <1>6, AppendProperties
<1>9. TypeOK'
  BY <1>2, <1>4, <1>6, <1>8 DEF TypeOK
<1>10. SealLast'
  <2>1. \A i \in 1 .. Len(accepted) : accepted[i].type # "EndOfCapture"
    BY <1>1, <1>2 DEF SealLast
  <2>2. \A i \in 1 .. Len(accepted') : accepted'[i].type # "EndOfCapture"
    BY <1>1, <1>3, <1>4, <1>7, <2>1
  <2> QED BY <1>2, <2>2 DEF SealLast
<1>11. CASE encrypted
  <2>1. file = <<>> /\ file' = <<>> /\ plaintext = accepted /\ plaintext' = accepted'
    BY <1>1, <1>2, <1>5, <1>11 DEF Written
  <2>2. Mirrors(file', accepted')
    BY <2>1, EmptySeq DEF Mirrors
  <2>3. Written'
    BY <1>2, <1>11, <2>1 DEF Written
  <2> QED BY <1>4, <1>9, <1>10, <2>2, <2>3 DEF IInv
<1>12. CASE ~encrypted
  <2>1. file = accepted /\ file' = accepted'
    BY <1>1, <1>2, <1>5, <1>12 DEF Written
  <2>2. Mirrors(file', accepted')
    BY <1>4, <2>1 DEF Mirrors
  <2>3. Written'
    BY <1>2, <1>12, <2>1 DEF Written
  <2> QED BY <1>4, <1>9, <1>10, <2>2, <2>3 DEF IInv
<1> QED BY <1>6, <1>11, <1>12

\* A write that raised: the chain stays, the file may end in a torn block.
LEMMA WriteBlockRaisesKeeps ==
    ASSUME IInv, NEW type \in BlockTypes, WriteBlockRaises(type)
    PROVE  IInv'
<1>1. /\ TypeOK /\ Numbered /\ Counted /\ SealLast /\ Mirrors(file, accepted) /\ Written
      /\ type \in AllTypes
  BY DEF IInv, AllTypes
<1>2. /\ caller = "writing" /\ caller' = "unwinding"
      /\ file' = file \/ (~encrypted /\ file' = Append(file, Torn(NewBlock(type))))
      /\ encrypted' = encrypted /\ tag' = tag /\ plaintext' = plaintext
      /\ prevHash' = prevHash /\ hashed' = hashed /\ blockIndex' = blockIndex
      /\ accepted' = accepted
  BY DEF WriteBlockRaises
<1>3. Torn(NewBlock(type)) \in Block /\ ~Torn(NewBlock(type)).whole
  BY <1>1, NewBlockFacts, TornBlock
<1>4. file \in Seq(Block) /\ accepted \in Seq(Block)
  BY <1>1 DEF TypeOK
<1>5. Append(file, Torn(NewBlock(type))) \in Seq(Block)
  BY <1>3, <1>4, AppendProperties
<1>6. TypeOK'
  BY <1>1, <1>2, <1>5 DEF TypeOK
<1>7. Numbered' /\ Counted'
  BY <1>1, <1>2 DEF Numbered, Counted
<1>8. SealLast'
  BY <1>1, <1>2 DEF SealLast
<1>9. CASE file' = file
  <2>1. Mirrors(file', accepted')
    BY <1>1, <1>2, <1>9
  <2>2. Written'
    BY <1>1, <1>2, <1>9 DEF Written
  <2> QED BY <1>6, <1>7, <1>8, <2>1, <2>2 DEF IInv
<1>10. CASE ~encrypted /\ file' = Append(file, Torn(NewBlock(type)))
  <2>1. Mirrors(file', accepted') /\ ~AllWhole(file')
    BY <1>1, <1>2, <1>3, <1>4, <1>10, MirrorTorn
  <2>2. Written'
    BY <1>2, <1>10, <2>1 DEF Written
  <2> QED BY <1>6, <1>7, <1>8, <2>1, <2>2 DEF IInv
<1> QED BY <1>2, <1>9, <1>10

\* End-of-Capture, and everything that was still in memory.
LEMMA FinalizeKeeps ==
    ASSUME IInv, Finalize
    PROVE  IInv'
<1> DEFINE eoc == NewBlock("EndOfCapture")
<1>1. /\ TypeOK /\ Numbered /\ Counted /\ SealLast /\ Mirrors(file, accepted) /\ Written
      /\ "EndOfCapture" \in AllTypes
  BY DEF IInv, AllTypes
<1>2. /\ caller \in {"writing", "unwinding"} /\ caller' = "closed" /\ FeedChain(eoc)
      /\ IF encrypted
         THEN file' = Append(plaintext, eoc) /\ tag' = TRUE /\ plaintext' = <<>>
         ELSE file' = Append(file, eoc) /\ tag' = tag /\ plaintext' = plaintext
      /\ encrypted' = encrypted
  BY DEF Finalize
<1>3. eoc \in Block /\ eoc.whole
  BY <1>1, NewBlockFacts
<1>4. /\ prevHash' \in Nat /\ hashed' \in Seq(Nat) /\ blockIndex' \in Nat
      /\ accepted' \in Seq(Block) /\ Numbered' /\ Counted'
  BY <1>1, <1>2, Fed
<1>5. accepted' = Append(accepted, eoc)
  BY <1>2 DEF FeedChain
<1>6. SealLast'
  BY <1>2, SealFed
<1>7. /\ file \in Seq(Block) /\ plaintext \in Seq(Block) /\ accepted \in Seq(Block)
      /\ encrypted \in BOOLEAN /\ tag \in BOOLEAN /\ <<>> \in Seq(Block)
  BY <1>1, EmptySeq DEF TypeOK
<1> HIDE DEF eoc
<1>8. Append(file, eoc) \in Seq(Block) /\ Append(plaintext, eoc) \in Seq(Block)
  BY <1>3, <1>7, AppendProperties
<1>9. TypeOK'
  BY <1>2, <1>4, <1>7, <1>8 DEF TypeOK
<1>10. Mirrors(file', accepted') /\ (AllWhole(file') => Len(file') = Len(accepted'))
  <2>1. CASE encrypted
    <3>1. plaintext = accepted
      BY <1>1, <1>2, <2>1 DEF Written
    <3>2. Mirrors(accepted, accepted)
      BY DEF Mirrors
    <3>3. /\ Mirrors(Append(accepted, eoc), Append(accepted, eoc))
          /\ AllWhole(Append(accepted, eoc)) =>
               Len(Append(accepted, eoc)) = Len(Append(accepted, eoc))
      BY <1>3, <1>7, <3>2, MirrorBoth
    <3> QED BY <1>2, <1>5, <2>1, <3>1, <3>3
  <2>2. CASE ~encrypted
    <3>1. AllWhole(file) => Len(file) = Len(accepted)
      BY <1>1, <1>2, <2>2 DEF Written
    <3>2. /\ Mirrors(Append(file, eoc), Append(accepted, eoc))
          /\ AllWhole(Append(file, eoc)) =>
               Len(Append(file, eoc)) = Len(Append(accepted, eoc))
      BY <1>1, <1>3, <1>7, <3>1, MirrorBoth
    <3> QED BY <1>2, <1>5, <2>2, <3>2
  <2> QED BY <1>7, <2>1, <2>2
<1>11. Written'
  BY <1>2, <1>10 DEF Written
<1> QED BY <1>4, <1>6, <1>9, <1>10, <1>11 DEF IInv

\* A finalize that raised: before the chain was fed, or after it.
LEMMA FinalizeRaisesKeeps ==
    ASSUME IInv, FinalizeRaises
    PROVE  IInv'
<1> DEFINE eoc == NewBlock("EndOfCapture")
           all == IF encrypted THEN Append(plaintext, eoc) ELSE Append(file, eoc)
<1>1. /\ TypeOK /\ Numbered /\ Counted /\ SealLast /\ Mirrors(file, accepted) /\ Written
      /\ "EndOfCapture" \in AllTypes
  BY DEF IInv, AllTypes
<1>2. /\ caller \in {"writing", "unwinding"} /\ caller' = "failed"
      /\ encrypted' = encrypted /\ tag' = tag
  BY DEF FinalizeRaises
<1>3. \/ /\ file' \in {file, Append(file, Torn(eoc))}
         /\ plaintext' = plaintext /\ prevHash' = prevHash /\ hashed' = hashed
         /\ blockIndex' = blockIndex /\ accepted' = accepted
      \/ file' \in CutShort(all) /\ plaintext' = <<>> /\ FeedChain(eoc)
  BY DEF FinalizeRaises
<1>4. eoc \in Block /\ eoc.whole /\ Torn(eoc) \in Block /\ ~Torn(eoc).whole
  BY <1>1, NewBlockFacts, TornBlock
<1>5. /\ file \in Seq(Block) /\ plaintext \in Seq(Block) /\ accepted \in Seq(Block)
      /\ encrypted \in BOOLEAN /\ tag \in BOOLEAN /\ <<>> \in Seq(Block)
      /\ prevHash \in Nat /\ hashed \in Seq(Nat) /\ blockIndex \in Nat
  BY <1>1, EmptySeq DEF TypeOK
<1>6. Written'
  BY <1>2 DEF Written
<1>7. CASE /\ file' \in {file, Append(file, Torn(eoc))}
           /\ plaintext' = plaintext /\ prevHash' = prevHash /\ hashed' = hashed
           /\ blockIndex' = blockIndex /\ accepted' = accepted
  <2> HIDE DEF eoc
  <2>1. Append(file, Torn(eoc)) \in Seq(Block)
    BY <1>4, <1>5, AppendProperties
  <2>2. TypeOK'
    BY <1>2, <1>5, <1>7, <2>1 DEF TypeOK
  <2>3. Numbered' /\ Counted'
    BY <1>1, <1>2, <1>7 DEF Numbered, Counted
  <2>4. SealLast'
    BY <1>1, <1>2, <1>7 DEF SealLast
  <2>5. Mirrors(Append(file, Torn(eoc)), accepted)
    BY <1>1, <1>4, <1>5, MirrorTorn
  <2>6. Mirrors(file', accepted')
    BY <1>1, <1>7, <2>5
  <2> QED BY <1>6, <2>2, <2>3, <2>4, <2>6 DEF IInv
<1>8. CASE file' \in CutShort(all) /\ plaintext' = <<>> /\ FeedChain(eoc)
  <2>1. /\ prevHash' \in Nat /\ hashed' \in Seq(Nat) /\ blockIndex' \in Nat
        /\ accepted' \in Seq(Block) /\ Numbered' /\ Counted'
    BY <1>1, <1>2, <1>8, Fed
  <2>2. accepted' = Append(accepted, eoc)
    BY <1>8 DEF FeedChain
  <2>3. SealLast'
    BY <1>2, <1>8, SealFed
  <2> HIDE DEF eoc
  <2>4. all \in Seq(Block) /\ Mirrors(all, accepted')
    <3>1. CASE encrypted
      <4>1. plaintext = accepted
        BY <1>1, <1>2, <3>1 DEF Written
      <4>2. all = accepted'
        BY <2>2, <3>1, <4>1
      <4>3. Mirrors(accepted', accepted')
        BY DEF Mirrors
      <4> QED BY <2>1, <4>2, <4>3
    <3>2. CASE ~encrypted
      <4>1. AllWhole(file) => Len(file) = Len(accepted)
        BY <1>1, <1>2, <3>2 DEF Written
      <4>2. Mirrors(Append(file, eoc), Append(accepted, eoc))
        BY <1>1, <1>4, <1>5, <4>1, MirrorBoth
      <4>3. Append(file, eoc) \in Seq(Block)
        BY <1>4, <1>5, AppendProperties
      <4> QED BY <2>2, <3>2, <4>2, <4>3
    <3> QED BY <1>5, <3>1, <3>2
  <2> HIDE DEF all
  <2>5. file' \in Seq(Block) /\ Mirrors(file', accepted')
    BY <1>8, <2>1, <2>4, MirrorCut
  <2>6. TypeOK'
    BY <1>2, <1>5, <1>8, <2>1, <2>5 DEF TypeOK
  <2> QED BY <1>6, <2>1, <2>3, <2>5, <2>6 DEF IInv
<1> QED BY <1>3, <1>7, <1>8

\* A kill only shortens the file.
LEMMA KillKeeps ==
    ASSUME IInv, Kill
    PROVE  IInv'
<1>1. /\ TypeOK /\ Numbered /\ Counted /\ SealLast /\ Mirrors(file, accepted) /\ Written
  BY DEF IInv
<1>2. /\ caller \in {"writing", "unwinding"} /\ caller' = "killed"
      /\ file' \in CutShort(file)
      /\ encrypted' = encrypted /\ tag' = tag /\ plaintext' = plaintext
      /\ prevHash' = prevHash /\ hashed' = hashed /\ blockIndex' = blockIndex
      /\ accepted' = accepted
  BY DEF Kill
<1>3. file \in Seq(Block) /\ accepted \in Seq(Block)
  BY <1>1 DEF TypeOK
<1>4. file' \in Seq(Block) /\ Mirrors(file', accepted)
  BY <1>1, <1>2, <1>3, MirrorCut
<1>5. TypeOK'
  BY <1>1, <1>2, <1>4 DEF TypeOK
<1>6. Numbered' /\ Counted'
  BY <1>1, <1>2 DEF Numbered, Counted
<1>7. SealLast' /\ Written'
  BY <1>1, <1>2 DEF SealLast, Written
<1> QED BY <1>2, <1>4, <1>5, <1>6, <1>7 DEF IInv

LEMMA StutterKeeps == IInv /\ UNCHANGED writerVars => IInv'
<1> SUFFICES ASSUME IInv, UNCHANGED writerVars PROVE IInv'
  OBVIOUS
<1>1. /\ encrypted' = encrypted /\ file' = file /\ tag' = tag /\ plaintext' = plaintext
      /\ prevHash' = prevHash /\ hashed' = hashed /\ blockIndex' = blockIndex
      /\ accepted' = accepted /\ caller' = caller
  BY DEF writerVars
<1>2. TypeOK' /\ Numbered' /\ Counted'
  BY <1>1 DEF IInv, TypeOK, Numbered, Counted
<1>3. SealLast' /\ Mirrors(file', accepted') /\ Written'
  BY <1>1 DEF IInv, SealLast, Written, AllWhole
<1> QED BY <1>2, <1>3 DEF IInv

\* The writer's state satisfies IInv throughout: msl/writer.py keeps chain,
\* counter, file and acknowledgements together through every step and failure.
THEOREM WriterInvariant == Spec => []IInv
<1>1. Init => IInv
  BY InitHolds
<1>2. IInv /\ [Next]_writerVars => IInv'
  <2> SUFFICES ASSUME IInv, [Next]_writerVars PROVE IInv'
    OBVIOUS
  <2>1. CASE \E type \in BlockTypes : WriteBlock(type) \/ WriteBlockRaises(type)
    BY <2>1, WriteBlockKeeps, WriteBlockRaisesKeeps
  <2>2. CASE Finalize
    BY <2>2, FinalizeKeeps
  <2>3. CASE FinalizeRaises
    BY <2>3, FinalizeRaisesKeeps
  <2>4. CASE Kill
    BY <2>4, KillKeeps
  <2>5. CASE UNCHANGED writerVars
    BY <2>5, StutterKeeps
  <2> QED BY <2>1, <2>2, <2>3, <2>4, <2>5 DEF Next
<1> QED BY <1>1, <1>2, PTL DEF Spec

\* Every variable of the writer keeps its type.
THEOREM WriterTypeOK == Spec => []TypeOK
<1>1. IInv => TypeOK
  BY DEF IInv
<1> QED BY <1>1, WriterInvariant, PTL

------------------------------------------------------------------------------
(* What the reader verifies                                                  *)

\* VerifiedLen is where the chain first breaks, or the end of the file.
Verified ==
    /\ VerifiedLen \in 0 .. Len(file)
    /\ LinkedUpTo(VerifiedLen)
    /\ VerifiedLen = Len(file) \/ ~Linked(VerifiedLen + 1)

Less == {ss \in Nat \X Nat : ss[1] < ss[2]}

\* A non-empty set of naturals has a least element: where a CHOOSE asks for the
\* first position with a property, there is one.
LEMMA LeastOfSet ==
    ASSUME NEW T \in SUBSET Nat, T # {}
    PROVE  \E x \in T : \A y \in T : x <= y
<1>1. OpToRel(<, Nat) = Less
  BY DEF OpToRel, Less
<1>2. IsWellFoundedOn(Less, Nat)
  BY <1>1, NatLessThanWellFounded
<1>3. PICK x \in T : \A y \in T : ~(<<y, x>> \in Less)
  BY <1>2, WFMin
<1>4. \A m, n \in Nat : m < n => <<m, n>> \in Less
  BY DEF Less
<1>5. \A y \in T : ~(y < x)
  BY <1>3, <1>4
<1> QED BY <1>5

LEMMA VerifiedFacts == TypeOK => Verified
<1> SUFFICES ASSUME TypeOK PROVE Verified
  OBVIOUS
<1> DEFINE T == {i \in 1 .. Len(file) : ~Linked(i)}
<1>1. Len(file) \in Nat
  BY LenProperties DEF TypeOK
<1>2. \E n \in 0 .. Len(file) : LinkedUpTo(n) /\ (n = Len(file) \/ ~Linked(n + 1))
  <2>1. CASE T = {}
    <3>1. LinkedUpTo(Len(file))
      BY <2>1 DEF LinkedUpTo
    <3> QED BY <1>1, <3>1
  <2>2. CASE T # {}
    <3>1. T \in SUBSET Nat
      BY <1>1
    <3>2. \E x \in T : \A y \in T : x <= y
      BY <2>2, <3>1, LeastOfSet
    <3>3. PICK x \in T : \A y \in T : x <= y
      BY <3>2
    <3>4. x \in 1 .. Len(file) /\ ~Linked(x)
      OBVIOUS
    <3>5. ASSUME NEW i \in 1 .. x - 1
          PROVE  Linked(i)
      <4>1. i \in 1 .. Len(file) /\ ~(x <= i)
        BY <1>1, <3>4
      <4> QED BY <3>3, <4>1
    <3>6. LinkedUpTo(x - 1)
      BY <3>5 DEF LinkedUpTo
    <3>7. x - 1 \in 0 .. Len(file) /\ (x - 1) + 1 = x
      BY <1>1, <3>4
    <3> QED BY <3>4, <3>6, <3>7
  <2> QED BY <2>1, <2>2
<1> QED BY <1>2 DEF Verified, VerifiedLen

\* What the reader sees is the verified part of the file, and agrees with
\* the acknowledged blocks.
Seen ==
    /\ Len(Visible) \in 0 .. Len(file)
    /\ Len(Visible) <= Len(accepted)
    /\ \A i \in 1 .. Len(Visible) :
          Visible[i] = file[i] /\ file[i] = accepted[i] /\ Linked(i)
    /\ Visible \in Seq(Block)
    /\ (encrypted => tag) => Len(Visible) = VerifiedLen

LEMMA SeenFacts == IInv => Seen
<1> SUFFICES ASSUME IInv PROVE Seen
  OBVIOUS
<1>1. file \in Seq(Block) /\ accepted \in Seq(Block) /\ Mirrors(file, accepted) /\ TypeOK
  BY DEF IInv, TypeOK
<1>2. Len(file) \in Nat /\ Len(accepted) \in Nat
  BY <1>1, LenProperties
<1>3. <<>> \in Seq(Block) /\ Len(<<>>) = 0
  BY EmptySeq
<1>4. CASE encrypted /\ ~tag
  <2>1. Visible = <<>>
    BY <1>4 DEF Visible
  <2> QED BY <1>2, <1>3, <1>4, <2>1 DEF Seen
<1>5. CASE ~(encrypted /\ ~tag)
  <2> DEFINE n == VerifiedLen
  <2>1. Visible = SubSeq(file, 1, n)
    BY <1>5 DEF Visible
  <2>2. n \in 0 .. Len(file) /\ LinkedUpTo(n)
    BY <1>1, VerifiedFacts DEF Verified
  <2> HIDE DEF n
  <2>3. \A i \in 1 .. Len(file) : file[i] \in Block
    BY <1>1, ElementOfSeq
  <2>4. \A i \in 1 .. n : file[i] \in Block
    BY <1>2, <2>2, <2>3
  <2>5. /\ Visible \in Seq(Block)
        /\ Len(Visible) = IF 1 <= n THEN n - 1 + 1 ELSE 0
        /\ \A i \in 1 .. n - 1 + 1 : Visible[i] = file[1 + i - 1]
    BY <2>1, <2>2, <2>4, SubSeqProperties
  <2>6. Len(Visible) = n /\ \A i \in 1 .. n : Visible[i] = file[i]
    BY <1>2, <2>2, <2>5
  <2>7. \A i \in 1 .. n : Linked(i)
    BY <2>2 DEF LinkedUpTo
  <2>8. ASSUME NEW i \in 1 .. n
        PROVE  i <= Len(accepted) /\ file[i] = accepted[i]
    <3>1. i \in 1 .. Len(file) /\ \A j \in 1 .. i : j \in 1 .. n
      BY <1>2, <2>2
    <3>2. \A j \in 1 .. i : file[j].whole
      BY <2>7, <3>1 DEF Linked
    <3> QED BY <1>1, <3>1, <3>2 DEF Mirrors
  <2>9. n <= Len(accepted)
    <3>1. CASE n = 0
      BY <1>2, <3>1
    <3>2. CASE n # 0
      <4>1. n \in 1 .. n
        BY <1>2, <2>2, <3>2
      <4> QED BY <2>8, <4>1
    <3> QED BY <3>1, <3>2
  <2>10. Len(Visible) = VerifiedLen
    BY <2>6 DEF n
  <2> QED BY <2>2, <2>5, <2>6, <2>7, <2>8, <2>9, <2>10 DEF Seen
<1> QED BY <1>4, <1>5

\* Where the file is the acknowledged blocks and can be decrypted, the reader
\* sees all of it: every block carries the digest of the one before it.
LEMMA AllVisible ==
    ASSUME IInv, encrypted => tag, Len(file) = Len(accepted),
           \A i \in 1 .. Len(file) : file[i] = accepted[i]
    PROVE  Visible = accepted /\ Visible = file
<1> DEFINE n == Len(file)
<1>1. /\ file \in Seq(Block) /\ accepted \in Seq(Block) /\ TypeOK
      /\ encrypted \in BOOLEAN /\ tag \in BOOLEAN
  BY DEF IInv, TypeOK
<1>2. n \in Nat
  BY <1>1, LenProperties
<1>3. \A i \in 1 .. n : /\ file[i].num = i /\ file[i].whole
                        /\ file[i].prev = IF encrypted THEN ZeroHash ELSE i - 1
  BY DEF IInv, Numbered
<1>4. file = accepted
  BY <1>1, SeqEqual
<1>5. VerifiedLen \in 0 .. n /\ (VerifiedLen = n \/ ~Linked(VerifiedLen + 1))
  BY <1>1, VerifiedFacts DEF Verified
<1>6. ASSUME NEW i \in 1 .. n PROVE Linked(i)
  <2> HIDE DEF n
  <2>1. file[i].whole
    BY <1>3
  <2>2. CASE encrypted
    BY <1>3, <2>1, <2>2 DEF Linked
  <2>3. CASE ~encrypted /\ i = 1
    BY <1>3, <2>1, <2>3 DEF Linked, HeaderDigest
  <2>4. CASE ~encrypted /\ i # 1
    <3>1. i - 1 \in 1 .. n
      BY <1>2, <2>4
    <3> QED BY <1>3, <2>1, <2>4, <3>1 DEF Linked
  <2> QED BY <2>2, <2>3, <2>4
<1>7. VerifiedLen = n
  <2> HIDE DEF n
  <2>1. SUFFICES ASSUME VerifiedLen # n PROVE FALSE
    OBVIOUS
  <2>2. VerifiedLen + 1 \in 1 .. n
    BY <1>2, <1>5, <2>1
  <2> QED BY <1>5, <1>6, <2>1, <2>2
<1>8. Visible = SubSeq(file, 1, n)
  BY <1>7 DEF Visible
<1>9. \A i \in 1 .. n : file[i] \in Block
  BY <1>1, ElementOfSeq
<1>10. /\ Visible \in Seq(Block)
       /\ Len(Visible) = IF 1 <= n THEN n - 1 + 1 ELSE 0
       /\ \A i \in 1 .. n - 1 + 1 : Visible[i] = file[1 + i - 1]
  BY <1>2, <1>8, <1>9, SubSeqProperties
<1>11. Len(Visible) = Len(file) /\ \A i \in 1 .. Len(Visible) : Visible[i] = file[i]
  BY <1>2, <1>10
<1>12. Visible = file
  BY <1>1, <1>10, <1>11, SeqEqual
<1> QED BY <1>4, <1>12

\* A sealed file ends in the End-of-Capture that was acknowledged last.
SealCovers ==
    Sealed => /\ Visible = accepted
              /\ Len(accepted) > 0
              /\ accepted[Len(accepted)].type = "EndOfCapture"
              /\ caller \in {"closed", "failed"}

LEMMA SealedFacts == IInv => SealCovers
<1> SUFFICES ASSUME IInv, Sealed
             PROVE  /\ Visible = accepted
                    /\ Len(accepted) > 0
                    /\ accepted[Len(accepted)].type = "EndOfCapture"
                    /\ caller \in {"closed", "failed"}
  BY DEF SealCovers
<1> DEFINE n == Len(file)
<1>1. n > 0 /\ Len(Visible) = n /\ file[n].type = "EndOfCapture"
  BY DEF Sealed
<1>2. /\ n <= Len(accepted) /\ Visible \in Seq(Block)
      /\ \A i \in 1 .. n : Visible[i] = file[i] /\ file[i] = accepted[i]
  BY <1>1, SeenFacts DEF Seen
<1>3. file \in Seq(Block) /\ accepted \in Seq(Block)
  BY DEF IInv, TypeOK
<1>4. n \in Nat /\ Len(accepted) \in Nat
  BY <1>3, LenProperties
<1> HIDE DEF n
<1>5. n \in 1 .. n /\ n \in 1 .. Len(accepted)
  BY <1>1, <1>2, <1>4
<1>6. accepted[n].type = "EndOfCapture"
  BY <1>1, <1>2, <1>5
<1>7. n = Len(accepted) /\ caller \in {"closed", "failed"}
  BY <1>5, <1>6 DEF IInv, SealLast
<1>8. Len(Visible) = Len(accepted) /\ \A i \in 1 .. Len(Visible) : Visible[i] = accepted[i]
  BY <1>1, <1>2, <1>7
<1>9. Visible = accepted
  BY <1>2, <1>3, <1>8, SeqEqual
<1> QED BY <1>1, <1>6, <1>7, <1>9

------------------------------------------------------------------------------
(* The properties                                                            *)

\* Whatever a verifying reader accepts was acknowledged, in that order and
\* without a gap, for files of any length and every failure of
\* msl/writer.py's writes and of finalize.
THEOREM WriterReaderSeesPrefix == Spec => []ReaderSeesPrefix
<1>1. IInv => ReaderSeesPrefix
  BY SeenFacts DEF ReaderSeesPrefix, Seen
<1> QED BY <1>1, WriterInvariant, PTL

\* A file that verifies up to a valid End-of-Capture holds every block that
\* was acknowledged, for files of any length.
THEOREM WriterSealedIsComplete == Spec => []SealedIsComplete
<1>1. IInv => SealedIsComplete
  BY SealedFacts DEF SealedIsComplete, SealCovers
<1> QED BY <1>1, WriterInvariant, PTL

\* In the clear everything acknowledged can be verified until a call raises:
\* _write_block never returns with the chain behind the file.
THEOREM WriterClearIsCurrent == Spec => []ClearIsCurrent
<1>1. IInv => ClearIsCurrent
  <2> SUFFICES ASSUME IInv, ~encrypted, caller = "writing" PROVE Visible = accepted
    BY DEF ClearIsCurrent
  <2>1. file = accepted
    BY DEF IInv, Written
  <2> QED BY <2>1, AllVisible
<1> QED BY <1>1, WriterInvariant, PTL

\* A finalize that returned leaves a sealed file, whatever was written and
\* whatever raised before it, unless a block of the file is torn.
THEOREM WriterClosedIsSealed == Spec => []ClosedIsSealed
<1>1. IInv => ClosedIsSealed
  <2> SUFFICES ASSUME IInv, caller = "closed", \A i \in 1 .. Len(file) : file[i].whole
               PROVE  Sealed
    BY DEF ClosedIsSealed
  <2> DEFINE n == Len(file)
  <2>1. /\ file \in Seq(Block) /\ accepted \in Seq(Block)
        /\ Mirrors(file, accepted) /\ SealLast /\ Numbered
    BY DEF IInv, TypeOK
  <2>2. n \in Nat
    BY <2>1, LenProperties
  <2>3. (encrypted => tag) /\ n = Len(accepted)
    BY DEF IInv, Written, AllWhole
  <2>4. ASSUME NEW i \in 1 .. n PROVE file[i] = accepted[i]
    <3>1. \A j \in 1 .. i : file[j].whole
      BY <2>2
    <3> QED BY <2>1, <3>1 DEF Mirrors
  <2>5. Visible = file
    BY <2>3, <2>4, AllVisible
  <2>6. n > 0 /\ accepted[n].type = "EndOfCapture"
    BY <2>1, <2>3 DEF SealLast
  <2> HIDE DEF n
  <2>7. n \in 1 .. n
    BY <2>2, <2>6
  <2>8. file[n] = accepted[n] /\ file[n] \in Block
    BY <2>1, <2>4, <2>7, ElementOfSeq DEF n
  <2>9. Len(file[n].sum) = n /\ \A k \in 1 .. n : file[n].sum[k] = k - 1
    BY <2>1, <2>3, <2>6, <2>7, <2>8 DEF SealLast
  <2>10. file[n].sum \in Seq(Nat)
    BY <2>8 DEF Block
  <2>11. file[n].sum = [k \in 1 .. n |-> file[n].sum[k]]
    BY <2>9, <2>10, LenProperties
  <2>12. \A k \in 1 .. n : file[n].sum[k] = IF k = 1 THEN HeaderDigest ELSE file[k - 1].num
    <3> SUFFICES ASSUME NEW k \in 1 .. n
                 PROVE  k - 1 = IF k = 1 THEN HeaderDigest ELSE file[k - 1].num
      BY <2>9
    <3>1. CASE k = 1
      BY <3>1 DEF HeaderDigest
    <3>2. CASE k # 1
      <4>1. k - 1 \in 1 .. n
        BY <2>2, <3>2
      <4>2. file[k - 1].num = k - 1
        BY <2>1, <2>3, <2>4, <4>1 DEF Numbered
      <4> QED BY <3>2, <4>2
    <3> QED BY <3>1, <3>2
  <2>13. 1 .. (n - 1) + 1 = 1 .. n
    BY <2>2
  <2>14. file[n].sum = DigestsUpTo(n - 1)
    BY <2>11, <2>12, <2>13 DEF DigestsUpTo
  <2> QED BY <2>5, <2>6, <2>8, <2>14 DEF Sealed, n
<1> QED BY <1>1, WriterInvariant, PTL

------------------------------------------------------------------------------
(* The writer implements SealedLog                                           *)

\* A file that only grows at its end hides nothing from the reader.
LEMMA VisibleGrows ==
    ASSUME IInv, IInv', NEW b, file' = Append(file, b),
           encrypted' = encrypted, tag' = tag
    PROVE  Log!PrefixOf(Visible, Visible')
<1> DEFINE n == Len(Visible)
<1>1. /\ file \in Seq(Block) /\ file' \in Seq(Block) /\ TypeOK /\ TypeOK'
  BY DEF IInv, TypeOK
<1>2. /\ n \in 0 .. Len(file)
      /\ \A i \in 1 .. n : Visible[i] = file[i] /\ Linked(i)
  BY SeenFacts DEF Seen
<1>3. /\ Len(Visible') \in 0 .. Len(file')
      /\ \A i \in 1 .. Len(Visible') : Visible'[i] = file'[i]
  <2>1. Seen'
    BY SeenFacts, PTL
  <2> QED BY <2>1 DEF Seen
<1>4. Len(file) \in Nat /\ Len(file') \in Nat
  BY <1>1, LenProperties
<1>5. Len(file') = Len(file) + 1 /\ \A i \in 1 .. Len(file) : file'[i] = file[i]
  BY <1>1, <1>4
<1>6. CASE encrypted /\ ~tag
  <2>1. Visible = <<>> /\ Visible' = <<>>
    BY <1>6 DEF Visible
  <2> QED BY <2>1 DEF Log!PrefixOf
<1>7. CASE ~(encrypted /\ ~tag)
  <2> HIDE DEF n
  <2>1. ASSUME NEW i \in 1 .. n PROVE Linked(i)'
    <3>1. i \in 1 .. Len(file) /\ file'[i] = file[i] /\ Linked(i)
      BY <1>2, <1>4, <1>5
    <3>2. CASE i = 1
      BY <3>1, <3>2 DEF Linked
    <3>3. CASE i # 1
      <4>1. i - 1 \in 1 .. Len(file)
        BY <1>4, <3>1, <3>3
      <4>2. file'[i - 1] = file[i - 1]
        BY <1>5, <4>1
      <4> QED BY <3>1, <3>3, <4>2 DEF Linked
    <3> QED BY <3>2, <3>3
  <2>2. Verified' /\ Seen'
    BY <1>1, VerifiedFacts, SeenFacts, PTL
  <2>3. /\ Len(Visible') \in 0 .. Len(file')
        /\ Len(Visible') = Len(file') \/ ~Linked(VerifiedLen + 1)'
        /\ Len(Visible') = VerifiedLen'
    BY <1>7, <2>2 DEF Verified, Seen
  <2> DEFINE m == Len(Visible')
  <2> HIDE DEF m
  <2>4. m \in 0 .. Len(file')
    BY <2>3 DEF m
  <2>5. m \in Nat /\ n \in Nat /\ n <= Len(file)
    BY <1>2, <1>4, <2>4
  <2>6. ~(m < n)
    <3>1. SUFFICES ASSUME m < n PROVE FALSE
      OBVIOUS
    <3>2. m + 1 \in 1 .. n /\ m # Len(file')
      BY <1>4, <1>5, <2>5, <3>1
    <3>3. Linked(VerifiedLen + 1)'
      BY <2>1, <2>3, <3>2 DEF m
    <3> QED BY <2>3, <3>2, <3>3 DEF m
  <2>7. n <= Len(Visible')
    BY <2>5, <2>6 DEF m
  <2>8. ASSUME NEW i \in 1 .. n PROVE Visible[i] = Visible'[i]
    <3>1. i \in 1 .. Len(file) /\ i \in 1 .. Len(Visible')
      BY <1>2, <1>3, <1>4, <2>7
    <3> QED BY <1>2, <1>3, <1>5, <3>1
  <2> QED BY <2>7, <2>8 DEF Log!PrefixOf, n
<1> QED BY <1>6, <1>7

\* One more block acknowledged, and nothing lost from sight.
LEMMA AcceptStep ==
    ASSUME IInv, IInv', ~Sealed, NEW b, accepted' = Append(accepted, b),
           Log!PrefixOf(Visible, Visible')
    PROVE  Log!Accept
<1>1. Seen'
  BY SeenFacts, PTL
<1>2. accepted \in Seq(Block)
  BY DEF IInv, TypeOK
<1>3. Len(accepted') = Len(accepted) + 1 /\ Log!PrefixOf(accepted, accepted')
  BY <1>2 DEF Log!PrefixOf
<1>4. Log!PrefixOf(Visible', accepted')
  BY <1>1 DEF Seen, Log!PrefixOf
<1>5. Sealed' \in BOOLEAN
  BY DEF Sealed
<1>6. SealCovers'
  BY SealedFacts, PTL
<1>7. Sealed' => Visible' = accepted'
  BY <1>6 DEF SealCovers
<1> QED BY <1>3, <1>4, <1>5, <1>7 DEF Log!Accept

\* Nothing acknowledged; what the reader sees stays a prefix.
LEMMA CutStep ==
    ASSUME IInv', ~Sealed, ~Sealed', accepted' = accepted
    PROVE  Log!Cut
<1>1. Seen'
  BY SeenFacts, PTL
<1>2. Log!PrefixOf(Visible', accepted)
  BY <1>1 DEF Seen, Log!PrefixOf
<1>3. Sealed' = Sealed
  BY DEF Sealed
<1> QED BY <1>2, <1>3 DEF Log!Cut

\* Before finalize ends nothing acknowledged is an End-of-Capture.
LEMMA OpenFacts ==
    ASSUME IInv, caller \in {"writing", "unwinding"}
    PROVE  /\ ~Sealed
           /\ \A i \in 1 .. Len(accepted) : accepted[i].type # "EndOfCapture"
<1>1. \A i \in 1 .. Len(accepted) : accepted[i].type # "EndOfCapture"
  BY DEF IInv, SealLast
<1>2. ~Sealed
  BY SealedFacts DEF SealCovers
<1> QED BY <1>1, <1>2

\* Nor is the file sealed by a step that acknowledges nothing.
LEMMA StaysOpen ==
    ASSUME IInv, IInv', caller \in {"writing", "unwinding"}, accepted' = accepted
    PROVE  ~Sealed'
<1>1. \A i \in 1 .. Len(accepted) : accepted[i].type # "EndOfCapture"
  BY OpenFacts
<1>2. accepted \in Seq(Block)
  BY DEF IInv, TypeOK
<1>3. Len(accepted) \in Nat
  BY <1>2, LenProperties
<1>4. SealCovers'
  BY SealedFacts, PTL
<1> QED BY <1>1, <1>3, <1>4 DEF SealCovers

\* An encrypted writer shows nothing before its tag is written.
LEMMA NothingToSee ==
    ASSUME IInv, caller \in {"writing", "unwinding"}, encrypted,
           Len(Visible') \in Nat
    PROVE  Log!PrefixOf(Visible, Visible')
<1>1. file = <<>> /\ Len(file) = 0
  BY EmptySeq DEF IInv, Written
<1>2. Len(Visible) = 0
  BY <1>1, SeenFacts DEF Seen
<1> QED BY <1>2 DEF Log!PrefixOf

LEMMA WriterStepIsLogStep ==
    IInv /\ IInv' /\ [Next]_writerVars => [Log!Next]_Log!logVars
<1> SUFFICES ASSUME IInv, IInv', [Next]_writerVars
             PROVE  [Log!Next]_Log!logVars
  OBVIOUS
<1>1. /\ accepted \in Seq(Block) /\ file \in Seq(Block)
      /\ encrypted \in BOOLEAN
  BY DEF IInv, TypeOK
<1>2. Seen /\ Seen'
  BY SeenFacts, PTL
<1>3. Len(Visible') \in Nat /\ Len(Visible) \in Nat
  <2>1. Visible' \in Seq(Block) /\ Visible \in Seq(Block)
    BY <1>2 DEF Seen
  <2> QED BY <2>1, LenProperties
<1>4. ASSUME NEW type \in BlockTypes, WriteBlock(type)
      PROVE  Log!Next
  <2>1. /\ caller = "writing" /\ FeedChain(NewBlock(type))
        /\ encrypted' = encrypted /\ tag' = tag
        /\ ~encrypted => file' = Append(file, NewBlock(type))
    BY <1>4 DEF WriteBlock
  <2>2. Log!PrefixOf(Visible, Visible')
    BY <1>1, <1>3, <2>1, NothingToSee, VisibleGrows
  <2>3. ~Sealed
    BY <2>1, OpenFacts
  <2>4. accepted' = Append(accepted, NewBlock(type))
    BY <2>1 DEF FeedChain
  <2> QED BY <2>2, <2>3, <2>4, AcceptStep DEF Log!Next
<1>5. ASSUME NEW type \in BlockTypes, WriteBlockRaises(type)
      PROVE  Log!Next
  <2>1. caller = "writing" /\ accepted' = accepted
    BY <1>5 DEF WriteBlockRaises
  <2>2. ~Sealed /\ ~Sealed'
    BY <2>1, OpenFacts, StaysOpen
  <2> QED BY <2>1, <2>2, CutStep DEF Log!Next
<1>6. ASSUME Finalize
      PROVE  Log!Next
  <2> DEFINE eoc == NewBlock("EndOfCapture")
  <2>1. /\ caller \in {"writing", "unwinding"} /\ FeedChain(eoc)
        /\ encrypted' = encrypted
        /\ ~encrypted => file' = Append(file, eoc) /\ tag' = tag
    BY <1>6 DEF Finalize
  <2>2. Log!PrefixOf(Visible, Visible')
    BY <1>1, <1>3, <2>1, NothingToSee, VisibleGrows
  <2>3. ~Sealed
    BY <2>1, OpenFacts
  <2>4. accepted' = Append(accepted, eoc)
    BY <2>1 DEF FeedChain
  <2> QED BY <2>2, <2>3, <2>4, AcceptStep DEF Log!Next
<1>7. ASSUME FinalizeRaises
      PROVE  Log!Next
  <2> DEFINE eoc == NewBlock("EndOfCapture")
  <2>1. /\ caller \in {"writing", "unwinding"}
        /\ accepted' = accepted \/ accepted' = Append(accepted, eoc)
    BY <1>7 DEF FinalizeRaises, FeedChain
  <2>2. ~Sealed
    BY <2>1, OpenFacts
  <2> HIDE DEF eoc
  <2>3. CASE accepted' = accepted
    BY <2>1, <2>2, <2>3, StaysOpen, CutStep DEF Log!Next
  <2>4. CASE accepted' = Append(accepted, eoc)
    <3>1. /\ Len(accepted') = Len(accepted) + 1
          /\ \A i \in 1 .. Len(accepted) : accepted'[i] = accepted[i]
      BY <1>1, <2>4
    <3>2. Len(accepted) \in Nat
      BY <1>1, LenProperties
    <3>3. /\ Len(Visible) <= Len(accepted)
          /\ \A i \in 1 .. Len(Visible) : Visible[i] = accepted[i]
          /\ Len(Visible') <= Len(accepted')
          /\ \A i \in 1 .. Len(Visible') : Visible'[i] = accepted'[i]
      BY <1>2 DEF Seen
    \* All of it reached the file: nothing is lost from sight.
    <3>4. CASE Len(Visible') = Len(accepted')
      <4>1. Len(Visible) <= Len(Visible')
        BY <1>3, <3>1, <3>2, <3>3, <3>4
      <4>2. ASSUME NEW i \in 1 .. Len(Visible) PROVE Visible[i] = Visible'[i]
        <5>1. i \in 1 .. Len(accepted) /\ i \in 1 .. Len(Visible')
          BY <1>3, <3>1, <3>2, <3>3, <4>1
        <5> QED BY <3>1, <3>3, <5>1
      <4>3. Log!PrefixOf(Visible, Visible')
        BY <4>1, <4>2 DEF Log!PrefixOf
      <4> QED BY <2>2, <2>4, <4>3, AcceptStep DEF Log!Next
    \* Something is missing: the file is not sealed.
    <3>5. CASE Len(Visible') # Len(accepted')
      <4>1. SealCovers'
        BY SealedFacts, PTL
      <4>2. ~Sealed'
        BY <3>5, <4>1 DEF SealCovers
      <4>3. Len(Visible') <= Len(accepted)
        BY <1>3, <3>1, <3>2, <3>3, <3>5
      <4>4. ASSUME NEW i \in 1 .. Len(Visible') PROVE Visible'[i] = accepted[i]
        <5>1. i \in 1 .. Len(accepted)
          BY <1>3, <3>2, <4>3
        <5> QED BY <3>1, <3>3, <5>1
      <4>5. Log!PrefixOf(Visible', accepted)
        BY <4>3, <4>4 DEF Log!PrefixOf
      <4>6. Log!PrefixOf(accepted, accepted')
        BY <3>1, <3>2 DEF Log!PrefixOf
      <4>7. Sealed' = Sealed
        BY <2>2, <4>2 DEF Sealed
      <4> QED BY <2>2, <3>1, <4>5, <4>6, <4>7 DEF Log!Cut, Log!Next
    <3> QED BY <3>4, <3>5
  <2> QED BY <2>1, <2>3, <2>4
<1>8. ASSUME Kill
      PROVE  Log!Next
  <2>1. caller \in {"writing", "unwinding"} /\ accepted' = accepted
    BY <1>8 DEF Kill
  <2>2. ~Sealed /\ ~Sealed'
    BY <2>1, OpenFacts, StaysOpen
  <2> QED BY <2>1, <2>2, CutStep DEF Log!Next
<1>9. CASE UNCHANGED writerVars
  <2>1. encrypted' = encrypted /\ file' = file /\ tag' = tag /\ accepted' = accepted
    BY <1>9 DEF writerVars
  <2>2. VerifiedLen' = VerifiedLen
    BY <2>1 DEF VerifiedLen, LinkedUpTo, Linked
  <2>3. Visible' = Visible
    BY <2>1, <2>2 DEF Visible
  <2>4. Sealed' = Sealed
    BY <2>1, <2>3 DEF Sealed, DigestsUpTo
  <2> QED BY <2>1, <2>3, <2>4 DEF Log!logVars
<1> QED BY <1>4, <1>5, <1>6, <1>7, <1>8, <1>9 DEF Next

\* Every behaviour of msl/writer.py, its failures and kills included, is one
\* of the append-only log: only a failing step or a kill takes away what a
\* reader could verify before, and nothing does once the file is sealed.
THEOREM WriterImplementsLog == Spec => ImplementsSealedLog
<1>1. Init => Log!Init
  <2> SUFFICES ASSUME Init PROVE Log!Init
    OBVIOUS
  <2>1. accepted = <<>> /\ file = <<>> /\ caller = "writing"
    BY DEF Init
  <2>2. IInv
    BY InitHolds
  <2>3. ~Sealed
    BY <2>1, <2>2, OpenFacts
  <2>4. Len(Visible) = 0 /\ Visible \in Seq(Block)
    BY <2>1, <2>2, SeenFacts, EmptySeq DEF Seen
  <2>5. Visible = <<>>
    BY <2>4
  <2>6. Sealed = FALSE
    BY <2>3 DEF Sealed
  <2> QED BY <2>1, <2>5, <2>6 DEF Log!Init
<1>2. IInv /\ IInv' /\ [Next]_writerVars => [Log!Next]_Log!logVars
  BY WriterStepIsLogStep
<1>3. Spec => []IInv
  BY WriterInvariant
<1> QED BY <1>1, <1>2, <1>3, PTL DEF Spec, ImplementsSealedLog, Log!LogSpec
==============================================================================

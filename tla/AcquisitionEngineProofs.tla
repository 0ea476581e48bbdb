----------------------- MODULE AcquisitionEngineProofs -----------------------
(***************************************************************************)
(* For a target with any number of threads and ranges, any kinds of        *)
(* blocks, whatever raises and whenever an abort is requested: the engine  *)
(* uses its writer as MSLWriter allows.  So all that is proved of the      *)
(* writer holds of the engine's file (WP), and with it what the result of  *)
(* acquire says of that file.                                              *)
(***************************************************************************)
EXTENDS AcquisitionEngine, FiniteSetTheorems, SequenceTheorems, TLAPS

\* What is proved of the writer, for the engine's writer.
WP == INSTANCE MSLWriterProofs WITH MaxBlocks <- Len(Order) + MaxThreads + MaxRanges

Before == {"idle", "connect", "modules", "threads", "tables", "open", "identity", "emit"}
After == {"finalize", "except", "return", "raise", "returned", "raised"}

\* What is left to do, and what the abort flag still allows.
FlowInv ==
    /\ pc \in Before \cup {"loop", "range"} \cup After
    /\ abort \in BOOLEAN /\ requested \in BOOLEAN /\ failed \in BOOLEAN
    /\ at \in Nat \ {0} /\ \A n \in DOMAIN threads : threads[n] \in ThreadTypes
    /\ total \in Nat /\ turn \in Nat /\ regions \in Nat /\ skipped \in Nat /\ late \in Nat
    /\ turn = regions + skipped /\ turn <= total /\ total <= MaxRanges /\ late <= regions
    /\ pc \in Before => turn = 0
    /\ pc = "range" => turn < total
    /\ pc \in {"finalize", "return", "returned"} /\ ~failed /\ ~abort => turn = total
    /\ pc \in {"return", "returned"} /\ ~abort => ~failed
    /\ pc = "except" => failed
    /\ late <= 1 /\ (late = 1 => abort /\ pc \in After \cup {"loop"})

------------------------------------------------------------------------------
(* Control                                                                   *)

LEMMA InitFlow == Init => FlowInv
<1> SUFFICES ASSUME Init
             PROVE  FlowInv
  OBVIOUS
<1>1. DOMAIN threads = {}
  BY DEF Init
<1>2. /\ pc = "idle" /\ abort = FALSE /\ requested = FALSE /\ failed = FALSE /\ at = 1
      /\ total = 0 /\ turn = 0 /\ regions = 0 /\ skipped = 0 /\ late = 0
  BY DEF Init
<1>3. \A n \in DOMAIN threads : threads[n] \in ThreadTypes
  BY <1>1
<1>4. abort \in BOOLEAN /\ requested \in BOOLEAN /\ failed \in BOOLEAN
  BY <1>2
<1>5. pc \in Before
  BY <1>2 DEF Before
<1> QED
  BY <1>2, <1>3, <1>4, <1>5, EngineAssumption DEF FlowInv

LEMMA RequestAbortFlow == ASSUME FlowInv, RequestAbort PROVE FlowInv'
  BY DEF FlowInv, RequestAbort, dataVars, emitVars, loopVars, Before, After

LEMMA StartFlow == ASSUME FlowInv, Start PROVE FlowInv'
  BY DEF FlowInv, Start, dataVars, emitVars, loopVars, Before, After

LEMMA PrepareFlow ==
    ASSUME FlowInv, Connect \/ EnumerateModules \/ CollectTables \/ OpenFile \/ CollectIdentity
                    \/ CollectContext
    PROVE  FlowInv'
  BY DEF FlowInv, Connect, EnumerateModules, CollectTables, OpenFile, CollectIdentity, CollectContext,
         flowVars, dataVars, emitVars, loopVars, Before, After

LEMMA ThreadsFlow == ASSUME FlowInv, EnumerateThreads PROVE FlowInv'
<1>1. \E raw, kept : threads' = ThreadTypesOf(raw, kept)
  BY DEF EnumerateThreads
<1>2. \A n \in DOMAIN threads' : threads'[n] \in ThreadTypes
  BY <1>1 DEF ThreadTypesOf, ThreadTypes
<1> QED
  BY <1>2 DEF FlowInv, EnumerateThreads, flowVars, emitVars, loopVars, Before, After

LEMMA EmitFlow == ASSUME FlowInv, Emit \/ EmitThread \/ EnumerateRanges PROVE FlowInv'
<1>1. CASE Emit \/ EmitThread
  <2>1. /\ pc = "emit" /\ pc' = pc /\ at' = at + 1 /\ UNCHANGED <<failed, flowVars, dataVars, loopVars>>
    BY <1>1 DEF Emit, EmitThread
  <2> QED
    BY <2>1 DEF FlowInv, flowVars, dataVars, loopVars, Before, After
<1>2. CASE EnumerateRanges
  BY <1>2, EngineAssumption DEF FlowInv, EnumerateRanges, flowVars, dataVars, emitVars, Before, After
<1> QED
  BY <1>1, <1>2

LEMMA LoopFlow == ASSUME FlowInv, NextRange \/ LeaveLoop \/ SkipRange \/ ReadRegion PROVE FlowInv'
<1>1. CASE NextRange
  BY <1>1 DEF FlowInv, NextRange, flowVars, dataVars, emitVars, loopVars, Before, After
<1>2. CASE LeaveLoop
  BY <1>2 DEF FlowInv, LeaveLoop, flowVars, dataVars, emitVars, loopVars, Before, After
<1>3. CASE SkipRange
  BY <1>3 DEF FlowInv, SkipRange, flowVars, dataVars, emitVars, loopVars, Before, After
<1>4. CASE ReadRegion
  BY <1>4 DEF FlowInv, ReadRegion, flowVars, dataVars, emitVars, loopVars, Before, After
<1> QED
  BY <1>1, <1>2, <1>3, <1>4

LEMMA EndFlow ==
    ASSUME FlowInv, CallRaises \/ WriteRaises \/ FinalizeFile \/ HandleException \/ Disconnect
    PROVE  FlowInv'
<1>1. CASE CallRaises
  BY <1>1 DEF FlowInv, CallRaises, flowVars, dataVars, emitVars, loopVars, Before, After
<1>2. CASE WriteRaises
  <2>1. /\ pc \in {"emit", "range"} /\ failed' = TRUE /\ pc' = "finalize"
        /\ UNCHANGED <<flowVars, dataVars, emitVars, loopVars>>
    BY <1>2 DEF WriteRaises
  <2> QED
    BY <2>1 DEF FlowInv, flowVars, dataVars, emitVars, loopVars, Before, After
<1>3. CASE FinalizeFile
  <2>1. /\ pc = "finalize" /\ failed' \in {failed, TRUE}
        /\ pc' = IF failed' THEN "except" ELSE "return"
        /\ UNCHANGED <<flowVars, dataVars, emitVars, loopVars>>
    BY <1>3 DEF FinalizeFile
  <2> QED
    BY <2>1 DEF FlowInv, flowVars, dataVars, emitVars, loopVars, Before, After
<1>4. CASE HandleException
  BY <1>4 DEF FlowInv, HandleException, flowVars, dataVars, emitVars, loopVars, Before, After
<1>5. CASE Disconnect
  BY <1>5 DEF FlowInv, Disconnect, flowVars, dataVars, emitVars, loopVars, Before, After
<1> QED
  BY <1>1, <1>2, <1>3, <1>4, <1>5

LEMMA FlowKept == ASSUME FlowInv, [Next]_engineVars PROVE FlowInv'
<1>1. CASE UNCHANGED engineVars
  BY <1>1 DEF FlowInv, engineVars, flowVars, dataVars, emitVars, loopVars
<1> QED
  BY <1>1, RequestAbortFlow, StartFlow, PrepareFlow, ThreadsFlow, EmitFlow, LoopFlow, EndFlow DEF Next, Step

\* How far acquire has come, by its counters and by the abort flag.
THEOREM EngineFlow == Spec => []FlowInv
  BY InitFlow, FlowKept, PTL DEF Spec

\* Once the abort flag is up at most the region being read is still written.
THEOREM EngineAbortIsHeeded == Spec => []AbortIsHeeded
<1>1. FlowInv => AbortIsHeeded
  BY DEF FlowInv, AbortIsHeeded
<1> QED
  BY <1>1, EngineFlow, PTL

------------------------------------------------------------------------------
(* The writer                                                                *)

LEMMA OrderIs == Len(Order) = 11 /\ DOMAIN Order = 1 .. 11
  BY DEF Order

LEMMA WriterFits == WP!WriterAssumption
<1>1. "EndOfCapture" \notin EmittedKinds
  BY OrderIs DEF EmittedKinds, Order
<1> QED
  BY <1>1, OrderIs, EngineAssumption DEF WP!WriterAssumption, BlockTypes, ThreadTypes

\* Only the writer's operations touch the writer's state.
LEMMA StepIsWriterStep ==
    ASSUME FlowInv, [Next]_engineVars
    PROVE  [W!Next]_W!writerVars
<1> DEFINE Kept == UNCHANGED W!writerVars
<1>1. CASE Emit
  <2>1. at \in DOMAIN Order
    BY <1>1, OrderIs DEF Emit, FlowInv
  <2>2. Order[at] \in BlockTypes
    BY <2>1 DEF BlockTypes, EmittedKinds
  <2>3. W!WriteBlock(Order[at]) \/ UNCHANGED writerVars
    BY <1>1 DEF Emit
  <2> QED
    BY <2>2, <2>3 DEF W!Next, W!writerVars, writerVars
<1>2. CASE EmitThread
  <2>1. PICK n \in DOMAIN threads : W!WriteBlock(threads[n])
    BY <1>2 DEF EmitThread
  <2> QED
    BY <2>1 DEF FlowInv, BlockTypes, W!Next
<1>3. CASE ReadRegion
  BY <1>3 DEF ReadRegion, BlockTypes, W!Next
<1>4. CASE WriteRaises
  <2>1. \/ at <= Len(Order) /\ W!WriteBlockRaises(Order[at])
        \/ \E n \in DOMAIN threads : W!WriteBlockRaises(threads[n])
        \/ W!WriteBlockRaises("MemoryRegion")
    BY <1>4 DEF WriteRaises
  <2>2. at <= Len(Order) => Order[at] \in BlockTypes
    BY OrderIs DEF FlowInv, BlockTypes, EmittedKinds
  <2> QED
    BY <2>1, <2>2 DEF FlowInv, BlockTypes, W!Next
<1>5. CASE FinalizeFile
  BY <1>5 DEF FinalizeFile, W!Next
<1>6. CASE \/ RequestAbort \/ Start \/ Connect \/ EnumerateModules \/ EnumerateThreads
           \/ CollectTables \/ OpenFile \/ CollectIdentity \/ CollectContext \/ EnumerateRanges
           \/ NextRange \/ SkipRange \/ LeaveLoop \/ CallRaises \/ HandleException \/ Disconnect
           \/ UNCHANGED engineVars
  <2>1. UNCHANGED writerVars
    BY <1>6 DEF RequestAbort, Start, Connect, EnumerateModules, EnumerateThreads, CollectTables,
       OpenFile, CollectIdentity, CollectContext, EnumerateRanges, NextRange, SkipRange, LeaveLoop,
       CallRaises, HandleException, Disconnect, engineVars
  <2> QED
    BY <2>1 DEF W!writerVars, writerVars
<1> QED
  BY <1>1, <1>2, <1>3, <1>4, <1>5, <1>6 DEF Next, Step

\* acquire's writer is MSLWriter: each step of the engine is one of its
\* operations, or leaves it alone.
THEOREM EngineImplementsWriter == Spec => ImplementsWriter
<1>1. Init => W!Init
  BY DEF Init
<1> QED
  BY <1>1, StepIsWriterStep, EngineFlow, PTL DEF Spec, ImplementsWriter, W!Spec

\* So it is the module of the proofs about the writer, ...
LEMMA SameWriter == [W!Next]_W!writerVars => [WP!Next]_WP!writerVars
  BY DEF W!Next, WP!Next, W!writerVars, WP!writerVars, W!WriteBlock, WP!WriteBlock, W!WriteBlockRaises,
     WP!WriteBlockRaises, W!Kill, WP!Kill, W!Finalize, WP!Finalize, W!FinalizeRaises, WP!FinalizeRaises,
     W!CutShort, WP!CutShort, W!Torn, WP!Torn, W!NewBlock, WP!NewBlock, W!FeedChain, WP!FeedChain,
     W!ZeroHash, WP!ZeroHash

LEMMA SameSpec == W!Spec => WP!Spec
<1>1. W!Init => WP!Init
  BY DEF W!Init, WP!Init, W!HeaderDigest, WP!HeaderDigest
<1> QED
  BY <1>1, SameWriter, PTL DEF W!Spec, WP!Spec

\* ... and a reader finds the same.
LEMMA SameFile ==
    /\ WP!TypeOK => W!TypeOK
    /\ WP!SealedIsComplete => W!SealedIsComplete
    /\ WP!ClosedIsSealed => W!ClosedIsSealed
  BY DEF W!TypeOK, WP!TypeOK, W!Block, WP!Block, W!AllTypes, WP!AllTypes,
     W!SealedIsComplete, WP!SealedIsComplete, W!ClosedIsSealed, WP!ClosedIsSealed, W!Sealed, WP!Sealed,
     W!Visible, WP!Visible, W!DigestsUpTo, WP!DigestsUpTo, W!VerifiedLen, WP!VerifiedLen,
     W!HeaderDigest, WP!HeaderDigest, W!LinkedUpTo, WP!LinkedUpTo, W!Linked, WP!Linked, W!ZeroHash, WP!ZeroHash

FileIsLog == W!TypeOK /\ W!SealedIsComplete /\ W!ClosedIsSealed

\* What is proved of the writer holds of the file acquire writes: sealed, it
\* holds all that was acknowledged; finalized after no torn block, it is sealed.
THEOREM EngineFileIsLog == Spec => []FileIsLog
<1>1. WP!Spec => []WP!TypeOK
  BY WriterFits, WP!WriterTypeOK, PTL
<1>2. WP!Spec => []WP!SealedIsComplete
  BY WriterFits, WP!WriterSealedIsComplete, PTL
<1>3. WP!Spec => []WP!ClosedIsSealed
  BY WriterFits, WP!WriterClosedIsSealed, PTL
<1>4. Spec => WP!Spec
  BY EngineImplementsWriter, SameSpec DEF ImplementsWriter
<1>5. WP!TypeOK /\ WP!SealedIsComplete /\ WP!ClosedIsSealed => FileIsLog
  BY SameFile DEF FileIsLog
<1> QED
  BY <1>1, <1>2, <1>3, <1>4, <1>5, PTL

------------------------------------------------------------------------------
(* The result                                                                *)

AllWhole(s) == \A i \in 1 .. Len(s) : s[i].whole

\* The count agrees with the blocks; without a failure nothing is torn, and
\* acquire returns only behind a finalize that returned.
FileInv ==
    /\ regions = CountOf("MemoryRegion", accepted)
    /\ AllWhole(plaintext)
    /\ ~failed => AllWhole(file)
    /\ ~failed /\ pc \in {"return", "returned"} => caller = "closed"

\* One more block is one more of its type.
LEMMA CountAppend ==
    ASSUME NEW s \in Seq(W!Block), NEW b \in W!Block, NEW type
    PROVE  /\ CountOf(type, s) \in Nat
           /\ CountOf(type, Append(s, b)) = CountOf(type, s) + IF b.type = type THEN 1 ELSE 0
<1> DEFINE t == Append(s, b)
<1> DEFINE At(q) == {i \in DOMAIN q : q[i].type = type}
<1>1. /\ Len(s) \in Nat /\ DOMAIN s = 1 .. Len(s) /\ DOMAIN t = 1 .. Len(s) + 1
      /\ t[Len(s) + 1] = b /\ \A i \in 1 .. Len(s) : t[i] = s[i]
  OBVIOUS
<1> HIDE DEF t
<1>2. IsFiniteSet(At(s)) /\ Cardinality(At(s)) \in Nat
  <2>1. IsFiniteSet(1 .. Len(s))
    BY <1>1, FS_Interval
  <2>2. At(s) \subseteq 1 .. Len(s)
    BY <1>1
  <2> QED
    BY <2>1, <2>2, FS_Subset, FS_CardinalityType
<1>3. CASE b.type = type
  <2>1. At(t) = At(s) \cup {Len(s) + 1} /\ Len(s) + 1 \notin At(s)
    BY <1>1, <1>3
  <2>2. Cardinality(At(t)) = Cardinality(At(s)) + 1
    <3> HIDE DEF At
    <3> QED
      BY <1>2, <2>1, FS_AddElement
  <2> QED
    BY <1>2, <1>3, <2>2 DEF CountOf, t
<1>4. CASE b.type # type
  <2>1. At(t) = At(s)
    BY <1>1, <1>4
  <2>2. CountOf(type, t) = CountOf(type, s) /\ CountOf(type, s) \in Nat
    BY <1>2, <2>1 DEF CountOf
  <2> QED
    BY <1>4, <2>2 DEF t
<1> QED
  BY <1>3, <1>4

\* The block a write call makes.
LEMMA BlockMade ==
    ASSUME W!TypeOK, NEW type \in BlockTypes \cup {"EndOfCapture"}
    PROVE  W!NewBlock(type) \in W!Block /\ W!NewBlock(type).type = type /\ W!NewBlock(type).whole
<1>1. <<>> \in Seq(Nat)
  OBVIOUS
<1> QED
  BY <1>1 DEF W!TypeOK, W!NewBlock, W!Block, W!AllTypes, W!ZeroHash

\* Appending what is whole.
LEMMA WholeAppend ==
    ASSUME NEW s \in Seq(W!Block), NEW b \in W!Block, b.whole, AllWhole(s)
    PROVE  AllWhole(Append(s, b))
  BY DEF AllWhole

\* A write call that returned.
LEMMA BlockWritten ==
    ASSUME W!TypeOK, NEW type \in BlockTypes, W!WriteBlock(type)
    PROVE  /\ CountOf("MemoryRegion", accepted') =
                 CountOf("MemoryRegion", accepted) + IF type = "MemoryRegion" THEN 1 ELSE 0
           /\ AllWhole(plaintext) => AllWhole(plaintext')
           /\ AllWhole(file) => AllWhole(file')
<1> DEFINE b == W!NewBlock(type)
<1>1. b \in W!Block /\ b.type = type /\ b.whole
  BY BlockMade
<1>2. /\ accepted' = Append(accepted, b)
      /\ plaintext' \in {plaintext, Append(plaintext, b)} /\ file' \in {file, Append(file, b)}
  BY DEF W!WriteBlock, W!FeedChain
<1> HIDE DEF b
<1>3. accepted \in Seq(W!Block) /\ plaintext \in Seq(W!Block) /\ file \in Seq(W!Block)
  BY DEF W!TypeOK
<1>4. CountOf("MemoryRegion", accepted') =
          CountOf("MemoryRegion", accepted) + IF type = "MemoryRegion" THEN 1 ELSE 0
  BY <1>1, <1>2, <1>3, CountAppend
<1> QED
  BY <1>1, <1>2, <1>3, <1>4, WholeAppend

LEMMA InitFile == Init => FileInv
<1> SUFFICES ASSUME Init
             PROVE  FileInv
  OBVIOUS
<1>1. file = <<>> /\ plaintext = <<>> /\ accepted = <<>> /\ regions = 0 /\ pc = "idle"
  BY DEF Init, W!Init
<1>2. CountOf("MemoryRegion", accepted) = 0
  <2>1. {i \in DOMAIN accepted : accepted[i].type = "MemoryRegion"} = {}
    BY <1>1
  <2> QED
    BY <2>1, FS_EmptySet DEF CountOf
<1> QED
  BY <1>1, <1>2 DEF FileInv, AllWhole

LEMMA EmitFile == ASSUME FlowInv, W!TypeOK, FileInv, Emit \/ EmitThread PROVE FileInv'
<1>1. /\ pc' = "emit" /\ regions' = regions /\ failed' = failed
  BY DEF Emit, EmitThread, loopVars
<1>2. \/ \E type \in BlockTypes \ {"MemoryRegion"} : W!WriteBlock(type)
      \/ UNCHANGED writerVars
  <2>1. CASE Emit
    <3>1. at \in DOMAIN Order
      BY <2>1, OrderIs DEF Emit, FlowInv
    <3>2. Order[at] \in BlockTypes /\ Order[at] # "MemoryRegion"
      BY <3>1, OrderIs DEF BlockTypes, EmittedKinds, Order
    <3> QED
      BY <2>1, <3>2 DEF Emit
  <2>2. CASE EmitThread
    <3>1. PICK n \in DOMAIN threads : W!WriteBlock(threads[n])
      BY <2>2 DEF EmitThread
    <3>2. threads[n] \in BlockTypes /\ threads[n] # "MemoryRegion"
      BY DEF FlowInv, BlockTypes, ThreadTypes
    <3> QED
      BY <3>1, <3>2
  <2> QED
    BY <2>1, <2>2
<1>3. CASE UNCHANGED writerVars
  BY <1>1, <1>3 DEF FileInv, AllWhole, CountOf, writerVars
<1>4. CASE \E type \in BlockTypes \ {"MemoryRegion"} : W!WriteBlock(type)
  <2>1. PICK type \in BlockTypes \ {"MemoryRegion"} : W!WriteBlock(type)
    BY <1>4
  <2>2. CountOf("MemoryRegion", accepted) \in Nat
    BY DEF FileInv, FlowInv
  <2>3. /\ CountOf("MemoryRegion", accepted') = CountOf("MemoryRegion", accepted)
        /\ AllWhole(plaintext) => AllWhole(plaintext')
        /\ AllWhole(file) => AllWhole(file')
    BY <2>1, <2>2, BlockWritten
  <2> QED
    BY <1>1, <2>3 DEF FileInv
<1> QED
  BY <1>2, <1>3, <1>4

LEMMA RegionFile == ASSUME FlowInv, W!TypeOK, FileInv, ReadRegion PROVE FileInv'
<1>1. pc' = "loop" /\ regions' = regions + 1 /\ failed' = failed /\ W!WriteBlock("MemoryRegion")
  BY DEF ReadRegion
<1>2. "MemoryRegion" \in BlockTypes
  BY DEF BlockTypes
<1>3. /\ CountOf("MemoryRegion", accepted') = CountOf("MemoryRegion", accepted) + 1
      /\ AllWhole(plaintext) => AllWhole(plaintext')
      /\ AllWhole(file) => AllWhole(file')
  BY <1>1, <1>2, BlockWritten
<1> QED
  BY <1>1, <1>3 DEF FileInv

LEMMA WriteRaisesFile == ASSUME FileInv, WriteRaises PROVE FileInv'
<1>1. /\ failed' = TRUE /\ regions' = regions /\ accepted' = accepted /\ plaintext' = plaintext
  BY DEF WriteRaises, loopVars, W!WriteBlockRaises
<1> QED
  BY <1>1 DEF FileInv, AllWhole, CountOf

LEMMA FinalizeFileKeeps == ASSUME FlowInv, W!TypeOK, FileInv, FinalizeFile PROVE FileInv'
<1> DEFINE eoc == W!NewBlock("EndOfCapture")
<1>1. eoc \in W!Block /\ eoc.type = "EndOfCapture" /\ eoc.whole
  BY BlockMade
<1>2. accepted \in Seq(W!Block) /\ plaintext \in Seq(W!Block) /\ file \in Seq(W!Block)
  BY DEF W!TypeOK
<1>3. regions' = regions /\ (failed' = failed \/ failed' = TRUE)
  BY DEF FinalizeFile, loopVars
<1>4. accepted' = accepted \/ accepted' = Append(accepted, eoc)
  BY DEF FinalizeFile, W!Finalize, W!FinalizeRaises, W!FeedChain
<1>5. CountOf("MemoryRegion", accepted') = CountOf("MemoryRegion", accepted)
  <2>1. CASE accepted' = accepted
    BY <2>1 DEF CountOf
  <2>2. CASE accepted' = Append(accepted, eoc)
    <3> HIDE DEF eoc
    <3> QED
      BY <1>1, <1>2, <2>2, CountAppend
  <2> QED
    BY <1>4, <2>1, <2>2
<1>6. plaintext' = plaintext \/ plaintext' = <<>>
  BY DEF FinalizeFile, W!Finalize, W!FinalizeRaises
<1>7. AllWhole(plaintext')
  BY <1>6 DEF FileInv, AllWhole
<1>8. ASSUME ~failed'
      PROVE  AllWhole(file') /\ caller' = "closed"
  <2>1. W!Finalize /\ ~failed
    BY <1>8 DEF FinalizeFile
  <2>2. caller' = "closed" /\ (file' = Append(plaintext, eoc) \/ file' = Append(file, eoc))
    BY <2>1 DEF W!Finalize
  <2> HIDE DEF eoc
  <2>3. AllWhole(file')
    BY <1>1, <1>2, <2>1, <2>2, WholeAppend DEF FileInv
  <2> QED
    BY <2>2, <2>3
<1> QED
  BY <1>3, <1>5, <1>7, <1>8 DEF FileInv

\* The steps that write nothing.
LEMMA OthersFile ==
    ASSUME FlowInv, FileInv, UNCHANGED <<regions, writerVars>>,
           \/ failed' = TRUE
           \/ failed' = failed /\ (pc' \in {"return", "returned"} => pc' = pc \/ pc = "return")
    PROVE  FileInv'
  BY DEF FlowInv, FileInv, AllWhole, CountOf, writerVars

LEMMA FileKept == ASSUME FlowInv, W!TypeOK, FileInv, [Next]_engineVars PROVE FileInv'
<1>1. CASE \/ RequestAbort \/ Start \/ Connect \/ EnumerateModules \/ EnumerateThreads
           \/ CollectTables \/ OpenFile \/ CollectIdentity \/ CollectContext \/ EnumerateRanges
           \/ NextRange \/ SkipRange \/ LeaveLoop \/ CallRaises \/ HandleException \/ Disconnect
           \/ UNCHANGED engineVars
  <2>1. UNCHANGED <<regions, writerVars>>
    BY <1>1 DEF RequestAbort, Start, Connect, EnumerateModules, EnumerateThreads, CollectTables,
       OpenFile, CollectIdentity, CollectContext, EnumerateRanges, NextRange, SkipRange, LeaveLoop,
       CallRaises, HandleException, Disconnect, engineVars, loopVars
  <2>2. \/ failed' = TRUE
        \/ failed' = failed /\ (pc' \in {"return", "returned"} => pc' = pc \/ pc = "return")
    BY <1>1 DEF FlowInv, RequestAbort, Start, Connect, EnumerateModules, EnumerateThreads, CollectTables,
       OpenFile, CollectIdentity, CollectContext, EnumerateRanges, NextRange, SkipRange, LeaveLoop,
       CallRaises, HandleException, Disconnect, engineVars
  <2> QED
    BY <2>1, <2>2, OthersFile
<1> QED
  BY <1>1, EmitFile, RegionFile, WriteRaisesFile, FinalizeFileKeeps DEF Next, Step

\* The count of the result is that of the regions written, and nothing is torn
\* unless a call raised.
THEOREM EngineFile == Spec => []FileInv
<1>1. FlowInv /\ FileIsLog /\ FileInv /\ [Next]_engineVars => FileInv'
  BY FileKept DEF FileIsLog
<1> QED
  BY <1>1, InitFile, EngineFlow, EngineFileIsLog, PTL DEF Spec

\* A result that claims to be complete has a sealed file with every range, and
\* its region count is the number of regions a reader of the file finds.
THEOREM EngineResultIsTrue == Spec => []ResultIsTrue
<1>1. ASSUME FlowInv, FileInv, FileIsLog
      PROVE  ResultIsTrue
  <2>1. ASSUME pc = "returned", ~abort
        PROVE  W!Sealed /\ regions + skipped = total
    <3>1. ~failed /\ turn = total /\ turn = regions + skipped
      BY <1>1, <2>1 DEF FlowInv
    <3>2. caller = "closed" /\ \A i \in 1 .. Len(file) : file[i].whole
      BY <1>1, <2>1, <3>1 DEF FileInv, AllWhole
    <3> QED
      BY <1>1, <3>1, <3>2 DEF FileIsLog, W!ClosedIsSealed
  <2>2. ASSUME W!Sealed
        PROVE  regions = CountOf("MemoryRegion", W!Visible)
    BY <1>1, <2>2 DEF FileInv, FileIsLog, W!SealedIsComplete
  <2> QED
    BY <2>1, <2>2 DEF ResultIsTrue, CleanReturnIsComplete, CountsMatchFile
<1> QED
  BY <1>1, EngineFlow, EngineFile, EngineFileIsLog, PTL

------------------------------------------------------------------------------
(* The plan: what is found, and what the bitmaps promise                     *)

\* One thread is marked as the current one.
OneMarked ==
    threads # <<>> =>
       \E k \in 1 .. Len(threads) :
          /\ threads[k] = "CurrentThread"
          /\ \A j \in 1 .. Len(threads) : j # k => threads[j] = "Thread"

\* The bitmaps are what their conditions say of all that is found in the end.
PlanInv ==
    /\ setup \in [investigation : BOOLEAN, collector : BOOLEAN, options : SUBSET (Kinds \cap OptIn)]
    /\ context \in BOOLEAN
    /\ threads \in Seq(ThreadTypes) /\ Len(threads) <= MaxThreads /\ OneMarked
    /\ found \subseteq Kinds \cap ({"ModuleList", "Connectivity", "KernelModules"} \cup Tables)
    /\ ~setup.investigation => found \subseteq {"ModuleList"}
    /\ ~context => "Connectivity" \notin found /\ "KernelModules" \notin found
    /\ context => setup.investigation /\ at >= 3
    /\ tbm = IF context THEN TableBits(found) ELSE {}
    /\ cap \in {{}, CapBits}
    /\ at <= Len(Order) + Len(threads) + 1
    /\ setup.investigation /\ at > 3 => context

\* The memory is read, or has been, without a failure.
Reached == pc \in {"loop", "range"} \/ (pc \in {"finalize", "return", "returned"} /\ ~failed)

StageInv ==
    /\ pc \in Before \ {"emit"} => at = 1 /\ ~context
    /\ pc \in Before \ {"identity", "emit"} => cap = {}
    /\ pc \in {"idle", "connect", "modules", "threads"} => threads = <<>>
    /\ pc \in {"idle", "connect", "modules"} => found = {}
    /\ pc \in {"identity", "emit", "finalize"} \/ Reached => cap = CapBits
    /\ Reached => at = Len(Order) + Len(threads) + 1

LEMMA InitPlan == Init => PlanInv /\ StageInv
<1> SUFFICES ASSUME Init
             PROVE  PlanInv /\ StageInv
  OBVIOUS
<1>1. /\ setup \in [investigation : BOOLEAN, collector : BOOLEAN, options : SUBSET (Kinds \cap OptIn)]
      /\ pc = "idle" /\ found = {} /\ threads = <<>> /\ cap = {} /\ tbm = {} /\ at = 1 /\ context = FALSE
  BY DEF Init
<1>2. <<>> \in Seq(ThreadTypes) /\ Len(<<>>) = 0
  OBVIOUS
<1>3. OneMarked
  BY <1>1 DEF OneMarked
<1>4. PlanInv
  <2>1. threads \in Seq(ThreadTypes) /\ Len(threads) = 0 /\ Len(threads) <= MaxThreads
    BY <1>1, <1>2, EngineAssumption
  <2>2. context \in BOOLEAN /\ ~context
    BY <1>1
  <2> QED
    BY <1>1, <1>3, <2>1, <2>2, OrderIs DEF PlanInv
<1>5. StageInv
  BY <1>1 DEF StageInv, Reached, Before
<1> QED
  BY <1>4, <1>5

\* As long as nothing is found or promised, the plan stays what it is.
LEMMA PlanKept ==
    ASSUME PlanInv, UNCHANGED <<setup, dataVars, emitVars>>
    PROVE  PlanInv' /\ CapBits' = CapBits
<1>1. /\ setup' = setup /\ found' = found /\ threads' = threads /\ cap' = cap /\ tbm' = tbm
      /\ at' = at /\ context' = context
  BY DEF dataVars, emitVars
<1>2. CapBits' = CapBits
  BY <1>1 DEF CapBits
<1>3. TableBits(found)' = TableBits(found)
  BY <1>1 DEF TableBits, OnDemand
<1>4. OneMarked' <=> OneMarked
  BY <1>1 DEF OneMarked
<1> QED
  BY <1>1, <1>2, <1>3, <1>4 DEF PlanInv

LEMMA QuietPlan ==
    ASSUME FlowInv, PlanInv, StageInv,
           \/ RequestAbort \/ Start \/ Connect \/ CollectIdentity \/ NextRange \/ LeaveLoop
           \/ SkipRange \/ ReadRegion \/ CallRaises \/ WriteRaises \/ FinalizeFile
           \/ HandleException \/ Disconnect \/ UNCHANGED engineVars
    PROVE  PlanInv' /\ StageInv'
<1>1. UNCHANGED <<setup, dataVars, emitVars>>
  BY DEF RequestAbort, Start, Connect, CollectIdentity, NextRange, LeaveLoop, SkipRange, ReadRegion,
     CallRaises, WriteRaises, FinalizeFile, HandleException, Disconnect, engineVars, flowVars
<1>2. /\ found' = found /\ threads' = threads /\ cap' = cap /\ at' = at /\ context' = context
  BY <1>1 DEF dataVars, emitVars
<1>3. PlanInv' /\ CapBits' = CapBits
  BY <1>1, PlanKept
<1>4. /\ pc' \in Before \ {"emit"} => pc \in Before \ {"emit"}
      /\ pc' \in Before \ {"identity", "emit"} => pc \in Before \ {"identity", "emit"}
      /\ pc' \in {"idle", "connect", "modules", "threads"} =>
            pc \in {"idle", "connect", "modules", "threads"}
      /\ pc' \in {"idle", "connect", "modules"} => pc \in {"idle", "connect", "modules"}
      /\ pc' \in {"identity", "emit", "finalize"} \/ Reached' =>
            pc \in {"identity", "emit", "finalize"} \/ Reached
      /\ Reached' => Reached
  <2>1. CASE RequestAbort \/ Start \/ Connect \/ CollectIdentity \/ UNCHANGED engineVars
    BY <2>1 DEF RequestAbort, Start, Connect, CollectIdentity, engineVars, Before, Reached
  <2>2. CASE NextRange \/ LeaveLoop \/ SkipRange \/ ReadRegion
    BY <2>2 DEF NextRange, LeaveLoop, SkipRange, ReadRegion, Before, Reached
  <2>3. CASE CallRaises
    BY <2>3 DEF CallRaises, Before, Reached
  <2>4. CASE WriteRaises
    <3>1. pc \in {"emit", "range"} /\ failed' = TRUE /\ pc' = "finalize"
      BY <2>4 DEF WriteRaises
    <3> QED
      BY <3>1 DEF Before, Reached
  <2>5. CASE FinalizeFile
    <3>1. pc = "finalize" /\ failed' \in {failed, TRUE} /\ pc' = IF failed' THEN "except" ELSE "return"
      BY <2>5 DEF FinalizeFile
    <3> QED
      BY <3>1 DEF FlowInv, Before, Reached
  <2>6. CASE HandleException \/ Disconnect
    BY <2>6 DEF FlowInv, HandleException, Disconnect, Before, Reached
  <2> QED
    BY <2>1, <2>2, <2>3, <2>4, <2>5, <2>6
<1>5. StageInv'
  BY <1>2, <1>3, <1>4, OrderIs DEF StageInv
<1> QED
  BY <1>3, <1>5

\* The threads with registers, of which one is marked.
LEMMA ThreadsPlan == ASSUME FlowInv, PlanInv, StageInv, EnumerateThreads PROVE PlanInv' /\ StageInv'
<1>0. PICK raw \in RawThreads :
          \E kept \in [1 .. Cardinality({i \in DOMAIN raw : raw[i].regs}) -> {i \in DOMAIN raw : raw[i].regs}] :
             /\ \A j, k \in DOMAIN kept : j < k => kept[j] < kept[k]
             /\ threads' = ThreadTypesOf(raw, kept)
  BY DEF EnumerateThreads
<1> DEFINE Registers == {i \in DOMAIN raw : raw[i].regs}
<1>1. PICK kept \in [1 .. Cardinality(Registers) -> Registers] :
          /\ \A j, k \in DOMAIN kept : j < k => kept[j] < kept[k]
          /\ threads' = ThreadTypesOf(raw, kept)
  BY <1>0
<1>2. PICK n \in 0 .. MaxThreads : raw \in [1 .. n -> [regs : BOOLEAN, current : BOOLEAN]]
  BY DEF RawThreads
<1>3. Cardinality({i \in DOMAIN raw : raw[i].current}) <= 1
  BY DEF RawThreads
<1> DEFINE c == Cardinality(Registers)
<1> DEFINE current == {i \in DOMAIN raw : raw[i].current}
<1>4. c \in Nat /\ c <= n /\ n \in Nat /\ IsFiniteSet(current)
  <2>1. n \in Nat /\ IsFiniteSet(1 .. n) /\ Cardinality(1 .. n) = n
    BY <1>2, EngineAssumption, FS_Interval
  <2>2. Registers \subseteq 1 .. n /\ current \subseteq 1 .. n
    BY <1>2
  <2> HIDE DEF Registers, current
  <2> QED
    BY <2>1, <2>2, FS_Subset, FS_CardinalityType
<1>5. \A i, j \in current : i = j
  <2> HIDE DEF current
  <2>1. Cardinality(current) = 0 \/ Cardinality(current) = 1
    <3>1. Cardinality(current) \in Nat
      BY <1>4, FS_CardinalityType
    <3>2. Cardinality(current) <= 1
      BY <1>3 DEF current
    <3> QED
      BY <3>1, <3>2
  <2>2. current = {} \/ \E x : current = {x}
    BY <1>4, <2>1, FS_EmptySet, FS_Singleton
  <2> QED
    BY <2>2
<1>6. /\ DOMAIN kept = 1 .. c /\ \A k \in 1 .. c : kept[k] \in DOMAIN raw
      /\ \A j, k \in 1 .. c : kept[j] = kept[k] => j = k
  <2>1. DOMAIN kept = 1 .. c /\ \A k \in 1 .. c : kept[k] \in DOMAIN raw
    BY <1>1
  <2>2. \A k \in 1 .. c : kept[k] \in Nat
    BY <1>2, <2>1
  <2> HIDE DEF c
  <2>3. ASSUME NEW j \in 1 .. c, NEW k \in 1 .. c, kept[j] = kept[k]
        PROVE  j = k
    <3>1. ~(j < k) /\ ~(k < j)
      BY <1>1, <2>1, <2>2, <2>3
    <3> QED
      BY <1>4, <3>1
  <2> QED
    BY <2>1, <2>3
<1> DEFINE marked == \E k \in DOMAIN kept : raw[kept[k]].current
<1>7. threads' = [k \in 1 .. c |-> IF raw[kept[k]].current \/ (~marked /\ k = 1)
                                   THEN "CurrentThread" ELSE "Thread"]
  BY <1>1, <1>6 DEF ThreadTypesOf
<1>8. threads' \in Seq(ThreadTypes) /\ Len(threads') = c
  <2> HIDE DEF c, marked
  <2>1. threads' \in [1 .. c -> ThreadTypes]
    BY <1>7 DEF ThreadTypes
  <2> QED
    BY <1>4, <2>1
<1>9. OneMarked'
  <2> SUFFICES ASSUME threads' # <<>>
               PROVE  \E k \in 1 .. c : /\ threads'[k] = "CurrentThread"
                                        /\ \A j \in 1 .. c : j # k => threads'[j] = "Thread"
    BY <1>8 DEF OneMarked
  <2>1. 1 \in 1 .. c
    BY <1>4, <1>8
  <2>2. CASE marked
    <3>1. PICK k \in 1 .. c : raw[kept[k]].current
      BY <1>6, <2>2
    <3>2. \A j \in 1 .. c : raw[kept[j]].current => j = k
      BY <1>5, <1>6, <3>1
    <3>3. /\ threads'[k] = "CurrentThread"
          /\ \A j \in 1 .. c : j # k => threads'[j] = "Thread"
      BY <1>7, <2>2, <3>1, <3>2
    <3> QED
      BY <3>3
  <2>3. CASE ~marked
    <3>1. \A j \in 1 .. c : ~raw[kept[j]].current
      BY <1>6, <2>3
    <3>2. /\ threads'[1] = "CurrentThread"
          /\ \A j \in 1 .. c : j # 1 => threads'[j] = "Thread"
      BY <1>7, <2>1, <2>3, <3>1
    <3> QED
      BY <2>1, <3>2
  <2> QED
    BY <2>2, <2>3
<1>10. /\ pc = "threads" /\ pc' = "tables" /\ setup' = setup /\ found' = found
       /\ cap' = cap /\ tbm' = tbm /\ at' = at /\ context' = context
  BY DEF EnumerateThreads, flowVars, emitVars
<1>11. cap = {} /\ at = 1 /\ ~context
  BY <1>10 DEF StageInv, Before
<1>12. Len(threads') \in Nat /\ Len(threads') <= MaxThreads
  <2> HIDE DEF c
  <2> QED
    BY <1>2, <1>4, <1>8, EngineAssumption
<1>13. PlanInv'
  <2> HIDE DEF c
  <2> QED
    BY <1>8, <1>9, <1>10, <1>11, <1>12, OrderIs DEF PlanInv
<1>14. StageInv'
  BY <1>10, <1>11 DEF StageInv, Before, Reached
<1> QED
  BY <1>13, <1>14

LEMMA FoundPlan ==
    ASSUME FlowInv, PlanInv, StageInv, EnumerateModules \/ CollectTables \/ OpenFile
    PROVE  PlanInv' /\ StageInv'
<1>1. /\ setup' = setup /\ threads' = threads /\ tbm' = tbm /\ at' = at /\ context' = context
  BY DEF EnumerateModules, CollectTables, OpenFile, flowVars, emitVars
<1>2. pc \in {"modules", "tables", "open"} /\ at = 1 /\ ~context /\ tbm = {} /\ cap = {}
  BY DEF EnumerateModules, CollectTables, OpenFile, PlanInv, StageInv, Before
<1>3. OneMarked' <=> OneMarked
  BY <1>1 DEF OneMarked
<1>4. CASE EnumerateModules
  <2>1. /\ found' \subseteq Kinds \cap {"ModuleList"} /\ cap' = cap
        /\ pc = "modules" /\ pc' = "threads"
    BY <1>4 DEF EnumerateModules
  <2>2. PlanInv'
    BY <1>1, <1>2, <1>3, <2>1 DEF PlanInv
  <2>3. StageInv'
    BY <1>1, <1>2, <2>1 DEF StageInv, Before, Reached
  <2> QED
    BY <2>2, <2>3
<1>5. CASE CollectTables
  <2>1. /\ found' \subseteq found \cup (IF setup.investigation THEN Kinds \cap Tables ELSE {})
        /\ cap' = cap /\ pc = "tables" /\ pc' = "open"
    BY <1>5 DEF CollectTables
  <2>2. PlanInv'
    BY <1>1, <1>2, <1>3, <2>1 DEF PlanInv, Tables
  <2>3. StageInv'
    BY <1>1, <1>2, <2>1 DEF StageInv, Before, Reached
  <2> QED
    BY <2>2, <2>3
<1>6. CASE OpenFile
  <2>1. cap' = CapBits /\ found' = found /\ pc = "open" /\ pc' = "identity"
    BY <1>6 DEF OpenFile
  <2>2. CapBits' = CapBits
    BY <1>1, <2>1 DEF CapBits
  <2>3. PlanInv'
    BY <1>1, <1>2, <1>3, <2>1, <2>2 DEF PlanInv
  <2>4. StageInv'
    BY <1>1, <1>2, <2>1, <2>2 DEF StageInv, Before, Reached
  <2> QED
    BY <2>3, <2>4
<1> QED
  BY <1>4, <1>5, <1>6

\* What is found for the SystemContext changes no bit of the CapBitmap.
LEMMA ContextPlan == ASSUME FlowInv, PlanInv, StageInv, CollectContext PROVE PlanInv' /\ StageInv'
<1>1. /\ setup' = setup /\ threads' = threads /\ cap' = cap /\ at' = at /\ context' = TRUE
      /\ pc = "emit" /\ pc' = "emit" /\ at \in DOMAIN Order /\ Order[at] = "SystemContext"
      /\ setup.investigation
  BY OrderIs DEF CollectContext, FlowInv, flowVars
<1>2. at = 3
  BY <1>1, OrderIs DEF Order
<1>3. /\ found' \subseteq found \cup ((Kinds \cap {"Connectivity"}) \cup (setup.options \cap {"KernelModules"}))
      /\ found \subseteq found' /\ tbm' = TableBits(found')
  BY DEF CollectContext
<1>4. setup.options \subseteq Kinds
  BY DEF PlanInv
<1>5. CapBits' = CapBits
  BY <1>1, <1>3 DEF CapBits, Tables
<1>6. TableBits(found)' = TableBits(found')
  BY <1>1 DEF TableBits, OnDemand
<1>7. OneMarked' <=> OneMarked
  BY <1>1 DEF OneMarked
<1>8. PlanInv'
  BY <1>1, <1>2, <1>3, <1>4, <1>5, <1>6, <1>7 DEF PlanInv, Tables
<1>9. StageInv'
  BY <1>1, <1>5 DEF StageInv, Before, Reached
<1> QED
  BY <1>8, <1>9

LEMMA EmitPlan ==
    ASSUME FlowInv, PlanInv, StageInv, Emit \/ EmitThread \/ EnumerateRanges
    PROVE  PlanInv' /\ StageInv'
<1>1. /\ setup' = setup /\ found' = found /\ threads' = threads /\ cap' = cap /\ tbm' = tbm
      /\ context' = context /\ pc = "emit" /\ failed' = failed
  BY DEF Emit, EmitThread, EnumerateRanges, flowVars, dataVars, emitVars
<1>2. \/ at' = at + 1 /\ pc' = "emit"
      \/ at' = at /\ pc' = "loop" /\ at = Len(Order) + Len(threads) + 1
  <2>1. CASE Emit \/ EmitThread
    <3>1. at' = at + 1 /\ pc' = pc /\ pc = "emit"
      BY <2>1 DEF Emit, EmitThread
    <3> QED
      BY <3>1
  <2>2. CASE EnumerateRanges
    BY <2>2 DEF EnumerateRanges, emitVars
  <2> QED
    BY <2>1, <2>2
<1>3. Len(threads) \in Nat /\ DOMAIN threads = 1 .. Len(threads) /\ at \in Nat \ {0}
  BY DEF PlanInv, FlowInv
<1>4. at' <= Len(Order) + Len(threads) + 1
  BY <1>3, OrderIs DEF Emit, EmitThread, EnumerateRanges, emitVars, PlanInv
<1>5. setup.investigation /\ at' > 3 => context
  <2>1. CASE at = 3 /\ Emit
    BY <2>1, OrderIs DEF Emit, Order
  <2>2. CASE ~(at = 3 /\ Emit)
    <3>1. at' > 3 => at > 3
      BY <1>3, <2>2, OrderIs DEF Emit, EmitThread, EnumerateRanges, emitVars
    <3> QED
      BY <3>1 DEF PlanInv
  <2> QED
    BY <2>1, <2>2
<1>6. CapBits' = CapBits /\ TableBits(found)' = TableBits(found) /\ (OneMarked' <=> OneMarked)
  BY <1>1 DEF CapBits, TableBits, OnDemand, OneMarked
<1>7. PlanInv'
  BY <1>1, <1>2, <1>3, <1>4, <1>5, <1>6 DEF PlanInv
<1>8. StageInv'
  BY <1>1, <1>2, <1>6 DEF StageInv, Before, Reached
<1> QED
  BY <1>7, <1>8

LEMMA PlanHolds == ASSUME FlowInv, PlanInv, StageInv, [Next]_engineVars PROVE PlanInv' /\ StageInv'
  BY QuietPlan, ThreadsPlan, FoundPlan, ContextPlan, EmitPlan DEF Next, Step

\* The bitmaps are what their conditions say of all acquire finds in the end.
THEOREM EnginePlan == Spec => [](PlanInv /\ StageInv)
  BY InitPlan, PlanHolds, EngineFlow, PTL DEF Spec

------------------------------------------------------------------------------
(* The order and the kinds of the blocks                                     *)

TableTypes == Tables \cup OptIn \cup {"Connectivity"}
TailTypes == ThreadTypes \cup {"MemoryRegion"}

\* BlockOrder, of any sequence of blocks.
InBlockOrder(s) ==
    \A i \in DOMAIN s :
        /\ (s[i].type = "ProcessIdentity") = (i = 1) \/ s[i].type = "EndOfCapture"
        /\ s[i].type = "ModuleList" => i = 2
        /\ s[i].type \in TableTypes => \E j \in 1 .. i - 1 : s[j].type = "SystemContext"
        /\ s[i].type \in TailTypes => \A j \in i + 1 .. Len(s) : s[j].type \in TailTypes \cup {"EndOfCapture"}

\* What may come next.
LEMMA OrderAppend ==
    ASSUME NEW s \in Seq(W!Block), NEW b \in W!Block, InBlockOrder(s),
           (b.type = "ProcessIdentity" <=> s = <<>>) \/ b.type = "EndOfCapture",
           b.type = "ModuleList" => Len(s) = 1,
           b.type \in TableTypes => \E j \in 1 .. Len(s) : s[j].type = "SystemContext",
           b.type \in TailTypes \cup {"EndOfCapture"} \/ \A j \in 1 .. Len(s) : s[j].type \notin TailTypes
    PROVE  InBlockOrder(Append(s, b))
<1> DEFINE t == Append(s, b)
<1>1. /\ Len(s) \in Nat /\ DOMAIN s = 1 .. Len(s) /\ DOMAIN t = 1 .. Len(s) + 1 /\ Len(t) = Len(s) + 1
      /\ t[Len(s) + 1] = b /\ \A i \in 1 .. Len(s) : t[i] = s[i]
  OBVIOUS
<1>2. s = <<>> <=> Len(s) = 0
  OBVIOUS
<1> HIDE DEF t
<1>3. ASSUME NEW i \in DOMAIN t
      PROVE  /\ (t[i].type = "ProcessIdentity") = (i = 1) \/ t[i].type = "EndOfCapture"
             /\ t[i].type = "ModuleList" => i = 2
             /\ t[i].type \in TableTypes => \E j \in 1 .. i - 1 : t[j].type = "SystemContext"
             /\ t[i].type \in TailTypes =>
                   \A j \in i + 1 .. Len(t) : t[j].type \in TailTypes \cup {"EndOfCapture"}
  <2>1. CASE i = Len(s) + 1
    <3>1. t[i] = b /\ 1 .. i - 1 = 1 .. Len(s) /\ i + 1 .. Len(t) = {}
      BY <1>1, <2>1
    <3>2. (i = 1 <=> s = <<>>) /\ (Len(s) = 1 => i = 2)
      BY <1>1, <1>2, <2>1
    <3>3. \A j \in 1 .. Len(s) : t[j] = s[j]
      BY <1>1
    <3> QED
      BY <3>1, <3>2, <3>3
  <2>2. CASE i # Len(s) + 1
    <3>1. i \in 1 .. Len(s) /\ i \in DOMAIN s /\ t[i] = s[i]
      BY <1>1, <2>2
    <3>2. /\ (s[i].type = "ProcessIdentity") = (i = 1) \/ s[i].type = "EndOfCapture"
          /\ s[i].type = "ModuleList" => i = 2
      BY <3>1 DEF InBlockOrder
    <3>3. ASSUME s[i].type \in TableTypes
          PROVE  \E j \in 1 .. i - 1 : t[j].type = "SystemContext"
      <4>1. PICK j \in 1 .. i - 1 : s[j].type = "SystemContext"
        BY <3>1, <3>3 DEF InBlockOrder
      <4>2. t[j] = s[j]
        BY <1>1, <3>1
      <4> QED
        BY <4>1, <4>2
    <3>4. ASSUME s[i].type \in TailTypes, NEW j \in i + 1 .. Len(t)
          PROVE  t[j].type \in TailTypes \cup {"EndOfCapture"}
      <4>1. b.type \in TailTypes \cup {"EndOfCapture"}
        BY <3>1, <3>4
      <4>2. CASE j = Len(s) + 1
        BY <1>1, <4>1, <4>2
      <4>3. CASE j # Len(s) + 1
        <5>1. j \in i + 1 .. Len(s) /\ t[j] = s[j]
          BY <1>1, <3>1, <4>3
        <5> QED
          BY <3>1, <3>4, <5>1 DEF InBlockOrder
      <4> QED
        BY <4>2, <4>3
    <3> QED
      BY <3>1, <3>2, <3>3, <3>4
  <2> QED
    BY <2>1, <2>2
<1>4. InBlockOrder(t)
  BY <1>3 DEF InBlockOrder
<1> QED
  BY <1>4 DEF t

LEMMA KindsAppend ==
    ASSUME NEW s \in Seq(W!Block), NEW b \in W!Block
    PROVE  KindsIn(Append(s, b)) = KindsIn(s) \cup {KindOf(b.type)}
<1> DEFINE t == Append(s, b)
<1>1. /\ Len(s) \in Nat /\ DOMAIN s = 1 .. Len(s) /\ DOMAIN t = 1 .. Len(s) + 1
      /\ t[Len(s) + 1] = b /\ \A i \in 1 .. Len(s) : t[i] = s[i]
  OBVIOUS
<1> HIDE DEF t
<1>2. KindsIn(t) \subseteq KindsIn(s) \cup {KindOf(b.type)}
  <2>1. ASSUME NEW i \in DOMAIN t
        PROVE  KindOf(t[i].type) \in KindsIn(s) \cup {KindOf(b.type)}
    <3>1. i = Len(s) + 1 \/ i \in DOMAIN s
      BY <1>1
    <3> QED
      BY <1>1, <3>1 DEF KindsIn
  <2> QED
    BY <2>1 DEF KindsIn
<1>3. KindsIn(s) \subseteq KindsIn(t)
  <2>1. ASSUME NEW i \in DOMAIN s
        PROVE  KindOf(s[i].type) \in KindsIn(t)
    <3>1. i \in DOMAIN t /\ t[i] = s[i]
      BY <1>1
    <3> QED
      BY <3>1 DEF KindsIn
  <2> QED
    BY <2>1 DEF KindsIn
<1>4. KindOf(b.type) \in KindsIn(t)
  <2>1. Len(s) + 1 \in DOMAIN t
    BY <1>1
  <2> QED
    BY <1>1, <2>1 DEF KindsIn
<1> QED
  BY <1>2, <1>3, <1>4 DEF t

\* The blocks of Order that are due before position n.
Planned(n) == {Order[i] : i \in {j \in 1 .. Len(Order) : j < n /\ Due(Order[j])}}

\* The current thread is among the first n threads.
MarkedBefore(n) == \E k \in 1 .. Len(threads) : k < n /\ threads[k] = "CurrentThread"

OrderInv ==
    /\ InBlockOrder(accepted)
    /\ pc \in Before => /\ at = 1 => accepted = <<>>
                        /\ at = 2 => Len(accepted) = 1
                        /\ at <= Len(Order) + 1 => \A i \in 1 .. Len(accepted) : accepted[i].type \notin TailTypes
    /\ at > 1 => accepted # <<>>

\* The blocks written are those due so far.
KindsInv ==
    /\ pc = "emit" =>
          /\ KindsIn(accepted) = Planned(at) \cup (IF at > Len(Order) + 1 THEN {"Thread"} ELSE {})
          /\ CountOf("CurrentThread", accepted) = IF MarkedBefore(at - Len(Order)) THEN 1 ELSE 0
    /\ Reached =>
          /\ KindsIn(accepted) \ {"MemoryRegion", "EndOfCapture"} =
                Planned(Len(Order) + 1) \cup (IF threads # <<>> THEN {"Thread"} ELSE {})
          /\ CountOf("CurrentThread", accepted) = IF threads # <<>> THEN 1 ELSE 0

\* What is due stays due, as long as the plan stays.
LEMMA PlannedKept ==
    ASSUME setup' = setup, found' = found, threads' = threads
    PROVE  /\ at' = at => Planned(at)' = Planned(at)
           /\ at' = at + 1 => Planned(at)' = Planned(at + 1)
           /\ Planned(Len(Order) + 1)' = Planned(Len(Order) + 1)
           /\ at' = at => (MarkedBefore(at - Len(Order))' <=> MarkedBefore(at - Len(Order)))
           /\ at' = at + 1 => (MarkedBefore(at - Len(Order))' <=> MarkedBefore((at + 1) - Len(Order)))
<1>1. ASSUME NEW kind
      PROVE  Due(kind)' = Due(kind)
  BY DEF Due, OnDemand
<1>2. at' = at => Planned(at)' = Planned(at)
  BY <1>1 DEF Planned
<1>3. at' = at + 1 => Planned(at)' = Planned(at + 1)
  BY <1>1 DEF Planned
<1>4. Planned(Len(Order) + 1)' = Planned(Len(Order) + 1)
  BY <1>1 DEF Planned
<1>5. at' = at => (MarkedBefore(at - Len(Order))' <=> MarkedBefore(at - Len(Order)))
  <2>1. SUFFICES ASSUME at' = at
                 PROVE  MarkedBefore(at - Len(Order))' <=> MarkedBefore(at - Len(Order))
    OBVIOUS
  <2>2. at' - Len(Order) = at - Len(Order)
    BY <2>1
  <2> QED
    BY <2>2 DEF MarkedBefore
<1>6. at' = at + 1 => (MarkedBefore(at - Len(Order))' <=> MarkedBefore((at + 1) - Len(Order)))
  <2>1. SUFFICES ASSUME at' = at + 1
                 PROVE  MarkedBefore(at - Len(Order))' <=> MarkedBefore((at + 1) - Len(Order))
    OBVIOUS
  <2>2. at' - Len(Order) = (at + 1) - Len(Order)
    BY <2>1
  <2> QED
    BY <2>2 DEF MarkedBefore
<1> QED
  BY <1>2, <1>3, <1>4, <1>5, <1>6

\* Steps that write nothing and do not go on to the blocks or to memory.
LEMMA QuietKinds ==
    ASSUME OrderInv, KindsInv, accepted' = accepted, at' = at,
           setup' = setup, found' = found, threads' = threads,
           pc' \in Before => pc \in Before, pc' = "emit" => pc = "emit", Reached' => Reached
    PROVE  OrderInv' /\ KindsInv'
<1>1. OrderInv'
  BY DEF OrderInv, InBlockOrder
<1>2. KindsIn(accepted)' = KindsIn(accepted) /\ CountOf("CurrentThread", accepted)' = CountOf("CurrentThread", accepted)
  BY DEF KindsIn, CountOf
<1>3. KindsInv'
  BY <1>2, PlannedKept DEF KindsInv
<1> QED
  BY <1>1, <1>3

\* Before the first block there is none.
LEMMA NothingYet ==
    ASSUME accepted' = <<>>, at' = 1, pc' \in Before
    PROVE  OrderInv' /\ KindsInv'
<1>1. DOMAIN accepted' = {} /\ Len(accepted') = 0
  OBVIOUS
<1>2. OrderInv'
  BY <1>1, OrderIs DEF OrderInv, InBlockOrder
<1>3. KindsIn(accepted)' = {} /\ CountOf("CurrentThread", accepted)' = 0
  <2>1. {i \in DOMAIN accepted' : accepted'[i].type = "CurrentThread"} = {}
    BY <1>1
  <2> QED
    BY <1>1, <2>1, FS_EmptySet DEF KindsIn, CountOf
<1>4. Planned(at)' = {} /\ ~MarkedBefore(at - Len(Order))'
  BY OrderIs DEF Planned, MarkedBefore
<1>5. ~Reached'
  BY DEF Reached, Before
<1>6. ~(at' > Len(Order) + 1)
  BY OrderIs
<1>7. KindsInv'
  BY <1>3, <1>4, <1>5, <1>6 DEF KindsInv
<1> QED
  BY <1>2, <1>7

LEMMA InitKinds == Init => OrderInv /\ KindsInv
<1> SUFFICES ASSUME Init
             PROVE  OrderInv /\ KindsInv
  OBVIOUS
<1>1. accepted = <<>> /\ at = 1 /\ pc = "idle" /\ DOMAIN accepted = {} /\ Len(accepted) = 0
  BY DEF Init, W!Init
<1>2. OrderInv
  BY <1>1, OrderIs DEF OrderInv, InBlockOrder
<1>3. KindsInv
  BY <1>1 DEF KindsInv, Reached
<1> QED
  BY <1>2, <1>3

\* A write call that returned appends a block of its type.
LEMMA WrittenBlock ==
    ASSUME W!TypeOK, NEW type \in BlockTypes \cup {"EndOfCapture"},
           accepted' = Append(accepted, W!NewBlock(type))
    PROVE  \E b \in W!Block : b.type = type /\ accepted' = Append(accepted, b)
  BY BlockMade

\* The next block of Order.
LEMMA EmitKinds ==
    ASSUME FlowInv, PlanInv, StageInv, W!TypeOK, OrderInv, KindsInv, Emit
    PROVE  OrderInv' /\ KindsInv'
<1>1. /\ pc = "emit" /\ pc' = "emit" /\ at' = at + 1 /\ at \in 1 .. 11
      /\ setup' = setup /\ found' = found /\ threads' = threads
  BY OrderIs DEF Emit, FlowInv, flowVars, dataVars
<1>2. ~Reached'
  BY <1>1 DEF Reached
<1>3. accepted \in Seq(W!Block) /\ Len(accepted) \in Nat
  BY DEF W!TypeOK
<1>4. /\ Order[at] \in BlockTypes /\ Order[at] \notin TailTypes /\ KindOf(Order[at]) = Order[at]
      /\ (Order[at] = "ProcessIdentity" <=> at = 1) /\ (Order[at] = "ModuleList" <=> at = 2)
      /\ (Order[at] \in TableTypes => at > 3)
  BY <1>1, OrderIs DEF Order, BlockTypes, EmittedKinds, TailTypes, ThreadTypes, KindOf, TableTypes, Tables, OptIn
<1>5. /\ KindsIn(accepted) = Planned(at)
      /\ CountOf("CurrentThread", accepted) = IF MarkedBefore(at - Len(Order)) THEN 1 ELSE 0
  <2>1. ~(at > Len(Order) + 1)
    BY <1>1, OrderIs
  <2> QED
    BY <1>1, <2>1 DEF KindsInv
<1>6. Planned(at)' = Planned(at) \cup (IF Due(Order[at]) THEN {Order[at]} ELSE {})
  <2>1. Planned(at)' = Planned(at + 1)
    BY <1>1, PlannedKept
  <2>2. Planned(at + 1) = Planned(at) \cup (IF Due(Order[at]) THEN {Order[at]} ELSE {})
    BY <1>1, OrderIs DEF Planned
  <2> QED
    BY <2>1, <2>2
<1>7. ~MarkedBefore(at - Len(Order)) /\ ~MarkedBefore(at - Len(Order))'
  BY <1>1, OrderIs DEF MarkedBefore, PlanInv
<1>8. at' <= Len(Order) + 1
  BY <1>1, OrderIs
<1>9. CASE ~Due(Order[at])
  <2>1. accepted' = accepted /\ at # 1
    BY <1>1, <1>4, <1>9 DEF Emit, writerVars, Due
  <2>2. OrderInv'
    BY <1>1, <1>8, <2>1, OrderIs DEF OrderInv, InBlockOrder, Before
  <2>3. KindsInv'
    BY <1>1, <1>2, <1>5, <1>6, <1>7, <1>8, <1>9, <2>1 DEF KindsInv, KindsIn, CountOf
  <2> QED
    BY <2>2, <2>3
<1>10. CASE Due(Order[at])
  <2>1. PICK b \in W!Block : b.type = Order[at] /\ accepted' = Append(accepted, b)
    BY <1>4, <1>10, WrittenBlock DEF Emit, W!WriteBlock, W!FeedChain
  <2>2. /\ \A i \in 1 .. Len(accepted) : accepted[i].type \notin TailTypes
        /\ accepted = <<>> <=> at = 1
        /\ at = 2 => Len(accepted) = 1
    BY <1>1, <1>3, OrderIs DEF OrderInv, Before
  <2>3. b.type \in TableTypes => \E j \in 1 .. Len(accepted) : accepted[j].type = "SystemContext"
    <3>1. SUFFICES ASSUME b.type \in TableTypes
                   PROVE  \E j \in 1 .. Len(accepted) : accepted[j].type = "SystemContext"
      OBVIOUS
    <3>2. at > 3 /\ setup.investigation
      BY <1>4, <1>10, <2>1, <3>1 DEF Due, TableTypes, Tables, OptIn
    <3>3. Order[3] = "SystemContext" /\ 3 \in 1 .. Len(Order)
      BY OrderIs DEF Order
    <3>4. "SystemContext" \in Planned(at)
      BY <1>1, <3>2, <3>3 DEF Planned, Due
    <3>5. PICK j \in DOMAIN accepted : KindOf(accepted[j].type) = "SystemContext"
      BY <1>5, <3>4 DEF KindsIn
    <3> QED
      BY <1>3, <3>5 DEF KindOf
  <2>4. InBlockOrder(accepted')
    BY <1>3, <1>4, <2>1, <2>2, <2>3, OrderAppend DEF OrderInv
  <2>5. /\ Len(accepted') = Len(accepted) + 1 /\ accepted' # <<>>
        /\ \A i \in 1 .. Len(accepted') : accepted'[i].type \notin TailTypes
    BY <1>3, <1>4, <2>1, <2>2
  <2>6. OrderInv'
    <3>1. at' # 1 /\ (at' = 2 => Len(accepted') = 1)
      BY <1>1, <2>2, <2>5
    <3>2. InBlockOrder(accepted)'
      BY <2>4 DEF InBlockOrder
    <3> QED
      BY <2>5, <3>1, <3>2 DEF OrderInv
  <2>7. KindsIn(accepted)' = KindsIn(accepted) \cup {Order[at]}
    BY <1>3, <1>4, <2>1, KindsAppend DEF KindsIn
  <2>8. CountOf("CurrentThread", accepted)' = CountOf("CurrentThread", accepted)
    <3>1. b.type # "CurrentThread"
      BY <1>4, <2>1 DEF TailTypes, ThreadTypes
    <3>2. CountOf("CurrentThread", accepted') = CountOf("CurrentThread", accepted)
      BY <1>3, <2>1, <3>1, CountAppend
    <3> QED
      BY <3>2 DEF CountOf
  <2>9. KindsInv'
    BY <1>1, <1>2, <1>5, <1>6, <1>7, <1>8, <1>10, <2>7, <2>8 DEF KindsInv
  <2> QED
    BY <2>6, <2>9
<1> QED
  BY <1>9, <1>10

LEMMA EmitThreadKinds ==
    ASSUME FlowInv, PlanInv, StageInv, W!TypeOK, OrderInv, KindsInv, EmitThread
    PROVE  OrderInv' /\ KindsInv'
<1> DEFINE n == at - Len(Order)
<1>1. /\ pc = "emit" /\ pc' = "emit" /\ at' = at + 1 /\ W!WriteBlock(threads[n])
      /\ setup' = setup /\ found' = found /\ threads' = threads /\ n \in DOMAIN threads
  BY DEF EmitThread, flowVars, dataVars
<1>2. n \in 1 .. Len(threads) /\ at \in Nat /\ at > 11 /\ Len(threads) \in Nat /\ n = at - 11
  BY <1>1, OrderIs DEF PlanInv, FlowInv
<1>3. /\ ~Reached' /\ at' > Len(Order) + 1 /\ ~(at' <= Len(Order) + 1)
      /\ at' # 1 /\ at' # 2
  BY <1>1, <1>2, OrderIs DEF Reached
<1>4. threads[n] \in ThreadTypes
  BY <1>1 DEF FlowInv
<1> HIDE DEF n
<1>5. threads[n] \in BlockTypes /\ threads[n] \in TailTypes /\ KindOf(threads[n]) = "Thread"
      /\ threads[n] \notin TableTypes \cup {"ProcessIdentity", "ModuleList"}
  BY <1>4 DEF BlockTypes, TailTypes, ThreadTypes, KindOf, TableTypes, Tables, OptIn
<1>6. accepted \in Seq(W!Block) /\ Len(accepted) \in Nat /\ accepted # <<>>
  BY <1>2 DEF W!TypeOK, OrderInv
<1>7. PICK b \in W!Block : b.type = threads[n] /\ accepted' = Append(accepted, b)
  BY <1>1, <1>5, WrittenBlock DEF W!WriteBlock, W!FeedChain
<1>8. InBlockOrder(accepted')
  BY <1>5, <1>6, <1>7, OrderAppend DEF OrderInv
<1>9. OrderInv'
  <2>1. InBlockOrder(accepted)' /\ accepted' # <<>>
    BY <1>6, <1>7, <1>8 DEF InBlockOrder
  <2> QED
    BY <1>3, <2>1 DEF OrderInv
<1>10. KindsIn(accepted)' = KindsIn(accepted) \cup {"Thread"}
  BY <1>5, <1>6, <1>7, KindsAppend DEF KindsIn
<1>11. Planned(at)' = Planned(at)
  <2>1. Planned(at)' = Planned(at + 1)
    BY <1>1, PlannedKept
  <2>2. Planned(at + 1) = Planned(at)
    BY <1>2, OrderIs DEF Planned
  <2> QED
    BY <2>1, <2>2
<1>12. CountOf("CurrentThread", accepted)' =
           CountOf("CurrentThread", accepted) + IF threads[n] = "CurrentThread" THEN 1 ELSE 0
  <2>1. CountOf("CurrentThread", accepted') =
           CountOf("CurrentThread", accepted) + IF threads[n] = "CurrentThread" THEN 1 ELSE 0
    BY <1>6, <1>7, CountAppend
  <2> QED
    BY <2>1 DEF CountOf
<1>13. (MarkedBefore(at - Len(Order))' <=> MarkedBefore(n) \/ threads[n] = "CurrentThread")
  <2>1. MarkedBefore(at - Len(Order))' <=> MarkedBefore((at + 1) - Len(Order))
    BY <1>1, PlannedKept
  <2>2. (at + 1) - Len(Order) = n + 1 /\ n \in Nat
    BY <1>2, OrderIs
  <2>3. MarkedBefore(n + 1) <=> MarkedBefore(n) \/ threads[n] = "CurrentThread"
    BY <1>2, <2>2 DEF MarkedBefore
  <2> QED
    BY <2>1, <2>2, <2>3
<1>14. ~(MarkedBefore(n) /\ threads[n] = "CurrentThread")
  <2> SUFFICES ASSUME MarkedBefore(n), threads[n] = "CurrentThread"
               PROVE  FALSE
    OBVIOUS
  <2>1. PICK k \in 1 .. Len(threads) : k < n /\ threads[k] = "CurrentThread"
    BY DEF MarkedBefore
  <2>2. k # n /\ threads # <<>>
    BY <1>2, <2>1
  <2> QED
    BY <1>2, <2>1, <2>2 DEF PlanInv, OneMarked
<1>15. CountOf("CurrentThread", accepted) = IF MarkedBefore(n) THEN 1 ELSE 0
  BY <1>1 DEF KindsInv, n
<1>16. KindsInv'
  <2>1. KindsIn(accepted)' = Planned(at)' \cup {"Thread"}
    BY <1>1, <1>10, <1>11 DEF KindsInv
  <2>2. CountOf("CurrentThread", accepted)' = IF MarkedBefore(at - Len(Order))' THEN 1 ELSE 0
    BY <1>12, <1>13, <1>14, <1>15
  <2> QED
    BY <1>3, <2>1, <2>2 DEF KindsInv
<1> QED
  BY <1>9, <1>16

\* All blocks before the memory are written.
LEMMA RangesKinds ==
    ASSUME FlowInv, PlanInv, StageInv, W!TypeOK, OrderInv, KindsInv, EnumerateRanges
    PROVE  OrderInv' /\ KindsInv'
<1>1. /\ pc = "emit" /\ pc' = "loop" /\ at' = at /\ at = Len(Order) + Len(threads) + 1
      /\ setup' = setup /\ found' = found /\ threads' = threads /\ accepted' = accepted
  BY DEF EnumerateRanges, flowVars, dataVars, emitVars, writerVars
<1>2. Len(threads) \in Nat /\ (threads # <<>> <=> Len(threads) > 0) /\ at \in Nat /\ at >= 12
  BY <1>1, OrderIs DEF PlanInv
<1>3. OrderInv'
  BY <1>1 DEF OrderInv, InBlockOrder, Before
<1>4. KindsIn(accepted)' = KindsIn(accepted) /\ CountOf("CurrentThread", accepted)' = CountOf("CurrentThread", accepted)
  BY <1>1 DEF KindsIn, CountOf
<1>5. Planned(at) = Planned(Len(Order) + 1) /\ Planned(Len(Order) + 1)' = Planned(Len(Order) + 1)
  <2>1. Planned(at) = Planned(Len(Order) + 1)
    BY <1>2, OrderIs DEF Planned
  <2> QED
    BY <1>1, <2>1, PlannedKept
<1>6. MarkedBefore(at - Len(Order)) <=> threads # <<>>
  <2>1. at - Len(Order) = Len(threads) + 1
    BY <1>1, <1>2, OrderIs
  <2>2. MarkedBefore(Len(threads) + 1) <=> threads # <<>>
    BY <1>2 DEF MarkedBefore, PlanInv, OneMarked
  <2> QED
    BY <2>1, <2>2
<1>7. "Thread" \notin {"MemoryRegion", "EndOfCapture"}
      /\ Planned(Len(Order) + 1) \cap {"MemoryRegion", "EndOfCapture"} = {}
  BY OrderIs DEF Planned, Order
<1>8. /\ KindsIn(accepted) = Planned(Len(Order) + 1) \cup (IF threads # <<>> THEN {"Thread"} ELSE {})
      /\ CountOf("CurrentThread", accepted) = IF threads # <<>> THEN 1 ELSE 0
  <2>1. at > Len(Order) + 1 <=> threads # <<>>
    BY <1>1, <1>2, OrderIs
  <2> QED
    BY <1>1, <1>5, <1>6, <2>1 DEF KindsInv
<1>9. KindsInv'
  <2>1. KindsIn(accepted) \ {"MemoryRegion", "EndOfCapture"} = KindsIn(accepted)
    BY <1>7, <1>8
  <2> QED
    BY <1>1, <1>4, <1>5, <1>8, <2>1 DEF KindsInv
<1> QED
  BY <1>3, <1>9

\* What is found for the SystemContext is not due before it.
LEMMA ContextKinds ==
    ASSUME FlowInv, PlanInv, StageInv, W!TypeOK, OrderInv, KindsInv, CollectContext
    PROVE  OrderInv' /\ KindsInv'
<1>1. /\ setup' = setup /\ threads' = threads /\ at' = at /\ accepted' = accepted
      /\ pc = "emit" /\ pc' = "emit" /\ at \in DOMAIN Order /\ Order[at] = "SystemContext"
  BY OrderIs DEF CollectContext, FlowInv, flowVars, writerVars
<1>2. at = 3
  BY <1>1, OrderIs DEF Order
<1>3. found' \subseteq found \cup {"Connectivity", "KernelModules"} /\ found \subseteq found'
  BY DEF CollectContext
<1>4. Planned(at)' = Planned(at)
  <2>1. Due("ProcessIdentity")' = Due("ProcessIdentity") /\ Due("ModuleList")' = Due("ModuleList")
    BY <1>1, <1>3 DEF Due, Tables, OptIn, OnDemand
  <2>2. Order[1] = "ProcessIdentity" /\ Order[2] = "ModuleList"
    BY DEF Order
  <2>3. \A j \in 1 .. Len(Order) : j < 3 <=> j \in {1, 2}
    BY OrderIs
  <2>4. \A j \in {1, 2} : Due(Order[j])' = Due(Order[j])
    BY <2>1, <2>2
  <2> QED
    BY <1>1, <1>2, <2>3, <2>4 DEF Planned
<1>5. OrderInv'
  BY <1>1 DEF OrderInv, InBlockOrder
<1>6. KindsIn(accepted)' = KindsIn(accepted) /\ CountOf("CurrentThread", accepted)' = CountOf("CurrentThread", accepted)
  BY <1>1 DEF KindsIn, CountOf
<1>7. MarkedBefore(at - Len(Order))' <=> MarkedBefore(at - Len(Order))
  BY <1>1 DEF MarkedBefore
<1>8. KindsInv'
  BY <1>1, <1>4, <1>6, <1>7 DEF KindsInv, Reached
<1> QED
  BY <1>5, <1>8

\* A region, or the End-of-Capture, is no kind of the bitmaps and no thread.
LEMMA OtherBlock ==
    ASSUME FlowInv, W!TypeOK, OrderInv, NEW b \in W!Block, b.type \in {"MemoryRegion", "EndOfCapture"},
           accepted' = Append(accepted, b), at' = at, pc' \notin Before,
           b.type = "MemoryRegion" => at > 1
    PROVE  /\ OrderInv'
           /\ KindsIn(accepted)' \ {"MemoryRegion", "EndOfCapture"} =
                 KindsIn(accepted) \ {"MemoryRegion", "EndOfCapture"}
           /\ CountOf("CurrentThread", accepted)' = CountOf("CurrentThread", accepted)
<1>1. accepted \in Seq(W!Block)
  BY DEF W!TypeOK
<1>2. /\ b.type \notin TableTypes \cup {"ProcessIdentity", "ModuleList", "CurrentThread"}
      /\ b.type \in TailTypes \cup {"EndOfCapture"} /\ KindOf(b.type) = b.type
  BY DEF TableTypes, Tables, OptIn, TailTypes, KindOf
<1>3. b.type = "MemoryRegion" => accepted # <<>>
  BY DEF OrderInv
<1>4. InBlockOrder(accepted')
  BY <1>1, <1>2, <1>3, OrderAppend DEF OrderInv
<1>5. InBlockOrder(accepted)' /\ accepted' # <<>>
  BY <1>1, <1>4 DEF InBlockOrder
<1>6. OrderInv'
  BY <1>5 DEF OrderInv
<1>7. KindsIn(accepted)' = KindsIn(accepted) \cup {b.type}
  BY <1>1, <1>2, KindsAppend DEF KindsIn
<1>8. CountOf("CurrentThread", accepted') = CountOf("CurrentThread", accepted)
  BY <1>1, <1>2, CountAppend
<1>9. CountOf("CurrentThread", accepted)' = CountOf("CurrentThread", accepted)
  BY <1>8 DEF CountOf
<1> QED
  BY <1>6, <1>7, <1>9

LEMMA RegionKinds ==
    ASSUME FlowInv, PlanInv, StageInv, W!TypeOK, OrderInv, KindsInv, ReadRegion
    PROVE  OrderInv' /\ KindsInv'
<1>1. /\ pc = "range" /\ pc' = "loop" /\ at' = at /\ W!WriteBlock("MemoryRegion")
      /\ setup' = setup /\ found' = found /\ threads' = threads
  BY DEF ReadRegion, flowVars, dataVars, emitVars
<1>2. Reached /\ pc' \notin Before
  BY <1>1 DEF Reached, Before
<1>3. at > 1
  <2>1. Len(threads) \in Nat /\ at = Len(Order) + Len(threads) + 1
    BY <1>2 DEF StageInv, PlanInv
  <2> QED
    BY <2>1, OrderIs
<1>4. "MemoryRegion" \in BlockTypes
  BY DEF BlockTypes
<1>5. PICK b \in W!Block : b.type = "MemoryRegion" /\ accepted' = Append(accepted, b)
  BY <1>1, <1>4, WrittenBlock DEF W!WriteBlock, W!FeedChain
<1>6. /\ OrderInv'
      /\ KindsIn(accepted)' \ {"MemoryRegion", "EndOfCapture"} =
            KindsIn(accepted) \ {"MemoryRegion", "EndOfCapture"}
      /\ CountOf("CurrentThread", accepted)' = CountOf("CurrentThread", accepted)
  BY <1>1, <1>2, <1>3, <1>5, OtherBlock
<1>7. KindsInv'
  BY <1>1, <1>2, <1>6, PlannedKept DEF KindsInv
<1> QED
  BY <1>6, <1>7

LEMMA FinalizeKinds ==
    ASSUME FlowInv, PlanInv, StageInv, W!TypeOK, OrderInv, KindsInv, FinalizeFile
    PROVE  OrderInv' /\ KindsInv'
<1>1. /\ pc = "finalize" /\ failed' \in {failed, TRUE} /\ pc' = IF failed' THEN "except" ELSE "return"
      /\ at' = at /\ setup' = setup /\ found' = found /\ threads' = threads
  BY DEF FinalizeFile, flowVars, dataVars, emitVars
<1>2. pc' \notin Before /\ (Reached' => Reached)
  BY <1>1 DEF FlowInv, Reached, Before
<1>3. accepted' = accepted \/ accepted' = Append(accepted, W!NewBlock("EndOfCapture"))
  BY DEF FinalizeFile, W!Finalize, W!FinalizeRaises, W!FeedChain
<1>4. CASE accepted' = accepted
  BY <1>1, <1>2, <1>4, QuietKinds DEF Before
<1>5. CASE accepted' = Append(accepted, W!NewBlock("EndOfCapture"))
  <2>1. PICK b \in W!Block : b.type = "EndOfCapture" /\ accepted' = Append(accepted, b)
    BY <1>5, WrittenBlock
  <2>2. /\ OrderInv'
        /\ KindsIn(accepted)' \ {"MemoryRegion", "EndOfCapture"} =
              KindsIn(accepted) \ {"MemoryRegion", "EndOfCapture"}
        /\ CountOf("CurrentThread", accepted)' = CountOf("CurrentThread", accepted)
    BY <1>1, <1>2, <2>1, OtherBlock
  <2>3. KindsInv'
    BY <1>1, <1>2, <2>2, PlannedKept DEF KindsInv, Before
  <2> QED
    BY <2>2, <2>3
<1> QED
  BY <1>3, <1>4, <1>5

LEMMA EarlyKinds ==
    ASSUME FlowInv, PlanInv, StageInv, OrderInv,
           Start \/ Connect \/ EnumerateModules \/ EnumerateThreads \/ CollectTables
           \/ OpenFile \/ CollectIdentity
    PROVE  OrderInv' /\ KindsInv'
<1>1. /\ pc \in Before \ {"emit"} /\ pc' \in Before /\ at' = at /\ accepted' = accepted
  BY DEF Start, Connect, EnumerateModules, EnumerateThreads, CollectTables, OpenFile, CollectIdentity,
     emitVars, writerVars, Before
<1>2. at = 1 /\ accepted = <<>>
  BY <1>1 DEF StageInv, OrderInv
<1> QED
  BY <1>1, <1>2, NothingYet

LEMMA LateKinds ==
    ASSUME FlowInv, PlanInv, StageInv, OrderInv, KindsInv,
           RequestAbort \/ NextRange \/ LeaveLoop \/ SkipRange \/ CallRaises \/ WriteRaises
           \/ HandleException \/ Disconnect \/ UNCHANGED engineVars
    PROVE  OrderInv' /\ KindsInv'
<1>1. /\ accepted' = accepted /\ at' = at /\ setup' = setup /\ found' = found /\ threads' = threads
  BY DEF RequestAbort, NextRange, LeaveLoop, SkipRange, CallRaises, WriteRaises, W!WriteBlockRaises,
     HandleException, Disconnect, engineVars, flowVars, dataVars, emitVars, writerVars
<1>2. (pc' \in Before => pc \in Before) /\ (pc' = "emit" => pc = "emit") /\ (Reached' => Reached)
  <2>1. CASE RequestAbort \/ NextRange \/ LeaveLoop \/ SkipRange \/ UNCHANGED engineVars
    BY <2>1 DEF RequestAbort, NextRange, LeaveLoop, SkipRange, engineVars, Before, Reached
  <2>2. CASE CallRaises
    BY <2>2 DEF CallRaises, Before, Reached
  <2>3. CASE WriteRaises
    <3>1. failed' = TRUE /\ pc' = "finalize"
      BY <2>3 DEF WriteRaises
    <3> QED
      BY <3>1 DEF Before, Reached
  <2>4. CASE HandleException \/ Disconnect
    BY <2>4 DEF FlowInv, HandleException, Disconnect, Before, Reached
  <2> QED
    BY <2>1, <2>2, <2>3, <2>4
<1> QED
  BY <1>1, <1>2, QuietKinds

LEMMA KindsKept ==
    ASSUME FlowInv, PlanInv, StageInv, W!TypeOK, OrderInv, KindsInv, [Next]_engineVars
    PROVE  OrderInv' /\ KindsInv'
  BY EmitKinds, EmitThreadKinds, RangesKinds, ContextKinds, RegionKinds, FinalizeKinds, EarlyKinds, LateKinds
     DEF Next, Step

\* The blocks of the file are in order, and are those due so far.
THEOREM EngineKinds == Spec => [](OrderInv /\ KindsInv)
<1>1. FlowInv /\ PlanInv /\ StageInv /\ FileIsLog /\ OrderInv /\ KindsInv /\ [Next]_engineVars
         => (OrderInv /\ KindsInv)'
  BY KindsKept DEF FileIsLog
<1> QED
  BY <1>1, InitKinds, EngineFlow, EnginePlan, EngineFileIsLog, PTL DEF Spec
------------------------------------------------------------------------------
(* The file                                                                  *)

LEMMA OrderHas ==
    /\ \A k : k \in EmittedKinds <=>
          k \in TableTypes \cup {"ProcessIdentity", "ModuleList", "SystemContext"}
    /\ Planned(Len(Order) + 1) = {k \in EmittedKinds : Due(k)}
<1>1. \A k : k \in EmittedKinds <=>
          k \in TableTypes \cup {"ProcessIdentity", "ModuleList", "SystemContext"}
  <2>1. EmittedKinds = {Order[i] : i \in 1 .. 11}
    BY OrderIs DEF EmittedKinds
  <2>2. /\ Order[1] = "ProcessIdentity" /\ Order[2] = "ModuleList" /\ Order[3] = "SystemContext"
        /\ Order[4] = "KernelSymbols" /\ Order[5] = "Connectivity" /\ Order[6] = "KernelModules"
        /\ Order[7] = "Persistence" /\ Order[8] = "Introspection" /\ Order[9] = "ProcessTable"
        /\ Order[10] = "ConnectionTable" /\ Order[11] = "HandleTable"
    BY DEF Order
  <2>3. \A i : i \in 1 .. 11 <=> i \in {1, 2, 3, 4, 5, 6, 7, 8, 9, 10, 11}
    OBVIOUS
  <2>4. EmittedKinds = {Order[1], Order[2], Order[3], Order[4], Order[5], Order[6], Order[7],
                        Order[8], Order[9], Order[10], Order[11]}
    BY <2>1, <2>3
  <2> QED
    BY <2>2, <2>4 DEF TableTypes, Tables, OptIn
<1>2. Planned(Len(Order) + 1) = {k \in EmittedKinds : Due(k)}
  BY OrderIs DEF Planned, EmittedKinds
<1> QED
  BY <1>1, <1>2

LEMMA PlanTypeOK == ASSUME FlowInv, PlanInv PROVE TypeOK
<1>1. cap \subseteq EmittedKinds \cup {"Thread", "MemoryRegion"}
  BY OrderHas DEF PlanInv, CapBits, TableTypes
<1>2. tbm \subseteq Kinds
  BY DEF PlanInv, TableBits, OnDemand
<1>3. at \in 1 .. Len(Order) + MaxThreads + 1
  <2>1. Len(threads) \in Nat /\ at \in Nat \ {0} /\ at <= Len(Order) + Len(threads) + 1
        /\ Len(threads) <= MaxThreads
    BY DEF PlanInv, FlowInv
  <2> QED
    BY <2>1, OrderIs, EngineAssumption
<1>4. /\ total \in 0 .. MaxRanges /\ turn \in 0 .. total
      /\ regions \in 0 .. turn /\ skipped \in 0 .. turn /\ late \in 0 .. regions
  BY EngineAssumption DEF FlowInv
<1>5. pc \in {"idle", "connect", "modules", "threads", "tables", "open", "identity",
              "emit", "loop", "range", "finalize", "except", "return", "raise",
              "returned", "raised"}
  BY DEF FlowInv, Before, After
<1>6. setup \in [investigation : BOOLEAN, collector : BOOLEAN, options : SUBSET OptIn]
  BY DEF PlanInv
<1>7. /\ abort \in BOOLEAN /\ requested \in BOOLEAN /\ failed \in BOOLEAN /\ context \in BOOLEAN
      /\ found \subseteq Kinds /\ threads \in Seq(ThreadTypes)
  BY DEF FlowInv, PlanInv
<1> QED
  BY <1>1, <1>2, <1>3, <1>4, <1>5, <1>6, <1>7 DEF TypeOK

\* What is due is what the two bitmaps promise.
LEMMA DueIsPromised ==
    ASSUME FlowInv, PlanInv, StageInv, Reached
    PROVE  /\ Planned(Len(Order) + 1) \cup (IF threads # <<>> THEN {"Thread"} ELSE {})
                 = (cap \ {"MemoryRegion"}) \cup tbm
           /\ cap \cap Tables = tbm \cap Tables
<1>1. cap = CapBits /\ at > 3
  <2>1. cap = CapBits /\ at = Len(Order) + Len(threads) + 1 /\ Len(threads) \in Nat
    BY DEF StageInv, PlanInv
  <2> QED
    BY <2>1, OrderIs
<1>2. context <=> setup.investigation
  BY <1>1 DEF PlanInv
<1>3. OnDemand \subseteq OptIn
  BY DEF OnDemand, OptIn
<1>4. CASE setup.investigation
  <2>1. tbm = (found \cap (Tables \cup {"Connectivity", "KernelModules"})) \cup OnDemand
    BY <1>2, <1>4 DEF PlanInv, TableBits
  <2>2. cap = {"MemoryRegion", "ProcessIdentity"} \cup (found \cap {"ModuleList"})
              \cup (IF threads # <<>> THEN {"Thread"} ELSE {})
              \cup {"SystemContext"} \cup (found \cap Tables)
    BY <1>1, <1>4 DEF CapBits
  <2>3. \A k \in EmittedKinds : Due(k) <=>
            \/ k \in {"ProcessIdentity", "SystemContext"}
            \/ k \in {"ModuleList"} \cap found
            \/ k \in TableTypes \cap (found \cup OnDemand)
    BY <1>4 DEF Due, TableTypes
  <2>4. Planned(Len(Order) + 1) = {"ProcessIdentity", "SystemContext"} \cup ({"ModuleList"} \cap found)
                                  \cup (TableTypes \cap (found \cup OnDemand))
    BY <2>3, OrderHas
  <2>5. found \subseteq {"ModuleList", "Connectivity", "KernelModules"} \cup Tables
    BY DEF PlanInv
  <2>6. "MemoryRegion" \notin OnDemand \cup Tables /\ OnDemand \cap Tables = {}
    BY <1>3 DEF OptIn, Tables
  <2>7. cap \cap Tables = found \cap Tables /\ tbm \cap Tables = found \cap Tables
    BY <2>1, <2>2, <2>6 DEF Tables
  <2>8. TableTypes \cap (found \cup OnDemand)
           = (found \cap (Tables \cup {"Connectivity", "KernelModules"})) \cup OnDemand
    BY <1>3, <2>5 DEF TableTypes, Tables, OptIn
  <2>9. cap \ {"MemoryRegion"} = {"ProcessIdentity"} \cup (found \cap {"ModuleList"})
              \cup (IF threads # <<>> THEN {"Thread"} ELSE {})
              \cup {"SystemContext"} \cup (found \cap Tables)
    BY <2>2 DEF Tables
  <2> QED
    BY <2>1, <2>4, <2>7, <2>8, <2>9
<1>5. CASE ~setup.investigation
  <2>1. tbm = {} /\ found \subseteq {"ModuleList"}
    BY <1>2, <1>5 DEF PlanInv
  <2>2. cap = {"MemoryRegion", "ProcessIdentity"} \cup (found \cap {"ModuleList"})
              \cup (IF threads # <<>> THEN {"Thread"} ELSE {})
    BY <1>1, <1>5 DEF CapBits
  <2>3. \A k \in EmittedKinds : Due(k) <=> k = "ProcessIdentity" \/ k \in {"ModuleList"} \cap found
    BY <1>5 DEF Due
  <2>4. Planned(Len(Order) + 1) = {"ProcessIdentity"} \cup ({"ModuleList"} \cap found)
    BY <2>3, OrderHas
  <2>5. cap \cap Tables = {}
    BY <2>1, <2>2 DEF Tables
  <2> QED
    BY <2>1, <2>2, <2>4, <2>5
<1> QED
  BY <1>4, <1>5

\* The blocks of the file are in order, of the kinds the bitmaps promise, and
\* one of the thread blocks is the current one.
THEOREM EngineFileKeepsPromises == Spec => []FileKeepsPromises
<1>1. ASSUME FlowInv, FileInv, FileIsLog, PlanInv, StageInv, OrderInv, KindsInv
      PROVE  FileKeepsPromises
  <2>1. TypeOK
    BY <1>1, PlanTypeOK
  <2>2. BlockOrder
    BY <1>1 DEF OrderInv, InBlockOrder, BlockOrder, TableTypes, TailTypes
  <2>3. SUFFICES ASSUME pc = "returned", ~failed
                 PROVE  /\ KindsIn(W!Visible) \ {"MemoryRegion", "EndOfCapture"}
                              = (cap \ {"MemoryRegion"}) \cup tbm
                        /\ cap \cap Tables = tbm \cap Tables
                        /\ CountOf("CurrentThread", W!Visible)
                              = (IF "Thread" \in KindsIn(W!Visible) THEN 1 ELSE 0)
    BY <2>1, <2>2 DEF FileKeepsPromises, PromisesKept, SingleCurrentThread
  <2>4. W!Visible = accepted
    <3>1. caller = "closed" /\ \A i \in 1 .. Len(file) : file[i].whole
      BY <1>1, <2>3 DEF FileInv, AllWhole
    <3> QED
      BY <1>1, <3>1 DEF FileIsLog, W!ClosedIsSealed, W!SealedIsComplete
  <2>5. Reached
    BY <2>3 DEF Reached
  <2>6. /\ KindsIn(accepted) \ {"MemoryRegion", "EndOfCapture"} =
              Planned(Len(Order) + 1) \cup (IF threads # <<>> THEN {"Thread"} ELSE {})
        /\ CountOf("CurrentThread", accepted) = IF threads # <<>> THEN 1 ELSE 0
    BY <1>1, <2>5 DEF KindsInv
  <2>7. "Thread" \in KindsIn(accepted) <=> threads # <<>>
    <3>1. "Thread" \notin Planned(Len(Order) + 1)
      BY OrderHas DEF TableTypes, Tables, OptIn
    <3> QED
      BY <2>6, <3>1
  <2> QED
    BY <1>1, <2>4, <2>5, <2>6, <2>7, DueIsPromised
<1> QED
  BY <1>1, EngineFlow, EngineFile, EngineFileIsLog, EnginePlan, EngineKinds, PTL
==============================================================================

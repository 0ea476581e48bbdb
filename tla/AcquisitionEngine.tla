-------------------------- MODULE AcquisitionEngine --------------------------
(***************************************************************************)
(* AcquisitionEngine.acquire of acquirer/engine.py, composed with the      *)
(* block writer (MSLWriter).  The engine asks the bridge and the           *)
(* collector what the target has, promises blocks in the CapBitmap of the  *)
(* file header and in the table bitmap of the SystemContext, then emits    *)
(* them, then reads the memory ranges one by one.  Every bridge, collector *)
(* and file operation may raise; the inner `finally' seals the file, the   *)
(* outer `except' swallows whatever was raised if the abort flag is up.    *)
(*                                                                         *)
(* request_abort runs in a signal handler or in another thread, at any     *)
(* moment.  How one region is read is RegionRead's subject, here it is one *)
(* step; being killed is MSLWriter's.                                      *)
(***************************************************************************)
EXTENDS Integers, Sequences, FiniteSets

CONSTANTS
    Passphrase,     \* a passphrase was given
    Kinds,          \* the optional blocks this instance considers
    MaxThreads,     \* bound of the model: threads of the target
    MaxRanges,      \* bound of the model: memory ranges of the target
    MayFailIO       \* writing the file may fail

\* What a collector or the bridge may find, and what the operator opts into.
Tables == {"ProcessTable", "ConnectionTable", "HandleTable"}
OptIn == {"KernelSymbols", "KernelModules", "Persistence", "Introspection"}

ASSUME EngineAssumption ==
    /\ Kinds \subseteq Tables \cup OptIn \cup {"ModuleList", "Connectivity"}
    /\ Passphrase \in BOOLEAN /\ MayFailIO \in BOOLEAN
    /\ MaxThreads \in Nat /\ MaxRanges \in Nat

VARIABLES
    setup,      \* [investigation, collector, options]: how the engine was made
    pc,         \* where acquire is
    abort,      \* _abort
    requested,  \* history: request_abort was called
    failed,     \* history: some call raised
    found,      \* kinds for which the target has something
    threads,    \* the ThreadContexts that carry registers, by block type
    cap,        \* header.cap_bitmap, as the kinds it promises
    tbm,        \* sys_ctx.table_bitmap, likewise
    at,         \* the next block of Order
    context,    \* the data of the SystemContext was collected
    total,      \* total_ranges
    turn,       \* ranges dealt with
    regions,    \* region_count
    skipped,    \* regions_skipped
    late        \* history: regions written while the abort flag was up

VARIABLES encrypted, file, tag, plaintext, prevHash, hashed, blockIndex, accepted, caller

writerVars == <<encrypted, file, tag, plaintext, prevHash, hashed, blockIndex,
                accepted, caller>>
flowVars == <<setup, abort, requested>>
dataVars == <<found, threads, cap, tbm>>
emitVars == <<at, context>>
loopVars == <<total, turn, regions, skipped, late>>
engineVars == <<pc, failed, flowVars, dataVars, emitVars, loopVars, writerVars>>

\* Mutant: TargetIntrospection right after ProcessIdentity.
MutOrder == <<"ProcessIdentity", "Introspection", "ModuleList", "SystemContext",
              "KernelSymbols", "Connectivity", "KernelModules", "Persistence",
              "ProcessTable", "ConnectionTable", "HandleTable">>

\* The order in which acquire writes the blocks before the threads.
Order == <<"ProcessIdentity", "ModuleList", "SystemContext",
           "KernelSymbols", "Connectivity", "KernelModules", "Persistence",
           "Introspection", "ProcessTable", "ConnectionTable", "HandleTable">>

EmittedKinds == {Order[i] : i \in DOMAIN Order}
ThreadTypes == {"Thread", "CurrentThread"}
BlockTypes == EmittedKinds \cup ThreadTypes \cup {"MemoryRegion"}

W == INSTANCE MSLWriter WITH MaxBlocks <- Len(Order) + MaxThreads + MaxRanges

------------------------------------------------------------------------------
(* What is promised and what is due                                          *)

\* Kinds that are emitted because they were opted into, empty or not.
OnDemand == IF setup.collector
            THEN setup.options \cap {"KernelSymbols", "Persistence", "Introspection"}
            ELSE {}

\* The conditions at the write calls.
Due(kind) ==
    \/ kind = "ProcessIdentity"
    \/ kind = "ModuleList" /\ kind \in found
    \/ kind = "SystemContext" /\ setup.investigation
    \/ /\ kind \in Tables \cup OptIn \cup {"Connectivity"}
       /\ setup.investigation
       /\ kind \in found \cup OnDemand

\* The conditions of the CapBitmap.
CapBits ==
    {"MemoryRegion", "ProcessIdentity"}
    \cup (found \cap {"ModuleList"})
    \cup (IF threads # <<>> THEN {"Thread"} ELSE {})
    \cup (IF setup.investigation THEN {"SystemContext"} \cup (found \cap Tables) ELSE {})

\* Mutant: an opted-in kernel module list is promised although it has no rows.
MutTableBits(all) ==
    (all \cap (Tables \cup {"Connectivity"}))
    \cup (setup.options \cap {"KernelModules"}) \cup OnDemand

\* The conditions of the table bitmap, where `all' was found.
TableBits(all) ==
    (all \cap (Tables \cup {"Connectivity", "KernelModules"})) \cup OnDemand

\* Mutant: the fallback looks at all threads, also at those without registers.
MutThreadTypesOf(raw, kept) ==
    LET marked == \E i \in DOMAIN raw : raw[i].current
    IN [k \in DOMAIN kept |->
            IF raw[kept[k]].current \/ (~marked /\ k = 1) THEN "CurrentThread" ELSE "Thread"]

\* _build_thread_contexts, where kept[k] is the k-th thread with registers; if
\* none of these is the bridge's current thread, the first of them is marked.
ThreadTypesOf(raw, kept) ==
    LET marked == \E k \in DOMAIN kept : raw[kept[k]].current
    IN [k \in DOMAIN kept |->
            IF raw[kept[k]].current \/ (~marked /\ k = 1) THEN "CurrentThread" ELSE "Thread"]

\* What enumerate_threads may return: at most one thread is the current one.
RawThreads ==
    {raw \in UNION {[1 .. n -> [regs : BOOLEAN, current : BOOLEAN]] : n \in 0 .. MaxThreads} :
        Cardinality({i \in DOMAIN raw : raw[i].current}) <= 1}

------------------------------------------------------------------------------
(* Control                                                                   *)

Ended == pc \in {"returned", "raised"}

Init ==
    /\ setup \in [investigation : BOOLEAN, collector : BOOLEAN,
                  options : SUBSET (Kinds \cap OptIn)]
    /\ pc = "idle" /\ abort = FALSE /\ requested = FALSE /\ failed = FALSE
    /\ found = {} /\ threads = <<>> /\ cap = {} /\ tbm = {}
    /\ at = 1 /\ context = FALSE
    /\ total = 0 /\ turn = 0 /\ regions = 0 /\ skipped = 0 /\ late = 0
    /\ W!Init /\ encrypted = Passphrase

\* request_abort, from a signal handler or another thread.
RequestAbort ==
    /\ ~requested /\ ~Ended
    /\ abort' = TRUE /\ requested' = TRUE
    /\ UNCHANGED <<pc, failed, setup, dataVars, emitVars, loopVars, writerVars>>

\* acquire begins, with a fresh abort flag.
Start ==
    /\ pc = "idle" /\ pc' = "connect"
    /\ abort' = FALSE
    /\ UNCHANGED <<failed, setup, requested, dataVars, emitVars, loopVars, writerVars>>

\* connect, get_platform_info.
Connect ==
    /\ pc = "connect" /\ pc' = "modules"
    /\ UNCHANGED <<failed, flowVars, dataVars, emitVars, loopVars, writerVars>>

\* enumerate_modules, and build ids, whose failure is caught.
EnumerateModules ==
    /\ pc = "modules" /\ pc' = "threads"
    /\ found' \in SUBSET (Kinds \cap {"ModuleList"})
    /\ UNCHANGED <<failed, flowVars, threads, cap, tbm, emitVars, loopVars, writerVars>>

\* enumerate_threads; an exception counts as no threads.  Those with registers
\* are kept, in the bridge's order.
EnumerateThreads ==
    /\ pc = "threads" /\ pc' = "tables"
    /\ \E raw \in RawThreads :
          LET regs == {i \in DOMAIN raw : raw[i].regs} IN
          \E kept \in [1 .. Cardinality(regs) -> regs] :
             /\ \A j, k \in DOMAIN kept : j < k => kept[j] < kept[k]
             /\ threads' = ThreadTypesOf(raw, kept)
    /\ UNCHANGED <<failed, flowVars, found, cap, tbm, emitVars, loopVars, writerVars>>

\* Investigation: the tables the CapBitmap must already reflect.
CollectTables ==
    /\ pc = "tables" /\ pc' = "open"
    /\ \E some \in SUBSET (IF setup.investigation THEN Kinds \cap Tables ELSE {}) :
            found' = found \cup some
    /\ UNCHANGED <<failed, flowVars, threads, cap, tbm, emitVars, loopVars, writerVars>>

\* Key derivation, FileHeader, open, MSLWriter.
OpenFile ==
    /\ pc = "open" /\ pc' = "identity"
    /\ cap' = CapBits
    /\ UNCHANGED <<failed, flowVars, found, threads, tbm, emitVars, loopVars, writerVars>>

CollectIdentity ==
    /\ pc = "identity" /\ pc' = "emit"
    /\ UNCHANGED <<failed, flowVars, dataVars, emitVars, loopVars, writerVars>>

\* Before SystemContext: the extension data, system info, and the bitmap.
CollectContext ==
    /\ pc = "emit" /\ at <= Len(Order) /\ Order[at] = "SystemContext"
    /\ setup.investigation /\ ~context
    /\ context' = TRUE
    /\ \E some \in SUBSET (IF setup.collector
                           THEN (Kinds \cap {"Connectivity"})
                                \cup (setup.options \cap {"KernelModules"})
                           ELSE {}) :
            /\ found' = found \cup some
            /\ tbm' = TableBits(found')
    /\ UNCHANGED <<pc, failed, flowVars, threads, cap, at, loopVars, writerVars>>

\* One write call of Order, or the condition in front of it is false.
Emit ==
    /\ pc = "emit" /\ at <= Len(Order)
    /\ Order[at] = "SystemContext" /\ setup.investigation => context
    /\ IF Due(Order[at]) THEN W!WriteBlock(Order[at]) ELSE UNCHANGED writerVars
    /\ at' = at + 1
    /\ UNCHANGED <<pc, failed, flowVars, dataVars, context, loopVars>>

\* The thread contexts, `at' counting on.
EmitThread ==
    LET n == at - Len(Order) IN
    /\ pc = "emit" /\ n \in DOMAIN threads
    /\ W!WriteBlock(threads[n])
    /\ at' = at + 1
    /\ UNCHANGED <<pc, failed, flowVars, dataVars, context, loopVars>>

\* enumerate_ranges, the sort and the startup test read.
EnumerateRanges ==
    /\ pc = "emit" /\ at = Len(Order) + Len(threads) + 1
    /\ pc' = "loop"
    /\ total' \in 0 .. MaxRanges
    /\ UNCHANGED <<failed, flowVars, dataVars, emitVars, turn, regions, skipped, late, writerVars>>

\* Mutants: the loop does not look at the abort flag; one turn too many.
MutNextRangeDeaf ==
    /\ pc = "loop" /\ turn < total
    /\ pc' = "range"
    /\ UNCHANGED <<failed, flowVars, dataVars, emitVars, loopVars, writerVars>>

\* The head of the region loop.
NextRange ==
    /\ pc = "loop" /\ turn < total /\ ~abort
    /\ pc' = "range"
    /\ UNCHANGED <<failed, flowVars, dataVars, emitVars, loopVars, writerVars>>

LeaveLoop ==
    /\ pc = "loop" /\ (turn >= total \/ abort)
    /\ pc' = "finalize"
    /\ UNCHANGED <<failed, flowVars, dataVars, emitVars, loopVars, writerVars>>

\* Mutant: a skipped range does not count as dealt with.
MutSkipRange ==
    /\ pc = "range" /\ pc' = "loop"
    /\ skipped' = IF skipped < turn THEN skipped + 1 ELSE skipped
    /\ UNCHANGED <<failed, flowVars, dataVars, emitVars, total, turn, regions, late, writerVars>>

\* The region filter names a reason.
SkipRange ==
    /\ pc = "range" /\ pc' = "loop"
    /\ skipped' = skipped + 1 /\ turn' = turn + 1
    /\ UNCHANGED <<failed, flowVars, dataVars, emitVars, total, regions, late, writerVars>>

\* Mutant: a torn region is written a second time.
MutReadRegionRetries ==
    /\ pc = "range" /\ pc' = "loop"
    /\ file' = file \o <<W!Torn(W!NewBlock("MemoryRegion")), W!NewBlock("MemoryRegion")>>
    /\ W!FeedChain(W!NewBlock("MemoryRegion"))
    /\ turn' = turn + 1 /\ regions' = regions + 1
    /\ late' = IF abort THEN late + 1 ELSE late
    /\ UNCHANGED <<failed, flowVars, dataVars, emitVars, total, skipped, encrypted, tag, plaintext, caller>>

\* _read_region and write_memory_region.
ReadRegion ==
    /\ pc = "range" /\ pc' = "loop"
    /\ W!WriteBlock("MemoryRegion")
    /\ turn' = turn + 1 /\ regions' = regions + 1
    /\ late' = IF abort THEN late + 1 ELSE late
    /\ UNCHANGED <<failed, flowVars, dataVars, emitVars, total, skipped>>

------------------------------------------------------------------------------
(* Failure                                                                   *)

\* A bridge or collector call, or opening the file, raises.
CallRaises ==
    /\ \/ pc \in {"connect", "modules", "open", "range"}
       \/ pc = "tables" /\ setup.investigation /\ setup.collector
       \/ pc = "identity" /\ setup.collector
       \/ pc = "emit" /\ at <= Len(Order) /\ Order[at] = "SystemContext"
                      /\ setup.investigation /\ ~context
       \/ pc = "emit" /\ at = Len(Order) + Len(threads) + 1
    /\ failed' = TRUE
    /\ pc' = IF pc \in {"connect", "modules", "tables", "open"} THEN "except" ELSE "finalize"
    /\ UNCHANGED <<flowVars, dataVars, emitVars, loopVars, writerVars>>

\* Mutant: the region count runs ahead of the write.
MutWriteRaises ==
    /\ MayFailIO
    /\ pc = "range"
    /\ W!WriteBlockRaises("MemoryRegion")
    /\ regions' = regions + 1
    /\ failed' = TRUE /\ pc' = "finalize"
    /\ UNCHANGED <<flowVars, dataVars, emitVars, total, turn, skipped, late>>

\* A write call raises.
WriteRaises ==
    /\ MayFailIO
    /\ \/ /\ pc = "emit" /\ at <= Len(Order) /\ Due(Order[at])
          /\ Order[at] = "SystemContext" => context
          /\ W!WriteBlockRaises(Order[at])
       \/ /\ pc = "emit" /\ at - Len(Order) \in DOMAIN threads
          /\ W!WriteBlockRaises(threads[at - Len(Order)])
       \/ /\ pc = "range"
          /\ W!WriteBlockRaises("MemoryRegion")
    /\ failed' = TRUE /\ pc' = "finalize"
    /\ UNCHANGED <<flowVars, dataVars, emitVars, loopVars>>

\* The inner `finally': finalize returns, or raises.
FinalizeFile ==
    /\ pc = "finalize"
    /\ \/ W!Finalize /\ UNCHANGED failed
       \/ MayFailIO /\ W!FinalizeRaises /\ failed' = TRUE
    /\ pc' = IF failed' THEN "except" ELSE "return"
    /\ UNCHANGED <<flowVars, dataVars, emitVars, loopVars>>

\* Mutant: every exception counts as the end of the session.
MutHandleException ==
    /\ pc = "except"
    /\ pc' = "return"
    /\ UNCHANGED <<failed, flowVars, dataVars, emitVars, loopVars, writerVars>>

\* The outer `except': swallow what was raised if the abort flag is up.
HandleException ==
    /\ pc = "except"
    /\ pc' = IF abort THEN "return" ELSE "raise"
    /\ UNCHANGED <<failed, flowVars, dataVars, emitVars, loopVars, writerVars>>

\* The outer `finally': disconnect, whose exceptions are dropped.
Disconnect ==
    /\ pc \in {"return", "raise"}
    /\ pc' = IF pc = "return" THEN "returned" ELSE "raised"
    /\ UNCHANGED <<failed, flowVars, dataVars, emitVars, loopVars, writerVars>>

Step ==
    \/ Start \/ Connect \/ EnumerateModules \/ EnumerateThreads \/ CollectTables
    \/ OpenFile \/ CollectIdentity \/ CollectContext
    \/ Emit \/ EmitThread \/ EnumerateRanges
    \/ NextRange \/ SkipRange \/ ReadRegion \/ LeaveLoop
    \/ CallRaises \/ WriteRaises
    \/ FinalizeFile \/ HandleException \/ Disconnect

Next == RequestAbort \/ Step

Spec == Init /\ [][Next]_engineVars

\* Every bridge, collector and file call returns or raises; nothing obliges the
\* abort to come.
FairSpec == Spec /\ WF_engineVars(Step)

------------------------------------------------------------------------------
(* Properties                                                                *)

KindOf(type) == IF type = "CurrentThread" THEN "Thread" ELSE type
KindsIn(blocks) == {KindOf(blocks[i].type) : i \in DOMAIN blocks}
CountOf(type, blocks) == Cardinality({i \in DOMAIN blocks : blocks[i].type = type})

TypeOK ==
    /\ setup \in [investigation : BOOLEAN, collector : BOOLEAN, options : SUBSET OptIn]
    /\ pc \in {"idle", "connect", "modules", "threads", "tables", "open", "identity",
               "emit", "loop", "range", "finalize", "except", "return", "raise",
               "returned", "raised"}
    /\ abort \in BOOLEAN /\ requested \in BOOLEAN /\ failed \in BOOLEAN
    /\ found \subseteq Kinds /\ threads \in Seq(ThreadTypes)
    /\ cap \subseteq EmittedKinds \cup {"Thread", "MemoryRegion"} /\ tbm \subseteq Kinds
    /\ at \in 1 .. Len(Order) + MaxThreads + 1 /\ context \in BOOLEAN
    /\ total \in 0 .. MaxRanges /\ turn \in 0 .. total
    /\ regions \in 0 .. turn /\ skipped \in 0 .. turn /\ late \in 0 .. regions

\* At every moment, and so in the file of an acquisition that failed or was
\* aborted, ProcessIdentity is block 0, ModuleList can only be block 1, and the
\* blocks that refer to the SystemContext follow it ("MUST be first", "MUST be
\* Block 1" in acquire's comments); threads and memory come after all of them.
BlockOrder ==
    \A i \in DOMAIN accepted :
        LET type == accepted[i].type IN
        /\ (type = "ProcessIdentity") = (i = 1) \/ type = "EndOfCapture"
        /\ type = "ModuleList" => i = 2
        /\ type \in Tables \cup OptIn \cup {"Connectivity"} =>
             \E j \in 1 .. i - 1 : accepted[j].type = "SystemContext"
        /\ type \in ThreadTypes \cup {"MemoryRegion"} =>
             \A j \in i + 1 .. Len(accepted) :
                accepted[j].type \in ThreadTypes \cup {"MemoryRegion", "EndOfCapture"}

\* If nothing raised, the slice holds exactly the kinds the CapBitmap and the
\* table bitmap promise - the first is hashed before a single block is written,
\* the second before the blocks it names - and the two agree on the tables.
\* The MemoryRegions bit is left out: it is always set.
PromisesKept ==
    pc = "returned" /\ ~failed =>
        /\ KindsIn(W!Visible) \ {"MemoryRegion", "EndOfCapture"}
              = (cap \ {"MemoryRegion"}) \cup tbm
        /\ cap \cap Tables = tbm \cap Tables

\* An acquisition that returns without having been aborted is complete: the
\* file is sealed and every range of the target is in it or was filtered.
CleanReturnIsComplete ==
    pc = "returned" /\ ~abort => W!Sealed /\ regions + skipped = total

\* The region count of the result is the number of regions a reader finds,
\* also if the region loop was left by an exception that was swallowed.
CountsMatchFile ==
    pc = "returned" /\ W!Sealed => regions = CountOf("MemoryRegion", W!Visible)

\* "Exactly one resulting block carries the Current flag", if there is any
\* thread block, also when the bridge's current thread has no registers.
SingleCurrentThread ==
    pc = "returned" /\ ~failed =>
        CountOf("CurrentThread", W!Visible) = (IF "Thread" \in KindsIn(W!Visible) THEN 1 ELSE 0)

\* What a reader of a slice relies on: the blocks are where it looks for them,
\* as many kinds as the bitmaps announce, and one thread is the current one
\* (acquire's emission, its two bitmaps and _thread_contexts).
FileKeepsPromises == TypeOK /\ BlockOrder /\ PromisesKept /\ SingleCurrentThread

\* What a caller relies on: a result that claims completeness has a complete
\* file, and its count is the file's (acquire's finally and except).
ResultIsTrue == CleanReturnIsComplete /\ CountsMatchFile

\* "Sets the abort flag so the acquire loop exits at the next iteration": once
\* the flag is up at most the region being read is still written.  A request
\* that came before Start is not covered, Start clears the flag.
AbortIsHeeded == late <= 1

\* The engine uses its writer as MSLWriter allows, so its file is a sealed log.
ImplementsWriter == W!Spec

\* acquire ends, whatever raises.
Ends == <>Ended

\* The command line tells the user of an aborted acquisition "Partial dump
\* saved": there is a file, and it is sealed.  The code does not keep this when
\* an exception came before the file was opened, so no run checks it.
AbortedIsSaved == pc = "returned" /\ abort => W!Sealed
==============================================================================

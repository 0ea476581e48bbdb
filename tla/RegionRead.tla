------------------------------ MODULE RegionRead ------------------------------
(***************************************************************************)
(* One memory region on its way from the target into a slice and back:     *)
(* AcquisitionEngine._read_region and _try_read_pages fill page_states and *)
(* page_data_chunks, MSLWriter.write_memory_region checks and joins them,  *)
(* emu/loader.py _parse_region hands the joined bytes out again, page by   *)
(* page, to the pages marked Captured.  Nothing but their order ties the   *)
(* bytes to the pages.                                                     *)
(*                                                                         *)
(* Pages of the region are numbered 0 .. NumPages-1; a page's content is   *)
(* its number.  Sizes are counted in whole pages: the chunk size is a      *)
(* multiple of the page size (the command line fixes 20 MiB), and a short  *)
(* last page only shortens the last element.                               *)
(*                                                                         *)
(* request_abort sets the abort flag from a signal handler at any moment,  *)
(* also while a bridge call is under way.                                  *)
(***************************************************************************)
EXTENDS Integers, Sequences

CONSTANTS
    NumPages,       \* aligned_size // page_size
    MaxChunk,       \* _max_chunk_size, in pages
    FirstBlockOnly, \* the bridge answers a partly readable range with its
                    \* first readable block (GDBBridge); otherwise with None
    MayGlitch       \* reads of readable memory may fail as well

ASSUME RegionAssumption ==
    /\ NumPages \in Nat \ {0}
    /\ MaxChunk \in Nat \ {0}
    /\ FirstBlockOnly \in BOOLEAN /\ MayGlitch \in BOOLEAN

Pages == 0 .. NumPages - 1

VARIABLES
    readable,   \* the pages of the target that can be read
    abort,      \* AcquisitionEngine._abort
    reading,    \* a loop has looked at _abort and called read_memory
    glitched,   \* history: a single-page read of a readable page failed
    late,       \* history: read_memory calls that returned while abort was up
    pc,         \* where _read_region, then the loader, is
    offset,     \* _read_region's chunk offset, in pages
    count,      \* pages of the chunk _try_read_pages works on
    fbStates,   \* page_states of _try_read_pages
    fbData,     \* page_data_chunks of _try_read_pages
    states,     \* page_states of the region
    data,       \* page_data_chunks of the region, joined
    next,       \* _parse_region's page index i
    captured,   \* _parse_region's captured
    loaded      \* _parse_region's pages: page |-> content

readVars == <<readable, abort, reading, glitched, late, pc, offset, count, fbStates,
              fbData, states, data, next, captured, loaded>>

CAPTURED == "CAPTURED"
FAILED == "FAILED"

Empty == NumPages   \* the content of a page for which no byte is left

MinOf(a, b) == IF a < b THEN a ELSE b

\* The pages first .. first+n-1, in order.
Run(first, n) == [k \in 1 .. n |-> first + k - 1]

Repeat(x, n) == [k \in 1 .. n |-> x]

------------------------------------------------------------------------------
(* The bridge                                                                *)

AllReadable(first, n) == \A p \in first .. first + n - 1 : p \in readable

\* GDB reads what it can at either end of a range it cannot read as a whole and
\* reports blocks; the bridge keeps the contents of the first one, wherever in
\* the range it begins.
FirstBlocks(first, n) ==
    {Run(first, b) : b \in {b \in 1 .. n - 1 :
        AllReadable(first, b) /\ first + b \notin readable}}
    \cup
    {Run(first + a, n - a) : a \in {a \in 1 .. n - 1 :
        AllReadable(first + a, n - a) /\ first \notin readable
                                      /\ first + a - 1 \notin readable}}

\* What read_memory(first, n pages) returns if it returns bytes.
Answers(first, n) ==
    IF AllReadable(first, n) THEN {Run(first, n)}
    ELSE IF FirstBlockOnly THEN FirstBlocks(first, n)
    ELSE {}

\* It may return None instead.
ReadNone(first, n) == MayGlitch \/ Answers(first, n) = {}

------------------------------------------------------------------------------
(* _read_region                                                              *)

Init ==
    /\ readable \in SUBSET Pages
    /\ abort = FALSE /\ reading = FALSE /\ glitched = FALSE /\ late = 0
    /\ pc = "start" /\ offset = 0 /\ count = 0
    /\ fbStates = <<>> /\ fbData = <<>> /\ states = <<>> /\ data = <<>>
    /\ next = 0 /\ captured = 0 /\ loaded = [p \in {} |-> p]

loaderVars == <<next, captured, loaded>>
callVars == <<reading, late>>

\* read_memory returns.  The flag may have gone up since the loop looked at it:
\* what the call brought is used all the same.
Returns ==
    /\ reading' = FALSE
    /\ late' = IF abort THEN late + 1 ELSE late

\* request_abort, from the signal handler.
RequestAbort ==
    /\ ~abort /\ abort' = TRUE
    /\ UNCHANGED <<readable, glitched, pc, offset, count, fbStates, fbData,
                   states, data, callVars, loaderVars>>

\* The region fits in one read, made whatever the flag says: every page is marked
\* Captured and the data is whatever came back; on None the pages are tried one
\* by one.
ReadWhole ==
    /\ pc = "start" /\ NumPages <= MaxChunk /\ Returns
    /\ \/ /\ data' \in Answers(0, NumPages)
          /\ states' = Repeat(CAPTURED, NumPages)
          /\ pc' = "built"
          /\ UNCHANGED count
       \/ /\ ReadNone(0, NumPages)
          /\ pc' = "pages" /\ count' = NumPages
          /\ UNCHANGED <<states, data>>
    /\ UNCHANGED <<readable, abort, glitched, offset, fbStates, fbData, loaderVars>>

\* Mutant: the state map is made for the full chunks only.
MutStartChunksFloor ==
    /\ pc = "start" /\ NumPages > MaxChunk
    /\ states' = Repeat(FAILED, (NumPages \div MaxChunk) * MaxChunk)
    /\ pc' = "chunks"
    /\ UNCHANGED <<readable, abort, glitched, offset, count, fbStates, fbData,
                   data, callVars, loaderVars>>

StartChunks ==
    /\ pc = "start" /\ NumPages > MaxChunk
    /\ states' = Repeat(FAILED, NumPages)
    /\ pc' = "chunks"
    /\ UNCHANGED <<readable, abort, glitched, offset, count, fbStates, fbData,
                   data, callVars, loaderVars>>

ChunkSize == MinOf(MaxChunk, NumPages - offset)

\* A turn of the chunk loop begins: the flag is not up, the chunk is asked for.
BeginChunk ==
    /\ pc = "chunks" /\ ~reading /\ offset < NumPages /\ ~abort
    /\ reading' = TRUE
    /\ UNCHANGED <<readable, abort, glitched, late, pc, offset, count, fbStates, fbData,
                   states, data, loaderVars>>

\* The chunk arrives.
ReadChunk ==
    /\ pc = "chunks" /\ reading /\ Returns
    /\ \E got \in Answers(offset, ChunkSize) : data' = data \o got
    /\ states' = [k \in DOMAIN states |->
                    IF k - 1 \in offset .. offset + ChunkSize - 1
                    THEN CAPTURED ELSE states[k]]
    /\ offset' = offset + ChunkSize
    /\ UNCHANGED <<readable, abort, glitched, pc, count, fbStates, fbData, loaderVars>>

\* The chunk cannot be read: fall back to single pages.
ChunkFails ==
    /\ pc = "chunks" /\ reading /\ Returns
    /\ ReadNone(offset, ChunkSize)
    /\ pc' = "pages" /\ count' = ChunkSize
    /\ UNCHANGED <<readable, abort, glitched, offset, fbStates, fbData, states,
                   data, loaderVars>>

LeaveChunks ==
    /\ pc = "chunks" /\ ~reading /\ (offset >= NumPages \/ abort)
    /\ pc' = "built"
    /\ UNCHANGED <<readable, abort, glitched, offset, count, fbStates, fbData,
                   states, data, callVars, loaderVars>>

------------------------------------------------------------------------------
(* _try_read_pages                                                           *)

fbPage == offset + Len(fbStates)

\* Mutant: the loop does not look at the abort flag.
MutBeginPageDeaf ==
    /\ pc = "pages" /\ ~reading /\ Len(fbStates) < count
    /\ reading' = TRUE
    /\ UNCHANGED <<readable, abort, glitched, late, pc, offset, count, fbStates, fbData,
                   states, data, loaderVars>>

\* A turn of the page loop begins: the flag is not up, the page is asked for.
BeginPage ==
    /\ pc = "pages" /\ ~reading /\ Len(fbStates) < count /\ ~abort
    /\ reading' = TRUE
    /\ UNCHANGED <<readable, abort, glitched, late, pc, offset, count, fbStates, fbData,
                   states, data, loaderVars>>

\* The page arrives, or cannot be read.
ReadPage ==
    /\ pc = "pages" /\ reading /\ Returns
    /\ \/ /\ \E got \in Answers(fbPage, 1) : fbData' = fbData \o got
          /\ fbStates' = Append(fbStates, CAPTURED)
          /\ UNCHANGED glitched
       \/ /\ ReadNone(fbPage, 1)
          /\ fbStates' = Append(fbStates, FAILED)
          /\ glitched' = (glitched \/ fbPage \in readable)
          /\ UNCHANGED fbData
    /\ UNCHANGED <<readable, abort, pc, offset, count, states, data, loaderVars>>

\* The page loop sees the abort flag: the remaining pages are Failed.
AbortPages ==
    /\ pc = "pages" /\ ~reading /\ Len(fbStates) < count /\ abort
    /\ fbStates' = fbStates \o Repeat(FAILED, count - Len(fbStates))
    /\ UNCHANGED <<readable, abort, glitched, pc, offset, count, fbData, states,
                   data, callVars, loaderVars>>

\* Mutants: the states are merged without the data; a chunk is merged only if
\* every page of it was read; the offset moves on only after a merge.
MutMerge(merges, newData, advance) ==
    /\ pc = "pages" /\ ~reading /\ Len(fbStates) = count
    /\ IF NumPages <= MaxChunk
       THEN /\ states' = fbStates /\ data' = fbData
            /\ pc' = "built" /\ UNCHANGED offset
       ELSE /\ IF merges
               THEN /\ states' = [k \in DOMAIN states |->
                         IF k - offset \in DOMAIN fbStates
                         THEN fbStates[k - offset] ELSE states[k]]
                    /\ data' = newData
               ELSE UNCHANGED <<states, data>>
            /\ offset' = offset + advance
            /\ pc' = "chunks"
    /\ fbStates' = <<>> /\ fbData' = <<>>
    /\ UNCHANGED <<readable, abort, glitched, count, callVars, loaderVars>>

MutMergePagesNoData == MutMerge(fbData # <<>>, data, count)
MutMergePagesAllOrNothing == MutMerge(Len(fbData) = count, data \o fbData, count)
MutMergePagesStuck ==
    MutMerge(fbData # <<>>, data \o fbData, IF fbData = <<>> THEN 0 ELSE count)

\* _try_read_pages returns.  The single-read path takes its result as it is,
\* the chunk loop merges it if it brought any bytes, and goes on.
MergePages ==
    /\ pc = "pages" /\ ~reading /\ Len(fbStates) = count
    /\ IF NumPages <= MaxChunk
       THEN /\ states' = fbStates /\ data' = fbData
            /\ pc' = "built" /\ UNCHANGED offset
       ELSE /\ IF fbData # <<>>
               THEN /\ states' = [k \in DOMAIN states |->
                         IF k - offset \in DOMAIN fbStates
                         THEN fbStates[k - offset] ELSE states[k]]
                    /\ data' = data \o fbData
               ELSE UNCHANGED <<states, data>>
            /\ offset' = offset + count
            /\ pc' = "chunks"
    /\ fbStates' = <<>> /\ fbData' = <<>>
    /\ UNCHANGED <<readable, abort, glitched, count, callVars, loaderVars>>

------------------------------------------------------------------------------
(* write_memory_region and _parse_region                                     *)

\* write_memory_region refuses a state map that does not cover the region.
WriteRegion ==
    /\ pc = "built"
    /\ pc' = IF Len(states) = NumPages THEN "loading" ELSE "refused"
    /\ UNCHANGED <<readable, abort, glitched, offset, count, fbStates, fbData,
                   states, data, callVars, loaderVars>>

\* One turn of the loader's page loop.  A slice past the end of the data is
\* empty, it does not raise.
LoadPage ==
    /\ pc = "loading" /\ next < NumPages
    /\ IF states[next + 1] = CAPTURED
       THEN /\ loaded' = [p \in DOMAIN loaded \cup {next} |->
                 IF p = next
                 THEN (IF captured + 1 \in DOMAIN data THEN data[captured + 1] ELSE Empty)
                 ELSE loaded[p]]
            /\ captured' = captured + 1
       ELSE UNCHANGED <<loaded, captured>>
    /\ next' = next + 1
    /\ UNCHANGED <<readable, abort, glitched, pc, offset, count, fbStates, fbData,
                   states, data, callVars>>

Loaded ==
    /\ pc = "loading" /\ next = NumPages
    /\ pc' = "loaded"
    /\ UNCHANGED <<readable, abort, glitched, offset, count, fbStates, fbData,
                   states, data, callVars, loaderVars>>

Step ==
    \/ ReadWhole \/ StartChunks \/ BeginChunk \/ ReadChunk \/ ChunkFails \/ LeaveChunks
    \/ BeginPage \/ ReadPage \/ AbortPages \/ MergePages
    \/ WriteRegion \/ LoadPage \/ Loaded

Next == RequestAbort \/ Step

Spec == Init /\ [][Next]_readVars

\* The program's own steps: no loop waits for anything but a bridge call, which
\* returns.  Nothing obliges the signal to arrive.
FairSpec == Spec /\ WF_readVars(Step)

------------------------------------------------------------------------------
(* Properties                                                                *)

States == {CAPTURED, FAILED}

TypeOK ==
    /\ readable \in SUBSET Pages
    /\ abort \in BOOLEAN /\ reading \in BOOLEAN /\ glitched \in BOOLEAN /\ late \in Nat
    /\ pc \in {"start", "chunks", "pages", "built", "refused", "loading", "loaded"}
    /\ offset \in 0 .. NumPages /\ count \in 0 .. NumPages
    /\ fbStates \in Seq(States) /\ Len(fbStates) <= count
    /\ states \in Seq(States)
    /\ fbData \in Seq(Pages) /\ data \in Seq(Pages)
    /\ next \in 0 .. NumPages /\ captured \in 0 .. NumPages
    /\ DOMAIN loaded \subseteq Pages
    /\ \A p \in DOMAIN loaded : loaded[p] \in Pages \cup {Empty}

\* A page that comes back from the slice as Captured holds the bytes the target
\* had in that page, and could be read, whichever mix of whole reads, chunks,
\* single pages, failures and abort produced the region.  The loader finds a
\* page's bytes only by counting the Captured pages before it.
CapturedFaithful == \A p \in DOMAIN loaded : loaded[p] = p /\ p \in readable

\* The state map always covers the region exactly, so write_memory_region never
\* raises and drops what was read - not after an abort inside the page loop,
\* and not when the last chunk is shorter than the others.
NeverRefused == pc # "refused"

\* The tiers miss nothing: if no abort came and single pages of readable memory
\* could be read, every readable page is in the slice, also when the larger
\* reads around it failed.
NothingMissed == pc = "loaded" /\ ~abort /\ ~glitched => DOMAIN loaded = readable

\* How much has been read.
Obtained == Len(data) + Len(fbData)

\* Once the abort flag is up at most one more bridge call brings anything: the
\* one that is under way, or the single read that does not look at the flag.
\* A chunk that fails late does not start the page loop, a page that arrives late
\* is the last.  Apart from that answer nothing is added, and what was read before
\* is kept.
AbortStopsReading ==
    [][abort =>
         /\ late' <= 1
         /\ late' = late => Obtained' = Obtained
         /\ Obtained <= Obtained' /\ Len(data) <= Len(data')]_readVars

\* Every region is finished: both loops advance on success and on failure.
Terminates == <>(pc = "loaded")
==============================================================================

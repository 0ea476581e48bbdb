------------------------------ MODULE EnrichTool ------------------------------
(***************************************************************************)
(* memslicer-enrich (cli_enrich.py) on the files of one slice: load it,    *)
(* find the build ids of modules without one in the captured memory        *)
(* (acquirer/build_id_post.py, elf_notes.py), and write a copy with a      *)
(* manifest of them in front of a new End-of-Capture, next to the slice or *)
(* in place of it.  The tool may be run again, on its own output too, and  *)
(* may be killed or fail to write at any moment.                           *)
(*                                                                         *)
(* The slice comes from an acquisition, which asked the bridge for build   *)
(* ids first (populate_from_bridge); it may be encrypted, or cut, or its   *)
(* last block may be torn with an End-of-Capture behind it.                *)
(***************************************************************************)
EXTENDS SliceFormat

CONSTANTS
    Originals,     \* what acquisitions may have captured; see Encode
    Images,        \* a page of memory: its length and what the ELF parser finds in it
    Deleted, Memfd, \* paths that end in " (deleted)"; paths of memfd mappings
    MaxRuns        \* bound of the model: runs of the tool

ReadSize == 4096

\* The types of what an acquisition tells about the target and the system.
InformationBlocks ==
    {"SystemContext", "KernelSymbolBundle", "PhysicalMemoryMap", "ConnectivityTable", "KernelModuleList",
     "TargetIntrospection", "PersistenceManifest", "ProcessTable", "ConnectionTable", "HandleTable",
     "KeyHint", "ImportProvenance", "RelatedDump"}

ASSUME EnrichAssumption == MaxRuns \in Nat /\ Deleted \cup Memfd \subseteq Strings

\* Pages are numbered; an identifier of more than 255 bytes raises in _encode_native_blob.
ASSUME ImageAssumption ==
    DOMAIN Images \subseteq Nat \ {0} /\ \A page \in DOMAIN Images :
        LET image == Images[page] IN
        /\ image.len \in Nat /\ image.elf \in BOOLEAN /\ image.header \in Nat
        /\ image.notes \in Seq(ToSet(image.notes))
        /\ \A seg \in ToSet(image.notes) :
              /\ seg.end \in Nat /\ seg.notes \in Seq(ToSet(seg.notes))
              /\ \A note \in ToSet(seg.notes) :
                    /\ note.gnu \in BOOLEAN /\ note.type \in Nat /\ note.whole \in BOOLEAN
                    /\ note.desc \in Strings /\ Bytes[note.desc] <= 255

\* What the acquisition hands its writer: _try_read_pages keeps a page's data
\* when it marks it as captured and only then, and write_memory_region
\* refuses a region whose size is not that of its pages.
ASSUME OriginalsAssumption ==
    \A o \in Originals :
        /\ o.kind \in {"clear", "encrypted"} /\ o.damage \in {"none", "cut", "torn", "swallowed"}
        /\ o.modules \in Seq([base : Nat, size : Nat, path : Strings, version : Strings,
                               live : {0} \cup DOMAIN Images])
        /\ o.tables \in Seq(ToSet(o.tables)) /\ \A b \in ToSet(o.tables) : b.type \in InformationBlocks
        /\ o.threads \in Seq(ToSet(o.threads)) /\ o.regions \in Seq(ToSet(o.regions))
        /\ o.damage # "none" => o.regions # <<>>
        /\ \A r \in ToSet(o.regions) :
              /\ r.base \in Nat /\ r.prot \in Nat /\ r.type \in Nat /\ r.log2 \in Nat /\ r.time \in Nat
              /\ PageSize(r.log2) \in Nat \ {0} /\ r.size = Len(r.states) * PageSize(r.log2)
              /\ r.states \in Seq(0 .. 3) /\ r.pages \in Seq(DOMAIN Images)
              /\ Len(r.pages) = Cardinality({k \in DOMAIN r.states : r.states[k] = CAPTURED})

VARIABLES
    files,      \* the files, by path
    original,   \* what was captured
    captured,   \* the file of the acquisition
    pc, cmd,    \* where main is, and its arguments
    modules,    \* the modules without a build id
    index,      \* region_bytes: the first pages, by base address
    rows,       \* the rows of the manifest
    left,       \* the blocks not yet written to the output
    outcome,    \* how the last run ended
    runs,
    broken      \* ghost: outputs of runs that did not end by themselves

enrichVars == <<files, original, captured, pc, cmd, modules, index, rows, left, outcome, runs, broken>>

Paths == {"slice", "slice.enriched", "slice.tmp", "slice.enriched.tmp"}

\* The default output and --in-place; --in-place on what a run has made.
Commands == {[src |-> "slice", dst |-> "slice.enriched", inPlace |-> FALSE],
             [src |-> "slice", dst |-> "slice.tmp", inPlace |-> TRUE],
             [src |-> "slice.enriched", dst |-> "slice.enriched.tmp", inPlace |-> TRUE]}

File(kind, blocks, torn) == [kind |-> kind, blocks |-> blocks, torn |-> torn]
Missing == File("missing", <<>>, FALSE)
Block(type, payload) ==
    LET padded == PadPayload(payload) IN [type |-> type, payload |-> Layout(padded), size |-> Size(padded)]
EndOfCapture == Block("EndOfCapture", Pack(<<32, 8, 8>>, <<0, 0, 0>>))

------------------------------------------------------------------------------
(* Build ids                                                                 *)

\* Mutant: any note of the type counts, whoever issued it.
MutBuildIdIn(notes) ==
    LET read == {i \in DOMAIN notes : \A j \in 1 .. i : notes[j].whole}
        hits == {i \in read : notes[i].type = 3 /\ notes[i].desc # 0}
    IN IF hits = {} THEN 0 ELSE notes[CHOOSE i \in hits : \A j \in hits : i <= j].desc

\* parse_elf_notes up to the first note that is not whole, and the loop of
\* extract_build_id over them: the first GNU note of type 3 with a content.
BuildIdIn(notes) ==
    LET read == {i \in DOMAIN notes : \A j \in 1 .. i : notes[j].whole}
        hits == {i \in read : notes[i].gnu /\ notes[i].type = 3 /\ notes[i].desc # 0}
    IN IF hits = {} THEN 0 ELSE notes[CHOOSE i \in hits : \A j \in hits : i <= j].desc

\* extract_build_id of the first len bytes: segments of notes in turn; one that
\* reaches beyond the bytes ends the search.  Zero is no build id.
ExtractBuildId(image, len) ==
    LET segs == image.notes
        stop == {i \in DOMAIN segs : segs[i].end > len \/ BuildIdIn(segs[i].notes) # 0}
        first == CHOOSE i \in stop : \A j \in stop : i <= j
    IN IF ~image.elf \/ image.header > len \/ stop = {} THEN 0
       ELSE IF segs[first].end > len THEN 0 ELSE BuildIdIn(segs[first].notes)

\* _detect_module_flags: deleted and unlinked, memfd.
ModuleFlags(path) == (IF path \in Deleted THEN 9 ELSE 0) + (IF path \in Memfd THEN 2 ELSE 0)

Smaller(a, b) == IF a < b THEN a ELSE b

\* _apply_extraction: a page of less than 64 bytes leaves the module as it is,
\* any other gives it a blob, without an id if there is none, and a hash.
Extracted(m, page, source) ==
    LET len == Smaller(Images[page].len, ReadSize) IN
    IF len < 64 THEN m
    ELSE [m EXCEPT !.blob = <<[id |-> ExtractBuildId(Images[page], len), source |-> source,
                               flags |-> ModuleFlags(m.path)]>>,
                   !.hash = page]

\* populate_from_bridge: `live' is what read_memory gives, 0 if it fails.
PopulateFromBridge(m) ==
    LET entry == [base |-> m.base, size |-> m.size, path |-> m.path, version |-> m.version,
                  hash |-> 0, blob |-> <<>>]
    IN IF m.live = 0 THEN entry ELSE Extracted(entry, m.live, 1)

\* The blocks of the acquisition, and what its file has become since.
Encode(o) ==
    LET entries == [i \in DOMAIN o.modules |-> PopulateFromBridge(o.modules[i])]
        blocks == <<Block("ProcessIdentity", ProcessIdentity(o.process)),
                    Block("ModuleListIndex", ModuleListIndex(entries))>>
            \o [i \in DOMAIN entries |-> Block("ModuleEntry", ModuleEntry(entries[i]))]
            \o o.tables
            \o [i \in DOMAIN o.threads |-> Block("ThreadContext", ThreadContext(o.threads[i]))]
            \o [i \in DOMAIN o.regions |-> Block("MemoryRegion", MemoryRegion(o.regions[i]))]
        last == MemoryRegion(Last(o.regions))
    IN CASE o.damage = "none" -> File(o.kind, Append(blocks, EndOfCapture), FALSE)
         [] o.damage = "cut" -> File(o.kind, blocks, FALSE)
         [] o.damage = "torn" -> File(o.kind, Front(blocks), TRUE)
         \* The torn block takes the End-of-Capture for its own payload.
         [] o.damage = "swallowed" ->
                File(o.kind, Append(Front(blocks), Block("MemoryRegion", Front(last) \o Raw(128, 0))), FALSE)

------------------------------------------------------------------------------
(* Reading a file                                                            *)

EndAt(f) == {i \in DOMAIN f.blocks : f.blocks[i].type = "EndOfCapture"}

\* iterate_blocks: the blocks it yields, up to the first End-of-Capture or to
\* the end of the file, and whether it raises.
Yielded(f) == IF EndAt(f) = {} THEN f.blocks
              ELSE SubSeq(f.blocks, 1, CHOOSE i \in EndAt(f) : \A j \in EndAt(f) : i <= j)
Raises(f) == f.kind # "clear" \/ (f.torn /\ EndAt(f) = {})

\* Mutant: the end of the file is as good as an End-of-Capture.
MutAccepted(f) == ~Raises(f)

\* _load_slice: no error, and an End-of-Capture.
Accepted(f) == ~Raises(f) /\ EndAt(f) # {}

Payloads(f, type) ==
    LET of == Kept(Yielded(f), {b \in ToSet(Yielded(f)) : b.type = type})
    IN [i \in DOMAIN of |-> of[i].payload]

\* The loop of load_slice.
Emulated(f) ==
    LET modulesIn == Payloads(f, "ModuleEntry")  threadsIn == Payloads(f, "ThreadContext")
        regionsIn == Payloads(f, "MemoryRegion")
    IN [modules |-> [i \in DOMAIN modulesIn |-> LoadModule(modulesIn[i])],
        threads |-> [i \in DOMAIN threadsIn |-> LoadThread(threadsIn[i], original.arch)],
        regions |-> [i \in DOMAIN regionsIn |-> LoadRegion(regionsIn[i])]]

------------------------------------------------------------------------------
(* main                                                                      *)

Init ==
    /\ original \in Originals
    /\ captured = Encode(original)
    /\ files = [p \in Paths |-> IF p = "slice" THEN captured ELSE Missing]
    /\ pc = "idle" /\ cmd \in Commands /\ cmd.dst = "slice.tmp"
    /\ modules = <<>> /\ index = <<>> /\ rows = <<>> /\ left = <<>>
    /\ outcome = "none" /\ runs = 0 /\ broken = {}

Invoke ==
    /\ pc = "idle" /\ runs < MaxRuns
    /\ cmd' \in {c \in Commands : files[c.src].kind # "missing"}
    /\ pc' = "load" /\ runs' = runs + 1 /\ outcome' = "none"
    /\ modules' = <<>> /\ index' = <<>> /\ rows' = <<>> /\ left' = <<>>
    /\ UNCHANGED <<files, original, captured, broken>>

\* _load_slice refuses the file, main exits.
Refuse ==
    /\ pc = "load" /\ ~Accepted(files[cmd.src])
    /\ pc' = "idle" /\ outcome' = "refused"
    /\ UNCHANGED <<files, original, captured, cmd, modules, index, rows, left, runs, broken>>

\* The index of populate_from_regions: of several regions with the same base
\* address the last that was captured.
FirstPages(f) ==
    LET regionsIn == Payloads(f, "MemoryRegion")
        pages == [i \in DOMAIN regionsIn |-> FirstPage(regionsIn[i])]
        Taken == {i \in DOMAIN pages : pages[i].page # 0}
    IN [b \in {pages[i].base : i \in Taken} |-> pages[Max({i \in Taken : pages[i].base = b})].page]

\* The slice is read, the modules that have a blob are left alone.
Load ==
    /\ pc = "load" /\ Accepted(files[cmd.src])
    /\ LET modulesIn == Payloads(files[cmd.src], "ModuleEntry")
           all == [i \in DOMAIN modulesIn |-> ReadModule(modulesIn[i])]
       IN modules' = Kept(all, {m \in ToSet(all) : m.blob = <<>>})
    /\ index' = FirstPages(files[cmd.src])
    /\ pc' = IF modules' = <<>> THEN "keep" ELSE "populate"
    /\ UNCHANGED <<files, original, captured, cmd, rows, left, outcome, runs, broken>>

\* Mutant: only ids of the usual length.
MutManifestRows(entries) ==
    LET hit == Kept(entries, {m \in ToSet(entries) : m.blob # <<>> /\ Bytes[m.blob[1].id] >= 20})
    IN [i \in DOMAIN hit |-> [base |-> hit[i].base, len |-> Bytes[hit[i].blob[1].id], hash |-> hit[i].hash,
                              id |-> hit[i].blob[1].id, source |-> hit[i].blob[1].source,
                              flags |-> hit[i].blob[1].flags]]

\* _build_manifest_rows: a row for every module with an id.
ManifestRows(entries) ==
    LET hit == Kept(entries, {m \in ToSet(entries) : m.blob # <<>> /\ m.blob[1].id # 0})
    IN [i \in DOMAIN hit |-> [base |-> hit[i].base, len |-> Bytes[hit[i].blob[1].id], hash |-> hit[i].hash,
                              id |-> hit[i].blob[1].id, source |-> hit[i].blob[1].source,
                              flags |-> hit[i].blob[1].flags]]

\* populate_from_regions, source "retroactive".
Populate ==
    /\ pc = "populate"
    /\ modules' = [i \in DOMAIN modules |->
                    IF modules[i].base \in DOMAIN index
                    THEN Extracted(modules[i], index[modules[i].base], 5) ELSE modules[i]]
    /\ rows' = ManifestRows(modules')
    /\ pc' = IF rows' = <<>> THEN "keep" ELSE "render"
    /\ UNCHANGED <<files, original, captured, cmd, index, left, outcome, runs, broken>>

\* Nothing to add: in place that is all, else the slice is copied.
Keep ==
    /\ pc = "keep"
    /\ IF cmd.inPlace
       THEN pc' = "idle" /\ outcome' = "nothing" /\ UNCHANGED <<files, left>>
       ELSE /\ pc' = "copy" /\ left' = files[cmd.src].blocks
            /\ files' = [files EXCEPT ![cmd.dst] = File("other", <<>>, FALSE)]
            /\ UNCHANGED outcome
    /\ UNCHANGED <<original, captured, cmd, modules, index, rows, runs, broken>>

\* What _write_enriched writes: the slice up to its End-of-Capture, and the
\* manifest with a new one from a second writer.
Enriched == Front(Yielded(files[cmd.src])) \o
            <<Block("ModuleBuildIdManifest", Table([i \in DOMAIN rows |-> ManifestRow(rows[i])])), EndOfCapture>>

\* Mutant: the output is opened before the manifest is made.
MutRender ==
    /\ pc = "render"
    /\ files' = [files EXCEPT ![cmd.dst] = File("other", <<>>, FALSE)]
    /\ IF ManifestAccepted(rows)
       THEN pc' = "copy" /\ left' = Enriched /\ UNCHANGED outcome
       ELSE pc' = "idle" /\ outcome' = "raised" /\ UNCHANGED left
    /\ UNCHANGED <<original, captured, cmd, modules, index, rows, runs, broken>>

\* _render_manifest_tail raises for an id of more than 20 bytes, which nobody
\* catches; then the output is opened, which empties it.
Render ==
    /\ pc = "render"
    /\ IF ManifestAccepted(rows)
       THEN /\ pc' = "copy" /\ left' = Enriched
            /\ files' = [files EXCEPT ![cmd.dst] = File("other", <<>>, FALSE)]
            /\ UNCHANGED outcome
       ELSE pc' = "idle" /\ outcome' = "raised" /\ UNCHANGED <<files, left>>
    /\ UNCHANGED <<original, captured, cmd, modules, index, rows, runs, broken>>

\* Mutant: the output is written where the slice lies.
MutCopy ==
    /\ pc = "copy" /\ left # <<>>
    /\ files' = [files EXCEPT ![IF cmd.inPlace THEN cmd.src ELSE cmd.dst] =
                    File("clear", Append(IF @.kind = "clear" THEN @.blocks ELSE <<>>, Head(left)), FALSE)]
    /\ left' = Tail(left)
    /\ UNCHANGED <<original, captured, pc, cmd, modules, index, rows, outcome, runs, broken>>

\* Some more bytes of the output, up to the end of a block; the file header
\* goes with the first.
Copy ==
    /\ pc = "copy" /\ left # <<>>
    /\ files' = [files EXCEPT ![cmd.dst] = File("clear", Append(@.blocks, Head(left)), FALSE)]
    /\ left' = Tail(left)
    /\ UNCHANGED <<original, captured, pc, cmd, modules, index, rows, outcome, runs, broken>>

\* The output is closed; in place it takes the name of the slice.
Finish ==
    /\ pc = "copy" /\ left = <<>>
    /\ files' = IF cmd.inPlace
                THEN [files EXCEPT ![cmd.src] = files[cmd.dst], ![cmd.dst] = Missing] ELSE files
    /\ broken' = broken \ {cmd.dst}
    /\ pc' = "idle" /\ outcome' = IF rows = <<>> THEN "copied" ELSE "enriched"
    /\ UNCHANGED <<original, captured, cmd, modules, index, rows, left, runs>>

\* The tool is killed, or the disk is full: of what was written to the output
\* an earlier part is in the file, which may end inside a block or its header.
Break ==
    /\ pc \in {"load", "populate", "keep", "render", "copy"}
    /\ pc' = "idle" /\ outcome' = "broken" /\ left' = <<>>
    /\ IF pc = "copy"
       THEN /\ broken' = broken \cup {cmd.dst}
            /\ \E k \in 0 .. Len(files[cmd.dst].blocks), torn \in BOOLEAN :
                 /\ torn => k < Len(files[cmd.dst].blocks) \/ left # <<>>
                 /\ files' = [files EXCEPT ![cmd.dst] = File(@.kind, SubSeq(@.blocks, 1, k), torn)]
       ELSE UNCHANGED <<files, broken>>
    /\ UNCHANGED <<original, captured, cmd, modules, index, rows, runs>>

Next == Invoke \/ Refuse \/ Load \/ Populate \/ Keep \/ Render \/ Copy \/ Finish \/ Break

Spec == Init /\ [][Next]_enrichVars

------------------------------------------------------------------------------
(* Properties                                                                *)

TypeOK ==
    /\ DOMAIN files = Paths /\ cmd \in Commands
    /\ pc \in {"idle", "load", "populate", "keep", "render", "copy"} /\ runs \in 0 .. MaxRuns
    /\ outcome \in {"none", "refused", "nothing", "copied", "enriched", "raised", "broken"}
    /\ broken \subseteq Paths
    /\ pc = "copy" => files[cmd.dst].kind \in {"clear", "other"}
    /\ \A p \in Paths : files[p].kind \in {"clear", "encrypted", "other", "missing"}

\* All that was captured, in its order, then manifests, then an End-of-Capture
\* and nothing behind it.
Whole(s) ==
    LET Ending(t) == {i \in DOMAIN t : t[i].type = "EndOfCapture"}
        n == Len(captured.blocks)
        m == Len(s)
    IN /\ Ending(captured.blocks) = {n} /\ Ending(s) = {m} /\ n <= m
       /\ \A i \in 1 .. n - 1 : s[i] = captured.blocks[i]
       /\ \A i \in n .. m - 1 : s[i].type = "ModuleBuildIdManifest"

\* At every moment, whatever run is killed or fails, the slice is the one that
\* was captured or has all its blocks.
SliceKept == files["slice"] = captured \/ Whole(files["slice"].blocks)

\* A file that enrich takes for a slice, be it left by a run that was killed,
\* holds everything that was captured: no part of a slice passes for one.
AcceptedIsWhole == \A p \in Paths : Accepted(files[p]) => Whole(files[p].blocks)

\* The pages a region of the target may have shown at an address.
PagesAt(base) ==
    {original.regions[i].pages[1] : i \in {k \in DOMAIN original.regions :
        /\ original.regions[k].base = base /\ original.regions[k].states # <<>>
        /\ original.regions[k].states[1] = CAPTURED}}

\* What the notes of a page say, however they are ordered.
IdsOf(page) == {n.desc : n \in UNION {{note \in ToSet(seg.notes) : note.gnu /\ note.type = 3} :
                                      seg \in ToSet(Images[page].notes)}}

ManifestsIn(f) == Payloads(f, "ModuleBuildIdManifest")
RowAt(p, i) == [base |-> Slice(p, 64 * i - 56, 8), len |-> Slice(p, 64 * i - 48, 1),
                id |-> Slice(p, 64 * i - 44, Slice(p, 64 * i - 48, 1)), hash |-> Slice(p, 64 * i - 24, 32)]
RowsIn(p) == {RowAt(p, i) : i \in 1 .. Slice(p, 0, 4)}

\* A row of a manifest names a module that the acquisition could not read, and
\* a build id and a hash of one and the same page captured at its address.
RowsAreTrue ==
    \A f \in {files[p] : p \in Paths} : Accepted(f) =>
        \A m \in ToSet(ManifestsIn(f)) : \A row \in RowsIn(m) :
            /\ \E i \in DOMAIN original.modules :
                    /\ original.modules[i].base = row.base
                    /\ original.modules[i].live = 0 \/ Images[original.modules[i].live].len < 64
            /\ row.hash \in PagesAt(row.base) /\ row.id \in IdsOf(row.hash)

\* A page that holds all its notes within what is read of it, an identifier
\* among them.
Readable(page) ==
    LET image == Images[page]  len == Smaller(image.len, ReadSize) IN
    /\ len >= 64 /\ image.elf /\ image.header <= len /\ IdsOf(page) \ {0} # {}
    /\ \A seg \in ToSet(image.notes) : seg.end <= len /\ \A note \in ToSet(seg.notes) : note.whole

\* A run that ended by itself has left out no module that had no blob and whose
\* only captured page can be read: "nothing to enrich" is never said of a slice
\* that has one.
EnrichedIsComplete ==
    outcome \in {"enriched", "copied", "nothing"} =>
        LET f == files[IF cmd.inPlace THEN cmd.src ELSE cmd.dst] IN
        \A i \in DOMAIN original.modules :
            LET m == original.modules[i] IN
            m.live = 0 =>
                \A page \in PagesAt(m.base) :
                    PagesAt(m.base) = {page} /\ Readable(page)
                    => \E t \in ToSet(ManifestsIn(f)) : \E row \in RowsIn(t) : row.base = m.base

Loaded(o) ==
    [modules |-> [i \in DOMAIN o.modules |->
                    [base |-> o.modules[i].base, size |-> o.modules[i].size, path |-> o.modules[i].path]],
     threads |-> [i \in DOMAIN o.threads |->
                    [tid |-> o.threads[i].tid, flags |-> o.threads[i].flags,
                     arch |-> IF o.threads[i].arch = 0 THEN o.arch ELSE o.threads[i].arch,
                     regs |-> [k \in DOMAIN o.threads[i].regs |->
                        [o.threads[i].regs[k] EXCEPT !.name = IF o.arch = ARM64 THEN Alias[@] ELSE @]]]],
     regions |-> [i \in DOMAIN o.regions |->
                    LET n == Len(o.regions[i].states)
                        taken == {k \in 1 .. n : o.regions[i].states[k] = CAPTURED}
                    IN [base |-> o.regions[i].base, size |-> o.regions[i].size,
                        pages |-> [k \in {j - 1 : j \in taken} |->
                            o.regions[i].pages[Cardinality({j \in taken : j <= k + 1})]]]]]

\* The emulator loads from every such file the modules, the threads with their
\* registers and the memory that were captured, page by page: the loader and
\* the writer agree on every offset, and a manifest is not in its way.
EmulatorUnaffected ==
    pc = "idle" => \A f \in {files[p] : p \in Paths} : Accepted(f) => Emulated(f) = Loaded(original)

\* Only a run that was killed or could not write leaves a file that is no slice.
DebrisIsFromBreaks ==
    \A p \in Paths \ {"slice"} :
        files[p].kind = "missing" \/ Accepted(files[p]) \/ p \in broken \/ (pc = "copy" /\ p = cmd.dst)

\* Where a row of a table ends, by the lengths in it.
RowEnd(type, p, off) ==
    CASE type = "ModuleListIndex" -> off + 40 + Pad8(Slice(p, off + 32, 2))
      [] type = "ProcessTable" -> off + 40 + Pad8(Slice(p, off + 32, 2)) + Pad8(Slice(p, off + 34, 2))
                                      + Pad8(Slice(p, off + 36, 2))
      [] type = "ConnectionTable" -> off + 48
      [] type = "HandleTable" -> off + 16 + Pad8(Slice(p, off + 10, 2))
      [] type = "KernelSymbolBundle" -> off + 4 + Slice(p, off + 2, 2)
      [] type = "PhysicalMemoryMap" -> off + 20 + Slice(p, off + 16, 2)
      [] type = "ConnectivityTable" -> off + 3 + Slice(p, off + 1, 2)
      [] type = "KernelModuleList" -> off + 26 + Slice(p, off, 2)
      [] type = "PersistenceManifest" -> off + 24 + Slice(p, off + 2, 2)
      [] type = "ModuleBuildIdManifest" -> off + 64

TableTypes == {"ModuleListIndex", "ProcessTable", "ConnectionTable", "HandleTable", "KernelSymbolBundle",
               "PhysicalMemoryMap", "ConnectivityTable", "KernelModuleList", "PersistenceManifest",
               "ModuleBuildIdManifest"}

\* The lengths in the rows of a table lead from row to row, as many as its
\* header says, exactly to the end of the payload.
TablesDecode ==
    \A b \in ToSet(files[cmd.src].blocks) : pc = "load" /\ b.type \in TableTypes =>
        LET n == Slice(b.payload, 0, 4)
            end[i \in 0 .. n] == IF i = 0 THEN 8 ELSE RowEnd(b.type, b.payload, end[i - 1])
        IN Pad8(end[n]) = b.size

\* Every file is a whole slice or the debris of a run that did not end, which
\* no tool takes for a slice (_load_slice, _write_enriched).
FilesAreWholeOrDebris == AcceptedIsWhole /\ DebrisIsFromBreaks

\* The manifest says what the captured pages show, no more and no less
\* (populate_from_regions, _build_manifest_rows).
ManifestIsTrue == RowsAreTrue /\ EnrichedIsComplete

\* The writer's layouts are the ones its readers assume, before and after an
\* enrichment (write_table, _parse_region and the tables' readers).
LayoutsAgree == TypeOK /\ EmulatorUnaffected /\ TablesDecode
==============================================================================

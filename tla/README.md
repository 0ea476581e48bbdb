# A TLA+ model of memslicer

memslicer attaches to a process through a debugger backend (Frida, GDB, LLDB),
reads its memory and writes a *Memory Slice*, an append-only file of blocks
with an integrity chain. Other tools read slices: an emulator, a behaviour
tracer, a symbolic-execution loader and an enrichment tool.

What has to be right is mostly about order and failure. Captured bytes are tied
to pages by nothing but their order; blocks are tied to each other by a hash
chain that is fed after the write; header bitmaps promise blocks before they are
written; an abort can come from a signal handler at any moment; almost every
call goes to a debugger that may fail, be slow or die. The modules here model
that control and check it with TLC; part of it is proved with TLAPS for every
value of the constants.

Paths below are relative to `src/memslicer/`.

## Inventory

| component | state | operations | talks to | what is hard | what makes it correct |
|---|---|---|---|---|---|
| block writer, `msl/writer.py`, `msl/integrity.py`, `msl/encryption.py` | output file, chain (`_prev_hash`, `_file_hasher`), block index, encryption buffer | `__init__`, `write_*` (all through `_write_block`), `finalize` | file, chain, encryptor | a write that raises between header and payload; `finalize` in a `finally` after it; a kill | what a reader verifies is a prefix of what was acknowledged; a sealed file is complete |
| acquisition engine, `acquirer/engine.py` | abort flag, progress through `acquire`, counters | `acquire`, `request_abort` | bridge, collector, writer, command line | abort from a signal handler; exceptions from every call; promises made before the data is written | promised blocks are there, order of blocks, result agrees with the file, aborts are heeded, it ends |
| region read, `engine._read_region`, `_try_read_pages` | page states, data chunks, offset | whole read, chunks, single pages | bridge, abort flag | three tiers of fallback, abort inside each of them, last chunk and last page | a Captured page holds its own bytes; no readable page is lost |
| slice loader, `emu/loader.py` | counters while splitting a region | `load_slice`, `_parse_region` | block iterator | finds a page's bytes by counting Captured pages | same as above |
| block iterator, `msl/iterator.py` | file position | `iterate_blocks` | file | torn and truncated files, encrypted files | yields what was written, stops at End-of-Capture |
| GDB bridge, `acquirer/gdb_bridge.py` | GDB process, line queue, reader thread | connect, enumerate, `read_memory`, `disconnect` | GDB over pipes | prompts, asynchronous records, timeouts, late answers, a dying GDB | an answer belongs to its command; a command and a session end |
| LLDB bridge, `acquirer/lldb_bridge.py` | scan address, failure count | `enumerate_ranges`, reads | LLDB library | gaps larger than the skip limit, wrap-around, fallback | no region is listed twice or lost silently; the scan ends |
| Frida bridge, `acquirer/frida_bridge.py`, `frida_acquirer.py` | session, script | RPC per call | agent in the target | target exits | - |
| region filter, `acquirer/region_filter.py` | none | `skip_reason` | engine | - | first matching reason |
| collectors, `acquirer/collectors/*`, `investigation.py` | warnings of a run | `create_collector`, `collect_*` | the operating system, file by file | the machine changes between two reads; the collector of the wrong machine | a row is of one process and true of it; what lasted is not missed; a flag has a reason |
| build ids, `acquirer/build_id_post.py`, `elf_notes.py` | module entries | populate from bridge or regions | bridge, regions | two regions at one base, short reads | an identifier and a hash of one and the same page |
| identity and attribution, `acquirer/identity.py` | none | validate, resolve, infer | engine, command line | remote targets, refused strings | a target behind a link is not given the host's name; a blank has a reason |
| `os_detail`, `acquirer/os_detail.py` | none | project, pack, parse | engine, `cli_sysctx` | escaping, gates, order under a budget, hard cap | what is read back is what was found; truncation shows; gates hold |
| enrich tool, `cli_enrich.py` | slice, temporary file | load, manifest, append, replace | iterator, second writer | replacement in place, second enrichment, kills | the slice is never lost; no part of one passes for a whole; the manifest is true |
| emulator, `emu/engine.py` | registers, memory, history, write log | step, step back, switch thread | unicorn | bounded history, log against undo | stepping back restores the earlier state |
| behaviour tracer, `behavior/*` | graph, probes, step budget, stub counters | run, probes, stubs, data flow | emulator, Speakeasy | restarts at every intercepted call; three probes on one run; counters that meet | budget over restarts, true callers, real transfers and data flow, it ends |
| symbolic execution, `symbex/*` | none | load into angr | angr | - | - |
| command lines, `cli*.py` | signal handler, sections of a report | options, printing | engine, tools, collectors | SIGINT at any time, a section that raises | what is printed and returned is true |

Not part of the program: `tools/graph_viewer.html`, workflows, tests.
`acquirer/collectors/source_spec.py` (`run_specs`) is called by nothing but its
tests.

## Modules

| module | models | state against the code |
|---|---|---|
| `SealedLog` | abstract: what a slice promises a reader who verifies it | `accepted`, `visible`, `sealed` |
| `MSLWriter` | writer, chain, encryptor; implements `SealedLog` | `file` the blocks on disk, `prevHash`/`hashed` = `IntegrityChain`, `plaintext` = `StreamingEncryptor._plaintext_chunks`, `caller` = which call the owner of the writer is in |
| `RegionRead` | `_read_region`, `_try_read_pages`, the checks of `write_memory_region`, the page loop of `_parse_region` | `states`/`data` = `page_states`/`page_data_chunks`, `fbStates`/`fbData` the same of the fallback, `next`/`captured`/`loaded` = `i`/`captured`/`pages` of the loader; `reading` says that a `read_memory` of a loop is under way, `late` counts the answers that came after the abort flag |
| `AcquisitionEngine` | `acquire` and `request_abort`; instantiates `MSLWriter` and implements its specification | `pc` the stage of `acquire`, `cap`/`tbm` the two bitmaps as sets of kinds, `regions`, `skipped`, `total` the counters, `at` the write call it has come to |
| `GdbMi` | the MI session of the GDB bridge | `queue` = `_line_queue`, `stdin`/`stdout` the pipes, `reader` the daemon thread, `caller` whether `_send_mi_command` is waiting |
| `Emulator` | `MSLEmulator`: steps and their journal, steps back, the write log, thread switches, the unwind out of a call; the runs of a tracer on the same CPU | `history`, `written`, `wxEvents`, `pending` under the same names with an underscore; `cpu`/`mem` the state Unicorn holds; `before`, `trail`, `image` are ghosts: the states before the steps and the memory as captured |
| `BehaviorTracer` | `BehaviorTracer.run`, its probes, the interception of exports and syscalls, stubs and their counters, the skeleton and the edited stubs of a second trace, `link_dataflow`, `feature_vector`; the Speakeasy backend as another source of calls | `steps`, `cur`, `last`, `prev`, `redirect`, `stopped` = the tracer's fields with an underscore, `nodes`, `flow`, `invokes`, `seqs`, `events` = the graph, `dataflow`, `linked` = what `link_dataflow` has found and how far it is, `fn` = the shadow stack of the call graph, `left` = the count given to `emu_start`; `made`, `real`, `resumed` are ghosts: the calls that were made and the real stack |
| `SliceFormat` | how `msl/writer.py` packs each payload and how the loader and the enrich tool take it apart: fields, offsets, counts, padding | operators only |
| `EnrichTool` | `memslicer-enrich`, `iterate_blocks`, `load_slice` of the emulator, `populate_from_regions` and the search of notes, on the files of one slice | `files` by path, `modules`, `index` (`region_bytes`), `rows`, `left` = what is still to be written; `original`, `captured`, `broken` remember what was captured and which outputs were cut short |
| `OSDetail` | `pack_os_detail`, `parse_os_detail` and the projection with its gates, character by character where the format looks into a text | operators only |
| `TargetContext` | who describes the target: options, `create_collector`, `AcquisitionEngine.__init__`, `_maybe_refine_collector`, the tables and the system context of `acquire`, `identity.py`; and the report of `memslicer-sysctx` | `collector`, `tables` (which machine the rows are about), `context`, `pc`; `info`, `raised` are history |
| `LinuxKernel` | external: the processes, threads, descriptors and modules the Linux collector looks at, and how they change while it looks | `proc`, `thread`, `fds`, `mods`; `locked` and `garbled`, the files of processes that are closed to the collector or hold what is no UTF-8; `lived`, `parents`, `held`, `threaded`, `touched`, `troubled` are history |
| `LinuxCollector` | seven calls of `LinuxCollector`, a file a step: process table, identity with ancestry, masquerade marker and environment, handles, connections, connectivity, hidden-process sweep, module list | `op` the call, `pc`, `todo`, `links`, `got` its local variables, `table` the rows; `pc` = "raised" when an error left the call; `began` is the machine when the call began |
| `BridgeProofs` (about `RegionRead` and `GdbMi`), `MSLWriterProofs`, `EmulatorProofs`, `AcquisitionEngineProofs`, `BehaviorTracerProofs`, `EnrichToolProofs`, `LinuxCollectorProofs`, `TargetContextProofs` (about `OSDetail` too) | theorems | |
| `MC*` | instances for TLC | |

How they fit: `AcquisitionEngine` takes each call of the writer as an action of
`MSLWriter` and takes the reading of a region, `RegionRead`'s subject, as one
step. A region that `RegionRead` shows to be accepted is a `WriteBlock`, one it
shows refused would be a `WriteBlockRaises`. `RegionRead` sees a bridge through
what its `read_memory` may answer; for the GDB bridge that is `FirstBlockOnly`,
and `GdbMi` is the session those answers come from. `MCRegionRead` puts two
instances of `RegionRead` side by side, a region of several chunks and one that
fits in a read. `EnrichTool` begins with the finished file, in the formats of
`SliceFormat`, and hands it to the loader; `Emulator` begins where the loader
ends, with the memory and the threads of a slice; `BehaviorTracer` drives that
CPU. `TargetContext` says which collector answers, `LinuxCollector` over
`LinuxKernel` what the one for Linux can know, `OSDetail` how its answer is put
into a block.

Abstractions. A block's digest is its number in the chain (collision-free, and
the digest of a torn block equals no other). A page's content is its number, so
a page that comes back with other bytes is seen. Sizes are in whole pages: the
command line fixes the chunk size to 20 MiB, a multiple of every page size, and
a short last page changes the length of the last element only. What a collector
or a bridge finds is a choice; kinds of blocks stand for their contents. In
`Emulator` a cell stands for the bytes of one access, and holds a pointer; an
instruction is a choice of stores followed by a choice of registers; a slice
without threads is one whose thread has zeros and no segment base. In
`BehaviorTracer` the code is a program of units whose branches are choices. In
`SliceFormat` a payload is the sequence of its fields with their widths, and a
reader gets a field only if it asks for exactly its place and width. In
`OSDetail` a text is a sequence of characters, and a word none of the rules looks
into counts as one. In `LinuxCollector` a file's text is the process that
answered: a reader keeps whose values it has. Of the files of `/proc/net` one stands for
the four of TCP and UDP, and a directory is a kind of descriptor, where the code
asks its own file system (`linux.py:1678`).

Definitions introduced as a mutant, most of them beginning with `Mut`, are
plausible bugs, each in front of the definition it changes. They are not used by
any specification; they show that the property named beside them in
`PROJECT.json` can fail.

## Runs

Where a property joins several parts, each part is a definition of its own with
its own comment, and `TypeOK` is a part of one of them.

Passing:

* **writer** (`MCMSLWriter.cfg`): two types of blocks, four blocks, in the clear
  and encrypted. A write may raise before any byte or after some, `finalize` may
  follow that or fail itself, the process may be killed anywhere. Four blocks
  give a torn block at the beginning, in the middle and at the end, with
  End-of-Capture after it. `ReaderSeesPrefix` and `SealedIsComplete` are what a
  reader relies on, `ClearIsCurrent` what the writer achieves,
  `ImplementsSealedLog` the refinement.
* **region** (`MCRegionRead.cfg`): five pages in chunks of two, so that the last
  chunk is short, and five pages in one read, whose fallback replaces the result
  instead of being merged; every set of readable pages; single reads may fail by
  themselves (`MayGlitch`); an abort at any moment. Looking at the flag and the
  read behind it are two steps, so the abort can come while `read_memory` is
  under way: that one answer is still used, as in the code, and
  `AbortStopsReading` allows for it and no other.
* **engine** (`MCEngine.cfg`): with and without investigation and collector, two
  threads, two ranges, a module list, a table, an extension found by a collector
  and opted into, and one emitted on demand alone. Every call and every write may
  raise, an abort may come at any moment. Two threads are needed for the Current
  flag to move, two ranges for an abort between them. The writer is in the clear;
  the engine does not look at the mode after opening the file.
  `FileKeepsPromises` is the file against the bitmaps, the order readers rely on
  and the Current flag; `ResultIsTrue` the result against the file;
  `ImplementsWriter` says that every behaviour of the engine is one of the writer.
* **gdb_session** (`MCGdbMi.cfg`): two reads between attach and detach, one
  asynchronous record besides the first, timeouts, a dying GDB, and a reader thread
  that ends on an error while GDB lives. Two reads
  make an answer that is late for one read available to the next.
  `LagIsTimeouts` says exactly how far answers are behind: one for every timeout
  before, and none without a timeout. `NothingHangs`: commands and session end.
* **emulator** (`MCEmulator.cfg`): two mapped cells, one of them code of the
  image, and one cell behind the region for stores and jumps that fault; two
  threads, one captured without a segment base; a journal of two entries, three
  steps and runs, two journaled writes of an instruction. A third step drops the
  first entry, a second write to one cell makes the order of undoing matter. One
  capture is enough: the cells differ in it, and stubs and stores reach every
  other memory. `BackRestores` compares with ghosts taken before the step, not
  with the journal. Deadlock is checked.
* **tracer** (`MCBehaviorTracer.cfg`): a program of eight units with a loop, calls
  of functions and of exports, a syscall, an export that does not return in front
  of another, zero-filled memory and a writer of executable memory; the
  granularities block, instruction and function, with the call graph at one of
  them, on a machine with return addresses on the stack and, for the first two, on
  one with a link register, which the slice left at an export or at nothing mapped
  (`StartLinks`); Speakeasy; a budget of six units, three API calls of Speakeasy, two
  traces (`Rounds`), the second with stubs an analyst edited. No trace that ends
  has more than four events, so `MaxEvents` cuts only those that do not. The budget is shorter
  than the loop and longer than the straight path, so it runs out inside a call,
  between restarts or never. `CallsAreTrue`, `GraphIsTrue` and `DataFlowIsTrue`
  compare the graph with ghosts that record who called what and which value was
  passed on. `RunEnds` is liveness: a trace ends but for one reason, which the
  property names and the run meets: an intercepted call that goes back through the
  link register to the entry of an export, which is then answered for ever.
* **enrich** (`MCEnrichTool.cfg`): two runs of the tool on a slice of two modules
  and two threads, with a row of every table, whole, cut, torn or encrypted, next
  to the slice and in place; a kill or a failing write between any two steps; six
  pages that hold no ELF, an identifier, a foreign note, a note beyond the page,
  too short a page, too long an identifier. Two runs make the second meet the
  debris of the first, and enrich what is already enriched. `SliceKept`: the slice
  is there at every moment. `FilesAreWholeOrDebris`: nothing else passes for one.
  `ManifestIsTrue`: rows are true, and none is missing. `LayoutsAgree`: the
  emulator reads back, field by field, what the writer packed.
* **context** (`MCTargetContext.cfg`): every backend, link, host and target
  system; every set of gates; collectors that answer in full, little or nothing,
  or raise; names an operator gave or that are refused. A budget of 90 and a cap
  of 112 characters of the model are overrun by some of the seven answers and not
  by others; two have a name of the system that holds the delimiter or ends with
  its beginning. `ReadsWhatWasFound` and `TruncationIsHonest` go once through packer and
  parser; `PrivateOnRequest` goes from the options to the string;
  `ForeignTargetKeepsHostOut` and `FailuresShow` are about which machine is
  described and what a missing part leaves behind.
* **linux** (`MCLinuxCollector.cfg`): three processes, four identifiers, two
  events during a call, so that an identifier can be given out again (an end and a
  fork), a program replaced twice, a descriptor passed on and closed; the
  collector run by root and by others; four kinds of sockets and files; a sweep up
  to 3 of 4; modules that hide from either listing or are built in, a read of
  `/proc/modules` that gives three lines; a listing or a net file that fails. Files
  of running processes close and open again, and names and command lines stop
  being UTF-8 (`MCGuards`, `MCGarbles`); the process table is also taken by user 1
  of a `/proc` mounted with `hidepid=1`, and where a name was cut inside a
  character from the beginning; the target of an identity call may give up root
  under it. 1,628,693 states.
  `ProcessTableIsTrue`, `TargetIsDescribed`, `DescriptorsAreTrue`,
  `HiddenCountIsTrue` and `ModuleFlagsAreTrue` say both ways what the tables are
  worth when the machine does not stand still: what they say was so, and what
  lasted is in them. For the process table that means: blank or own values in the
  row of a process that still runs, blank only where its file was closed or no
  text, and no process missing for what happens to another's files, in a call
  that returns. `OlderHopsAreParents` gives a reader of an ancestry the test
  the walk itself does not make.

Showing a difference between what the code does and what the repository says of
it (the quotation is in `PROJECT.json`):

* **region_gdb** (`MCRegionGdb.cfg`): with the GDB bridge, whose `read_memory`
  returns the first of the blocks GDB answers a partly readable range with, pages
  are marked Captured that hold other pages' bytes.
* **remote_host** (`MCRemoteHost.cfg`): a Linux target behind a remote link,
  acquired from a Linux host, gets the host's tables, name and details.
* **hidden_modules** (`MCHiddenModules.cfg`): modules behind the first page of
  `/proc/modules` are flagged as hiding from it.

Seen while modelling and not given a run:

* *GDB bridge.* After a timeout the late answer is returned for another address
  (`ReadsOwnAnswer` fails); an error record behind a prompt is not recognised, so
  `connect` returns unattached (`ConnectedIsAttached` fails); a write to a GDB
  that has exited raises `BrokenPipeError`, which `read_memory` does not turn into
  `None`; the timeout starts anew with every line (`CommandEnds` holds because
  asynchronous records are finite, `MaxAsync`); `get_platform_info` looks at the
  host's `/proc` also when the target is remote.
* *Engine.* An abort followed by an exception before the file is opened is
  reported as "Partial dump saved" (`AbortedIsSaved` fails); `acquire` clears an
  abort requested before it began (`AbortIsHeeded` is about the flag, not the
  request); an exception swallowed after an abort leaves a sealed slice whose
  CapBitmap promises blocks that were never written (`PromisesKept` asks for no
  failure); a string longer than 65535 bytes raises in the middle;
  `collect_system_info` is not guarded as the tables are.
* *Emulator.* The write log also has stores that faulted; joined to one of them, a
  range cannot be read and `dump_written` leaves all of it out (`DumpIsComplete`
  fails). The log keeps writes that were undone, so a cell whose write was stepped
  back over is reported when executed; what a stub writes is in no log; a thread
  switch leaves registers the new thread was not captured with, other than the
  general ones, as they were.
* *Tracer.* Under a link-register ABI an intercepted call whose return site is an
  export is dispatched for ever, `max_steps` never takes effect and the list of
  events grows without a bound, against `cli_behavior.py:32`, "Maximum instructions
  to emulate." (`RunEnds` makes an exception of it, and fails without); the feature vector's slot for jumps is always zero,
  since the graph's types are `jump_true` and `jump_false`; `max_steps=0` means no
  limit; file descriptors count from 3, below the values that are followed;
  handles and sockets meet after 64, and `GetModuleHandle` always answers with what
  the first `LoadLibrary` does, so calls may be joined by a value that only looks
  the same (`FreshApart` speaks of counters that have not met); a second `run` of one tracer would attach its
  hooks twice; names that begin with an underscore cannot be overridden.
* *Enrich tool.* No fsync before the replacement; two runs at once share the name
  of the temporary file; the tail comes from a scratch writer with its own hash
  algorithm; `-o` with the slice's own name truncates the slice before it is
  copied; an identifier longer than 20 bytes raises; a live read that was short
  leaves an empty identifier that passes for a present one; only the first of
  several note segments is looked at when it lies beyond the page.
* *Context.* The sentence in front of the pairs is not escaped, and one beyond the
  hard cap loses delimiter and marker (`HumanIsPlain`, `HumanFits`); one that ends
  with " |" moves the delimiter a character forward, and the first pair is lost
  without a marker: the proof of `TruncationIsHonest` asked for this case, which
  `HumanIsPlain` had let through;
  `collector_warning` is not among the keys that are never dropped;
  `_minimum_set_complete` counts `raw_os` and `collector_warning` as findings; an
  explicit remote collector is replaced too, which no shipped caller makes;
  `redacted_keys`, `mode` and the redaction flag are never filled in by the
  engine.
* *Linux collector.* A process that ends between its `stat` and its `status`, or
  whose `status` may not be read, gets user 0, that of root; under `hidepid=1`, which
  the collector itself looks for (`linux.py:1398`), the processes of others have no
  row at all (`linux.py:1427`). A command line, `status`, label, mapping or cgroup that
  is no UTF-8 raises `UnicodeDecodeError`, which the handlers, made for `OSError`,
  let through (`linux.py:629`, `496`): one such command line costs the whole process
  table, a file of the target's its identity, where `linux.py:213` says that each
  helper degrades silently and the method "is unconditionally safe to call", and
  one path in `/proc/net/unix` the connection table (`NotText`; not reported as a
  finding, since `ProcessTableIsTrue` and `TargetIsDescribed` are about calls that
  return); the taint is cut to eight bits, which loses out-of-tree and unsigned;
  the base of a tainted module is 0; built-in modules, and all of them when a
  listing fails, are flagged; the sweep counts threads; a sweep that could not
  list `/proc` is still noted as performed; `_walk_parent_chain` keeps what it has
  where its docstring says it returns an empty string, and does not strip
  " (deleted)"; whether a handle is a directory is looked up on the collector's
  file system; a symbolic link at `/etc/os-release` is refused, which leaves the
  distribution empty.
* *Elsewhere.* LLDB's scan gives up after 64 skipped megabytes in a row; `run_specs`
  looks at its budget between sources only.

The four definitions named here as failing (`ReadsOwnAnswer`,
`ConnectedIsAttached`, `AbortedIsSaved`, `DumpIsComplete`) can be checked by naming
them in the module's `.cfg`.

Bounds: `MaxBlocks`, `NumPages`/`MaxChunk`, `MaxThreads`, `MaxRanges`, `Kinds`,
`MaxReads`, `MaxAsync`, `MaxAddr`, `MaxBack`, `MaxWrites`, `MaxSteps` (of
`Emulator`; in `BehaviorTracer` it is the program's own option), `MaxEvents` and
`Rounds` of the tracer, `MaxRuns` of the enrich tool, `MaxPid`, `MaxEvents`,
`MaxHops`, `Cap` and `MaxLines` of the Linux collector (the last three are
limits of the code, made small), `SoftBudget`, `HardCap` and `MaxString`
likewise. The behaviour is uniform beyond them: the loops treat every block,
page, chunk, range, command, process and row alike, and the bounds leave room
for a first, a middle and a last one, or for one before and one after a failure.
The proofs remove the bounds for their modules. A smaller cap in characters
leaves fewer pairs than a real one, so `context` has answers on each side of it.

Deadlock is checked for the emulator, which always accepts a call. It is not
checked in the other runs: a file is closed, an acquisition returns, a session
ends, a trace is done, a call has its table.

Fairness. `RegionRead` and `AcquisitionEngine` assume weak fairness of the
program's own steps as a whole (`Step`): it is a sequential program whose bridge
calls return or raise. The abort is never assumed to come. `GdbMi` assumes weak
fairness of the reader thread and of the calling thread, including that a
`queue.get` with a timeout on an empty queue ends; nothing is assumed of GDB.
`BehaviorTracer` assumes weak fairness of `Next`: `run` is one sequential loop
around Unicorn, and a unit of the emulated code ends or faults. `EnrichTool`,
`TargetContext` and `LinuxCollector` state no liveness and assume no fairness:
the first may be killed, the others are loops over lists that do not grow.

## Proofs

`BridgeProofs` has two parts, the region read over a bridge and the session of one.
The first proves, for every number of pages, every chunk size, every
pattern of failing reads and every moment of an abort, of a bridge that answers
all of a request or nothing (`~FirstBlockOnly`):

* `RegionTypes`: `[]TypeOK`;
* `RegionFaithful`: `[]CapturedFaithful`;
* `RegionAccepted`: `[]NeverRefused`;
* `RegionAbortStops`: `AbortStopsReading`, at most one answer after the flag, from
  the invariant that a loop which has had its late answer is not reading;
* `RegionNothingMissed`: `[]NothingMissed`.

The properties are not inductive: they speak of what the loader finds at the
end. The inductive invariant `IInv` (`RegionInvariant`) says what links bytes
and pages on the way. `data` enumerates, in increasing order, exactly the pages
whose state is Captured (`states`), and so do `fbData` and `fbStates` for the
part of the chunk done so far; nothing at or after `offset` is Captured yet;
and the loader's `captured` is the number of Captured pages before `next`, so
the element it takes next is that page's. A merge of a chunk appends one
enumeration to another whose pages all lie behind it, which is lemma work about
concatenation; each action of the module has a lemma of its own. `CoverInv` adds
the other half for `NothingMissed`: as long as no abort came and no single page
failed, what is behind the loops is Captured if it could be read, and what is
Captured is loaded. TLC checked the
invariant on the small instances before it was proved. The assumption on the
bridge is needed: `region_gdb` is the counterexample without it.

`MSLWriterProofs` proves, for every set of block types, any number of blocks, in
the clear and encrypted, under every raising write, every failing `finalize` and
a kill at any moment (the one assumption, `WriterAssumption`, is that
End-of-Capture is not an ordinary type):

* `WriterTypeOK`, `WriterReaderSeesPrefix`, `WriterSealedIsComplete`,
  `WriterClearIsCurrent`, `WriterClosedIsSealed`: its invariants;
* `WriterImplementsLog`: `Spec => ImplementsSealedLog`, the refinement.

Again the properties speak of what a reader finds and are not inductive: a torn
block may stand in the middle of the file with an End-of-Capture behind it. The
invariant `IInv` (`WriterInvariant`) has four ideas. `Mirrors`: up to its first
torn block the file agrees with the acknowledged blocks. `Numbered` and
`Counted`: the n-th acknowledged block is numbered n and carries the digest of
block n - 1, and the chain stands at the last one. `SealLast`: only the last
acknowledged block can be an End-of-Capture, it sums up all the others, and only
after `finalize`. `Written`: how far the file has come, by what the caller has
been through. The work is in three lemmas on sequences (appending to both,
appending a torn block, cutting short) and in `VerifiedFacts`: the place where
the chain first breaks exists, for which a least element of a set is needed.
The refinement is then one case per action: `VisibleGrows` shows that appending
to the file hides nothing, `StaysOpen` that nothing but `finalize` seals it.

`EmulatorProofs` proves, for every memory, any threads, any bound of the journal
and any number of writes of one instruction (`EmulatorAssumption` only types the
constants and asks that pointers are cells):

* `EmulatorTypeOK`, `EmulatorJournalDepth`, `EmulatorDirtyIsWritten`: the
  invariants;
* `EmulatorBackRestores`, `EmulatorNoUnpackMissed`: the action properties.

That one step back restores one state needs to be known of every entry, also of
those under which other entries lay. The invariant `IInv` (`EmulatorInvariant`)
says that the journal is a `Chain`: undoing the writes of an entry leads from the
memory before the next step, or from the current one, to the memory before its
own. In the middle of a step `Settled` takes the place of the current memory:
what it would be if the instruction were undone now, which no store changes
(`RevertStore`: a store and its record cancel out, whether or not the cell was
recorded before). A tracer's run breaks the chain and marks it so (`exact`).
`Logged`, that journaled cells are in the write log, carries `DirtyIsWritten`
over a step back.

The second part of `BridgeProofs` proves, for a session of any length, any number of asynchronous
records, timeouts at any moment and a GDB that may die:

* `GdbTypeOK`, `GdbLagIsTimeouts`: the invariants.

How far an answer is behind is decided long before it is taken. The invariant
`SessionInv` (`GdbInvariant`) says that the result records in the queue, in the pipe
and still to be made are numbered on without a gap, from the first that no
command has taken to the last command sent (`InOrder`), as long as no command
ended without GDB (`Lost`); after that no command takes a record any more
(`NoMore`): GDB is dead, or the reader thread's `None`, behind which nothing comes
(`EofIsLast`), has been taken. `Numbers` states the
count of the records by the function that counts them, so that appending a line
and taking the first one are two lemmas (`NumbersAppend`, `NumbersTail`).

`AcquisitionEngineProofs` proves, for any number of threads and ranges, any
kinds of blocks and options, whatever raises and whenever an abort is requested:

* `EngineImplementsWriter`: `Spec => ImplementsWriter`, the composition;
* `EngineFileIsLog`: what `MSLWriterProofs` proves holds of the engine's file;
* `EngineAbortIsHeeded`, `EngineResultIsTrue`, `EngineFileKeepsPromises`: the
  properties of the run `engine`.

Each step of the engine is an operation of its writer or leaves the writer's
state alone (`StepIsWriterStep`), so the theorems about the writer are cited and
not proved again (`WP` instantiates their module, `WriterFits` discharges its
assumption). What is left is the engine's own. `FlowInv` counts the ranges and
says what the abort flag still allows; `FileInv` ties `region_count` to the
acknowledged blocks, and says that without a failure no block is torn and acquire
returns only behind a `finalize` that returned. For the promises, `PlanInv` and
`StageInv` say that the bitmaps are what their conditions say of all that is
found in the end, though each is computed before the last of it is found: what
`CollectContext` still finds is in no bit of the CapBitmap. `OrderInv` and
`KindsInv` say that the blocks written are those due before the write call
`acquire` has come to, in order; `DueIsPromised` that these are, in the end, the
kinds of the two bitmaps.

`BehaviorTracerProofs` proves, for any program, any stubs and edits of them, any
budget and any number of restarts:

* `TracerBudgetHeld`, `TracerCallsAreTrue`, `TracerGraphIsTrue`,
  `TracerDataFlowIsTrue`: the invariants of the run `tracer`.

Each intercepted call stops emulation and starts it again, so the invariant
`TracerInv` (`TracerInvariant`) says what a restart must carry over. `Budget`: a
unit is listed when it is entered and paid for when it is run, so the count
already spent and the count handed to Unicorn together stay within `MaxSteps`,
and one more while a unit is being run. `Attributed`: the unit listed last is
the one that ran last, which a restart at the caller must not make untrue.
`Sequenced`: the joined pairs are those of neighbours in the list of calls.
`Edited`: in the second round the registry holds no stub the analyst replaced.

The graph and the data flow are a step further (`TracerGraphInvariant`, with
`GraphInv` and `DataInv` besides `TracerInv`). `Transfers`: an edge is of the two
units it joins at once, but the probe sees the second one only when it is
entered, after zero-filled memory or a restart, so the invariant says where
control may be on its way to (`Into`) while there is no edge yet. `Shadowed`: the
call graph's stack is a block behind the real one, and becomes it by what the
next block tells (`Learned`), as long as no intercepted call came between. The
edges of the feature vector are counted type by type and source by source, which
needs that the graph stays finite (`FeaturesAreCounts`). `Linking`: what is
linked was said by two calls of the trace, in that order (`EventLinked`).
`GivenOut`: a value from a counter lies between the counter's start and where it
stands, above all that it gave out before; with the assumption that no two
counters start at one value (`TracerAssumption`; `behavior/stublib.py` starts
each at its own), values of two counters can meet only where `FreshApart` says.

`EnrichToolProofs` proves, for strings of any length, any modules, regions and
pages, any notes in them, any number of runs and a kill or a failing write at any
moment:

* `EnrichSliceKept`, `EnrichFilesAreWholeOrDebris`, `EnrichManifestIsTrue`:
  invariants of the run `enrich`.

The assumptions: no string but the empty one is without bytes, and none is too
long for the two bytes of its length (`FormatAssumption`; `struct.pack` raises);
an identifier fits the byte that holds its length (`ImageAssumption`;
`_encode_native_blob` raises); a region's pages are those its states call captured
(`OriginalsAssumption`; `_try_read_pages` appends the two together, and
`write_memory_region` refuses a region of another size), and the blocks about the
target and the system are of their own types.

`EnrichInv` (`EnrichInvariant`) says of a run that copies that what is in the
output and what is left to write together are `Whole`. A slice that is `Whole`
has its only End-of-Capture at the end, so a part of it that holds one is all of
it (`CutShort`): that is why a copy that broke off is never accepted and why a
later run on it adds to no partial slice. What replaces the slice in place is the
output of a run with nothing left to write. That the file of an acquisition is
such a sequence is proved of `Encode` (`EncodedIs`).

`ManifestIsTrue` reads bytes that were written twice, by the acquisition and by
the tool. The lower half of its proof is about layouts: fields have strictly
growing ends unless they are empty, and no field is empty (`Ends`), so the field
at an offset is the one that was packed there; for a module, a region and a
manifest each reader's offset is shown to be the end of the writer's fields before
it, for every length of a string, every number of pages and every row, whatever
padding the block has behind it. The upper half is `TruthInv`
(`EnrichTruthInvariant`): what the tool holds at each step is what was captured
(`Gathered`: modules without a blob, first pages of regions, rows of such modules
with the identifier and hash of one page; `Covers`, no module is missing); every
manifest in any file, whole or not, has only true rows (`FilesTrue`); a run that
copies has the manifest of its rows written or still to write (`Passing`), and what
was said at its end stays so (`Answered`). `EnrichInv` is needed to know that what
is loaded is all of the capture, and that the output of a run that finished is
accepted.

`LinuxCollectorProofs` proves, for any machine a call may find, any number of
changes between any two of its reads and any files of any process closed or no
text at any time:

* `ProcessTableHolds`, `TargetIsDescribedTruly`, `OlderHopsWereParents`,
  `DescriptorsHold`, `HiddenCountHolds`, `ModuleFlagsHold`: all the invariants of
  the run `linux`.

The assumptions (`CollectorAssumption`) say that a call finds a machine in order
(`IsWorld`: init runs, every process has a parent among the running ones or none,
no two started at once, threads share the identifiers of processes, an inode is
one object) and that the value of a secret is not the text it is replaced by.

`MachineKeeps` is about the machine alone. `KernelInv` keeps it in order;
`Later` says what every table rests on: the histories only grow, and an
identifier is given out again only to a process that starts later than all that
ever ran, so who still has the start time that was read is still the same
process. `BeganInv` carries that back to the beginning of the call (`Lasts`): a
process that was there then and is there now never went away in between.

`AccessInv` says that a file closed or garbled now is among those that ever were
(`troubled`), so that an unreadable file of a process that still runs has its
excuse (`Unreadable`, `Excused`).

Each call then has its own invariant, kept by its own steps and, through
`Later`, by every change of the machine. `ProcessesInv`: of what is read of an
entry, everything is `Gone` and, while the process runs, excused, the process whose `stat` was read, or, if that one
has ended, somebody's; each row was so when it was completed (`RowTrue`); what
lasts and was listed is in a row or still to come, once. `IdentityInv`: the same
of the target's files (`FilesRead`), the hops are joined where the next one is
older (`Chained`), the two names compared were states of processes that had the
identifier (`Marked`), and no secret is among what was kept (`Guarded`).
`SweepInv`: whatever was counted has its reason already (`Explained`), and what
hides throughout is counted or still to come. `HandlesInv` and `NetInv`: a
descriptor that stayed is among the numbers still to look at or recorded, and a
lone holder is in the map or on its way to it (`OnItsWay`). `ModulesInv`: what was
read of either listing agrees with the modules as they are now, but for those
that came or went (`LinesTrue`, `NamesTrue`). A listing is a choice of an order
(`Listing`), of which `ListingFacts` proves that it has each name and no name
twice; the lines of `/proc/modules` are a recursive function over a sequence
(`Kept`), of which `KeptFacts` proves what it keeps by taking the least prefix
that would keep something else.

`TargetContextProofs` proves, for any command line, host and target, texts of any
characters and length, any budget and cap, and whatever a collector answers or
raises:

* `EscapeRoundTrip`: `Unescape(Escape(text)) = text`, for every text;
* `ContextReadsWhatWasFound`, `ContextTruncationIsHonest`,
  `ContextPrivateOnRequest`, `ContextForeignTargetKeepsHostOut`,
  `ContextFailuresShow`: all the invariants of the run `context`.

The assumptions type what is collected (`InvocationAssumption`,
`InfoAssumption`), leave room for the marker under the cap (`BudgetAssumption`)
and say what a secret is (`SecretAssumption`): a word that stands behind one gate
only and is none of the format's own, without which nothing could be said of a
string that merely contains it.

Most of the work is about the string, and goes from the inside out. `Unescape`
takes an escaped character back whatever follows it (`EscapeRoundTrip`), and an
escaped value holds no semicolon, so a body of pairs splits exactly where it was
joined; of each part the first "=" ends the key, so the body reads as its pairs;
the first delimiter of the string is the one that was put there if the human part
is plain. What `ParseOSDetail` makes of what `PackOSDetail` made is then one of
three (`PackParse`): `Complete`, all the pairs that were kept; `CutShort`, when the
hard cap fell among the pairs: its mark, and the keys of some of them; or
`Headless`, when it fell into the human part. `PackedFacts` adds which
pairs are kept: all, or all provenance, the first of the others and the mark.
The recursive functions (`Kept`, `Unescape`, the folds behind `Joined` and
`FlattenSeq`) are unfolded once each, by taking the least argument at which a
claim would fail (`WFMin`), which needs no induction scheme.

The invariant of the system is `ContextInv`: `Told`, that a context is `Honest`,
the packing and parsing of fields that passed the gates of one answer, and that a
blank name has its warning among them; `Away`, that a slice of a foreign target
is past its connection only with a collector that knows nobody, and with nobody's
tables and answers; `Setting`, which places belong to which tool.

Only model-checked: `EnrichTool`'s `LayoutsAgree`. Out of the
prover's reach are liveness (`Terminates`, `Ends`, `NothingHangs`, `RunEnds`),
since it has no rule for fairness and ENABLED here, and the induction theorems of
the library, which take an operator; what a recursive function computes is proved
by a least counterexample where it is proved at all. No module declares a
RECURSIVE operator.

## Plan

1. Done: `SealedLog`, `MSLWriter`, `RegionRead`, `AcquisitionEngine`, `GdbMi`,
   `Emulator`; proofs about each of them, `SealedLog` as what
   `MSLWriter` implements.
2. Done: `BehaviorTracer`, `SliceFormat` and `EnrichTool`, with proofs;
   `OSDetail` and `TargetContext`; `LinuxKernel` and `LinuxCollector`.
3. Left to model: LLDB's region scan; the commands of the Darwin, Windows and
   Android collectors and their fallbacks; `volatility_key` and `skip_reason` as
   functions.
4. Left to prove: `LayoutsAgree`, which needs of the threads, of the pages of a
   region beyond the first and of every table what is proved of the modules, the
   first page and the manifest.

## Not modelled, and why

The Windows, Darwin, Android, iOS and remote collectors run commands and parse
what they print; the control around that is one call and a blank on failure, and
the parsing is what a unit test covers. The other fields of the Linux
collector's system information are single reads of single files. LLDB's scan is
a loop of calls into a library, and is next. The Frida bridge is one RPC per
call without state. Serialisers, the PE and ELF readers and the tables of
constants have no state. Compression and the cipher are libraries. angr and
Speakeasy do their work outside this repository; of Speakeasy's backend the
handling of a call is modelled. Command lines other than the parts that concern
aborts, attribution, encryption and the sections of `memslicer-sysctx` parse
arguments and print. The graph viewer and the workflows are not part of the
program. `source_spec.py` has no caller in the program.

----------------------------- MODULE SliceFormat -----------------------------
(***************************************************************************)
(* The payloads of the blocks: how msl/writer.py packs them, how the       *)
(* emulator's loader (emu/loader.py) and the enrich tool (cli_enrich.py)   *)
(* take them apart.  Writer and readers share no code: each reader spells  *)
(* out the offsets, lengths and paddings once more.                        *)
(*                                                                         *)
(* A payload is written as the sequence of its fields, each a width in     *)
(* bytes and a value, and read as the fields at their offsets: a reader    *)
(* gets the value of the field that lies exactly there, or Garbage.  All   *)
(* values are numbers; a string or a page of memory is a number that names *)
(* it, zero the empty string, and Bytes[s] is its length in UTF-8.         *)
(***************************************************************************)
EXTENDS Integers, Sequences, SequencesExt

CONSTANTS Bytes,    \* the length of each string
          Alias     \* _ARM64_ALIASES, the other strings as they are

Strings == DOMAIN Bytes

\* A longer string raises while its length is packed, in two bytes.
ASSUME FormatAssumption ==
    /\ Strings \subseteq Nat /\ Bytes \in [Strings -> Nat]
    /\ 0 \in Strings /\ \A s \in Strings : Bytes[s] < 65535 /\ (Bytes[s] = 0 <=> s = 0)
    /\ Alias \in [Strings -> Strings]

Garbage == -1
CAPTURED == 0

\* struct.pack: fields one behind the other; empty fields leave no trace.
Pack(widths, values) == [i \in DOMAIN widths |-> [w |-> widths[i], v |-> values[i]]]
Raw(width, value) == IF width = 0 THEN <<>> ELSE <<[w |-> width, v |-> value]>>

\* Where the fields of p end, and the fields by their offsets.
Ends(p) == LET end[i \in 0 .. Len(p)] == IF i = 0 THEN 0 ELSE end[i - 1] + p[i].w IN end
Size(p) == Ends(p)[Len(p)]
Layout(p) ==
    LET start == [i \in DOMAIN p |-> Ends(p)[i - 1]]
    IN [off \in {start[i] : i \in DOMAIN p} |-> p[CHOOSE i \in DOMAIN p : start[i] = off]]

\* The width bytes of a payload from off.
Slice(at, off, width) ==
    IF width = 0 THEN 0 ELSE IF off \in DOMAIN at /\ at[off].w = width THEN at[off].v ELSE Garbage

Pad8(n) == ((n + 7) \div 8) * 8
PageSize(log2) == 2 ^ log2

\* The elements of s that are in T, in their order.
Kept(s, T) ==
    LET kept[n \in 0 .. Len(s)] ==
            IF n = 0 THEN <<>> ELSE IF s[n] \in T THEN Append(kept[n - 1], s[n]) ELSE kept[n - 1]
    IN kept[Len(s)]

\* encode_string, and the two lengths that go with it: a string always has its
\* NUL, an optional one is left out altogether if it is empty.
RawLen(s) == Bytes[s] + 1
OptLen(s) == IF s = 0 THEN 0 ELSE RawLen(s)
Str(s) == Raw(Pad8(RawLen(s)), s)
OptStr(s) == Raw(Pad8(OptLen(s)), s)

\* pad_bytes of the whole payload in _write_block.
PadPayload(p) == p \o Raw(Pad8(Size(p)) - Size(p), 0)


\* A table: the number of rows, a reserved word, the rows.
Table(rows) == Pack(<<4, 4>>, <<Len(rows), 0>>) \o FlattenSeq(rows)

\* A table whose rows are tags and values; zero and empty values are no rows.
\* item: [tag, w, v]
TlvRows(items) ==
    LET kept == Kept(items, {it \in ToSet(items) : it.v # 0 /\ it.w # 0})
    IN [i \in DOMAIN kept |-> Pack(<<2, 2>>, <<kept[i].tag, kept[i].w>>) \o Raw(kept[i].w, kept[i].v)]

------------------------------------------------------------------------------
(* The writers, p being what the dataclass of the block holds                *)

\* The path always has a length, an absent command line has none.
ProcessIdentity(p) ==
    Pack(<<4, 4, 8, 2, 2, 4>>,
         <<p.ppid, p.session, p.start, RawLen(p.exe), OptLen(p.cmd), 0>>) \o Str(p.exe) \o OptStr(p.cmd)

\* _encode_page_state_map: four pages a byte, the first in the high bits.
PageStateMap(states) ==
    LET StateAt(i) == IF i <= Len(states) THEN states[i] ELSE 0
    IN [b \in 1 .. (Len(states) + 3) \div 4 |->
            64 * StateAt(4 * b - 3) + 16 * StateAt(4 * b - 2) + 4 * StateAt(4 * b - 1) + StateAt(4 * b)]

\* write_memory_region: the pages that were captured follow the map in order.
MemoryRegion(r) ==
    LET map == PageStateMap(r.states) IN
    Pack(<<8, 8, 1, 1, 1, 5, 8>>, <<r.base, r.size, r.prot, r.type, r.log2, 0, r.time>>)
        \o Pack([b \in DOMAIN map |-> 1], map) \o Raw(Pad8(Len(map)) - Len(map), 0)
        \o Pack([i \in DOMAIN r.pages |-> PageSize(r.log2)], r.pages)

\* _encode_native_blob: a header of four bytes and the build id.
NativeBlob(b) == Pack(<<1, 1, 1, 1>>, <<Bytes[b.id], b.source, b.flags, 0>>) \o Raw(Bytes[b.id], b.id)

\* _write_module_entry; m.blob is a sequence of at most one blob.
ModuleEntry(m) ==
    LET blob == IF m.blob = <<>> THEN <<>> ELSE NativeBlob(m.blob[1]) IN
    Pack(<<8, 8, 2, 2, 4>>, <<m.base, m.size, RawLen(m.path), OptLen(m.version), 0>>)
        \o Str(m.path) \o OptStr(m.version) \o Raw(32, m.hash)
        \o Pack(<<4, 4>>, <<Size(blob), 0>>) \o blob

\* write_module_list, the index in front of the entries, which it names.
ModuleListIndex(modules) ==
    Table([i \in DOMAIN modules |->
        Pack(<<16, 8, 8, 2, 2, 4>>, <<i, modules[i].base, modules[i].size, RawLen(modules[i].path), 0, 0>>)
            \o Str(modules[i].path)])

Register(g) == Pack(<<1, 1, 2, 4>>, <<RawLen(g.name), g.width, g.flags, 0>>)
                   \o Str(g.name) \o Raw(Pad8(g.width), g.value)

\* write_thread_context: architectures beyond one byte are written as 0.
ThreadContext(t) ==
    Pack(<<8, 8, 2, 1, 1, 4, 2, 6>>,
         <<t.tid, t.start, t.flags, t.state, IF t.arch <= 255 THEN t.arch ELSE 0, Len(t.regs), OptLen(t.name), 0>>)
        \o OptStr(t.name) \o FlattenSeq([i \in DOMAIN t.regs |-> Register(t.regs[i])])

\* write_system_context: five strings, of which three are never absent.
SystemContext(c) ==
    Pack(<<8, 1, 4, 2, 2, 2, 2, 2, 9>>,
         <<c.boot, c.count, c.bitmap, RawLen(c.user), RawLen(c.host), OptLen(c.domain),
           RawLen(c.detail), OptLen(c.caseref), 0>>)
        \o Str(c.user) \o Str(c.host) \o OptStr(c.domain) \o Str(c.detail) \o OptStr(c.caseref)

\* Mutant: the path is not padded.
MutProcessRow(q) ==
    Pack(<<4, 4, 4, 1, 3, 8, 8, 2, 2, 2, 2>>,
         <<q.pid, q.ppid, q.uid, q.target, 0, q.start, q.rss, OptLen(q.exe), OptLen(q.cmd), OptLen(q.user), 0>>)
        \o Raw(OptLen(q.exe), q.exe) \o OptStr(q.cmd) \o OptStr(q.user)

ProcessRow(q) ==
    Pack(<<4, 4, 4, 1, 3, 8, 8, 2, 2, 2, 2>>,
         <<q.pid, q.ppid, q.uid, q.target, 0, q.start, q.rss, OptLen(q.exe), OptLen(q.cmd), OptLen(q.user), 0>>)
        \o OptStr(q.exe) \o OptStr(q.cmd) \o OptStr(q.user)

ConnectionRow(q) == Pack(<<4, 1, 1, 1, 1, 16, 2, 2, 16, 2, 2>>,
                         <<q.pid, q.family, q.protocol, q.state, 0, q.local, q.lport, 0, q.remote, q.rport, 0>>)

HandleRow(h) == Pack(<<4, 4, 1, 1, 2, 4>>, <<h.pid, h.fd, h.type, 0, OptLen(h.path), 0>>) \o OptStr(h.path)

\* The blocks that are one fixed part and optional strings, and no table.
KeyHint(h) == Pack(<<16, 8, 4, 2, 2, 1, 1, 2, 4, 4>>,
                   <<h.region, h.offset, h.len, h.type, h.protocol, h.confidence, h.state, 0, OptLen(h.note), 0>>)
                  \o OptStr(h.note)
ImportProvenance(v) == Pack(<<2, 2, 4, 8, 8, 4, 4>>,
                            <<v.format, 0, OptLen(v.tool), v.time, v.size, OptLen(v.note), 0>>)
                           \o OptStr(v.tool) \o OptStr(v.note)
RelatedDump(r) == Pack(<<16, 4, 2, 2>>, <<r.uuid, r.pid, r.relationship, 0>>)

\* write_kernel_symbol_bundle and write_target_introspection: the first counts
\* its rows, the second gives the pid instead.
KernelSymbols(items) == Table(TlvRows(items))
TargetIntrospection(pid, items) == Pack(<<4, 4>>, <<pid, 0>>) \o FlattenSeq(TlvRows(items))

PhysicalRange(q) == Pack(<<8, 8, 2, 2>>, <<q.start, q.end, Bytes[q.label], 0>>) \o Raw(Bytes[q.label], q.label)

\* write_connectivity_table: kind and length, then the body; _str_field has no
\* NUL and no padding.
Field(s) == Pack(<<2>>, <<Bytes[s]>>) \o Raw(Bytes[s], s)
ConnectivityBody(q) ==
    CASE q.kind = 1 -> Field(q.iface) \o Pack(<<4, 4, 4, 2, 4, 4>>, <<q.x, q.x, q.x, q.x, q.x, q.x>>)
      [] q.kind = 2 -> Field(q.iface) \o Pack(<<16, 1, 16, 4, 4>>, <<q.x, q.x, q.x, q.x, q.x>>)
      [] q.kind = 3 -> Pack(<<1, 16, 2, 2, 6>>, <<q.x, q.x, q.x, q.x, q.x>>) \o Field(q.iface)
      [] q.kind = 4 -> Pack(<<4, 8, 2, 4, 4, 8>>, <<q.x, q.x, q.x, q.x, q.x, q.x>>)
      [] q.kind = 5 -> Field(q.iface) \o Pack([i \in 1 .. 8 |-> 8], [i \in 1 .. 8 |-> q.x])
      [] q.kind = 6 -> Pack(<<1, 4, 4, 8>>, <<q.x, q.x, q.x, q.x>>)
      [] q.kind = 7 -> Field(q.iface) \o Field(q.iface) \o Pack(<<8>>, <<q.x>>)
ConnectivityRow(q) == Pack(<<1, 2>>, <<q.kind, Size(ConnectivityBody(q))>>) \o ConnectivityBody(q)

KernelModuleRow(q) == Field(q.name) \o Pack(<<8, 4, 1, 1, 8, 1, 1>>, <<q.x, q.x, q.x, q.x, q.x, q.x, 0>>)

PersistenceRow(q) == Pack(<<1, 1, 2>>, <<q.source, 0, Bytes[q.path]>>) \o Raw(Bytes[q.path], q.path)
                         \o Pack(<<8, 8, 4>>, <<q.x, q.x, q.x>>)

\* write_module_build_id_manifest: rows of 64 bytes, of a build id of at most 20.
ManifestAccepted(rows) == \A i \in DOMAIN rows : Bytes[rows[i].id] <= 20
ManifestRow(q) == Pack(<<8, 1, 1, 1, 1>>, <<q.base, q.len, q.source, q.flags, 0>>)
                      \o Raw(Bytes[q.id], q.id) \o Raw(20 - Bytes[q.id], 0) \o Raw(32, q.hash)

------------------------------------------------------------------------------
(* The readers                                                               *)

\* A string of n bytes, its NUL included, at off.
StringAt(p, off, n) == Slice(p, off, Pad8(n))

\* Mutant: the loader takes the first page from the low bits.
MutPageStateAt(p, i) ==
    LET shift == <<1, 4, 16, 64>> IN (Slice(p, 32 + i \div 4, 1) \div shift[(i % 4) + 1]) % 4

\* _page_state: the state of page i, counted from 0.
PageStateAt(p, i) ==
    LET shift == <<64, 16, 4, 1>> IN (Slice(p, 32 + i \div 4, 1) \div shift[(i % 4) + 1]) % 4

\* _parse_region of the loader: the k-th captured page is the k-th page of data.
LoadRegion(p) ==
    LET size == Slice(p, 8, 8)  page == PageSize(Slice(p, 18, 1))  n == size \div page
        data == 32 + Pad8((n + 3) \div 4)
        taken == {i \in 0 .. n - 1 : PageStateAt(p, i) = CAPTURED}
        Rank(i) == Cardinality({j \in taken : j < i})
    IN [base |-> Slice(p, 0, 8), size |-> size,
        pages |-> [i \in taken |-> Slice(p, data + Rank(i) * page, page)]]

\* _parse_memory_region_for_enrich: the first page, if it was captured.
FirstPage(p) ==
    LET size == Slice(p, 8, 8)  page == PageSize(Slice(p, 18, 1))
        map == Pad8((size \div page + 3) \div 4)
        captured == size > 0 /\ Slice(p, 32, 1) \div 64 = CAPTURED
    IN [base |-> Slice(p, 0, 8), page |-> IF captured THEN Slice(p, 32 + map, page) ELSE 0]

\* _parse_module of the loader.
LoadModule(p) == [base |-> Slice(p, 0, 8), size |-> Slice(p, 8, 8), path |-> StringAt(p, 24, Slice(p, 16, 2))]

\* _extract_blob_fields, of the blob at off.
BlobFields(p, off) ==
    [id |-> Slice(p, off + 4, Slice(p, off, 1)), source |-> Slice(p, off + 1, 1), flags |-> Slice(p, off + 2, 1)]

\* _parse_module_entry_minimal of the enrich tool.
ReadModule(p) ==
    LET version == 24 + Pad8(Slice(p, 16, 2))
        hash == version + Pad8(Slice(p, 18, 2))
    IN [base |-> Slice(p, 0, 8), size |-> Slice(p, 8, 8),
        path |-> StringAt(p, 24, Slice(p, 16, 2)), version |-> StringAt(p, version, Slice(p, 18, 2)),
        hash |-> Slice(p, hash, 32),
        blob |-> IF Slice(p, hash + 32, 4) = 0 THEN <<>> ELSE <<BlobFields(p, hash + 40)>>]

\* _parse_thread: from register to register.
NextRegister(p, off) ==
    off + 8 + Pad8(Slice(p, off, 1)) + Pad8(Slice(p, off + 1, 1))

ARM64 == 2
Known == 0 .. 11
Unknown == 65535

\* _parse_thread: code 0 is the architecture of the file, of unknown ones the
\* code is dropped; on ARM64 the names of 1.1.0 producers are replaced.
LoadThread(p, fileArch) ==
    LET code == Slice(p, 19, 1)
        arch == IF code = 0 THEN fileArch ELSE IF code \in Known THEN code ELSE Unknown
        n == Slice(p, 20, 4)
        at[i \in 1 .. n + 1] == IF i = 1 THEN 32 + Pad8(Slice(p, 24, 2)) ELSE NextRegister(p, at[i - 1])
        Name(s) == IF arch = ARM64 /\ s # Garbage THEN Alias[s] ELSE s
    IN [tid |-> Slice(p, 0, 8), flags |-> Slice(p, 16, 2), arch |-> arch,
        regs |-> [i \in 1 .. n |->
                    [name |-> Name(StringAt(p, at[i] + 8, Slice(p, at[i], 1))),
                     width |-> Slice(p, at[i] + 1, 1), flags |-> Slice(p, at[i] + 2, 2),
                     value |-> Slice(p, at[i] + 8 + Pad8(Slice(p, at[i], 1)), Pad8(Slice(p, at[i] + 1, 1)))]]]
==============================================================================

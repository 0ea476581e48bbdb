----------------------------- MODULE MCEnrichTool -----------------------------
EXTENDS EnrichTool, TLC

\* 1 .. 2: strings with and without room for the NUL; 3 .. 5: contents of notes,
\* the last too long for a row; 6, 7: "fp" and "x29".
MCBytes == 0 :> 0 @@ 1 :> 7 @@ 2 :> 8 @@ 3 :> 16 @@ 4 :> 20 @@ 5 :> 24 @@ 6 :> 2 @@ 7 :> 3
MCAlias == [s \in 0 .. 7 |-> IF s = 6 THEN 7 ELSE s]

Note(gnu, type, desc) == [gnu |-> gnu, type |-> type, desc |-> desc, whole |-> TRUE]
Seg(end, notes) == [end |-> end, notes |-> notes]
Image(len, elf, notes) == [len |-> len, elf |-> elf, header |-> 64, notes |-> notes]

\* No ELF; an id; a foreign note of the same type in front of an id; a short
\* read; notes beyond the page in front of an id; an id that is too long.
MCImages == <<Image(1024, FALSE, <<>>),
              Image(1024, TRUE, <<Seg(400, <<Note(TRUE, 3, 3)>>)>>),
              Image(1024, TRUE, <<Seg(300, <<Note(TRUE, 1, 4)>>), Seg(400, <<Note(FALSE, 3, 3), Note(TRUE, 3, 4)>>)>>),
              Image(32, TRUE, <<>>),
              Image(1024, TRUE, <<Seg(5000, <<Note(TRUE, 3, 4)>>), Seg(400, <<Note(TRUE, 3, 3)>>)>>),
              Image(1024, TRUE, <<Seg(400, <<Note(TRUE, 3, 5)>>)>>)>>

Mod(base, path, version, live) ==
    [base |-> base, size |-> 2048, path |-> path, version |-> version, live |-> live]
Region(base, states, pages) ==
    [base |-> base, size |-> 1024 * Len(states), prot |-> 5, type |-> 3, log2 |-> 10, time |-> 9,
     states |-> states, pages |-> pages]
Reg(name, width, value) == [name |-> name, width |-> width, flags |-> 1, value |-> value]
Thread(tid, name, regs) ==
    [tid |-> tid, start |-> 0, flags |-> 1, state |-> 3, arch |-> 0, name |-> name, regs |-> regs]

Proc(exe, cmdline, user) ==
    [pid |-> 4, ppid |-> 1, uid |-> 0, target |-> 1, start |-> 3, rss |-> 5,
     exe |-> exe, cmd |-> cmdline, user |-> user]
Conn == [pid |-> 4, family |-> 2, protocol |-> 6, state |-> 1, local |-> 7, lport |-> 80, remote |-> 8, rport |-> 81]
Handle(path) == [pid |-> 4, fd |-> 3, type |-> 1, path |-> path]
Item(tag, w, v) == [tag |-> tag, w |-> w, v |-> v]
MCTables ==
    <<Block("SystemContext", SystemContext([boot |-> 1, count |-> 1, bitmap |-> 1, user |-> 1, host |-> 2,
                                            domain |-> 0, detail |-> 3, caseref |-> 0])),
      Block("KernelSymbolBundle", KernelSymbols(<<Item(1, 4, 9), Item(2, 20, 4), Item(3, 8, 0), Item(14, 7, 1)>>)),
      Block("PhysicalMemoryMap", Table(<<PhysicalRange([start |-> 1, end |-> 2, label |-> 1])>>)),
      Block("ConnectivityTable", Table([i \in 1 .. 7 |-> ConnectivityRow([kind |-> i, iface |-> 7, x |-> 9])])),
      Block("KernelModuleList", Table(<<KernelModuleRow([name |-> 7, x |-> 1]), KernelModuleRow([name |-> 2, x |-> 2])>>)),
      Block("TargetIntrospection", TargetIntrospection(4, <<Item(1, 4, 9), Item(4, 7, 1)>>)),
      Block("PersistenceManifest", Table(<<PersistenceRow([source |-> 1, path |-> 1, x |-> 3])>>)),
      Block("ProcessTable", Table(<<ProcessRow(Proc(2, 1, 7)), ProcessRow(Proc(2, 0, 0))>>)),
      Block("ConnectionTable", Table(<<ConnectionRow(Conn), ConnectionRow(Conn)>>)),
      Block("HandleTable", Table(<<HandleRow(Handle(2)), HandleRow(Handle(0))>>)),
      Block("KeyHint", KeyHint([region |-> 1, offset |-> 8, len |-> 32, type |-> 1, protocol |-> 1,
                                confidence |-> 1, state |-> 1, note |-> 7])),
      Block("ImportProvenance", ImportProvenance([format |-> 1, tool |-> 1, time |-> 3, size |-> 4, note |-> 0])),
      Block("RelatedDump", RelatedDump([uuid |-> 1, pid |-> 5, relationship |-> 1]))>>

\* Two modules of which the first has one captured page or two at its base.
MCOriginals ==
    {[kind |-> kind, damage |-> damage, arch |-> 2,
      process |-> [ppid |-> 1, session |-> 1, start |-> 1, exe |-> 1, cmd |-> 2],
      modules |-> <<Mod(8192, 1, 0, live), Mod(65536, 2, 7, second)>>,
      tables |-> IF live = 0 /\ second = 0 /\ page = 2 THEN MCTables ELSE <<>>,
      threads |-> <<Thread(1, 0, <<Reg(6, 8, 11), Reg(7, 4, 12)>>), Thread(2, 7, <<Reg(7, 8, 13)>>)>>,
      regions |-> again \o <<Region(8192, <<0, 1, 2, 0, 0>>, <<page, 1, 5>>), Region(65536, <<1>>, <<>>)>>] :
        kind \in {"clear"}, damage \in {"none"}, live \in {0, 3, 4}, second \in {0, 2},
        page \in {1, 2, 3, 5, 6}, again \in {<<>>, <<Region(8192, <<0>>, <<2>>)>>}}

MCDamaged ==
    {[o EXCEPT !.kind = k, !.damage = d] : k \in {"clear", "encrypted"}, d \in {"none", "cut", "torn", "swallowed"},
        o \in {x \in MCOriginals : x.modules[1].live = 0 /\ x.modules[2].live = 0 /\ x.regions[1].pages = <<2>>
                                    /\ x.regions[2].pages[1] = 2}}

AllOriginals == MCOriginals \cup MCDamaged
==============================================================================

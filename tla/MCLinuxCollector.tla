--------------------------- MODULE MCLinuxCollector ---------------------------
EXTENDS LinuxCollector, TLC

P(start, parent, uid, exe) == [start |-> start, ppid |-> parent, uid |-> uid, exe |-> exe, comm |-> exe,
                               deleted |-> FALSE, hidden |-> FALSE]
Obj(id, kind, net) == [id |-> id, kind |-> kind, net |-> net]
D(p, n, obj) == [pid |-> p, fd |-> n, obj |-> obj]
M(name, taint) == [name |-> name, inProc |-> TRUE, inSysfs |-> TRUE, builtin |-> FALSE, taint |-> taint]

\* init, its child and its grandchild; one identifier is free
Family == <<P(1, 0, 0, "init"), P(2, 1, 0, "sh"), P(3, 2, 1, "tool")>>
Masked == [Family EXCEPT ![3].comm = "sh"]
Upgraded == [Family EXCEPT ![3].deleted = TRUE]
Hiding(p) == [Family EXCEPT ![p].hidden = TRUE]

World0 == [proc |-> Family, thread |-> <<>>, fds |-> {}, mods |-> <<>>, locked |-> {}, garbled |-> {},
           me |-> 0, asked |-> {}]
NoThread == [t \in {} |-> 1]
Plain == [World0 EXCEPT !.thread = NoThread]

Tcp == Obj(1, "socket", "tcp")
Unix == Obj(2, "socket", "unix")
Packet == Obj(3, "socket", "packet")
Sockets == {D(2, 3, Tcp), D(3, 3, Tcp), D(3, 4, Unix), D(2, 4, Packet)}
Files == {D(3, 3, Obj(4, "file", "")), D(3, 4, Obj(5, "anon_inode", "")), D(2, 3, Obj(6, "directory", ""))}

\* /proc mounted with hidepid=1, seen by user 1: of the others only the names are shown
EntryFilesOf(starts) == starts \X {EntryFiles[k] : k \in DOMAIN EntryFiles}
HidePid == [Plain EXCEPT !.locked = EntryFilesOf({1, 2}), !.me = 1]
Cut == [Plain EXCEPT !.garbled = {<<2, "stat">>, <<2, "status">>}]
RootTarget == [Family EXCEPT ![3].uid = 0]

MCWorlds ==
  [processes |-> {Plain, HidePid, Cut},
   identity |-> {[Plain EXCEPT !.proc = f, !.me = u, !.asked = a] :
                   f \in {Family, Masked, Upgraded, RootTarget}, u \in {0, 1, 2},
                   a \in {{}, {"introspection"}, {"introspection", "environ"}}},
   handles |-> {[Plain EXCEPT !.fds = Files, !.me = u] : u \in {0, 2}},
   connections |-> {[Plain EXCEPT !.fds = Sockets, !.me = u] : u \in {0, 1}},
   connectivity |-> {[Plain EXCEPT !.fds = Sockets, !.me = u] : u \in {0, 1}},
   sweep |-> {Plain, [Plain EXCEPT !.thread = (4 :> 2)], [Plain EXCEPT !.proc = Hiding(2)],
              [Plain EXCEPT !.proc = Hiding(3)]},
   modules |-> {[Plain EXCEPT !.mods = ms, !.me = u] : u \in {0, 1}, ms \in {
     <<M(3, {"O", "E"}), M(2, {"P"}), M(1, {})>>,
     <<[M(2, {}) EXCEPT !.inProc = FALSE], M(1, {"F", "O"})>>,
     <<[M(2, {}) EXCEPT !.inSysfs = FALSE], [M(1, {}) EXCEPT !.builtin = TRUE, !.inProc = FALSE]>>,
     <<M(5, {}), M(4, {}), M(3, {}), M(2, {}), M(1, {})>>}}]

\* five modules, none of which hides from anything
HonestWorlds == [MCWorlds EXCEPT !.modules = {[Plain EXCEPT !.mods =
                   <<M(5, {}), M(4, {}), M(3, {}), M(2, {}), M(1, {})>>]},
                   !.processes = {}, !.identity = {}, !.handles = {}, !.connections = {},
                   !.connectivity = {}, !.sweep = {}]

MCUsers == 0 :> "root"
MCEnvironment == <<[key |-> "PATH", secret |-> FALSE, value |-> "bin"],
                   [key |-> "API_TOKEN", secret |-> TRUE, value |-> "t"],
                   [key |-> "DB_PASSWORD", secret |-> TRUE, value |-> "p"]>>
MCNewObjects == {Obj(7, "socket", "tcp"), Obj(8, "pipe", "")}
MCGuards == [processes |-> {<<3, {EntryFiles[k] : k \in DOMAIN EntryFiles}>>, <<2, {"status"}>>},
             identity |-> {<<Target, {"stat", "exe", "status"}>>}]
MCGarbles == [processes |-> {<<2, {"cmdline"}>>, <<3, {"stat", "status"}>>},
              identity |-> {<<Target, {"stat", "status"}>>, <<Target, {"cmdline"}>>}]
MCNewModules == {M(6, {"P"})}
=============================================================================

---------------------------- MODULE LinuxCollector ----------------------------
(* LinuxCollector (src/memslicer/acquirer/collectors/linux.py) on a running      *)
(* machine: one call of one of its collectors, each file it opens a step of its *)
(* own, the machine of LinuxKernel free to change in between.  Nothing in the   *)
(* code holds the machine still, and no file is read twice to see whether it    *)
(* moved; the properties say what the tables are worth all the same.            *)
(*                                                                              *)
(* What a file says of a process is abstracted to whose it is: a reader keeps   *)
(* the state of the process that answered, or Gone, the zeros and blanks the    *)
(* readers return for a file that is not there or may not be read.  Files are   *)
(* read as UTF-8, and a reader that expects only OSError lets the error of one   *)
(* that is not out of the whole call: that call has no result ("raised").        *)
EXTENDS LinuxKernel

CONSTANTS
  Worlds,      \* per call, the machines it may find
  Target,      \* the identifier of the acquired process
  Users,       \* /etc/passwd: a function from some uids to names
  Environment, \* the target's environment: a sequence of [key, secret, value]
  MaxHops,     \* the length _walk_parent_chain allows
  Cap,         \* how far _sweep_hidden_pids goes
  MaxLines,    \* how many lines of /proc/modules one read(2) returns
  NewObjects,  \* what processes open meanwhile
  NewModules,  \* the modules loaded meanwhile
  Guards,      \* per call, the <<identifier, files>> that close and open meanwhile
  Garbles      \* per call, the <<identifier, files>> that stop being text meanwhile

VARIABLES
  op,      \* the call
  asked,   \* what collect_process_identity is to include
  me,      \* the uid the collector runs with
  pc,      \* where the call is
  todo,    \* what its loop still has to go through
  links,   \* the descriptors of the process at hand still to be looked at
  got,     \* its local variables: what the files read so far gave
  table,   \* the rows it returns
  failed,  \* whether a listing or an open of its own failed
  began    \* history: the machine as the call began

vars == <<kernel, op, asked, me, pc, todo, links, got, table, failed, began>>
call == <<op, asked, me, began>>

Gone == [pid |-> 0, start |-> 0, ppid |-> 0, uid |-> 0, exe |-> "", comm |-> "",
         deleted |-> FALSE, hidden |-> FALSE]
Private == {"exe", "attr", "ns", "smaps_rollup", "maps", "cwd", "root", "io", "personality", "environ"}

Calls == {"processes", "identity", "handles", "connections", "connectivity", "sweep", "modules"}

(* one open and read of /proc/<p>/<f>, or a readlink of it: whether the system      *)
(* lets it, whether what comes is UTF-8                                            *)
Opens(f, p) == Alive(p) /\ <<proc[p].start, f>> \notin locked /\ (f \in Private => MayOpen(p, me))
Decodes(f, p) == <<proc[p].start, f>> \notin garbled
Read(f, p) == IF Opens(f, p) /\ Decodes(f, p) THEN Snapshot(p) ELSE Gone

(* the readers of the parent's stat, of the user and of the link are prepared for   *)
(* a ValueError too, which an error of decoding is; these are not                  *)
OSErrorOnly == [processes |-> {"cmdline"}, identity |-> {"cmdline", "status", "attr", "maps", "cgroup"}]
Raises(f, p) == Opens(f, p) /\ ~Decodes(f, p) /\ f \in OSErrorOnly[op]

FirstStep == [processes |-> "list", identity |-> "read", handles |-> "open", connections |-> "list",
              connectivity |-> "list", sweep |-> "list", modules |-> "modules"]

(* A call finds a machine in order, and what appears on it later is in order too.   *)
(* A secret that reads like its own redaction would not be seen to be one.          *)
ASSUME CollectorAssumption ==
  /\ \A name \in Calls : \A w \in Worlds[name] : IsWorld(w) /\ w.me \in Nat
  /\ Target \in Pids /\ Cap \in Nat /\ MaxHops \in Nat \ {0} /\ MaxLines \in Nat \ {0}
  /\ NewObjects \subseteq Object /\ NewModules \subseteq Module
  /\ \A name \in DOMAIN Guards : \A x \in Guards[name] : x[1] \in Pids
  /\ \A name \in DOMAIN Garbles : \A x \in Garbles[name] : x[1] \in Pids /\ x[2] \in Texts
  /\ \A k \in DOMAIN Environment : /\ Environment[k].secret \in BOOLEAN
                                   /\ Environment[k].secret => Environment[k].value # "<redacted>"

(* ------------------------------------------------------------ the process table *)
(* Mutant: stat is read last                                                      *)
EntryFilesStatLast == <<"cmdline", "status", "statm", "stat">>

EntryFiles == <<"stat", "cmdline", "status", "statm">>
UserOf(uid) == IF uid \in DOMAIN Users THEN Users[uid] ELSE ""
ProcessEntry(p, seen) ==
  [pid |-> p, ppid |-> seen["stat"].ppid, start_time |-> seen["stat"].start,
   is_target |-> p = Target, exe_name |-> seen["stat"].comm, cmd_line |-> seen["cmdline"].start,
   uid |-> seen["status"].uid, user |-> UserOf(seen["status"].uid), rss |-> seen["statm"].start]

ListFailed(where) ==
  /\ failed' = TRUE
  /\ pc' = where
  /\ UNCHANGED <<kernel, call, links, table>>

ListProcesses ==
  /\ op = "processes" /\ pc = "list"
  /\ todo' = Listed
  /\ pc' = "read"
  /\ UNCHANGED <<kernel, call, links, got, table, failed>>

FileAtHand == EntryFiles[Cardinality(DOMAIN got) + 1]
Seen == With(got, FileAtHand, Read(FileAtHand, Head(todo)))

(* Mutant: an entry that is gone ends the table                                   *)
SkipEntryStops ==
  /\ op = "processes" /\ pc = "read" /\ todo # <<>>
  /\ FileAtHand = "stat" /\ Seen["stat"] = Gone
  /\ todo' = <<>>
  /\ got' = <<>>
  /\ UNCHANGED <<kernel, call, pc, links, table, failed>>

(* a stat that cannot be read drops the entry, and only that entry               *)
SkipEntry ==
  /\ op = "processes" /\ pc = "read" /\ todo # <<>>
  /\ FileAtHand = "stat" /\ Seen["stat"] = Gone
  /\ todo' = Tail(todo)
  /\ got' = <<>>
  /\ UNCHANGED <<kernel, call, pc, links, table, failed>>

ReadEntryFile ==
  /\ op = "processes" /\ pc = "read" /\ todo # <<>>
  /\ FileAtHand = "stat" => Seen["stat"] # Gone
  /\ ~Raises(FileAtHand, Head(todo))
  /\ IF Cardinality(DOMAIN Seen) < Len(EntryFiles)
     THEN got' = Seen /\ UNCHANGED <<todo, table>>
     ELSE /\ got' = <<>>
          /\ todo' = Tail(todo)
          /\ table' = Append(table, ProcessEntry(Head(todo), Seen))
  /\ UNCHANGED <<kernel, call, pc, links, failed>>

EndOfTable ==
  /\ op \in {"processes", "sweep", "handles"} /\ pc = "read" /\ todo = <<>>
  /\ pc' = "done"
  /\ UNCHANGED <<kernel, call, todo, links, got, table, failed>>

(* -------------------------------------------------- identity and introspection *)
CredentialFiles == <<"status", "loginuid", "sessionid", "attr", "ns">>
MemoryFiles == <<"smaps_rollup", "maps">>
PlaceFiles == <<"cgroup", "cwd", "root", "io", "limits", "personality">>
IntrospectionFiles == CredentialFiles \o MemoryFiles \o PlaceFiles

(* Mutant: stat is read last                                                      *)
IdentityFilesStatLast == <<"exe", "cmdline", "stat">>

IdentityFiles == <<"stat", "exe", "cmdline">>
FilesAsked == IdentityFiles \o IF "introspection" \in asked THEN IntrospectionFiles ELSE <<>>

(* a file that may not be read leaves its fields blank and stops nothing          *)
ReadIdentityFile ==
  /\ op = "identity" /\ pc = "read" /\ todo # <<>>
  /\ ~Raises(Head(todo), Target)
  /\ got' = With(got, Head(todo), Read(Head(todo), Target))
  /\ todo' = Tail(todo)
  /\ pc' = IF Len(todo) > 1 THEN "read"
           ELSE IF "introspection" \in asked THEN "chain" ELSE "done"
  /\ UNCHANGED <<kernel, call, links, table, failed>>

(* _walk_parent_chain: table holds the hops; each is a stat, then the exe        *)
NextHop == IF table = <<>> THEN Target ELSE table[Len(table)].ppid
ChainEndsWith(hop) == hop.pid = Init1 \/ hop.ppid = 0 \/ hop.ppid = hop.pid

(* Mutant: a parent that is gone is taken for reparented to init                  *)
ParentFallsBackToInit ==
  /\ op = "identity" /\ pc = "chain"
  /\ LET p == IF Alive(NextHop) THEN NextHop ELSE Init1
     IN got' = With(got, "hop", Read("stat", p))
  /\ pc' = IF got'["hop"] = Gone THEN "comm" ELSE "name"
  /\ UNCHANGED <<kernel, call, todo, links, table, failed>>

ReadParentStat ==
  /\ op = "identity" /\ pc = "chain"
  /\ got' = With(got, "hop", Read("stat", NextHop))
  /\ pc' = IF got'["hop"] = Gone THEN "comm" ELSE "name"
  /\ UNCHANGED <<kernel, call, todo, links, table, failed>>

ReadParentExe ==
  /\ op = "identity" /\ pc = "name"
  /\ LET hop == got["hop"]
         exe == Read("exe", hop.pid)
     IN /\ table' = Append(table, [pid |-> hop.pid, start |-> hop.start, ppid |-> hop.ppid,
                                   name |-> IF exe = Gone THEN hop.comm ELSE exe.exe])
        /\ pc' = IF ChainEndsWith(hop) \/ Len(table') = MaxHops THEN "comm" ELSE "chain"
  /\ UNCHANGED <<kernel, call, todo, links, got, failed>>

(* Mutant: the environment is read without being asked for                        *)
AfterMismatchAlways == "environ"

(* _detect_exe_comm_mismatch: a stat for the name, then the exe; a file that was  *)
(* replaced keeps its name once " (deleted)" is cut off                          *)
AfterMismatch == IF "environ" \in asked THEN "environ" ELSE "done"
ReadComm ==
  /\ op = "identity" /\ pc = "comm"
  /\ got' = With(got, "comm", Read("stat", Target))
  /\ pc' = "link"
  /\ UNCHANGED <<kernel, call, todo, links, table, failed>>

(* Mutant: " (deleted)" is taken for part of the name                             *)
DiffersUnstripped(stat, exe) == stat # Gone /\ exe # Gone /\ (exe.deleted \/ exe.exe # stat.comm)

Differs(stat, exe) == stat # Gone /\ exe # Gone /\ exe.exe # stat.comm
CompareWithExe ==
  /\ op = "identity" /\ pc = "link"
  /\ got' = With(got, "mismatch", Differs(got["comm"], Read("exe", Target)))
  /\ pc' = AfterMismatch
  /\ UNCHANGED <<kernel, call, todo, links, table, failed>>

(* redact_environ: a key named like a secret keeps its name and loses its value  *)
Redact == [sanitized |-> [k \in DOMAIN Environment |->
                            IF Environment[k].secret THEN "<redacted>" ELSE Environment[k].value],
           redacted |-> {Environment[k].key : k \in {k \in DOMAIN Environment : Environment[k].secret}}]
ReadEnviron ==
  /\ op = "identity" /\ pc = "environ"
  /\ got' = IF Read("environ", Target) = Gone THEN got ELSE With(got, "environ", Redact)
  /\ pc' = "done"
  /\ UNCHANGED <<kernel, call, todo, links, table, failed>>

(* ------------------------------------------------------------------- the handles *)
Numbers(ds) == Listing({d.fd : d \in ds})

OpenHandles ==
  /\ op = "handles" /\ pc = "open"
  /\ IF MayOpen(Target, me)
     THEN todo' = Numbers(DescriptorsOf(Target)) /\ UNCHANGED failed
     ELSE failed' = TRUE /\ UNCHANGED todo
  /\ pc' = "read"
  /\ UNCHANGED <<kernel, call, links, got, table>>

LinkOf(p, n) == {d \in DescriptorsOf(p) : d.fd = n /\ MayOpen(p, me)}

(* _classify_handle: by the shape of the link's text; what is none of the named   *)
(* kinds, an anonymous inode for one, is called a file                            *)
ClassifyHandle(obj) == IF obj.kind \in {"socket", "pipe", "device", "directory"} THEN obj.kind ELSE "file"
HandleEntry(n) ==
  IF LinkOf(Target, n) = {} THEN [fd |-> n, type |-> "unknown", path |-> 0]
  ELSE LET obj == (CHOOSE d \in LinkOf(Target, n) : TRUE).obj
       IN [fd |-> n, type |-> ClassifyHandle(obj), path |-> obj.id]

(* Mutant: a descriptor that is gone ends the table                               *)
ReadHandleStops ==
  /\ op = "handles" /\ pc = "read" /\ todo # <<>>
  /\ table' = Append(table, HandleEntry(Head(todo)))
  /\ todo' = IF LinkOf(Target, Head(todo)) = {} THEN <<>> ELSE Tail(todo)
  /\ UNCHANGED <<kernel, call, pc, links, got, failed>>

ReadHandle ==
  /\ op = "handles" /\ pc = "read" /\ todo # <<>>
  /\ table' = Append(table, HandleEntry(Head(todo)))
  /\ todo' = Tail(todo)
  /\ UNCHANGED <<kernel, call, pc, links, got, failed>>

(* ------------------------------------------ the connections and who holds them *)
Networked == {"connections", "connectivity"}
NetFiles == IF op = "connections" THEN <<"tcp", "unix">> ELSE <<"packet">>

ListHolders ==
  /\ op \in Networked /\ pc = "list"
  /\ todo' = Listed
  /\ pc' = "dir"
  /\ UNCHANGED <<kernel, call, links, got, table, failed>>

(* Mutant: a process that may not be read ends the walk                           *)
ListDescriptorsStops ==
  /\ op \in Networked /\ pc = "dir" /\ todo # <<>>
  /\ IF MayOpen(Head(todo), me)
     THEN /\ links' = Numbers(DescriptorsOf(Head(todo)))
          /\ pc' = "link"
          /\ UNCHANGED todo
     ELSE todo' = <<>> /\ UNCHANGED <<links, pc>>
  /\ UNCHANGED <<kernel, call, got, table, failed>>

(* the descriptors of the next process; those of other users stay closed to all   *)
(* but root                                                                       *)
ListDescriptors ==
  /\ op \in Networked /\ pc = "dir" /\ todo # <<>>
  /\ IF MayOpen(Head(todo), me)
     THEN /\ links' = Numbers(DescriptorsOf(Head(todo)))
          /\ pc' = "link"
          /\ UNCHANGED todo
     ELSE todo' = Tail(todo) /\ UNCHANGED <<links, pc>>
  /\ UNCHANGED <<kernel, call, got, table, failed>>

(* _try_map_socket_inode: of several holders the last one looked at stays          *)
MapsTo(p, obj) == With(got, obj.id, p)
MapLink ==
  /\ op \in Networked /\ pc = "link"
  /\ IF links = <<>>
     THEN /\ todo' = Tail(todo)
          /\ pc' = "dir"
          /\ UNCHANGED <<links, got>>
     ELSE /\ links' = Tail(links)
          /\ got' = LET p == Head(todo)
                        sockets == {d \in LinkOf(p, Head(links)) : d.obj.kind = "socket"}
                    IN IF sockets = {} THEN got ELSE MapsTo(p, (CHOOSE d \in sockets : TRUE).obj)
          /\ UNCHANGED <<todo, pc>>
  /\ UNCHANGED <<kernel, call, table, failed>>

ToNetFiles ==
  /\ op \in Networked /\ pc = "dir" /\ todo = <<>>
  /\ todo' = NetFiles
  /\ pc' = "net"
  /\ UNCHANGED <<kernel, call, links, got, table, failed>>

(* the sockets a file of /proc/net lists, as a sequence                           *)
InFile(f) == Listing({d.obj.id : d \in {d \in fds : d.obj.kind = "socket" /\ d.obj.net = f}})

(* Mutant: a socket nobody holds is the target's                                  *)
PidOfInodeOrTarget(inode) == IF inode \in DOMAIN got THEN got[inode] ELSE Target

PidOfInode(inode) == IF inode \in DOMAIN got THEN got[inode] ELSE 0
ParseNetFile(f) == [k \in DOMAIN InFile(f) |-> [pid |-> PidOfInode(InFile(f)[k]), inode |-> InFile(f)[k]]]

ReadNetFile ==
  /\ op \in Networked /\ pc = "net"
  /\ table' = table \o ParseNetFile(Head(todo))
  /\ todo' = Tail(todo)
  /\ pc' = IF Len(todo) = 1 THEN "done" ELSE "net"
  /\ UNCHANGED <<kernel, call, links, got, failed>>

(* a file that may not be read has no rows                                         *)
SkipNetFile ==
  /\ op \in Networked /\ pc = "net"
  /\ failed' = TRUE
  /\ todo' = Tail(todo)
  /\ pc' = IF Len(todo) = 1 THEN "done" ELSE "net"
  /\ UNCHANGED <<kernel, call, links, got, table>>

(* ------------------------------------------------- a file that is not UTF-8 text *)
(* The error leaves the call, and what was collected is lost with it: one command  *)
(* line, or the path one unix socket is bound to, costs the whole table.           *)
NotText ==
  /\ \/ op = "processes" /\ pc = "read" /\ todo # <<>> /\ Raises(FileAtHand, Head(todo))
     \/ op = "identity" /\ pc = "read" /\ todo # <<>> /\ Raises(Head(todo), Target)
     \/ op \in Networked /\ pc = "net" /\ Head(todo) = "unix"
  /\ pc' = "raised"
  /\ todo' = <<>> /\ got' = <<>> /\ table' = <<>>
  /\ UNCHANGED <<kernel, call, links, failed>>

(* ---------------------------------------------------------- the hidden processes *)
(* Mutant: the range ends one number early                                        *)
UpperExclusive == (IF MaxPid < Cap THEN MaxPid ELSE Cap) - 1

Upper == IF MaxPid < Cap THEN MaxPid ELSE Cap

(* the processes /proc lists, then kill(pid, 0) for every other number            *)
ListVisible ==
  /\ op = "sweep" /\ pc = "list"
  /\ got' = [visible |-> Visible]
  /\ todo' = [n \in 1 .. Upper |-> n]
  /\ pc' = "read"
  /\ UNCHANGED <<kernel, call, links, table, failed>>

(* Mutant: an error of kill counts as a process                                   *)
AnswersAnyError(p) == TRUE

Answers(p) == KillFinds(p)
ProbePid ==
  /\ op = "sweep" /\ pc = "read" /\ todo # <<>>
  /\ table' = IF Head(todo) \notin got.visible /\ Answers(Head(todo)) THEN Append(table, Head(todo)) ELSE table
  /\ todo' = Tail(todo)
  /\ UNCHANGED <<kernel, call, pc, links, got, failed>>

(* ------------------------------------------------------------- the kernel modules *)
TaintBit == [P |-> 0, F |-> 1, O |-> 12, E |-> 13]
(* the mask is cut to eight bits                                                   *)
ParseTaintLetters(taint) == {t \in taint : TaintBit[t] < 8}

(* the address is the last word of a line, unless the taint follows it, and is     *)
(* shown to root only                                                              *)
BaseOf(m) == IF m.taint = {} /\ me = 0 THEN m.name ELSE 0
FirstLines(lines) == SubSeq(lines, 1, IF Len(lines) < MaxLines THEN Len(lines) ELSE MaxLines)
(* the elements of the sequence s that are in T, in their order                    *)
Kept(s, T) ==
  LET kept[n \in 0 .. Len(s)] ==
        IF n = 0 THEN <<>> ELSE IF s[n] \in T THEN Append(kept[n - 1], s[n]) ELSE kept[n - 1]
  IN kept[Len(s)]

InProcModules == {m \in Module : m.inProc /\ ~m.builtin}
ModulesFile == FirstLines(Kept(mods, InProcModules))

ReadProcModules ==
  /\ op = "modules" /\ pc = "modules"
  /\ got' = [lines |-> [k \in DOMAIN ModulesFile |-> [name |-> ModulesFile[k].name,
                                                      base |-> BaseOf(ModulesFile[k])]],
             sysfs |-> <<>>]
  /\ pc' = "list"
  /\ UNCHANGED <<kernel, call, todo, links, table, failed>>

InSysfs == {m \in {mods[k] : k \in DOMAIN mods} : m.inSysfs}
ListSysfs ==
  /\ op = "modules" /\ pc = "list"
  /\ todo' = Listing({m.name : m \in InSysfs})
  /\ pc' = "taint"
  /\ UNCHANGED <<kernel, call, links, got, table, failed>>

(* a module whose taint file is gone is kept, untainted                            *)
ReadTaint ==
  /\ op = "modules" /\ pc = "taint" /\ todo # <<>>
  /\ LET taint == UNION {m.taint : m \in {m \in InSysfs : m.name = Head(todo)}}
     IN got' = [got EXCEPT !.sysfs = With(got.sysfs, Head(todo), ParseTaintLetters(taint))]
  /\ todo' = Tail(todo)
  /\ UNCHANGED <<kernel, call, pc, links, table, failed>>

(* Mutant: what has no taint counts as missing from sysfs                         *)
FlagIfUntainted(name) == IF name \in DOMAIN got.sysfs /\ got.sysfs[name] # {} THEN 0 ELSE 1

ProcFlag(name) == IF name \in DOMAIN got.sysfs THEN 0 ELSE 1
TaintOf(name) == IF name \in DOMAIN got.sysfs THEN got.sysfs[name] ELSE {}

ProcRows == [k \in DOMAIN got.lines |->
  [name |-> got.lines[k].name, base |-> got.lines[k].base,
   taint |-> TaintOf(got.lines[k].name), flags |-> ProcFlag(got.lines[k].name)]]

(* Mutant: only modules with a taint are looked for                               *)
TaintedSysfsOnly == Listing({n \in DOMAIN got.sysfs :
  /\ got.sysfs[n] # {}
  /\ \A k \in DOMAIN got.lines : got.lines[k].name # n})

SysfsOnly == Listing({n \in DOMAIN got.sysfs : \A k \in DOMAIN got.lines : got.lines[k].name # n})
SysfsRows == [k \in DOMAIN SysfsOnly |->
  [name |-> SysfsOnly[k], base |-> 0, taint |-> got.sysfs[SysfsOnly[k]], flags |-> 2]]

BuildModuleList ==
  /\ op = "modules" /\ pc = "taint" /\ todo = <<>>
  /\ table' = ProcRows \o SysfsRows
  /\ pc' = "done"
  /\ UNCHANGED <<kernel, call, todo, links, got, failed>>

(* -------------------------------------------------- a listing or an open that fails *)
(* /proc: no rows, or a map without holders; /proc/modules: no lines; /sys/module: *)
(* no names                                                                        *)
ListingFails ==
  \/ /\ op \in {"processes", "sweep"} /\ pc = "list"
     /\ ListFailed("done") /\ UNCHANGED <<todo, got>>
  \/ /\ op \in Networked /\ pc = "list"
     /\ ListFailed("dir") /\ UNCHANGED <<todo, got>>
  \/ /\ op = "modules" /\ pc = "modules"
     /\ ListFailed("list") /\ got' = [lines |-> <<>>, sysfs |-> <<>>] /\ UNCHANGED todo
  \/ /\ op = "modules" /\ pc = "list"
     /\ ListFailed("taint") /\ UNCHANGED <<todo, got>>

(* ------------------------------------------------------------------- specification *)
Init ==
  /\ op \in Calls
  /\ \E w \in Worlds[op] : World(w) /\ me = w.me /\ asked = w.asked
  /\ pc = FirstStep[op]
  /\ todo = IF op = "identity" THEN FilesAsked ELSE <<>>
  /\ links = <<>> /\ got = <<>> /\ table = <<>>
  /\ failed = FALSE
  /\ began = [proc |-> proc, thread |-> thread, fds |-> fds, mods |-> mods]

(* the events a call can notice                                                    *)
MachineChanges ==
  /\ pc \notin {"done", "raised"}
  /\ UNCHANGED <<call, pc, todo, links, got, table, failed>>
  /\ \/ op # "modules" /\ \E p, q \in Pids : Fork(p, q)
     \/ op # "modules" /\ \E p \in Pids : Exit(p)
     \/ op \in {"processes", "identity"} /\ \E p \in Pids : DropRoot(p, 1)
     \/ op \in DOMAIN Guards /\ \E x \in Guards[op] : Guard(x[1], x[2])
     \/ op \in DOMAIN Garbles /\ \E x \in Garbles[op] : Garble(x[1], x[2])
     \/ op = "identity" /\ \E p \in Pids, e \in Programs : Exec(p, e)
     \/ op = "identity" /\ Unlink(Target)
     \/ op = "sweep" /\ \E p, t \in Pids : NewThread(p, t)
     \/ op \in Networked \cup {"handles"} /\ \E p \in Pids, n \in 3 .. 4, o \in NewObjects : Open(p, n, o)
     \/ op \in Networked \cup {"handles"} /\ \E d \in fds : Close(d)
     \/ op = "modules" /\ \E m \in NewModules : Load(m)
     \/ op = "modules" /\ \E k \in DOMAIN mods : Unload(mods[k].name)

Collect ==
  \/ ListProcesses \/ SkipEntry \/ ReadEntryFile \/ EndOfTable
  \/ ReadIdentityFile \/ ReadParentStat \/ ReadParentExe \/ ReadComm \/ CompareWithExe \/ ReadEnviron
  \/ OpenHandles \/ ReadHandle
  \/ ListHolders \/ ListDescriptors \/ MapLink \/ ToNetFiles \/ ReadNetFile
  \/ SkipNetFile \/ NotText
  \/ ListVisible \/ ProbePid
  \/ ReadProcModules \/ ListSysfs \/ ReadTaint \/ BuildModuleList
  \/ ListingFails

Next == Collect \/ MachineChanges
Spec == Init /\ [][Next]_vars

(* ---------------------------------------------------------------------- properties *)
Done(name) == op = name /\ pc = "done"
Rows == {table[k] : k \in DOMAIN table}
Was(p, start) == {s \in lived : s.pid = p /\ s.start = start}

(* alive from the call's beginning to now                                            *)
Lasting == {p \in DOMAIN began.proc : Same(p, began.proc[p].start)}
(* the file was closed or was no text at some time while the process ran             *)
Troubled(f, start) == <<start, f>> \in troubled
Stayed(d) == d \in began.fds /\ d \in fds /\ d.pid \in Lasting

TypeOK ==
  /\ DOMAIN proc \subseteq Pids /\ \A p \in DOMAIN proc : proc[p] \in Process
  /\ DOMAIN thread \subseteq Pids \ DOMAIN proc
  /\ \A k \in DOMAIN mods : mods[k] \in Module
  /\ op \in Calls /\ me \in Nat /\ failed \in BOOLEAN
  /\ pc \in {"list", "read", "chain", "name", "comm", "link", "environ", "open", "dir", "net",
             "modules", "taint", "done", "raised"}
  /\ op = "identity" => Len(table) <= MaxHops /\ \A k \in DOMAIN table : table[k].pid \in Pids

(* A process reads like itself: a row begins with the start time of a process that    *)
(* had the identifier, and if that process still runs when the table is complete,     *)
(* the command line, the user and the memory beside it are its own or blank, blank    *)
(* only where the file was closed or was no text for a time; a blank user reads as    *)
(* root.  Identifiers are given out again, so this rests on stat being read first     *)
(* (_read_process_entry).                                                             *)
RowsOfTheLiving ==
  Done("processes") => \A r \in Rows :
    /\ \E s \in Was(r.pid, r.start_time) : s.ppid = r.ppid
    /\ Same(r.pid, r.start_time) =>
         /\ r.cmd_line = r.start_time \/ (r.cmd_line = 0 /\ Troubled("cmdline", r.start_time))
         /\ r.rss = r.start_time \/ (r.rss = 0 /\ Troubled("statm", r.start_time))
         /\ \/ \E s \in Was(r.pid, r.start_time) : s.uid = r.uid
            \/ r.uid = 0 /\ Troubled("status", r.start_time)

(* Others that end, or that may not be read, do not take a process with them: when the *)
(* call returns, one that /proc lists from its beginning to its end and whose stat     *)
(* could be read all along has one row, whatever ends or starts during the walk        *)
(* (collect_process_table).                                                            *)
NobodyIsMissed ==
  Done("processes") /\ ~failed => \A p \in Lasting :
    ~proc[p].hidden /\ ~Troubled("stat", proc[p].start) =>
      Cardinality({k \in DOMAIN table : table[k].pid = p /\ table[k].start_time = proc[p].start}) = 1

(* What is collected of the target is of one process if the one whose start time was   *)
(* taken still runs: no field is of an earlier owner of the identifier                 *)
(* (collect_process_identity, _populate_target_introspection).                         *)
IdentityIsOfOne ==
  Done("identity") /\ got["stat"] # Gone /\ Same(Target, got["stat"].start) =>
    \A k \in DOMAIN FilesAsked : got[FilesAsked[k]] \in {Gone} \cup Was(Target, got["stat"].start)

(* An ancestry is read hop by hop while processes end and identifiers are given out    *)
(* again.  Where a hop is older than the one before it, it was its parent; a younger   *)
(* one is what a reader has to distrust (_walk_parent_chain).                          *)
OlderHopsAreParents ==
  op = "identity" => \A k \in 1 .. Len(table) - 1 :
    table[k + 1].start < table[k].start =>
      [child |-> <<table[k].pid, table[k].start>>,
       parent |-> <<table[k + 1].pid, table[k + 1].start>>] \in parents

(* The masquerade marker: a process that goes by another name than its program's all   *)
(* along is flagged when its stat and its link can be read, and one that never does is *)
(* not, even if its file is replaced; only an exec or a new owner between the two       *)
(* reads can mislead it (_detect_exe_comm_mismatch).                                   *)
MismatchIsHonest ==
  op = "identity" /\ "mismatch" \in DOMAIN got =>
    LET states == {s \in lived : s.pid = Target}
        oneProgram == \A s, t \in states : s.exe = t.exe /\ s.comm = t.comm
        readable == /\ Target \in Lasting /\ me \in {0, began.proc[Target].uid}
                    /\ \A f \in {"stat", "exe"} : ~Troubled(f, proc[Target].start)
    IN oneProgram => /\ got["mismatch"] => \E s \in states : s.exe # s.comm
                     /\ ~got["mismatch"] /\ readable => \E s \in states : s.exe = s.comm

(* The environment is collected only when it was asked for and could be read, and then *)
(* no value of a key named like a secret is in it, while the key is listed             *)
(* (collect_process_identity, redact_environ).                                         *)
EnvironIsRedacted ==
  op = "identity" /\ "environ" \in DOMAIN got =>
    /\ "environ" \in asked
    /\ \A k \in DOMAIN Environment : Environment[k].secret =>
         /\ got["environ"].sanitized[k] # Environment[k].value
         /\ Environment[k].key \in got["environ"].redacted

(* A descriptor open from beginning to end is in the handle table as what it is, though *)
(* others are closed and opened under the walk; a row that names something was open    *)
(* at some time (collect_handle_table).                                                *)
HandlesAreTrue ==
  Done("handles") =>
    /\ \A r \in Rows : r.type # "unknown" =>
         \E d \in held : d.pid = Target /\ d.fd = r.fd /\ d.obj.id = r.path /\ ClassifyHandle(d.obj) = r.type
    /\ MayOpen(Target, me) /\ ~failed => \A d \in DescriptorsOf(Target) : Stayed(d) =>
         \E r \in Rows : r.fd = d.fd /\ r.path = d.obj.id /\ r.type = ClassifyHandle(d.obj)

(* A connection that names a process names one that held the socket at some time: the  *)
(* map is read before the files, descriptors are closed and passed on in between       *)
(* (_build_inode_pid_map, _parse_net_file).                                            *)
HoldersAreReal ==
  op \in Networked => \A r \in Rows : r.pid # 0 =>
    \E d \in held : d.pid = r.pid /\ d.obj.kind = "socket" /\ d.obj.id = r.inode

(* A socket that one readable process holds throughout, and no other ever, is listed    *)
(* and is that process'.                                                                *)
LoneHolderIsNamed ==
  op \in Networked /\ pc = "done" /\ ~failed => \A d \in fds :
    /\ Stayed(d) /\ d.obj.kind = "socket" /\ \E k \in DOMAIN NetFiles : NetFiles[k] = d.obj.net
    /\ me \in {0, began.proc[d.pid].uid} /\ ~proc[d.pid].hidden
    /\ \A h \in held : h.obj = d.obj => h.pid = d.pid
    => \E r \in Rows : r.inode = d.obj.id /\ r.pid = d.pid

(* The count of hidden processes counts nothing else than numbers in use that /proc     *)
(* did not list: a process that hides, one that came after the listing, or a thread     *)
(* (_sweep_hidden_pids).                                                                *)
CountIsExplained ==
  op = "sweep" => \A k \in DOMAIN table :
    \/ \E s \in lived : s.pid = table[k] /\ s.hidden
    \/ table[k] \in threaded
    \/ \E s \in lived : s.pid = table[k] /\ ~ \E b \in DOMAIN began.proc : began.proc[b].start = s.start

(* A process that hides from the listing all along, within the range that is swept, is  *)
(* counted.                                                                             *)
HidingIsCounted ==
  Done("sweep") /\ ~failed => \A p \in Lasting :
    proc[p].hidden /\ p <= Cap => \E k \in DOMAIN table : table[k] = p

(* A flag on a module has a reason: it hides, it is built in, it came or went during    *)
(* the two listings, the one read was full, or a listing failed       *)
(* (_build_kernel_module_list).                                                         *)
FlagsAreExplained ==
  Done("modules") => \A r \in Rows :
    r.flags # 0 =>
      \/ failed \/ r.name \in touched
      \/ r.flags = 2 /\ Len(got.lines) = MaxLines
      \/ \E k \in DOMAIN mods :
           /\ mods[k].name = r.name
           /\ \/ r.flags = 1 /\ ~mods[k].inSysfs
              \/ r.flags = 2 /\ (mods[k].builtin \/ ~mods[k].inProc)

(* A module that stays loaded and hides from one of the two is flagged for the one it   *)
(* hides from, as long as the other shows it.                                           *)
HidingIsFlagged ==
  Done("modules") /\ ~failed => \A k \in DOMAIN mods :
    LET m == mods[k]
    IN m.name \notin touched /\ ~m.builtin =>
         /\ m.inSysfs /\ ~m.inProc => \E r \in Rows : r.name = m.name /\ r.flags = 2
         /\ m.inProc /\ ~m.inSysfs /\ Len(got.lines) < MaxLines =>
              \E r \in Rows : r.name = m.name /\ r.flags = 1

(* The process table has every process that was there throughout, and of each only    *)
(* what is its own (collect_process_table).                                            *)
ProcessTableIsTrue == TypeOK /\ RowsOfTheLiving /\ NobodyIsMissed

(* The target is described by its own files, its masquerade is told both ways, and its *)
(* secrets stay out (collect_process_identity, _populate_target_introspection).        *)
TargetIsDescribed == IdentityIsOfOne /\ MismatchIsHonest /\ EnvironIsRedacted

(* What is said of descriptors was so: handles of the target, holders of sockets, and  *)
(* those that lasted are not missed (collect_handle_table, collect_connection_table).  *)
DescriptorsAreTrue == HandlesAreTrue /\ HoldersAreReal /\ LoneHolderIsNamed

(* The hidden-process sweep counts what hides, and what else it counts is known        *)
(* (_sweep_hidden_pids).                                                               *)
HiddenCountIsTrue == CountIsExplained /\ HidingIsCounted

(* The flags of the module list: a module that hides has one, and one that has one has *)
(* a known reason (_build_kernel_module_list).                                         *)
ModuleFlagsAreTrue == FlagsAreExplained /\ HidingIsFlagged

(* What the docstring of _build_kernel_module_list says of the second flag: the module  *)
(* is hiding from /proc/modules.                                                        *)
SysfsOnlyIsHiding ==
  Done("modules") => \A r \in Rows :
    r.flags = 2 => \E k \in DOMAIN began.mods : began.mods[k].name = r.name /\ ~began.mods[k].inProc
=============================================================================

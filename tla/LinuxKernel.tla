----------------------------- MODULE LinuxKernel -----------------------------
(* What the Linux collector (src/memslicer/acquirer/collectors/linux.py) looks   *)
(* at while it works: the processes, threads, open files and modules of a       *)
(* machine that does not stand still.  None of it is the program's; it is       *)
(* modelled from what the files under /proc and /sys give the code that reads   *)
(* them.  Every event may fall between two reads of the collector, and          *)
(* MaxEvents bounds how many do.                                                *)
(*                                                                              *)
(* The last six variables are history: they remember what was ever true, so     *)
(* that a table can be compared with the times its rows were read.              *)
EXTENDS Naturals, Sequences, FiniteSets

CONSTANTS
  MaxPid,      \* identifiers run from 1 (init) to MaxPid
  Programs,    \* what a process may execute
  MaxEvents    \* how often the machine changes during one call

ASSUME KernelAssumption == MaxPid \in Nat \ {0} /\ MaxEvents \in Nat

VARIABLES
  proc,    \* the live processes: identifier -> Process
  thread,  \* the further threads: identifier -> identifier of their process
  fds,     \* the open descriptors: a set of [pid, fd, obj]
  mods,    \* the loaded modules, newest first, each a Module
  locked,  \* the files of processes that are closed to the collector: a set of <<start, file>>
  garbled, \* the files that show what is no UTF-8: a set of <<start, file>>
  clock,   \* when the next process starts
  events,  \* how often the machine has changed
  lived,   \* every state a process has been in: a set of Snapshots
  parents, \* who has been whose parent: a set of [child, parent], each <<identifier, start>>
  held,    \* every descriptor that has been open
  threaded, \* every identifier that has been a further thread's
  touched, \* the modules loaded or unloaded since the call began
  troubled \* every file that has been locked or garbled

kernel == <<proc, thread, fds, mods, locked, garbled, clock, events,
            lived, parents, held, threaded, touched, troubled>>
access == <<locked, garbled, troubled>>

Pids == 1 .. MaxPid
Init1 == 1

(* comm is the name the process gives itself; deleted: its program file is gone *)
Process == [start: Nat, ppid: Nat, uid: Nat, exe: Programs, comm: Programs,
            deleted: BOOLEAN, hidden: BOOLEAN]

(* inProc and inSysfs are FALSE for a module that hides from /proc/modules or    *)
(* from /sys/module; a built-in one never stands in /proc/modules                *)
Module == [name: Nat, inProc: BOOLEAN, inSysfs: BOOLEAN, builtin: BOOLEAN,
           taint: SUBSET {"P", "F", "O", "E"}]

(* an open file, socket or pipe; id is its inode                                 *)
Object == [id: Nat, kind: STRING, net: STRING]
Descriptor == [pid: Pids, fd: Nat, obj: Object]

(* the function f with v at x                                                    *)
With(f, x, v) == [y \in DOMAIN f \cup {x} |-> IF y = x THEN v ELSE f[y]]

(* what listdir returns of a directory: each name once, in the order readdir     *)
(* happens to give them                                                          *)
Listing(S) == CHOOSE s \in [1 .. Cardinality(S) -> S] : \A x \in S : \E k \in DOMAIN s : s[k] = x

Alive(p) == p \in DOMAIN proc
Same(p, start) == Alive(p) /\ proc[p].start = start
Snapshot(p) == [pid |-> p, start |-> proc[p].start, ppid |-> proc[p].ppid, uid |-> proc[p].uid,
                exe |-> proc[p].exe, comm |-> proc[p].comm,
                deleted |-> proc[p].deleted, hidden |-> proc[p].hidden]
Snapshots == {Snapshot(p) : p \in DOMAIN proc}
Born(p) == <<p, proc[p].start>>
Parenthood == {[child |-> Born(p), parent |-> Born(proc[p].ppid)] :
                 p \in {p \in DOMAIN proc : proc[p].ppid # 0}}
Taken == DOMAIN proc \cup DOMAIN thread

(* what /proc lists: the processes, never their further threads                  *)
Visible == {p \in DOMAIN proc : ~proc[p].hidden}
Listed == Listing(Visible)

(* what kill(2) finds: every identifier in use, a thread's as much as a process' *)
KillFinds(p) == p \in Taken

DescriptorsOf(p) == {d \in fds : d.pid = p}
(* /proc/<pid>/fd, exe, io and environ open for the owner and for root           *)
MayOpen(p, me) == Alive(p) /\ me \in {0, proc[p].uid}

(* what stands in a file as somebody wrote it: a name given by prctl or cut at     *)
(* fifteen bytes, arguments, a label, the paths of mapped files and of a cgroup    *)
Texts == {{"stat", "status"}, {"cmdline"}, {"attr"}, {"maps"}, {"cgroup"}}

ClockStart == 10  \* whatever runs when a call begins has started before

(* init runs and has no parent, every other process has one that runs, no two    *)
(* processes started at once, threads share the identifiers, a number is one     *)
(* descriptor of a process and an inode one object                               *)
IsWorld(w) ==
  /\ w.proc \in [DOMAIN w.proc -> Process] /\ DOMAIN w.proc \subseteq Pids
  /\ Init1 \in DOMAIN w.proc
  /\ \A p \in DOMAIN w.proc :
       /\ w.proc[p].start < ClockStart
       /\ w.proc[p].ppid \in DOMAIN w.proc \cup {0}
       /\ \A q \in DOMAIN w.proc : w.proc[p].start = w.proc[q].start => p = q
  /\ DOMAIN w.thread \subseteq Pids \ DOMAIN w.proc
  /\ w.thread \in [DOMAIN w.thread -> DOMAIN w.proc]
  /\ IsFiniteSet(w.fds) /\ w.fds \subseteq Descriptor
  /\ \A d, e \in w.fds : /\ d.pid \in DOMAIN w.proc
                         /\ d.pid = e.pid /\ d.fd = e.fd => d = e
                         /\ d.obj.id = e.obj.id => d.obj = e.obj
  /\ w.mods \in Seq(Module)
  /\ \A j, k \in DOMAIN w.mods : w.mods[j].name = w.mods[k].name => j = k

World(w) ==
  /\ proc = w.proc /\ thread = w.thread /\ fds = w.fds /\ mods = w.mods
  /\ locked = w.locked /\ garbled = w.garbled
  /\ clock = ClockStart
  /\ events = 0
  /\ lived = Snapshots
  /\ parents = Parenthood
  /\ held = fds
  /\ threaded = DOMAIN thread
  /\ touched = {}
  /\ troubled = locked \cup garbled

Stir == events < MaxEvents /\ events' = events + 1
Remember ==
  /\ lived' = lived \cup Snapshots'
  /\ parents' = parents \cup Parenthood'
  /\ held' = held \cup fds'

(* what is said of a file of the parent is so of the child's                     *)
Inherited(S, parent) == {<<clock, x[2]>> : x \in {x \in S : x[1] = proc[parent].start}}

(* a child takes any free identifier, one just given up included                 *)
Fork(parent, p) ==
  /\ Stir
  /\ Alive(parent) /\ p \notin Taken
  /\ proc' = With(proc, p, [proc[parent] EXCEPT !.start = clock, !.ppid = parent, !.hidden = FALSE])
  /\ fds' = fds \cup {[d EXCEPT !.pid = p] : d \in DescriptorsOf(parent)}
  /\ clock' = clock + 1
  /\ locked' = locked \cup Inherited(locked, parent)
  /\ garbled' = garbled \cup Inherited(garbled, parent)
  /\ troubled' = troubled \cup locked' \cup garbled'
  /\ Remember
  /\ UNCHANGED <<thread, mods, threaded, touched>>

(* the children of a process that ends become init's                             *)
Exit(p) ==
  /\ Stir
  /\ Alive(p) /\ p # Init1
  /\ proc' = [q \in DOMAIN proc \ {p} |->
                IF proc[q].ppid = p THEN [proc[q] EXCEPT !.ppid = Init1] ELSE proc[q]]
  /\ thread' = [t \in {t \in DOMAIN thread : thread[t] # p} |-> thread[t]]
  /\ fds' = fds \ DescriptorsOf(p)
  /\ Remember
  /\ UNCHANGED <<mods, clock, threaded, touched, access>>

NewThread(p, t) ==
  /\ Stir
  /\ Alive(p) /\ t \notin Taken
  /\ thread' = With(thread, t, p)
  /\ threaded' = threaded \cup {t}
  /\ UNCHANGED <<proc, fds, mods, clock, lived, parents, held, touched, access>>

(* one field of a live process changes: its program, its user, its file's link   *)
Becomes(p, new) ==
  /\ Stir
  /\ Alive(p) /\ proc[p] # new
  /\ proc' = [proc EXCEPT ![p] = new]
  /\ lived' = lived \cup Snapshots'
  /\ UNCHANGED <<thread, fds, mods, clock, parents, held, threaded, touched, access>>

Exec(p, e) == Alive(p) /\ Becomes(p, [proc[p] EXCEPT !.exe = e, !.comm = e, !.deleted = FALSE])
DropRoot(p, u) == Alive(p) /\ proc[p].uid = 0 /\ Becomes(p, [proc[p] EXCEPT !.uid = u])
Unlink(p) == Alive(p) /\ Becomes(p, [proc[p] EXCEPT !.deleted = TRUE])

(* Files of a process close and open again (it gives up being dumpable, a label    *)
(* changes, a read fails once); what one shows stops being text and is text again. *)
Toggled(S, p, files) ==
  LET own == {proc[p].start} \X files IN IF own \subseteq S THEN S \ own ELSE S \cup own

Guard(p, files) ==
  /\ Stir
  /\ Alive(p)
  /\ locked' = Toggled(locked, p, files)
  /\ troubled' = troubled \cup locked'
  /\ UNCHANGED <<proc, thread, fds, mods, garbled, clock, lived, parents, held, threaded, touched>>

Garble(p, files) ==
  /\ Stir
  /\ Alive(p)
  /\ garbled' = Toggled(garbled, p, files)
  /\ troubled' = troubled \cup garbled'
  /\ UNCHANGED <<proc, thread, fds, mods, locked, clock, lived, parents, held, threaded, touched>>

(* what is opened is new: no two sockets share an inode                          *)
Open(p, fd, obj) ==
  /\ Stir
  /\ Alive(p) /\ \A d \in DescriptorsOf(p) : d.fd # fd
  /\ \A d \in held : d.obj.id # obj.id
  /\ fds' = fds \cup {[pid |-> p, fd |-> fd, obj |-> obj]}
  /\ held' = held \cup fds'
  /\ UNCHANGED <<proc, thread, mods, clock, lived, parents, threaded, touched, access>>

Close(d) ==
  /\ Stir
  /\ d \in fds
  /\ fds' = fds \ {d}
  /\ UNCHANGED <<proc, thread, mods, clock, lived, parents, held, threaded, touched, access>>

Load(m) ==
  /\ Stir
  /\ \A k \in DOMAIN mods : mods[k].name # m.name
  /\ mods' = <<m>> \o mods
  /\ touched' = touched \cup {m.name}
  /\ UNCHANGED <<proc, thread, fds, clock, lived, parents, held, threaded, access>>

Unload(name) ==
  /\ Stir
  /\ \E k \in DOMAIN mods :
       /\ mods[k].name = name /\ ~mods[k].builtin
       /\ mods' = SubSeq(mods, 1, k - 1) \o SubSeq(mods, k + 1, Len(mods))
  /\ touched' = touched \cup {name}
  /\ UNCHANGED <<proc, thread, fds, clock, lived, parents, held, threaded, access>>
=============================================================================

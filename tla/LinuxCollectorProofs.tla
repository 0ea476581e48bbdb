-------------------------- MODULE LinuxCollectorProofs --------------------------
(***************************************************************************)
(* What the tables of the Linux collector are worth on a machine that does *)
(* not stand still: for any processes, descriptors and modules a call may  *)
(* find, any number of changes between any two of its reads, and any files *)
(* of a process or of its own that may not be read or are no UTF-8.        *)
(*                                                                         *)
(* Everything rests on two facts about the machine.  Its histories only    *)
(* grow, and an identifier is given out again only to a process that       *)
(* starts later than all that ever ran (Later): who still has the start    *)
(* time that was read is still the same process.                           *)
(***************************************************************************)
EXTENDS LinuxCollector, FiniteSetTheorems, SequenceTheorems, WellFoundedInduction, TLAPS

------------------------------------------------------------------------------
(* The machine                                                               *)

\* Every process has its parent among the running ones, and init runs.
ProcInv ==
  /\ clock \in Nat /\ me \in Nat
  /\ proc \in [DOMAIN proc -> Process] /\ DOMAIN proc \subseteq Pids
  /\ Init1 \in DOMAIN proc
  /\ \A p \in DOMAIN proc : proc[p].start < clock /\ proc[p].ppid \in DOMAIN proc \cup {0}
  /\ DOMAIN thread \subseteq Pids \ DOMAIN proc
  /\ DOMAIN thread \subseteq threaded

\* What may be read of a process.
States == [pid : Pids, start : Nat, ppid : Nat, uid : Nat, exe : Programs, comm : Programs,
           deleted : BOOLEAN, hidden : BOOLEAN]

\* The histories hold what is, and a start time is one process'.
HistoryInv ==
  /\ Snapshots \subseteq lived
  /\ Parenthood \subseteq parents
  /\ lived \subseteq States /\ \A s \in lived : s.start < clock
  /\ \A s, t \in lived : s.start = t.start => s.pid = t.pid

\* A number is one descriptor of a running process, an inode one object.
FdInv ==
  /\ IsFiniteSet(fds) /\ fds \subseteq held /\ held \subseteq Descriptor
  /\ \A d \in fds : d.pid \in DOMAIN proc
  /\ \A d, e \in fds : d.pid = e.pid /\ d.fd = e.fd => d = e
  /\ \A d, e \in held : d.obj.id = e.obj.id => d.obj = e.obj

\* A name is one loaded module.
ModInv ==
  /\ mods \in Seq(Module)
  /\ \A j, k \in DOMAIN mods : mods[j].name = mods[k].name => j = k

KernelInv == ProcInv /\ HistoryInv /\ FdInv /\ ModInv

\* What no change of the machine takes back: a process that runs afterwards ran
\* before, with the same parent's identifier unless that was init's, or starts now.
Later ==
  /\ lived \subseteq lived' /\ parents \subseteq parents' /\ held \subseteq held'
  /\ threaded \subseteq threaded' /\ touched \subseteq touched'
  /\ clock' \in Nat /\ clock <= clock'
  /\ \A p \in DOMAIN proc' :
       \/ /\ p \in DOMAIN proc
          /\ proc'[p].start = proc[p].start /\ proc'[p].hidden = proc[p].hidden
       \/ proc'[p].start = clock /\ p \notin DOMAIN proc /\ ~proc'[p].hidden
  /\ \A p, q \in DOMAIN proc' \ DOMAIN proc : p = q
  /\ \A d \in fds' : d \in fds \/ d \notin held \/ d.pid \notin DOMAIN proc

KernelStep ==
  \/ \E p, q \in Pids : Fork(p, q)
  \/ \E p \in Pids : Exit(p)
  \/ \E p \in Pids : DropRoot(p, 1)
  \/ \E p \in Pids, e \in Programs : Exec(p, e)
  \/ Unlink(Target)
  \/ \E p, t \in Pids : NewThread(p, t)
  \/ \E p \in Pids, n \in 3 .. 4, o \in NewObjects : Open(p, n, o)
  \/ \E d \in fds : Close(d)
  \/ \E m \in NewModules : Load(m)
  \/ \E k \in DOMAIN mods : Unload(mods[k].name)
  \/ \E p \in Pids : \E files : Guard(p, files) \/ Garble(p, files)

\* Identifiers are natural numbers, and none is 0.
LEMMA PidsNat == Pids \subseteq Nat /\ Init1 \in Pids /\ 0 \notin Pids
  BY KernelAssumption DEF Pids, Init1

\* What a file says of a running process is its own state.
LEMMA SnapshotFacts ==
    ASSUME NEW p
    PROVE  /\ Snapshot(p).pid = p /\ Snapshot(p).start = proc[p].start
           /\ Snapshot(p).ppid = proc[p].ppid /\ Snapshot(p).uid = proc[p].uid
           /\ Snapshot(p).exe = proc[p].exe /\ Snapshot(p).comm = proc[p].comm
           /\ Snapshot(p).hidden = proc[p].hidden /\ Snapshot(p).deleted = proc[p].deleted
  BY DEF Snapshot

\* A function with one value more or another one.
LEMMA WithFacts ==
    ASSUME NEW f, NEW x, NEW v
    PROVE  /\ DOMAIN With(f, x, v) = DOMAIN f \cup {x}
           /\ With(f, x, v)[x] = v
           /\ \A y \in DOMAIN f : y # x => With(f, x, v)[y] = f[y]
  BY DEF With

\* What a function from a finite set covers is finite.
LEMMA FiniteImage ==
    ASSUME NEW S, NEW T, IsFiniteSet(S), NEW f \in [S -> T], \A t \in T : \E x \in S : f[x] = t
    PROVE  IsFiniteSet(T)
<1>1. f \in Surjection(S, T)
  BY DEF Surjection
<1> QED BY <1>1, FS_Surjection

\* What a history remembers of a state in which every process is as old as before
\* or starts now.
LEMMA HistoryGrows ==
    ASSUME ProcInv, HistoryInv, ProcInv', Later,
           lived' = lived \cup Snapshots', Parenthood' \subseteq parents'
    PROVE  HistoryInv'
<1>1. Snapshots' \subseteq lived'
  OBVIOUS
<1>2. ASSUME NEW s \in Snapshots'
      PROVE  s \in States /\ \E p \in DOMAIN proc' : s.pid = p /\ s.start = proc'[p].start
  <2>1. PICK p \in DOMAIN proc' : s = Snapshot(p)'
    BY DEF Snapshots
  <2>2. proc'[p] \in Process /\ p \in Pids
    BY DEF ProcInv
  <2> QED BY <2>1, <2>2 DEF Snapshot, Process, States
<1>3. \A p \in DOMAIN proc' : p \in Pids /\ proc'[p].start \in Nat /\ proc'[p].start < clock'
  BY DEF ProcInv, Process
<1>4. lived' \subseteq States /\ \A s \in lived' : s.start < clock'
  <2>1. \A s \in lived : s.start \in Nat
    BY DEF HistoryInv, States
  <2> QED BY <1>2, <1>3, <2>1 DEF HistoryInv, Later, ProcInv
<1>5. ASSUME NEW s \in Snapshots' PROVE s.start = clock \/ \E t \in lived : t.start = s.start /\ t.pid = s.pid
  <2>1. PICK p \in DOMAIN proc' : s.pid = p /\ s.start = proc'[p].start
    BY <1>2
  <2>2. CASE p \in DOMAIN proc /\ proc'[p].start = proc[p].start
    <3>1. Snapshot(p) \in lived
      BY <2>2 DEF HistoryInv, Snapshots
    <3> QED BY <2>1, <2>2, <3>1, SnapshotFacts
  <2> QED BY <2>1, <2>2 DEF Later
<1>6. \A s \in lived : s.start # clock
  BY DEF HistoryInv, ProcInv, States
<1>7. ASSUME NEW s \in lived', NEW t \in lived', s.start = t.start PROVE s.pid = t.pid
  <2>1. CASE s.start # clock
    <3>1. \E u \in lived : u.start = s.start /\ u.pid = s.pid
      BY <1>5, <2>1
    <3>2. \E u \in lived : u.start = t.start /\ u.pid = t.pid
      BY <1>5, <1>7, <2>1
    <3> QED BY <1>7, <3>1, <3>2 DEF HistoryInv
  <2>2. CASE s.start = clock
    <3>1. s \in Snapshots' /\ t \in Snapshots'
      BY <1>6, <1>7, <2>2
    <3>2. PICK p \in DOMAIN proc' : s.pid = p /\ proc'[p].start = clock
      BY <1>2, <2>2, <3>1
    <3>3. PICK q \in DOMAIN proc' : t.pid = q /\ proc'[q].start = clock
      BY <1>2, <1>7, <2>2, <3>1
    <3>4. \A r \in DOMAIN proc : proc[r].start # clock
      BY DEF ProcInv, Process
    <3>5. p \notin DOMAIN proc /\ q \notin DOMAIN proc
      BY <3>2, <3>3, <3>4 DEF Later
    <3>6. p = q
      BY <3>2, <3>3, <3>5 DEF Later
    <3> QED BY <3>2, <3>3, <3>6
  <2> QED BY <2>1, <2>2
<1> QED BY <1>1, <1>4, <1>7 DEF HistoryInv

\* A child takes a free identifier and the latest start time.
LEMMA ForkKeeps ==
    ASSUME KernelInv, NEW a \in Pids, NEW p \in Pids, Fork(a, p), me' = me
    PROVE  KernelInv' /\ Later
<1> USE DEF KernelInv
<1> DEFINE new == [proc[a] EXCEPT !.start = clock, !.ppid = a, !.hidden = FALSE]
           copies == {[d EXCEPT !.pid = p] : d \in DescriptorsOf(a)}
<1>1. a \in DOMAIN proc /\ p \notin DOMAIN proc /\ p \notin DOMAIN thread
  BY DEF Fork, Alive, Taken
<1>2. proc[a] \in Process /\ clock \in Nat /\ a \in Nat
  BY <1>1, PidsNat DEF ProcInv
<1>3. new \in Process /\ new.start = clock /\ new.ppid = a /\ new.hidden = FALSE
  BY <1>2 DEF Process
<1>4. /\ proc' = With(proc, p, new) /\ clock' = clock + 1 /\ thread' = thread /\ mods' = mods
      /\ threaded' = threaded /\ touched' = touched /\ fds' = fds \cup copies
      /\ lived' = lived \cup Snapshots' /\ parents' = parents \cup Parenthood' /\ held' = held \cup fds'
  BY DEF Fork, Remember
<1> HIDE DEF new
<1>5. /\ DOMAIN proc' = DOMAIN proc \cup {p} /\ proc'[p] = new
      /\ \A q \in DOMAIN proc : proc'[q] = proc[q]
  BY <1>1, <1>4 DEF With
<1>6. ProcInv'
  <2>1. proc' \in [DOMAIN proc' -> Process]
    BY <1>3, <1>4, <1>5 DEF With, ProcInv
  <2>2. \A q \in DOMAIN proc' : proc'[q].start < clock' /\ proc'[q].ppid \in DOMAIN proc' \cup {0}
    <3>1. ASSUME NEW q \in DOMAIN proc PROVE proc'[q].start < clock' /\ proc'[q].ppid \in DOMAIN proc' \cup {0}
      <4>1. proc[q].start < clock /\ proc[q].ppid \in DOMAIN proc \cup {0} /\ proc[q].start \in Nat
        BY DEF ProcInv, Process
      <4> QED BY <1>2, <1>4, <1>5, <4>1
    <3> QED BY <1>1, <1>2, <1>3, <1>4, <1>5, <3>1
  <2> QED BY <1>1, <1>2, <1>4, <1>5, <2>1, <2>2 DEF ProcInv
<1>6a. \A e \in copies : e.pid = p
  <2>1. \A d \in fds : d \in Descriptor
    BY DEF FdInv
  <2> QED BY <2>1 DEF DescriptorsOf, Descriptor
<1>7. Later
  <2>1. held \subseteq held' /\ lived \subseteq lived' /\ parents \subseteq parents'
    BY <1>4
  <2>2. \A d \in fds' : d \in fds \/ d \notin held \/ d.pid \notin DOMAIN proc
    BY <1>1, <1>4, <1>6a
  <2> QED BY <1>1, <1>2, <1>3, <1>4, <1>5, <2>1, <2>2 DEF Later
<1>8. HistoryInv'
  BY <1>4, <1>6, <1>7, HistoryGrows
<1>9. FdInv'
  <2>1. IsFiniteSet(copies)
    <3>1. IsFiniteSet(DescriptorsOf(a))
      BY FS_Subset DEF FdInv, DescriptorsOf
    <3> DEFINE f == [d \in DescriptorsOf(a) |-> [d EXCEPT !.pid = p]]
    <3>2. f \in [DescriptorsOf(a) -> copies] /\ \A t \in copies : \E d \in DescriptorsOf(a) : f[d] = t
      OBVIOUS
    <3> HIDE DEF copies, f
    <3> QED BY <3>1, <3>2, FiniteImage
  <2>2. ASSUME NEW e \in copies
        PROVE  \E d \in fds : /\ d.pid = a /\ e.pid = p /\ e.fd = d.fd /\ e.obj = d.obj
                              /\ d \in Descriptor /\ e \in Descriptor
    <3>1. PICK d \in DescriptorsOf(a) : e = [d EXCEPT !.pid = p]
      OBVIOUS
    <3>2. d \in fds /\ d.pid = a /\ d \in Descriptor
      BY DEF DescriptorsOf, FdInv
    <3>3. e \in Descriptor /\ e.pid = p /\ e.fd = d.fd /\ e.obj = d.obj
      BY <3>1, <3>2 DEF Descriptor
    <3> QED BY <3>2, <3>3
  <2> HIDE DEF copies
  <2>3. IsFiniteSet(fds')
    BY <1>4, <2>1, FS_Union DEF FdInv
  <2>4. fds' \subseteq held' /\ held' \subseteq Descriptor
    BY <1>4, <2>2 DEF FdInv
  <2>5. \A d \in fds' : d.pid \in DOMAIN proc'
    BY <1>4, <1>5, <2>2 DEF FdInv
  <2>6. ASSUME NEW d \in fds', NEW e \in fds', d.pid = e.pid, d.fd = e.fd PROVE d = e
    <3>1. CASE d \in fds /\ e \in fds
      BY <2>6, <3>1 DEF FdInv
    <3>2. CASE d \in copies /\ e \in copies
      <4>1. PICK c \in fds : c.pid = a /\ d.fd = c.fd /\ d.obj = c.obj /\ d \in Descriptor
        BY <2>2, <3>2
      <4>2. PICK b \in fds : b.pid = a /\ e.fd = b.fd /\ e.obj = b.obj /\ e \in Descriptor
        BY <2>2, <3>2
      <4>3. c = b
        BY <2>6, <4>1, <4>2 DEF FdInv
      <4> QED BY <2>6, <4>1, <4>2, <4>3 DEF Descriptor
    <3>3. \A c \in copies : c.pid = p
      BY <2>2
    <3>4. \A c \in fds : c.pid # p
      BY <1>1 DEF FdInv
    <3> QED BY <1>4, <2>6, <3>1, <3>2, <3>3, <3>4
  <2>7. ASSUME NEW d \in held' PROVE \E c \in held : c.obj = d.obj
    BY <1>4, <2>2 DEF FdInv
  <2>8. \A d, e \in held' : d.obj.id = e.obj.id => d.obj = e.obj
    <3> SUFFICES ASSUME NEW d \in held', NEW e \in held', d.obj.id = e.obj.id PROVE d.obj = e.obj
      OBVIOUS
    <3>1. PICK c \in held : c.obj = d.obj
      BY <2>7
    <3>2. PICK b \in held : b.obj = e.obj
      BY <2>7
    <3> QED BY <3>1, <3>2 DEF FdInv
  <2> QED BY <2>3, <2>4, <2>5, <2>6, <2>8 DEF FdInv
<1>10. ModInv'
  BY <1>4 DEF ModInv
<1> QED BY <1>6, <1>7, <1>8, <1>9, <1>10

\* The children of a process that ends have init for a parent, which runs.
LEMMA ExitKeeps ==
    ASSUME KernelInv, NEW p \in Pids, Exit(p), me' = me
    PROVE  KernelInv' /\ Later
<1> USE DEF KernelInv
<1> DEFINE rest == DOMAIN proc \ {p}
           after(q) == IF proc[q].ppid = p THEN [proc[q] EXCEPT !.ppid = Init1] ELSE proc[q]
<1>1. p \in DOMAIN proc /\ p # Init1
  BY DEF Exit, Alive
<1>2. /\ proc' = [q \in rest |-> after(q)] /\ clock' = clock /\ mods' = mods
      /\ thread' = [t \in {t \in DOMAIN thread : thread[t] # p} |-> thread[t]]
      /\ threaded' = threaded /\ touched' = touched /\ fds' = fds \ DescriptorsOf(p)
      /\ lived' = lived \cup Snapshots' /\ parents' = parents \cup Parenthood' /\ held' = held \cup fds'
  BY DEF Exit, Remember
<1>3. ASSUME NEW q \in rest
      PROVE  /\ after(q) \in Process /\ after(q).start = proc[q].start
             /\ after(q).hidden = proc[q].hidden /\ after(q).uid = proc[q].uid
             /\ after(q).exe = proc[q].exe /\ after(q).comm = proc[q].comm
             /\ after(q).ppid = IF proc[q].ppid = p THEN Init1 ELSE proc[q].ppid
  <2>1. proc[q] \in Process /\ Init1 \in Nat
    BY PidsNat DEF ProcInv
  <2>2. CASE proc[q].ppid = p
    <3>1. after(q) = [proc[q] EXCEPT !.ppid = Init1]
      BY <2>2
    <3> HIDE DEF after
    <3> QED BY <2>1, <2>2, <3>1 DEF Process
  <2>3. CASE proc[q].ppid # p
    <3>1. after(q) = proc[q]
      BY <2>3
    <3> HIDE DEF after
    <3> QED BY <2>1, <2>3, <3>1
  <2> QED BY <2>2, <2>3
<1> HIDE DEF after
<1>4. DOMAIN proc' = rest /\ \A q \in rest : proc'[q] = after(q)
  BY <1>2
<1>5. ProcInv'
  <2>1. proc' \in [DOMAIN proc' -> Process]
    BY <1>2, <1>3
  <2>2. \A q \in DOMAIN proc' : proc'[q].start < clock' /\ proc'[q].ppid \in DOMAIN proc' \cup {0}
    <3> SUFFICES ASSUME NEW q \in rest
                 PROVE  proc'[q].start < clock' /\ proc'[q].ppid \in DOMAIN proc' \cup {0}
      BY <1>4
    <3>1. proc[q].start < clock /\ proc[q].ppid \in DOMAIN proc \cup {0}
      BY DEF ProcInv
    <3>2. Init1 \in rest
      BY <1>1 DEF ProcInv
    <3> QED BY <1>2, <1>3, <1>4, <3>1, <3>2
  <2> QED BY <1>1, <1>2, <1>4, <2>1, <2>2 DEF ProcInv
<1>6. Later
  <2>1. held \subseteq held' /\ lived \subseteq lived' /\ parents \subseteq parents'
    BY <1>2
  <2> QED BY <1>2, <1>3, <1>4, <2>1 DEF Later, ProcInv
<1>7. HistoryInv'
  BY <1>2, <1>5, <1>6, HistoryGrows
<1>8. FdInv'
  <2>1. fds' \subseteq fds /\ \A d \in fds' : d.pid # p
    BY <1>2 DEF DescriptorsOf
  <2>2. IsFiniteSet(fds')
    BY <2>1, FS_Subset DEF FdInv
  <2>3. held' = held
    BY <1>2, <2>1 DEF FdInv
  <2> QED BY <1>4, <2>1, <2>2, <2>3 DEF FdInv
<1>9. ModInv'
  BY <1>2 DEF ModInv
<1> QED BY <1>5, <1>6, <1>7, <1>8, <1>9

\* An exec, a setuid or the end of a file leaves a process what it is in time.
LEMMA BecomesKeeps ==
    ASSUME KernelInv, NEW p \in Pids, NEW new \in Process, Becomes(p, new), me' = me,
           new.start = proc[p].start, new.ppid = proc[p].ppid, new.hidden = proc[p].hidden
    PROVE  KernelInv' /\ Later
<1> USE DEF KernelInv
<1>1. p \in DOMAIN proc
  BY DEF Becomes, Alive
<1>2. /\ proc' = [proc EXCEPT ![p] = new] /\ lived' = lived \cup Snapshots'
      /\ UNCHANGED <<thread, fds, mods, clock, parents, held, threaded, touched>>
  BY DEF Becomes
<1>3. /\ DOMAIN proc' = DOMAIN proc
      /\ \A q \in DOMAIN proc : /\ proc'[q] \in Process /\ proc'[q].start = proc[q].start
                               /\ proc'[q].ppid = proc[q].ppid /\ proc'[q].hidden = proc[q].hidden
  BY <1>1, <1>2 DEF ProcInv
<1>4. ProcInv'
  BY <1>2, <1>3 DEF ProcInv
<1>5. Later
  BY <1>2, <1>3 DEF Later, ProcInv
<1>6. Parenthood' \subseteq parents'
  <2> SUFFICES ASSUME NEW x \in Parenthood' PROVE x \in Parenthood
    BY <1>2 DEF HistoryInv
  <2>1. PICK q \in DOMAIN proc' : /\ proc'[q].ppid # 0
                                 /\ x = [child |-> <<q, proc'[q].start>>,
                                         parent |-> <<proc'[q].ppid, proc'[proc'[q].ppid].start>>]
    BY DEF Parenthood, Born
  <2>2. proc[q].ppid # 0 /\ proc[q].ppid \in DOMAIN proc /\ q \in DOMAIN proc
    BY <1>3, <2>1 DEF ProcInv
  <2>3. x = [child |-> <<q, proc[q].start>>, parent |-> <<proc[q].ppid, proc[proc[q].ppid].start>>]
    BY <1>3, <2>1, <2>2
  <2> QED BY <2>2, <2>3 DEF Parenthood, Born
<1>7. HistoryInv'
  BY <1>2, <1>4, <1>5, <1>6, HistoryGrows
<1> QED BY <1>2, <1>3, <1>4, <1>5, <1>7 DEF FdInv, ModInv

\* A further thread takes a free identifier, which the history remembers.
LEMMA ThreadKeeps ==
    ASSUME KernelInv, NEW p \in Pids, NEW t \in Pids, NewThread(p, t), me' = me
    PROVE  KernelInv' /\ Later
<1> USE DEF KernelInv
<1>1. /\ t \notin DOMAIN proc /\ thread' = With(thread, t, p) /\ threaded' = threaded \cup {t}
      /\ UNCHANGED <<proc, fds, mods, clock, lived, parents, held, touched>>
  BY DEF NewThread, Taken
<1>2. DOMAIN thread' = DOMAIN thread \cup {t}
  BY <1>1 DEF With
<1>3. ProcInv'
  BY <1>1, <1>2 DEF ProcInv
<1>4. HistoryInv'
  BY <1>1 DEF HistoryInv, Snapshots, Snapshot, Parenthood, Born
<1>5. Later
  BY <1>1 DEF Later, ProcInv
<1> QED BY <1>1, <1>3, <1>4, <1>5 DEF FdInv, ModInv

\* What concerns descriptors and modules only.
LEMMA SameProcesses ==
    ASSUME KernelInv, UNCHANGED <<proc, thread, clock, lived, parents, threaded, me>>,
           held \subseteq held', touched \subseteq touched', \A d \in fds' : d \in fds \/ d \notin held
    PROVE  ProcInv' /\ HistoryInv' /\ Later
<1> USE DEF KernelInv
<1>1. ProcInv'
  BY DEF ProcInv
<1>2. HistoryInv'
  BY DEF HistoryInv, Snapshots, Snapshot, Parenthood, Born
<1>3. Later
  BY DEF Later, ProcInv
<1> QED BY <1>1, <1>2, <1>3

\* An object that is opened has an inode no object had before.
LEMMA OpenKeeps ==
    ASSUME KernelInv, NEW p \in Pids, NEW n \in Nat, NEW o \in Object, Open(p, n, o), me' = me
    PROVE  KernelInv' /\ Later
<1> USE DEF KernelInv
<1> DEFINE d == [pid |-> p, fd |-> n, obj |-> o]
<1>1. /\ p \in DOMAIN proc /\ fds' = fds \cup {d} /\ held' = held \cup fds'
      /\ \A e \in fds : e.pid = p => e.fd # n
      /\ \A e \in held : e.obj.id # o.id
      /\ UNCHANGED <<proc, thread, mods, clock, lived, parents, threaded, touched>>
  BY DEF Open, Alive, DescriptorsOf
<1>2. d \in Descriptor /\ d.pid = p /\ d.fd = n /\ d.obj = o
  BY DEF Descriptor
<1> HIDE DEF d
<1>3. held' = held \cup {d}
  BY <1>1 DEF FdInv
<1>4. IsFiniteSet(fds')
  BY <1>1, FS_AddElement DEF FdInv
<1>5. FdInv'
  BY <1>1, <1>2, <1>3, <1>4 DEF FdInv
<1>6. ProcInv' /\ HistoryInv' /\ Later
  <2>1. held \subseteq held' /\ \A e \in fds' : e \in fds \/ e \notin held
    BY <1>1, <1>2, <1>3
  <2> QED BY <1>1, <2>1, SameProcesses
<1> QED BY <1>1, <1>5, <1>6 DEF ModInv

\* What is closed has been open.
LEMMA CloseKeeps ==
    ASSUME KernelInv, NEW d \in fds, Close(d), me' = me
    PROVE  KernelInv' /\ Later
<1> USE DEF KernelInv
<1>1. fds' = fds \ {d} /\ UNCHANGED <<proc, thread, mods, clock, lived, parents, held, threaded, touched>>
  BY DEF Close
<1>2. IsFiniteSet(fds')
  BY <1>1, FS_Subset DEF FdInv
<1>3. FdInv'
  BY <1>1, <1>2 DEF FdInv
<1>4. ProcInv' /\ HistoryInv' /\ Later
  BY <1>1, SameProcesses
<1> QED BY <1>1, <1>3, <1>4 DEF ModInv

\* A module that comes has a name no loaded one has.
LEMMA LoadKeeps ==
    ASSUME KernelInv, NEW m \in Module, Load(m), me' = me
    PROVE  KernelInv' /\ Later
<1> USE DEF KernelInv
<1>1. /\ mods' = <<m>> \o mods /\ touched' = touched \cup {m.name}
      /\ \A k \in DOMAIN mods : mods[k].name # m.name
      /\ UNCHANGED <<proc, thread, fds, clock, lived, parents, held, threaded>>
  BY DEF Load
<1>2. mods \in Seq(Module) /\ <<m>> \in Seq(Module) /\ Len(mods) \in Nat /\ DOMAIN mods = 1 .. Len(mods)
  BY LenProperties DEF ModInv
<1>3. /\ mods' \in Seq(Module) /\ Len(mods') = Len(mods) + 1
      /\ \A k \in 1 .. Len(mods) + 1 : mods'[k] = IF k = 1 THEN m ELSE mods[k - 1]
  BY <1>1, <1>2, ConcatProperties
<1>4. DOMAIN mods' = 1 .. Len(mods) + 1
  BY <1>3, LenProperties
<1>5. ASSUME NEW j \in DOMAIN mods', NEW k \in DOMAIN mods', mods'[j].name = mods'[k].name PROVE j = k
  <2>1. \A i \in DOMAIN mods' : (i = 1 /\ mods'[i] = m) \/ (i - 1 \in DOMAIN mods /\ mods'[i] = mods[i - 1])
    <3> SUFFICES ASSUME NEW i \in 1 .. Len(mods) + 1
                 PROVE  (i = 1 /\ mods'[i] = m) \/ (i - 1 \in DOMAIN mods /\ mods'[i] = mods[i - 1])
      BY <1>4
    <3> QED BY <1>2, <1>3
  <2>2. CASE j = 1 \/ k = 1
    BY <1>1, <1>2, <1>4, <1>5, <2>1, <2>2
  <2>3. CASE j # 1 /\ k # 1
    <3>1. j - 1 = k - 1
      BY <1>5, <2>1, <2>3 DEF ModInv
    <3> QED BY <1>2, <1>4, <3>1
  <2> QED BY <2>2, <2>3
<1>6. ModInv'
  BY <1>3, <1>5 DEF ModInv
<1>7. ProcInv' /\ HistoryInv' /\ Later
  BY <1>1, SameProcesses
<1> QED BY <1>1, <1>6, <1>7 DEF FdInv

\* Taking the k-th element out.
LEMMA WithoutOne ==
    ASSUME NEW S, NEW s \in Seq(S), NEW k \in 1 .. Len(s)
    PROVE  LET r == SubSeq(s, 1, k - 1) \o SubSeq(s, k + 1, Len(s))
           IN /\ r \in Seq(S) /\ Len(r) = Len(s) - 1
              /\ \A i \in 1 .. Len(s) - 1 : r[i] = IF i < k THEN s[i] ELSE s[i + 1]
<1>1. Len(s) \in Nat /\ \A i \in 1 .. Len(s) : s[i] \in S
  BY LenProperties, ElementOfSeq
<1> DEFINE n == Len(s)
           u == SubSeq(s, 1, k - 1)
           v == SubSeq(s, k + 1, n)
<1>2. n \in Nat /\ k \in Nat /\ 1 <= k /\ k <= n
  BY <1>1
<1>3. u \in Seq(S) /\ Len(u) = k - 1 /\ \A i \in 1 .. k - 1 : u[i] = s[i]
  BY <1>1, SubSeqProperties
<1>4. v \in Seq(S) /\ Len(v) = n - k /\ \A i \in 1 .. n - k : v[i] = s[k + i]
  <2>1. k + 1 \in Int /\ n \in Int /\ \A i \in k + 1 .. n : s[i] \in S
    BY <1>1
  <2>2. /\ v \in Seq(S) /\ Len(v) = IF k + 1 <= n THEN n - (k + 1) + 1 ELSE 0
        /\ \A i \in 1 .. n - (k + 1) + 1 : v[i] = s[(k + 1) + i - 1]
    BY <2>1, SubSeqProperties
  <2> HIDE DEF v, n
  <2>3. Len(v) = n - k
    BY <1>2, <2>2
  <2>4. ASSUME NEW i \in 1 .. n - k PROVE v[i] = s[k + i]
    <3>1. i \in 1 .. n - (k + 1) + 1 /\ (k + 1) + i - 1 = k + i
      BY <1>2
    <3> QED BY <2>2, <3>1
  <2> QED BY <2>2, <2>3, <2>4
<1> HIDE DEF u, v, n
<1>5. /\ u \o v \in Seq(S) /\ Len(u \o v) = Len(u) + Len(v)
      /\ \A i \in 1 .. Len(u) + Len(v) : (u \o v)[i] = IF i <= Len(u) THEN u[i] ELSE v[i - Len(u)]
  BY <1>3, <1>4, ConcatProperties
<1>6. Len(u) + Len(v) = n - 1
  BY <1>2, <1>3, <1>4
<1>7. ASSUME NEW i \in 1 .. n - 1, i < k PROVE (u \o v)[i] = s[i]
  <2>1. i \in 1 .. k - 1 /\ i <= Len(u)
    BY <1>2, <1>3, <1>7
  <2> QED BY <1>3, <1>5, <1>6, <2>1
<1>8. ASSUME NEW i \in 1 .. n - 1, ~(i < k) PROVE (u \o v)[i] = s[i + 1]
  <2>1. ~(i <= Len(u)) /\ i - Len(u) \in 1 .. n - k /\ k + (i - Len(u)) = i + 1
    BY <1>2, <1>3, <1>8
  <2>2. (u \o v)[i] = v[i - Len(u)]
    BY <1>5, <1>6, <2>1
  <2> QED BY <1>4, <2>1, <2>2
<1> QED BY <1>5, <1>6, <1>7, <1>8 DEF u, v, n

\* A module that goes leaves the others in their order.
LEMMA UnloadKeeps ==
    ASSUME KernelInv, NEW name, Unload(name), me' = me
    PROVE  KernelInv' /\ Later
<1> USE DEF KernelInv
<1>1. /\ touched' = touched \cup {name}
      /\ UNCHANGED <<proc, thread, fds, clock, lived, parents, held, threaded>>
  BY DEF Unload
<1>2. mods \in Seq(Module) /\ Len(mods) \in Nat /\ DOMAIN mods = 1 .. Len(mods)
  BY LenProperties DEF ModInv
<1>3. PICK k \in 1 .. Len(mods) : mods' = SubSeq(mods, 1, k - 1) \o SubSeq(mods, k + 1, Len(mods))
  BY <1>2 DEF Unload
<1>4. /\ mods' \in Seq(Module) /\ Len(mods') = Len(mods) - 1
      /\ \A i \in 1 .. Len(mods) - 1 : mods'[i] = IF i < k THEN mods[i] ELSE mods[i + 1]
  BY <1>2, <1>3, WithoutOne
<1>5. DOMAIN mods' = 1 .. Len(mods) - 1
  BY <1>4, LenProperties
<1>6. ASSUME NEW i \in DOMAIN mods', NEW j \in DOMAIN mods', mods'[i].name = mods'[j].name PROVE i = j
  <2> DEFINE at(n) == IF n < k THEN n ELSE n + 1
  <2>1. at(i) \in DOMAIN mods /\ at(j) \in DOMAIN mods /\ mods'[i] = mods[at(i)] /\ mods'[j] = mods[at(j)]
    BY <1>2, <1>4, <1>5
  <2>2. at(i) = at(j)
    BY <1>6, <2>1 DEF ModInv
  <2> QED BY <1>2, <1>5, <2>2
<1>7. ModInv'
  BY <1>4, <1>6 DEF ModInv
<1>8. ProcInv' /\ HistoryInv' /\ Later
  BY <1>1, SameProcesses
<1> QED BY <1>1, <1>7, <1>8 DEF FdInv

\* Whatever happens to the machine, it stays in order and its past stays.
LEMMA KernelKeeps ==
    ASSUME KernelInv, KernelStep, me' = me
    PROVE  KernelInv' /\ Later
<1>1. CASE \E p, q \in Pids : Fork(p, q)
  BY <1>1, ForkKeeps
<1>2. CASE \E p \in Pids : Exit(p)
  BY <1>2, ExitKeeps
<1>3. CASE \E p \in Pids : DropRoot(p, 1)
  <2>1. PICK p \in Pids : p \in DOMAIN proc /\ Becomes(p, [proc[p] EXCEPT !.uid = 1])
    BY <1>3 DEF DropRoot, Alive
  <2> DEFINE new == [proc[p] EXCEPT !.uid = 1]
  <2>2. proc[p] \in Process
    BY <2>1 DEF KernelInv, ProcInv
  <2>3. /\ new \in Process /\ new.start = proc[p].start /\ new.ppid = proc[p].ppid
        /\ new.hidden = proc[p].hidden
    BY <2>2 DEF Process
  <2>4. Becomes(p, new)
    BY <2>1
  <2> HIDE DEF new
  <2> QED BY <2>3, <2>4, BecomesKeeps
<1>4. CASE \E p \in Pids, e \in Programs : Exec(p, e)
  <2>1. PICK p \in Pids, e \in Programs :
               p \in DOMAIN proc /\ Becomes(p, [proc[p] EXCEPT !.exe = e, !.comm = e, !.deleted = FALSE])
    BY <1>4 DEF Exec, Alive
  <2> DEFINE new == [proc[p] EXCEPT !.exe = e, !.comm = e, !.deleted = FALSE]
  <2>2. proc[p] \in Process
    BY <2>1 DEF KernelInv, ProcInv
  <2>3. /\ new \in Process /\ new.start = proc[p].start /\ new.ppid = proc[p].ppid
        /\ new.hidden = proc[p].hidden
    BY <2>2 DEF Process
  <2>4. Becomes(p, new)
    BY <2>1
  <2> HIDE DEF new
  <2> QED BY <2>3, <2>4, BecomesKeeps
<1>5. CASE Unlink(Target)
  <2>1. Target \in DOMAIN proc /\ Becomes(Target, [proc[Target] EXCEPT !.deleted = TRUE])
    BY <1>5 DEF Unlink, Alive
  <2> DEFINE new == [proc[Target] EXCEPT !.deleted = TRUE]
  <2>2. proc[Target] \in Process /\ Target \in Pids
    BY <2>1 DEF KernelInv, ProcInv
  <2>3. /\ new \in Process /\ new.start = proc[Target].start /\ new.ppid = proc[Target].ppid
        /\ new.hidden = proc[Target].hidden
    BY <2>2 DEF Process
  <2>4. Becomes(Target, new)
    BY <2>1
  <2> HIDE DEF new
  <2> QED BY <2>2, <2>3, <2>4, BecomesKeeps
<1>6. CASE \E p, t \in Pids : NewThread(p, t)
  BY <1>6, ThreadKeeps
<1>7. CASE \E p \in Pids, n \in 3 .. 4, o \in NewObjects : Open(p, n, o)
  <2>1. NewObjects \subseteq Object /\ 3 .. 4 \subseteq Nat
    BY CollectorAssumption
  <2> QED BY <1>7, <2>1, OpenKeeps
<1>8. CASE \E d \in fds : Close(d)
  BY <1>8, CloseKeeps
<1>9. CASE \E m \in NewModules : Load(m)
  <2>1. NewModules \subseteq Module
    BY CollectorAssumption
  <2> QED BY <1>9, <2>1, LoadKeeps
<1>10. CASE \E k \in DOMAIN mods : Unload(mods[k].name)
  BY <1>10, UnloadKeeps
<1>11. CASE \E p \in Pids : \E files : Guard(p, files) \/ Garble(p, files)
  <2>1. UNCHANGED <<proc, thread, fds, mods, clock, lived, parents, held, threaded, touched>>
    BY <1>11 DEF Guard, Garble
  <2>2. ProcInv' /\ HistoryInv' /\ Later
    BY <2>1, SameProcesses
  <2> QED BY <2>1, <2>2 DEF KernelInv, FdInv, ModInv
<1> QED BY <1>1, <1>2, <1>3, <1>4, <1>5, <1>6, <1>7, <1>8, <1>9, <1>10, <1>11 DEF KernelStep

\* What is closed or no text is remembered as such.
AccessInv == locked \cup garbled \subseteq troubled

\* It stays remembered.
LEMMA AccessKeeps ==
    ASSUME AccessInv, KernelStep
    PROVE  AccessInv' /\ troubled \subseteq troubled'
<1>1. CASE \E p, q \in Pids : Fork(p, q)
  <2>1. troubled' = troubled \cup locked' \cup garbled'
    BY <1>1 DEF Fork
  <2> QED BY <2>1 DEF AccessInv
<1>2. CASE UNCHANGED access
  BY <1>2 DEF access, AccessInv
<1>3. CASE \E p \in Pids : \E files : Guard(p, files)
  <2>1. troubled' = troubled \cup locked' /\ garbled' = garbled
    BY <1>3 DEF Guard
  <2> QED BY <2>1 DEF AccessInv
<1>4. CASE \E p \in Pids : \E files : Garble(p, files)
  <2>1. troubled' = troubled \cup garbled' /\ locked' = locked
    BY <1>4 DEF Garble
  <2> QED BY <2>1 DEF AccessInv
<1> QED BY <1>1, <1>2, <1>3, <1>4
        DEF KernelStep, Exit, DropRoot, Exec, Unlink, Becomes, NewThread, Open, Close, Load, Unload

------------------------------------------------------------------------------
(* Listings and what is left of them                                         *)

In(x, s) == \E k \in 1 .. Len(s) : s[k] = x
Distinct(s) == \A j, k \in 1 .. Len(s) : s[j] = s[k] => j = k

\* The empty sequence has no element.
LEMMA NothingInEmpty == \A x : ~In(x, <<>>)
  BY DEF In

\* A sequence has its first element and those of the rest.
LEMMA RestFacts ==
    ASSUME NEW S, NEW s \in Seq(S), s # <<>>
    PROVE  /\ Head(s) \in S /\ Tail(s) \in Seq(S)
           /\ \A x : In(x, s) <=> x = Head(s) \/ In(x, Tail(s))
           /\ Distinct(s) => Distinct(Tail(s)) /\ ~In(Head(s), Tail(s))
<1>1. /\ Len(s) \in Nat /\ Len(s) >= 1 /\ Head(s) = s[1] /\ Head(s) \in S /\ Tail(s) \in Seq(S)
      /\ Len(Tail(s)) = Len(s) - 1 /\ \A i \in 1 .. Len(s) - 1 : Tail(s)[i] = s[i + 1]
  BY HeadTailProperties, LenProperties, EmptySeq
<1>2. \A i \in 1 .. Len(s) - 1 : i + 1 \in 1 .. Len(s)
  BY <1>1
<1>3. \A k \in 1 .. Len(s) : k = 1 \/ (k - 1 \in 1 .. Len(s) - 1 /\ (k - 1) + 1 = k)
  BY <1>1
<1>4. 1 \in 1 .. Len(s)
  BY <1>1
<1>5. ASSUME NEW x PROVE In(x, s) <=> x = Head(s) \/ In(x, Tail(s))
  <2>1. ASSUME In(x, s) PROVE x = Head(s) \/ In(x, Tail(s))
    <3>1. PICK k \in 1 .. Len(s) : s[k] = x
      BY <2>1 DEF In
    <3>2. CASE k = 1
      BY <1>1, <3>1, <3>2
    <3>3. CASE k - 1 \in 1 .. Len(s) - 1 /\ (k - 1) + 1 = k
      <4>1. Tail(s)[k - 1] = x /\ k - 1 \in 1 .. Len(Tail(s))
        BY <1>1, <3>1, <3>3
      <4> QED BY <4>1 DEF In
    <3> QED BY <1>3, <3>2, <3>3
  <2>2. ASSUME In(x, Tail(s)) PROVE In(x, s)
    <3>1. PICK i \in 1 .. Len(s) - 1 : Tail(s)[i] = x
      BY <1>1, <2>2 DEF In
    <3> QED BY <1>1, <1>2, <3>1 DEF In
  <2>3. In(Head(s), s)
    BY <1>1, <1>4 DEF In
  <2> QED BY <2>1, <2>2, <2>3
<1>6. ASSUME Distinct(s) PROVE Distinct(Tail(s)) /\ ~In(Head(s), Tail(s))
  <2>1. ASSUME NEW i \in 1 .. Len(s) - 1, NEW j \in 1 .. Len(s) - 1, Tail(s)[i] = Tail(s)[j] PROVE i = j
    <3>1. s[i + 1] = s[j + 1]
      BY <1>1, <2>1
    <3>2. i + 1 = j + 1
      BY <1>2, <1>6, <3>1 DEF Distinct
    <3> QED BY <1>1, <3>2
  <2>2. ASSUME NEW i \in 1 .. Len(s) - 1, Tail(s)[i] = Head(s) PROVE FALSE
    <3>1. s[i + 1] = s[1]
      BY <1>1, <2>2
    <3>2. i + 1 = 1
      BY <1>2, <1>4, <1>6, <3>1 DEF Distinct
    <3> QED BY <1>1, <3>2
  <2> QED BY <1>1, <2>1, <2>2 DEF Distinct, In
<1> QED BY <1>1, <1>5, <1>6

\* A sequence with one more at the end.
LEMMA AppendFacts ==
    ASSUME NEW S, NEW s \in Seq(S), NEW e \in S
    PROVE  /\ Append(s, e) \in Seq(S)
           /\ \A x : In(x, Append(s, e)) <=> In(x, s) \/ x = e
<1>1. /\ Append(s, e) \in Seq(S) /\ Len(s) \in Nat /\ Len(Append(s, e)) = Len(s) + 1
      /\ Append(s, e)[Len(s) + 1] = e /\ \A i \in 1 .. Len(s) : Append(s, e)[i] = s[i]
  BY AppendProperties, LenProperties
<1>2. \A i \in 1 .. Len(s) + 1 : i \in 1 .. Len(s) \/ i = Len(s) + 1
  BY <1>1
<1>3. \A i \in 1 .. Len(s) : i \in 1 .. Len(s) + 1
  BY <1>1
<1>4. Len(s) + 1 \in 1 .. Len(s) + 1
  BY <1>1
<1>5. ASSUME NEW x PROVE In(x, Append(s, e)) <=> In(x, s) \/ x = e
  BY <1>1, <1>2, <1>3, <1>4 DEF In
<1> QED BY <1>1, <1>5

\* One sequence behind another.
LEMMA ConcatFacts ==
    ASSUME NEW S, NEW s \in Seq(S), NEW t \in Seq(S)
    PROVE  /\ s \o t \in Seq(S)
           /\ \A x : In(x, s \o t) <=> In(x, s) \/ In(x, t)
<1>1. /\ s \o t \in Seq(S) /\ Len(s) \in Nat /\ Len(t) \in Nat /\ Len(s \o t) = Len(s) + Len(t)
      /\ \A i \in 1 .. Len(s) + Len(t) :
           (s \o t)[i] = IF i <= Len(s) THEN s[i] ELSE t[i - Len(s)]
  BY ConcatProperties, LenProperties
<1>2. ASSUME NEW x, In(x, s \o t) PROVE In(x, s) \/ In(x, t)
  <2>1. PICK i \in 1 .. Len(s) + Len(t) : (s \o t)[i] = x
    BY <1>1, <1>2 DEF In
  <2>2. CASE i <= Len(s)
    <3>1. i \in 1 .. Len(s) /\ s[i] = x
      BY <1>1, <2>1, <2>2
    <3> QED BY <3>1 DEF In
  <2>3. CASE ~(i <= Len(s))
    <3>1. i - Len(s) \in 1 .. Len(t) /\ t[i - Len(s)] = x
      BY <1>1, <2>1, <2>3
    <3> QED BY <3>1 DEF In
  <2> QED BY <2>2, <2>3
<1>3. ASSUME NEW x, In(x, s) PROVE In(x, s \o t)
  <2>1. PICK i \in 1 .. Len(s) : s[i] = x
    BY <1>3 DEF In
  <2>2. i \in 1 .. Len(s) + Len(t) /\ i <= Len(s)
    BY <1>1
  <2> QED BY <1>1, <2>1, <2>2 DEF In
<1>4. ASSUME NEW x, In(x, t) PROVE In(x, s \o t)
  <2>1. PICK i \in 1 .. Len(t) : t[i] = x
    BY <1>4 DEF In
  <2>2. Len(s) + i \in 1 .. Len(s) + Len(t) /\ ~(Len(s) + i <= Len(s)) /\ Len(s) + i - Len(s) = i
    BY <1>1
  <2>3. (s \o t)[Len(s) + i] = x
    BY <1>1, <2>1, <2>2
  <2> QED BY <1>1, <2>2, <2>3 DEF In
<1> QED BY <1>1, <1>2, <1>3, <1>4

\* listdir gives every name once.
LEMMA ListingFacts ==
    ASSUME NEW S, IsFiniteSet(S)
    PROVE  /\ Listing(S) \in Seq(S) /\ Distinct(Listing(S))
           /\ \A x : In(x, Listing(S)) <=> x \in S
<1> DEFINE n == Cardinality(S)
           P(s) == \A x \in S : \E k \in DOMAIN s : s[k] = x
           l == Listing(S)
<1>1. n \in Nat /\ ExistsBijection(1 .. n, S)
  BY FS_CardinalityType
<1>2. \E s \in [1 .. n -> S] : P(s)
  BY <1>1 DEF ExistsBijection, Bijection, Surjection
<1>3. l \in [1 .. n -> S] /\ P(l)
  BY <1>2 DEF Listing
<1> HIDE DEF l
<1>4. l \in Surjection(1 .. n, S)
  BY <1>3 DEF Surjection
<1>5. IsFiniteSet(1 .. n) /\ Cardinality(1 .. n) = Cardinality(S)
  BY <1>1, FS_Interval
<1>6. l \in Injection(1 .. n, S)
  BY <1>4, <1>5, FS_SurjSameCardinalityImpliesInj
<1>7. Len(l) = n /\ l \in Seq(S)
  BY <1>1, <1>3
<1>8. Distinct(l)
  BY <1>6, <1>7 DEF Injection, IsInjective, Distinct
<1>9. \A x : In(x, l) <=> x \in S
  BY <1>3, <1>7 DEF In
<1> QED BY <1>7, <1>8, <1>9 DEF l

------------------------------------------------------------------------------
(* The calls                                                                 *)

\* The calls under which a process may give up being root's.
Dropping == {"processes", "identity"}

\* Who has run since the call began runs as it did then, for another user only
\* if root gave it up.
BeganInv ==
  /\ AccessInv
  /\ \A b \in DOMAIN began.proc : \E s \in lived : s.pid = b /\ s.start = began.proc[b].start
  /\ began.fds \subseteq held
  /\ \A p \in Lasting :
       /\ proc[p].hidden = began.proc[p].hidden
       /\ op \notin Dropping \/ began.proc[p].uid # 0 => proc[p].uid = began.proc[p].uid

Steps == {"list", "read", "chain", "name", "comm", "link", "environ", "open", "dir", "net",
          "modules", "taint", "done", "raised"}

CallInv == op \in Calls /\ failed \in BOOLEAN /\ pc \in Steps


\* A read leaves the machine alone.
LEMMA CollectQuiet == Collect => UNCHANGED <<kernel, call>>
  BY DEF Collect, ListProcesses, SkipEntry, ReadEntryFile, EndOfTable, ReadIdentityFile,
       ReadParentStat, ReadParentExe, ReadComm, CompareWithExe, ReadEnviron, OpenHandles, ReadHandle,
       ListHolders, ListDescriptors, MapLink, ToNetFiles, ReadNetFile, SkipNetFile, NotText, ListVisible,
       ProbePid, ReadProcModules, ListSysfs, ReadTaint, BuildModuleList, ListingFails, ListFailed

\* What a call can notice of the machine is a step of it.
LEMMA ChangesStep == MachineChanges => KernelStep
<1> SUFFICES ASSUME MachineChanges PROVE KernelStep
  OBVIOUS
<1>1. ASSUME NEW name \in DOMAIN Guards, NEW x \in Guards[name], Guard(x[1], x[2]) PROVE KernelStep
  BY <1>1, CollectorAssumption DEF KernelStep
<1>2. ASSUME NEW name \in DOMAIN Garbles, NEW x \in Garbles[name], Garble(x[1], x[2]) PROVE KernelStep
  BY <1>2, CollectorAssumption DEF KernelStep
<1> QED BY <1>1, <1>2 DEF MachineChanges, KernelStep

\* Only the table, the identity and the connections meet a file that is no text.
LEMMA NotTextCalls == NotText => op \in {"processes", "identity", "connections", "connectivity"}
  BY DEF NotText, Networked

\* A step reads, or the machine changes.
LEMMA StepShape ==
    ASSUME Next
    PROVE  \/ Collect /\ UNCHANGED <<kernel, call>>
           \/ MachineChanges /\ KernelStep /\ UNCHANGED <<call, pc, todo, links, got, table, failed>>
<1>1. CASE Collect
  BY <1>1, CollectQuiet
<1>2. CASE MachineChanges
  BY <1>2, ChangesStep DEF MachineChanges
<1> QED BY <1>1, <1>2 DEF Next

\* Who runs as when the call began did so before, hid as much and belonged to the
\* same user unless that was root; what has been closed or no text has been so since.
Lasts ==
  /\ troubled \subseteq troubled'
  /\ \A p \in Lasting' : /\ p \in Lasting /\ proc'[p].start = proc[p].start
                         /\ proc'[p].hidden = proc[p].hidden
                         /\ op \notin Dropping \/ proc[p].uid # 0 => proc'[p].uid = proc[p].uid

\* Who had a user has it still, unless that was root.
LEMMA UsersStay ==
    ASSUME KernelInv, MachineChanges
    PROVE  \A p \in DOMAIN proc' :
             p \in DOMAIN proc /\ (op \notin Dropping \/ proc[p].uid # 0) => proc'[p].uid = proc[p].uid
<1>1. CASE \E p, q \in Pids : Fork(p, q)
  BY <1>1 DEF Fork, Alive, Taken, With
<1>2. CASE \E p \in Pids : Exit(p)
  <2>1. PICK p \in Pids : Exit(p)
    BY <1>2
  <2> SUFFICES ASSUME NEW q \in DOMAIN proc', q \in DOMAIN proc PROVE proc'[q].uid = proc[q].uid
    OBVIOUS
  <2>2. proc'[q] = IF proc[q].ppid = p THEN [proc[q] EXCEPT !.ppid = Init1] ELSE proc[q]
    BY <2>1 DEF Exit
  <2>3. proc[q] \in Process
    BY DEF KernelInv, ProcInv
  <2> QED BY <2>2, <2>3 DEF Process
<1>3. CASE \E p \in Pids, e \in Programs : Exec(p, e)
  <2>1. PICK p \in Pids, e \in Programs :
               p \in DOMAIN proc /\ Becomes(p, [proc[p] EXCEPT !.exe = e, !.comm = e, !.deleted = FALSE])
    BY <1>3 DEF Exec, Alive
  <2>2. proc' = [proc EXCEPT ![p] = [proc[p] EXCEPT !.exe = e, !.comm = e, !.deleted = FALSE]]
    BY <2>1 DEF Becomes
  <2>3. proc[p] \in Process
    BY <2>1 DEF KernelInv, ProcInv
  <2>4. [proc[p] EXCEPT !.exe = e, !.comm = e, !.deleted = FALSE].uid = proc[p].uid
    BY <2>3 DEF Process
  <2> QED BY <2>1, <2>2, <2>4
<1>4. CASE Unlink(Target)
  <2>1. proc' = [proc EXCEPT ![Target] = [proc[Target] EXCEPT !.deleted = TRUE]] /\ Target \in DOMAIN proc
    BY <1>4 DEF Unlink, Becomes, Alive
  <2>2. proc[Target] \in Process
    BY <2>1 DEF KernelInv, ProcInv
  <2>3. [proc[Target] EXCEPT !.deleted = TRUE].uid = proc[Target].uid
    BY <2>2 DEF Process
  <2> QED BY <2>1, <2>3
<1>5. CASE op \in Dropping /\ \E p \in Pids : DropRoot(p, 1)
  <2>1. PICK p \in Pids : p \in DOMAIN proc /\ proc[p].uid = 0
                          /\ proc' = [proc EXCEPT ![p] = [proc[p] EXCEPT !.uid = 1]]
    BY <1>5 DEF DropRoot, Becomes, Alive
  <2> QED BY <1>5, <2>1
<1>6. CASE proc' = proc
  BY <1>6
<1> QED BY <1>1, <1>2, <1>3, <1>4, <1>5, <1>6
        DEF MachineChanges, Dropping, NewThread, Open, Close, Load, Unload, Guard, Garble

\* What both kinds of step do to what every call rests on.
LEMMA MachineKeeps ==
    ASSUME KernelInv, BeganInv, [Next]_vars
    PROVE  /\ KernelInv' /\ BeganInv' /\ Later /\ Lasts
           /\ op' = op /\ asked' = asked /\ me' = me /\ began' = began
<1>1. CASE UNCHANGED <<kernel, call>>
  <2>1. UNCHANGED <<proc, thread, fds, mods, locked, garbled, clock, events, lived, parents, held, threaded,
                    touched, troubled, op, asked, me, began>>
    BY <1>1 DEF kernel, call
  <2>2. ProcInv' /\ HistoryInv' /\ FdInv' /\ ModInv'
    BY <2>1 DEF KernelInv, ProcInv, HistoryInv, FdInv, ModInv, Snapshots, Snapshot, Parenthood, Born
  <2>3. Later
    BY <2>1 DEF Later, KernelInv, ProcInv
  <2>4. Lasting' = Lasting
    BY <2>1 DEF Lasting, Same, Alive
  <2>5. BeganInv'
    BY <2>1, <2>4 DEF BeganInv, AccessInv
  <2>6. Lasts
    BY <2>1, <2>4 DEF Lasts
  <2> QED BY <2>1, <2>2, <2>3, <2>5, <2>6 DEF KernelInv
<1>2. CASE MachineChanges /\ KernelStep /\ UNCHANGED <<call, pc, todo, links, got, table, failed>>
  <2>1. UNCHANGED <<op, asked, me, began>>
    BY <1>2 DEF call
  <2>2. KernelInv' /\ Later
    BY <1>2, <2>1, KernelKeeps
  <2>3. ASSUME NEW p \in Lasting'
        PROVE  /\ p \in Lasting /\ proc'[p].start = proc[p].start /\ proc'[p].hidden = proc[p].hidden
               /\ p \in DOMAIN proc /\ p \in DOMAIN proc'
    <3>1. p \in DOMAIN began.proc /\ p \in DOMAIN proc' /\ proc'[p].start = began.proc[p].start
      BY <2>1 DEF Lasting, Same, Alive
    <3>2. began.proc[p].start # clock
      <4>1. PICK s \in lived : s.start = began.proc[p].start
        BY <3>1 DEF BeganInv
      <4> QED BY <4>1 DEF KernelInv, HistoryInv, ProcInv, States
    <3>3. p \in DOMAIN proc /\ proc'[p].start = proc[p].start /\ proc'[p].hidden = proc[p].hidden
      BY <2>2, <3>1, <3>2 DEF Later
    <3> QED BY <3>1, <3>3 DEF Lasting, Same, Alive
  <2>4. Lasts /\ AccessInv'
    <3>1. AccessInv' /\ troubled \subseteq troubled'
      BY <1>2, AccessKeeps DEF BeganInv
    <3>2. \A p \in Lasting' : p \in Lasting /\ p \in DOMAIN proc /\ p \in DOMAIN proc'
      BY <2>3 DEF Lasting, Same, Alive
    <3> QED BY <1>2, <2>3, <3>1, <3>2, UsersStay DEF Lasts
  <2>5. BeganInv'
    <3>1. \A b \in DOMAIN began'.proc : \E s \in lived' : s.pid = b /\ s.start = began'.proc[b].start
      BY <2>1, <2>2 DEF BeganInv, Later
    <3>2. began'.fds \subseteq held'
      BY <2>1, <2>2 DEF BeganInv, Later
    <3>3. ASSUME NEW p \in Lasting'
          PROVE  /\ proc'[p].hidden = began'.proc[p].hidden
                 /\ op' \notin Dropping \/ began'.proc[p].uid # 0 => proc'[p].uid = began'.proc[p].uid
      BY <2>1, <2>4 DEF Lasts, BeganInv
    <3> QED BY <2>4, <3>1, <3>2, <3>3 DEF BeganInv
  <2> QED BY <2>1, <2>2, <2>4, <2>5
<1> QED BY <1>1, <1>2, StepShape DEF vars, call

\* A descriptor that stayed to the end stayed until then.
LEMMA StayedBefore ==
    ASSUME KernelInv, BeganInv, Later, Lasts, began' = began, NEW d, Stayed(d)'
    PROVE  Stayed(d)
<1>1. d \in began.fds /\ d \in fds' /\ d.pid \in Lasting'
  BY DEF Stayed
<1>2. d.pid \in Lasting /\ d.pid \in DOMAIN proc
  BY <1>1 DEF Lasts, Lasting, Same, Alive
<1>3. d \in fds
  BY <1>1, <1>2 DEF BeganInv, Later
<1> QED BY <1>1, <1>2, <1>3 DEF Stayed

\* A start time that was given out before is still its owner's, or nobody's.
LEMMA SameBefore ==
    ASSUME KernelInv, Later, NEW p, NEW t \in Nat, t < clock, Same(p, t)'
    PROVE  Same(p, t)
<1>1. t # clock
  BY DEF KernelInv, ProcInv
<1> QED BY <1>1 DEF Same, Alive, Later

\* A call stays the call it is, and its place is one of its own.
LEMMA CallKeeps ==
    ASSUME CallInv, [Next]_vars
    PROVE  CallInv'
<1>1. CASE UNCHANGED vars
  BY <1>1 DEF vars, call, CallInv
<1>2. CASE Next
  <2>1. op' = op
    BY <1>2, StepShape DEF call
  <2>2. failed' \in BOOLEAN /\ pc' \in Steps
    BY <1>2 DEF CallInv, Steps, Next, MachineChanges, Collect, ListProcesses, SkipEntry, ReadEntryFile,
         EndOfTable, ReadIdentityFile, ReadParentStat, ReadParentExe, ReadComm, CompareWithExe,
         AfterMismatch, ReadEnviron, OpenHandles, ReadHandle, ListHolders, ListDescriptors, MapLink,
         ToNetFiles, ReadNetFile, SkipNetFile, NotText, ListVisible, ProbePid, ReadProcModules,
         ListSysfs, ReadTaint, BuildModuleList, ListingFails, ListFailed
  <2> QED BY <2>1, <2>2 DEF CallInv
<1> QED BY <1>1, <1>2

\* A call begins with a machine in order.
LEMMA MachineInit == Init => KernelInv /\ BeganInv /\ CallInv
<1> SUFFICES ASSUME Init PROVE KernelInv /\ BeganInv /\ CallInv
  OBVIOUS
<1>1. PICK w \in Worlds[op] : World(w) /\ me = w.me
  BY DEF Init
<1>2. op \in Calls /\ IsWorld(w) /\ w.me \in Nat
  BY <1>1, CollectorAssumption DEF Init
<1>3. /\ proc = w.proc /\ thread = w.thread /\ fds = w.fds /\ mods = w.mods /\ clock = 10
      /\ lived = Snapshots /\ parents = Parenthood /\ held = fds /\ threaded = DOMAIN thread
  BY <1>1 DEF World, ClockStart
<1>4. ProcInv
  BY <1>1, <1>2, <1>3 DEF IsWorld, ProcInv, ClockStart
<1>5. HistoryInv
  <2>1. ASSUME NEW s \in lived
        PROVE  s \in States /\ \E p \in DOMAIN proc : s.pid = p /\ s.start = proc[p].start
    <3>1. PICK p \in DOMAIN proc : s = Snapshot(p)
      BY <1>3 DEF Snapshots
    <3>2. proc[p] \in Process /\ p \in Pids
      BY <1>4 DEF ProcInv
    <3> QED BY <3>1, <3>2 DEF Snapshot, Process, States
  <2>2. \A p, q \in DOMAIN proc : proc[p].start = proc[q].start => p = q
    BY <1>2, <1>3 DEF IsWorld
  <2> QED BY <1>3, <1>4, <2>1, <2>2 DEF HistoryInv, ProcInv
<1>6. FdInv
  BY <1>2, <1>3 DEF IsWorld, FdInv
<1>7. ModInv
  BY <1>2, <1>3 DEF IsWorld, ModInv
<1>8. began = [proc |-> proc, thread |-> thread, fds |-> fds, mods |-> mods]
  BY DEF Init
<1>9. BeganInv
  <2>1. ASSUME NEW b \in DOMAIN proc PROVE \E s \in lived : s.pid = b /\ s.start = proc[b].start
    <3>1. Snapshot(b) \in lived
      BY <1>3 DEF Snapshots
    <3> QED BY <3>1, SnapshotFacts
  <2>2. AccessInv
    BY <1>1 DEF World, AccessInv
  <2> QED BY <1>3, <1>8, <2>1, <2>2 DEF BeganInv
<1>10. CallInv
  <2>1. /\ FirstStep["processes"] = "list" /\ FirstStep["identity"] = "read" /\ FirstStep["handles"] = "open"
        /\ FirstStep["connections"] = "list" /\ FirstStep["connectivity"] = "list"
        /\ FirstStep["sweep"] = "list" /\ FirstStep["modules"] = "modules"
    BY DEF FirstStep
  <2>2. FirstStep[op] \in Steps
    BY <1>2, <2>1 DEF Calls, Steps
  <2> QED BY <1>2, <2>2 DEF Init, CallInv
<1> QED BY <1>4, <1>5, <1>6, <1>7, <1>9, <1>10 DEF KernelInv
------------------------------------------------------------------------------
(* Identity: the ancestry                                                    *)

Hops == [pid : Pids, start : Nat, ppid : Nat, name : Programs]

\* If the parent's identifier is held by somebody older, that is the parent.
KnownIn(h, running, known) ==
  h.ppid \in DOMAIN running /\ running[h.ppid].start < h.start =>
    [child |-> <<h.pid, h.start>>, parent |-> <<h.ppid, running[h.ppid].start>>] \in known

LinkedIn(h, g, known) ==
  g.start < h.start => [child |-> <<h.pid, h.start>>, parent |-> <<g.pid, g.start>>] \in known

Chained ==
  /\ table \in Seq(Hops) /\ Len(table) <= MaxHops
  /\ pc \in {"read", "chain", "name"} => Len(table) < MaxHops
  /\ \A k \in 1 .. Len(table) : table[k].start < clock /\ KnownIn(table[k], proc, parents)
  /\ \A k \in 1 .. Len(table) - 1 : LinkedIn(table[k], table[k + 1], parents)
  /\ pc = "name" => /\ got["hop"] \in lived /\ KnownIn(got["hop"], proc, parents)
                    /\ table # <<>> => LinkedIn(table[Len(table)], got["hop"], parents)

\* The names the other reads of this call are kept under.
Others == {"hop", "comm", "mismatch", "environ"}

FileNames == {"stat", "exe", "cmdline", "status", "loginuid", "sessionid", "attr", "ns", "smaps_rollup", "maps",
              "cgroup", "cwd", "root", "io", "limits", "personality"}

\* The files read so far tell of the process whose stat was read, if it still runs.
OfTarget(x, stat, running, known) ==
  x # Gone => /\ x \in known /\ x.pid = Target
              /\ stat # Gone /\ Target \in DOMAIN running /\ running[Target].start = stat.start
                   => x.start = stat.start

ReadUpTo(m, files, read, running, known) ==
  \A j \in 1 .. m : files[j] \in DOMAIN read /\ OfTarget(read[files[j]], read["stat"], running, known)

\* todo is what follows the first i - 1 files.
Remaining(i, files, rest) ==
  /\ rest \in Seq(FileNames) /\ Len(rest) = Len(files) - i + 1
  /\ \A j \in 1 .. Len(rest) : rest[j] = files[i + j - 1]

FilesRead ==
  IF pc = "read"
  THEN \E i \in 1 .. Len(FilesAsked) :
         Remaining(i, FilesAsked, todo) /\ ReadUpTo(i - 1, FilesAsked, got, proc, lived)
  ELSE ReadUpTo(Len(FilesAsked), FilesAsked, got, proc, lived)

\* Who could be read under the target's identifier.
Targets == {s \in lived : s.pid = Target}

\* Why the target's stat or link may not be read.
Unreadable ==
  \/ Target \notin Lasting
  \/ me \notin {0, began.proc[Target].uid}
  \/ \E f \in {"stat", "exe"} : Troubled(f, proc[Target].start)

Marked ==
  /\ pc = "link" => IF got["comm"] = Gone THEN Unreadable ELSE got["comm"] \in Targets
  /\ "mismatch" \in DOMAIN got =>
       IF got["mismatch"] THEN \E s, t \in Targets : t.exe # s.comm
       ELSE Unreadable \/ \E s, t \in Targets : t.exe = s.comm

Guarded ==
  /\ pc = "environ" => "environ" \in asked
  /\ "environ" \in DOMAIN got => "environ" \in asked /\ got["environ"] = Redact

IdentityInv ==
  op = "identity" =>
    /\ pc \in {"read", "chain", "name", "comm", "link", "environ", "done", "raised"}
    /\ Chained /\ (pc # "raised" => FilesRead) /\ Marked /\ Guarded


\* The steps of collect_process_identity.
LEMMA IdentityStep ==
    ASSUME op = "identity", Collect
    PROVE  \/ ReadIdentityFile \/ ReadParentStat \/ ReadParentExe \/ ReadComm \/ CompareWithExe \/ ReadEnviron
           \/ NotText
  BY DEF Collect, ListProcesses, SkipEntry, ReadEntryFile, EndOfTable, OpenHandles, ReadHandle,
       ListHolders, ListDescriptors, MapLink, ToNetFiles, ReadNetFile, SkipNetFile, ListVisible, ProbePid,
       ReadProcModules, ListSysfs, ReadTaint, BuildModuleList, ListingFails, Networked

\* Of the files asked for stat is the first, and it comes only once.
LEMMA FilesAskedFacts ==
  /\ FilesAsked \in Seq(FileNames) /\ Len(FilesAsked) \in Nat /\ Len(FilesAsked) >= 3
  /\ FilesAsked[1] = "stat"
  /\ \A j \in 1 .. Len(FilesAsked) : FilesAsked[j] \notin Others /\ (j > 1 => FilesAsked[j] # "stat")
<1> DEFINE A == FileNames \ {"stat"}
           rest == IF "introspection" \in asked THEN IntrospectionFiles ELSE <<>>
<1>0. A = {"exe", "cmdline", "status", "loginuid", "sessionid", "attr", "ns", "smaps_rollup", "maps",
           "cgroup", "cwd", "root", "io", "limits", "personality"}
  BY DEF FileNames
<1>1. CredentialFiles \in Seq(A) /\ MemoryFiles \in Seq(A) /\ PlaceFiles \in Seq(A)
  <2> HIDE DEF A
  <2>1. CredentialFiles \in Seq(A)
    BY <1>0 DEF CredentialFiles
  <2>2. MemoryFiles \in Seq(A)
    BY <1>0 DEF MemoryFiles
  <2>3. PlaceFiles \in Seq(A)
    BY <1>0 DEF PlaceFiles
  <2> QED BY <2>1, <2>2, <2>3
<1>2. IntrospectionFiles \in Seq(A)
  <2> HIDE DEF A
  <2>1. CredentialFiles \o MemoryFiles \in Seq(A)
    BY <1>1, ConcatProperties
  <2> QED BY <1>1, <2>1, ConcatProperties DEF IntrospectionFiles
<1>3. rest \in Seq(A)
  <2> HIDE DEF A
  <2> QED BY <1>2, EmptySeq
<1>4. /\ IdentityFiles \in Seq(FileNames) /\ Len(IdentityFiles) = 3 /\ IdentityFiles[1] = "stat"
      /\ IdentityFiles[2] \in A /\ IdentityFiles[3] \in A
  <2> HIDE DEF A
  <2>1. "exe" \in A /\ "cmdline" \in A /\ {"stat", "exe", "cmdline"} \subseteq FileNames
    BY <1>0 DEF FileNames
  <2>2. IdentityFiles \in Seq(FileNames)
    BY <2>1 DEF IdentityFiles
  <2> QED BY <2>1, <2>2 DEF IdentityFiles
<1>5. A \subseteq FileNames /\ \A f \in A : f \notin Others /\ f # "stat"
  <2>1. ASSUME NEW f \in A PROVE f # "hop" /\ f # "comm"
    BY <1>0
  <2>2. ASSUME NEW f \in A PROVE f # "mismatch" /\ f # "environ"
    BY <1>0
  <2> QED BY <2>1, <2>2 DEF Others
<1>5a. "stat" \notin Others
  BY DEF Others
<1>6. FilesAsked = IdentityFiles \o rest
  BY DEF FilesAsked
<1> HIDE DEF A, rest
<1>7. rest \in Seq(FileNames) /\ Len(rest) \in Nat /\ \A j \in 1 .. Len(rest) : rest[j] \in A
  BY <1>3, <1>5, SeqMonotonic, LenProperties, ElementOfSeq
<1>8. /\ FilesAsked \in Seq(FileNames) /\ Len(FilesAsked) = 3 + Len(rest)
      /\ \A j \in 1 .. 3 + Len(rest) : FilesAsked[j] = IF j <= 3 THEN IdentityFiles[j] ELSE rest[j - 3]
  <2>1. /\ IdentityFiles \o rest \in Seq(FileNames) /\ Len(IdentityFiles \o rest) = Len(IdentityFiles) + Len(rest)
        /\ \A j \in 1 .. Len(IdentityFiles) + Len(rest) :
             (IdentityFiles \o rest)[j] = IF j <= Len(IdentityFiles) THEN IdentityFiles[j]
                                          ELSE rest[j - Len(IdentityFiles)]
    BY <1>4, <1>7, ConcatProperties
  <2> QED BY <1>4, <1>6, <2>1
<1>9. FilesAsked[1] = "stat"
  BY <1>4, <1>7, <1>8
<1>10. ASSUME NEW j \in 1 .. 3 + Len(rest), j > 1 PROVE FilesAsked[j] \in A
  <2>1. CASE j = 2 \/ j = 3
    BY <1>4, <1>8, <2>1
  <2>2. CASE j > 3
    <3>1. j - 3 \in 1 .. Len(rest) /\ ~(j <= 3)
      BY <1>7, <2>2
    <3> QED BY <1>7, <1>8, <3>1
  <2> QED BY <1>10, <2>1, <2>2
<1>11. Len(FilesAsked) \in Nat /\ Len(FilesAsked) >= 3
  BY <1>7, <1>8
<1>12. ASSUME NEW j \in 1 .. Len(FilesAsked)
       PROVE  FilesAsked[j] \notin Others /\ (j > 1 => FilesAsked[j] # "stat")
  <2>1. j \in 1 .. 3 + Len(rest) /\ (j = 1 \/ j > 1)
    BY <1>7, <1>8
  <2> QED BY <1>5, <1>5a, <1>9, <1>10, <2>1
<1> QED BY <1>8, <1>9, <1>11, <1>12

\* A read gives a state the process has been in, or nothing.
LEMMA ReadFacts ==
    ASSUME KernelInv, NEW f, NEW p
    PROVE  \/ Read(f, p) = Gone
           \/ /\ Alive(p) /\ Read(f, p) = Snapshot(p) /\ Read(f, p) \in lived
              /\ Read(f, p) \in States
  BY DEF Read, Opens, KernelInv, HistoryInv, Snapshots, Alive

\* What a reader returns for a file that is not there is no state of a process.
LEMMA GoneFacts == Gone.pid = 0 /\ Gone.start = 0 /\ \A s \in States : s # Gone
<1>1. Gone.pid = 0 /\ Gone.start = 0
  BY DEF Gone
<1>2. \A s \in States : s.pid # 0
  BY PidsNat DEF States
<1> QED BY <1>1, <1>2

\* Who runs is in a state a reader can tell from nothing.
LEMMA SnapshotIsState ==
    ASSUME KernelInv, NEW p, Alive(p)
    PROVE  Snapshot(p) \in lived /\ Snapshot(p) \in States /\ Snapshot(p) # Gone
<1>1. Snapshot(p) \in lived /\ Snapshot(p) \in States
  BY DEF KernelInv, HistoryInv, Snapshots, Alive
<1> QED BY <1>1, GoneFacts

\* A file everybody may read is missing only when the process is, or when it has been
\* closed or no text.
LEMMA PublicFacts ==
    ASSUME KernelInv, BeganInv, NEW f \in {"stat", "cmdline", "status", "statm"}, NEW p, Alive(p),
           Read(f, p) = Gone
    PROVE  Troubled(f, proc[p].start)
<1>1. f \notin Private
  BY DEF Private
<1> QED BY <1>1, SnapshotIsState DEF Read, Opens, Decodes, Troubled, BeganInv, AccessInv

\* The parent's identifier goes to nobody older than the child.
LEMMA ParentKnownStays ==
    ASSUME KernelInv, Later, NEW h, h.start \in Nat, h.start < clock, KnownIn(h, proc, parents)
    PROVE  KnownIn(h, proc', parents')
<1> SUFFICES ASSUME h.ppid \in DOMAIN proc', proc'[h.ppid].start < h.start
             PROVE  [child |-> <<h.pid, h.start>>, parent |-> <<h.ppid, proc'[h.ppid].start>>] \in parents'
  BY DEF KnownIn
<1>1. clock \in Nat
  BY DEF KernelInv, ProcInv
<1>2. h.ppid \in DOMAIN proc /\ proc'[h.ppid].start = proc[h.ppid].start
  BY <1>1 DEF Later
<1> QED BY <1>2 DEF KnownIn, Later

\* Who is read while running has its parent among those who run.
LEMMA ParentIsKnown ==
    ASSUME KernelInv, NEW p \in DOMAIN proc
    PROVE  KnownIn(Snapshot(p), proc, parents)
<1>1. proc[p].ppid \in DOMAIN proc => proc[p].ppid # 0
  BY PidsNat DEF KernelInv, ProcInv
<1>2. proc[p].ppid \in DOMAIN proc =>
        [child |-> <<p, proc[p].start>>, parent |-> <<proc[p].ppid, proc[proc[p].ppid].start>>] \in parents
  BY <1>1 DEF KernelInv, HistoryInv, Parenthood, Born
<1> QED BY <1>2, SnapshotFacts DEF KnownIn

\* The hops stay joined, whether the next one is read or the machine changes.
LEMMA ChainKeeps ==
    ASSUME KernelInv, BeganInv, CallInv, [Next]_vars, op = "identity", IdentityInv
    PROVE  Chained'
<1> USE DEF IdentityInv
<1>0. KernelInv' /\ Later /\ op' = op
  BY MachineKeeps
<1>1. /\ table \in Seq(Hops) /\ Len(table) \in Nat /\ Len(table) <= MaxHops
      /\ \A k \in 1 .. Len(table) : table[k] \in Hops
  BY LenProperties, ElementOfSeq DEF Chained
<1>2. MaxHops \in Nat \ {0} /\ clock \in Nat
  BY CollectorAssumption DEF KernelInv, ProcInv
<1>3. ASSUME NEW h \in Hops \cup States, h.start < clock, KnownIn(h, proc, parents)
      PROVE  h.start < clock' /\ KnownIn(h, proc', parents')
  <2>1. h.start \in Nat
    BY DEF Hops, States
  <2>2. h.start < clock'
    BY <1>0, <1>2, <1>3, <2>1 DEF Later
  <2> QED BY <1>0, <1>3, <2>1, <2>2, ParentKnownStays
<1>4. ASSUME NEW g, NEW h, LinkedIn(g, h, parents) PROVE LinkedIn(g, h, parents')
  BY <1>0, <1>4 DEF LinkedIn, Later
<1>5. \A k \in 1 .. Len(table) : table[k].start < clock' /\ KnownIn(table[k], proc', parents')
  BY <1>1, <1>3 DEF Chained
<1>6. \A k \in 1 .. Len(table) - 1 : LinkedIn(table[k], table[k + 1], parents')
  BY <1>4 DEF Chained
\* A step that adds no hop.
<1>7. ASSUME table' = table, pc' \in {"read", "chain", "name"} => Len(table) < MaxHops,
             pc' = "name" => /\ got'["hop"] \in lived' /\ KnownIn(got'["hop"], proc', parents')
                             /\ table # <<>> => LinkedIn(table[Len(table)], got'["hop"], parents')
      PROVE  Chained'
  BY <1>1, <1>5, <1>6, <1>7 DEF Chained
<1>8. ASSUME pc' = pc, table' = table, got' = got PROVE Chained'
  <2>1. ASSUME pc = "name" PROVE got["hop"] \in lived' /\ KnownIn(got["hop"], proc', parents')
    <3>1. got["hop"] \in lived /\ KnownIn(got["hop"], proc, parents)
      BY <2>1 DEF Chained
    <3>2. got["hop"] \in States /\ got["hop"].start < clock
      BY <3>1 DEF KernelInv, HistoryInv
    <3> QED BY <1>0, <1>3, <3>1, <3>2 DEF Later
  <2>2. pc = "name" /\ table # <<>> => LinkedIn(table[Len(table)], got["hop"], parents')
    BY <1>4 DEF Chained
  <2>3. pc \in {"read", "chain", "name"} => Len(table) < MaxHops
    BY DEF Chained
  <2> QED BY <1>7, <1>8, <2>1, <2>2, <2>3
<1>9. CASE ~Collect
  <2>1. pc' = pc /\ table' = table /\ got' = got
    BY <1>9, StepShape DEF vars
  <2> QED BY <1>8, <2>1
<1>10. CASE Collect
  <2>1. UNCHANGED kernel
    BY <1>10, CollectQuiet
  <2>2. proc' = proc /\ lived' = lived /\ parents' = parents /\ clock' = clock
    BY <2>1 DEF kernel
  <2>3. CASE ReadIdentityFile
    <3>1. pc = "read" /\ table' = table /\ pc' # "name"
      BY <2>3 DEF ReadIdentityFile
    <3>2. Len(table) < MaxHops
      BY <3>1 DEF Chained
    <3> QED BY <1>7, <3>1, <3>2
  <2>4. CASE ReadParentStat
    <3>1. /\ pc = "chain" /\ table' = table /\ got' = With(got, "hop", Read("stat", NextHop))
          /\ pc' = IF got'["hop"] = Gone THEN "comm" ELSE "name"
      BY <2>4 DEF ReadParentStat
    <3>2. got'["hop"] = Read("stat", NextHop)
      BY <3>1 DEF With
    <3>3. Len(table) < MaxHops
      BY <3>1 DEF Chained
    <3>4. ASSUME pc' = "name"
          PROVE  /\ got'["hop"] \in lived /\ KnownIn(got'["hop"], proc, parents)
                 /\ table # <<>> => LinkedIn(table[Len(table)], got'["hop"], parents)
      <4>1. Alive(NextHop) /\ got'["hop"] = Snapshot(NextHop) /\ Snapshot(NextHop) \in lived
        BY <3>1, <3>2, <3>4, ReadFacts
      <4>2. KnownIn(Snapshot(NextHop), proc, parents)
        BY <4>1, ParentIsKnown DEF Alive
      <4>3. ASSUME table # <<>> PROVE LinkedIn(table[Len(table)], Snapshot(NextHop), parents)
        <5>1. Len(table) \in 1 .. Len(table)
          BY <1>1, <4>3, EmptySeq
        <5>2. KnownIn(table[Len(table)], proc, parents)
          BY <5>1 DEF Chained
        <5>3. NextHop = table[Len(table)].ppid
          BY <4>3 DEF NextHop
        <5> QED BY <4>1, <5>2, <5>3, SnapshotFacts DEF KnownIn, LinkedIn, Alive
      <4> QED BY <4>1, <4>2, <4>3
    <3> QED BY <1>7, <2>2, <3>1, <3>3, <3>4
  <2>5. CASE ReadParentExe
    <3> DEFINE hop == got["hop"]
               exe == Read("exe", hop.pid)
               h == [pid |-> hop.pid, start |-> hop.start, ppid |-> hop.ppid,
                     name |-> IF exe = Gone THEN hop.comm ELSE exe.exe]
    <3>1. /\ pc = "name" /\ table' = Append(table, h)
          /\ pc' = IF ChainEndsWith(hop) \/ Len(table') = MaxHops THEN "comm" ELSE "chain"
      BY <2>5 DEF ReadParentExe
    <3>2. hop \in States /\ hop \in lived /\ hop.start < clock /\ KnownIn(hop, proc, parents)
      BY <3>1 DEF Chained, KernelInv, HistoryInv
    <3>3. exe = Gone \/ exe \in States
      BY ReadFacts
    <3>4. /\ h.pid = hop.pid /\ h.start = hop.start /\ h.ppid = hop.ppid /\ h \in Hops
      BY <3>2, <3>3 DEF Hops, States
    <3> HIDE DEF h, exe
    <3>5. KnownIn(h, proc, parents) /\ h.start < clock
      BY <3>2, <3>4 DEF KnownIn
    <3>6. table # <<>> => LinkedIn(table[Len(table)], h, parents)
      BY <3>1, <3>4 DEF Chained, LinkedIn
    <3>7. /\ table' \in Seq(Hops) /\ Len(table') = Len(table) + 1 /\ table'[Len(table) + 1] = h
          /\ \A k \in 1 .. Len(table) : table'[k] = table[k]
      BY <1>1, <3>1, <3>4, AppendProperties
    <3>8. Len(table) < MaxHops
      BY <3>1 DEF Chained
    <3>9. \A k \in 1 .. Len(table') : table'[k].start < clock' /\ KnownIn(table'[k], proc', parents')
      BY <1>1, <1>5, <2>2, <3>5, <3>7
    <3>10. ASSUME NEW k \in 1 .. Len(table') - 1 PROVE LinkedIn(table'[k], table'[k + 1], parents')
      <4>1. CASE k < Len(table)
        <5>1. k \in 1 .. Len(table) - 1 /\ table'[k] = table[k] /\ table'[k + 1] = table[k + 1]
          BY <1>1, <3>7, <4>1
        <5> QED BY <1>6, <5>1
      <4>2. CASE k = Len(table)
        <5>1. table # <<>> /\ table'[k] = table[k] /\ table'[k + 1] = h
          BY <1>1, <3>7, <4>2, EmptySeq
        <5> QED BY <2>2, <3>6, <4>2, <5>1
      <4> QED BY <1>1, <3>7, <4>1, <4>2
    <3>11. Len(table') <= MaxHops /\ (pc' \in {"read", "chain", "name"} => Len(table') < MaxHops) /\ pc' # "name"
      BY <1>1, <1>2, <3>1, <3>7, <3>8
    <3> QED BY <3>7, <3>9, <3>10, <3>11 DEF Chained
  <2>6. CASE ReadComm \/ CompareWithExe \/ ReadEnviron
    <3>1. table' = table /\ pc' \notin {"read", "chain", "name"}
      BY <2>6 DEF ReadComm, CompareWithExe, ReadEnviron, AfterMismatch
    <3> QED BY <1>7, <3>1
  <2>7. CASE NotText
    <3>1. table' = <<>> /\ pc' = "raised"
      BY <2>7 DEF NotText
    <3>2. <<>> \in Seq(Hops) /\ Len(<<>>) = 0
      BY EmptySeq
    <3> QED BY <1>2, <3>1, <3>2 DEF Chained
  <2> QED BY <1>10, <2>3, <2>4, <2>5, <2>6, <2>7, IdentityStep
<1> QED BY <1>9, <1>10

\* What was read of the target stays what it had been.
LEMMA OfTargetStays ==
    ASSUME KernelInv, Later, NEW x, NEW stat, stat = Gone \/ stat \in lived,
           OfTarget(x, stat, proc, lived)
    PROVE  OfTarget(x, stat, proc', lived')
<1>1. ASSUME stat # Gone, Target \in DOMAIN proc', proc'[Target].start = stat.start
      PROVE  Target \in DOMAIN proc /\ proc[Target].start = stat.start
  <2>1. stat.start \in Nat /\ stat.start < clock
    BY <1>1 DEF KernelInv, HistoryInv, States
  <2>2. stat.start # clock
    BY <2>1 DEF KernelInv, ProcInv
  <2> QED BY <1>1, <2>2 DEF Later
<1> QED BY <1>1 DEF OfTarget, Later

\* A change of the machine leaves what was read as true as it was.
LEMMA ReadUpToStays ==
    ASSUME KernelInv, Later, NEW m \in Nat, NEW files, NEW read, files[1] = "stat",
           ReadUpTo(m, files, read, proc, lived)
    PROVE  ReadUpTo(m, files, read, proc', lived')
<1> SUFFICES ASSUME NEW j \in 1 .. m
             PROVE  files[j] \in DOMAIN read /\ OfTarget(read[files[j]], read["stat"], proc', lived')
  BY DEF ReadUpTo
<1>1. files[j] \in DOMAIN read /\ OfTarget(read[files[j]], read["stat"], proc, lived)
  BY DEF ReadUpTo
<1>2. 1 \in 1 .. m
  OBVIOUS
<1>3. OfTarget(read["stat"], read["stat"], proc, lived)
  BY <1>2 DEF ReadUpTo
<1>4. read["stat"] = Gone \/ read["stat"] \in lived
  BY <1>3 DEF OfTarget
<1> QED BY <1>1, <1>4, OfTargetStays

\* What a read adds is of whoever has the target's identifier now.
LEMMA TargetRead ==
    ASSUME KernelInv, NEW f, NEW stat
    PROVE  OfTarget(Read(f, Target), stat, proc, lived)
<1>1. CASE Read(f, Target) = Gone
  BY <1>1 DEF OfTarget
<1>2. CASE Alive(Target) /\ Read(f, Target) = Snapshot(Target) /\ Read(f, Target) \in lived
  BY <1>2, SnapshotFacts DEF OfTarget, Alive
<1> QED BY <1>1, <1>2, ReadFacts

\* One more file of the target is of the same process, unless that one has ended.
LEMMA FilesReadKeeps ==
    ASSUME KernelInv, BeganInv, CallInv, [Next]_vars, op = "identity", IdentityInv
    PROVE  pc' # "raised" => FilesRead'
<1> SUFFICES ASSUME pc' # "raised" PROVE FilesRead'
  OBVIOUS
<1>0. KernelInv' /\ Later /\ asked' = asked
  BY MachineKeeps
<1>1. /\ FilesAsked \in Seq(FileNames) /\ Len(FilesAsked) \in Nat /\ Len(FilesAsked) >= 3
      /\ FilesAsked[1] = "stat"
      /\ \A j \in 1 .. Len(FilesAsked) : FilesAsked[j] \notin Others /\ (j > 1 => FilesAsked[j] # "stat")
  BY FilesAskedFacts
<1>2. FilesAsked' = FilesAsked
  BY <1>0 DEF FilesAsked
<1>2a. FilesRead
  <2>1. ASSUME pc = "raised" PROVE FALSE
    <3>1. ~Collect
      BY <2>1, IdentityStep DEF ReadIdentityFile, ReadParentStat, ReadParentExe, ReadComm, CompareWithExe,
           ReadEnviron, NotText, Networked
    <3> QED BY <2>1, <3>1, StepShape DEF vars
  <2> QED BY <2>1 DEF IdentityInv
<1> DEFINE files == FilesAsked
<1>3. FilesRead' = IF pc' = "read"
                   THEN \E i \in 1 .. Len(files) :
                          Remaining(i, files, todo') /\ ReadUpTo(i - 1, files, got', proc', lived')
                   ELSE ReadUpTo(Len(files), files, got', proc', lived')
  BY <1>2 DEF FilesRead
<1>4. FilesRead = IF pc = "read"
                  THEN \E i \in 1 .. Len(files) :
                         Remaining(i, files, todo) /\ ReadUpTo(i - 1, files, got, proc, lived)
                  ELSE ReadUpTo(Len(files), files, got, proc, lived)
  BY DEF FilesRead
<1> HIDE DEF files
<1>5. /\ files \in Seq(FileNames) /\ Len(files) \in Nat /\ Len(files) >= 3 /\ files[1] = "stat"
      /\ \A j \in 1 .. Len(files) : files[j] \notin Others /\ (j > 1 => files[j] # "stat")
  BY <1>1 DEF files
<1>6. CASE pc' = pc /\ todo' = todo /\ got' = got
  <2>1. CASE pc = "read"
    <3>1. PICK i \in 1 .. Len(files) :
                 Remaining(i, files, todo) /\ ReadUpTo(i - 1, files, got, proc, lived)
      BY <1>2a, <1>4, <2>1
    <3>2. i - 1 \in Nat
      BY <1>5
    <3>3. ReadUpTo(i - 1, files, got, proc', lived')
      BY <1>0, <1>5, <3>1, <3>2, ReadUpToStays
    <3> QED BY <1>3, <1>6, <2>1, <3>1, <3>3
  <2>2. CASE pc # "read"
    <3>1. ReadUpTo(Len(files), files, got, proc', lived')
      BY <1>0, <1>2a, <1>4, <1>5, <2>2, ReadUpToStays
    <3> QED BY <1>3, <1>6, <2>2, <3>1
  <2> QED BY <2>1, <2>2
<1>7. CASE ~Collect
  <2>1. pc' = pc /\ todo' = todo /\ got' = got
    BY <1>7, StepShape DEF vars
  <2> QED BY <1>6, <2>1
<1>8. CASE Collect
  <2>1. UNCHANGED kernel
    BY <1>8, CollectQuiet
  <2>2. proc' = proc /\ lived' = lived
    BY <2>1 DEF kernel
  <2>3. CASE ReadIdentityFile
    <3>1. PICK i \in 1 .. Len(files) :
                 Remaining(i, files, todo) /\ ReadUpTo(i - 1, files, got, proc, lived)
      BY <1>2a, <1>4, <2>3 DEF ReadIdentityFile
    <3>2. /\ pc = "read" /\ todo # <<>> /\ todo' = Tail(todo)
          /\ got' = With(got, Head(todo), Read(Head(todo), Target))
          /\ pc' = IF Len(todo) > 1 THEN "read"
                   ELSE IF "introspection" \in asked THEN "chain" ELSE "done"
      BY <2>3 DEF ReadIdentityFile
    <3>3. /\ todo \in Seq(FileNames) /\ Len(todo) = Len(files) - i + 1
          /\ \A j \in 1 .. Len(todo) : todo[j] = files[i + j - 1]
      BY <3>1 DEF Remaining
    <3>4. Len(todo) \in Nat /\ Len(todo) >= 1 /\ i \in Nat
      BY <1>5, <3>3
    <3>5. /\ Head(todo) = todo[1] /\ todo' \in Seq(FileNames) /\ Len(todo') = Len(todo) - 1
          /\ \A j \in 1 .. Len(todo) - 1 : todo'[j] = todo[j + 1]
      BY <3>2, <3>3, HeadTailProperties
    <3>6. Head(todo) = files[i]
      <4>1. 1 \in 1 .. Len(todo) /\ i + 1 - 1 = i
        BY <3>4
      <4> QED BY <3>3, <3>5, <4>1
    <3> DEFINE x == Read(files[i], Target)
    <3>7. DOMAIN got' = DOMAIN got \cup {files[i]} /\ got'[files[i]] = x
          /\ \A y \in DOMAIN got : y # files[i] => got'[y] = got[y]
      <4>1. got' = With(got, files[i], x)
        BY <3>2, <3>6
      <4> HIDE DEF x
      <4> QED BY <4>1 DEF With
    <3>8. \A stat : OfTarget(x, stat, proc, lived)
      BY TargetRead
    <3> HIDE DEF x
    <3>9. ASSUME NEW j \in 1 .. i
          PROVE  files[j] \in DOMAIN got' /\ OfTarget(got'[files[j]], got'["stat"], proc, lived)
      <4>1. CASE files[j] = files[i]
        BY <3>7, <3>8, <4>1
      <4>2. CASE files[j] # files[i]
        <5>1. j \in 1 .. i - 1 /\ i > 1
          BY <3>4, <4>2
        <5>2. files[j] \in DOMAIN got /\ OfTarget(got[files[j]], got["stat"], proc, lived)
          BY <3>1, <5>1 DEF ReadUpTo
        <5>3. got'[files[j]] = got[files[j]] /\ files[j] \in DOMAIN got'
          BY <3>7, <4>2, <5>2
        <5>4. "stat" \in DOMAIN got
          <6>1. 1 \in 1 .. i - 1
            BY <5>1
          <6> QED BY <1>5, <3>1, <6>1 DEF ReadUpTo
        <5>5. got'["stat"] = got["stat"]
          BY <1>5, <3>7, <5>1, <5>4
        <5> QED BY <5>2, <5>3, <5>5
      <4> QED BY <4>1, <4>2
    <3>10. ReadUpTo(i, files, got', proc', lived')
      BY <2>2, <3>9 DEF ReadUpTo
    <3>11. CASE Len(todo) > 1
      <4>0. pc' = "read"
        BY <3>2, <3>11
      <4>1. i + 1 \in 1 .. Len(files) /\ pc' = "read" /\ (i + 1) - 1 = i
        BY <1>5, <3>3, <3>4, <3>11, <4>0
      <4>2. ASSUME NEW j \in 1 .. Len(todo') PROVE todo'[j] = files[(i + 1) + j - 1]
        <5>1. j \in 1 .. Len(todo) - 1 /\ j + 1 \in 1 .. Len(todo) /\ (i + 1) + j - 1 = i + (j + 1) - 1
          BY <3>4, <3>5
        <5> QED BY <3>3, <3>5, <5>1
      <4>3. Remaining(i + 1, files, todo')
        <5>1. Len(todo') = Len(files) - (i + 1) + 1
          BY <1>5, <3>3, <3>4, <3>5
        <5> QED BY <3>5, <4>2, <5>1 DEF Remaining
      <4> QED BY <1>3, <3>10, <4>1, <4>3
    <3>12. CASE ~(Len(todo) > 1)
      <4>1. i = Len(files) /\ pc' # "read"
        BY <1>5, <3>2, <3>3, <3>4, <3>12
      <4> QED BY <1>3, <3>10, <4>1
    <3> QED BY <3>11, <3>12
  <2>4. ASSUME NEW k \in Others, NEW v, pc # "read", pc' # "read", got' = With(got, k, v) \/ got' = got
        PROVE  FilesRead'
    <3>1. ReadUpTo(Len(files), files, got, proc, lived)
      BY <1>2a, <1>4, <2>4
    <3>2. \A y \in DOMAIN got : y # k => got'[y] = got[y] /\ y \in DOMAIN got'
      <4>1. CASE got' = got
        BY <4>1
      <4>2. CASE got' = With(got, k, v)
        BY <4>2 DEF With
      <4> QED BY <2>4, <4>1, <4>2
    <3>3. ASSUME NEW j \in 1 .. Len(files)
          PROVE  files[j] \in DOMAIN got' /\ OfTarget(got'[files[j]], got'["stat"], proc, lived)
      <4>1. files[j] \in DOMAIN got /\ OfTarget(got[files[j]], got["stat"], proc, lived)
        BY <3>1 DEF ReadUpTo
      <4>2. 1 \in 1 .. Len(files)
        BY <1>5
      <4>3. "stat" \in DOMAIN got /\ "stat" # k /\ files[j] # k
        BY <1>5, <3>1, <4>2 DEF ReadUpTo
      <4> QED BY <3>2, <4>1, <4>3
    <3>4. ReadUpTo(Len(files), files, got', proc', lived')
      BY <2>2, <3>3 DEF ReadUpTo
    <3> QED BY <1>3, <2>4, <3>4
  <2>5. Others = {"hop", "comm", "mismatch", "environ"}
    BY DEF Others
  <2>6. CASE ReadParentStat
    <3>1. pc = "chain" /\ pc' # "read" /\ got' = With(got, "hop", Read("stat", NextHop))
      BY <2>6 DEF ReadParentStat
    <3> QED BY <2>4, <2>5, <3>1
  <2>7. CASE ReadParentExe
    <3>1. pc = "name" /\ pc' # "read" /\ got' = got
      BY <2>7 DEF ReadParentExe
    <3> QED BY <2>4, <2>5, <3>1
  <2>8. CASE ReadComm
    <3>1. pc = "comm" /\ pc' # "read" /\ got' = With(got, "comm", Read("stat", Target))
      BY <2>8 DEF ReadComm
    <3> QED BY <2>4, <2>5, <3>1
  <2>9. CASE CompareWithExe
    <3>1. pc = "link" /\ pc' # "read" /\ got' = With(got, "mismatch", Differs(got["comm"], Read("exe", Target)))
      BY <2>9 DEF CompareWithExe, AfterMismatch
    <3> QED BY <2>4, <2>5, <3>1
  <2>10. CASE ReadEnviron
    <3>1. pc = "environ" /\ pc' # "read" /\ (got' = got \/ got' = With(got, "environ", Redact))
      BY <2>10 DEF ReadEnviron
    <3> QED BY <2>4, <2>5, <3>1
  <2>11. CASE NotText
    BY <2>11 DEF NotText
  <2> QED BY <1>8, <2>3, <2>6, <2>7, <2>8, <2>9, <2>10, <2>11, IdentityStep
<1> QED BY <1>7, <1>8

\* The two names that are compared were names of processes with the identifier.
LEMMA MarkedKeeps ==
    ASSUME KernelInv, BeganInv, CallInv, [Next]_vars, op = "identity", IdentityInv
    PROVE  Marked'
<1>0. KernelInv' /\ Later /\ Lasts /\ me' = me /\ began' = began
  BY MachineKeeps
<1>1. Marked
  BY DEF IdentityInv
<1>2. Targets \subseteq Targets'
  BY <1>0 DEF Targets, Later
<1>3. Unreadable => Unreadable'
  <2>1. Target \in Lasting' => Target \in Lasting /\ proc'[Target].start = proc[Target].start
    BY <1>0 DEF Lasts
  <2>2. troubled \subseteq troubled'
    BY <1>0 DEF Lasts
  <2> QED BY <1>0, <2>1, <2>2 DEF Unreadable, Troubled
\* A step that takes neither the name nor the mark.
<1>6. ASSUME pc' = "link" => pc = "link" /\ got'["comm"] = got["comm"],
             "mismatch" \in DOMAIN got' => "mismatch" \in DOMAIN got /\ got'["mismatch"] = got["mismatch"]
      PROVE  Marked'
  <2>1. pc' = "link" => IF got'["comm"] = Gone THEN Unreadable' ELSE got'["comm"] \in Targets'
    BY <1>1, <1>2, <1>3, <1>6 DEF Marked
  <2>2. ASSUME "mismatch" \in DOMAIN got', got'["mismatch"]
        PROVE  \E s, t \in Targets' : t.exe # s.comm
    BY <1>1, <1>2, <1>6, <2>2 DEF Marked
  <2>3. ASSUME "mismatch" \in DOMAIN got', ~got'["mismatch"]
        PROVE  Unreadable' \/ \E s, t \in Targets' : t.exe = s.comm
    <3>1. Unreadable \/ \E s, t \in Targets : t.exe = s.comm
      BY <1>1, <1>6, <2>3 DEF Marked
    <3> QED BY <1>2, <1>3, <3>1
  <2> QED BY <2>1, <2>2, <2>3 DEF Marked
<1>7. CASE ~Collect
  <2>1. pc' = pc /\ got' = got
    BY <1>7, StepShape DEF vars
  <2> QED BY <1>6, <2>1
<1>8. CASE Collect
  <2>1. UNCHANGED kernel
    BY <1>8, CollectQuiet
  <2>2. ASSUME NEW k, NEW v, k # "mismatch", got' = With(got, k, v)
        PROVE  "mismatch" \in DOMAIN got' => "mismatch" \in DOMAIN got /\ got'["mismatch"] = got["mismatch"]
    BY <2>2 DEF With
  <2>3. CASE ReadIdentityFile
    <3>1. /\ pc = "read" /\ todo # <<>> /\ got' = With(got, Head(todo), Read(Head(todo), Target))
          /\ pc' # "link"
      BY <2>3 DEF ReadIdentityFile
    <3>2. PICK i \in 1 .. Len(FilesAsked) : Remaining(i, FilesAsked, todo)
      BY <3>1 DEF IdentityInv, FilesRead
    <3>3. todo \in Seq(FileNames) /\ Len(todo) \in Nat /\ Len(todo) >= 1
      BY <3>1, <3>2, EmptySeq DEF Remaining
    <3>4. Head(todo) \in FileNames
      BY <3>1, <3>3, HeadTailProperties
    <3>5. Head(todo) # "mismatch"
      BY <3>4 DEF FileNames
    <3> QED BY <1>6, <2>2, <3>1, <3>5
  <2>4. CASE ReadParentStat
    <3>1. got' = With(got, "hop", Read("stat", NextHop)) /\ pc' # "link"
      BY <2>4 DEF ReadParentStat
    <3> QED BY <1>6, <2>2, <3>1
  <2>5. CASE ReadParentExe
    <3>1. got' = got /\ pc' # "link"
      BY <2>5 DEF ReadParentExe
    <3> QED BY <1>6, <3>1
  <2>6. CASE ReadEnviron
    <3>1. (got' = got \/ got' = With(got, "environ", Redact)) /\ pc' # "link"
      BY <2>6 DEF ReadEnviron
    <3> QED BY <1>6, <2>2, <3>1
  <2>7. CASE ReadComm
    <3>1. pc' = "link" /\ got' = With(got, "comm", Read("stat", Target))
      BY <2>7 DEF ReadComm
    <3>2. got'["comm"] = Read("stat", Target)
          /\ ("mismatch" \in DOMAIN got' => "mismatch" \in DOMAIN got /\ got'["mismatch"] = got["mismatch"])
      BY <2>2, <3>1 DEF With
    <3>3. IF got'["comm"] = Gone THEN Unreadable ELSE got'["comm"] \in Targets
      <4>1. CASE Read("stat", Target) = Gone
        <5>1. Target \notin Lasting \/ Troubled("stat", proc[Target].start)
          BY <4>1, PublicFacts DEF Lasting, Same
        <5> QED BY <3>2, <4>1, <5>1 DEF Unreadable
      <4>2. CASE Read("stat", Target) # Gone
        BY <3>2, <4>2, ReadFacts, SnapshotFacts DEF Targets
      <4> QED BY <4>1, <4>2
    <3>4. IF got'["comm"] = Gone THEN Unreadable' ELSE got'["comm"] \in Targets'
      BY <1>2, <1>3, <3>3
    <3>5. ASSUME "mismatch" \in DOMAIN got', got'["mismatch"]
          PROVE  \E s, t \in Targets' : t.exe # s.comm
      BY <1>1, <1>2, <3>2, <3>5 DEF Marked
    <3>6. ASSUME "mismatch" \in DOMAIN got', ~got'["mismatch"]
          PROVE  Unreadable' \/ \E s, t \in Targets' : t.exe = s.comm
      <4>1. Unreadable \/ \E s, t \in Targets : t.exe = s.comm
        BY <1>1, <3>2, <3>6 DEF Marked
      <4> QED BY <1>2, <1>3, <4>1
    <3> QED BY <3>4, <3>5, <3>6 DEF Marked
  <2>8. CASE CompareWithExe
    <3> DEFINE comm == got["comm"]
               exe == Read("exe", Target)
    <3>1. pc = "link" /\ pc' # "link" /\ got' = With(got, "mismatch", Differs(comm, exe))
      BY <2>8 DEF CompareWithExe, AfterMismatch
    <3>2. got'["mismatch"] = Differs(comm, exe)
      BY <3>1 DEF With
    <3>3. IF comm = Gone THEN Unreadable ELSE comm \in Targets
      BY <1>1, <3>1 DEF Marked
    <3>4. exe = Gone => Unreadable
      <4> SUFFICES ASSUME ~Unreadable PROVE exe # Gone
        OBVIOUS
      <4>1. /\ Alive(Target) /\ Target \in Lasting /\ me \in {0, began.proc[Target].uid}
            /\ ~Troubled("exe", proc[Target].start)
        BY DEF Unreadable, Lasting, Same
      <4>2. MayOpen(Target, me)
        BY <4>1 DEF MayOpen, BeganInv
      <4>3. exe = Snapshot(Target)
        BY <4>1, <4>2 DEF Read, Opens, Decodes, Troubled, BeganInv, AccessInv
      <4> QED BY <4>1, <4>3, GoneFacts, SnapshotIsState
    <3>5. exe # Gone => exe \in Targets
      BY ReadFacts, SnapshotFacts DEF Targets
    <3> HIDE DEF comm, exe
    <3>6. CASE Differs(comm, exe)
      <4>1. \E s, t \in Targets' : t.exe # s.comm
        BY <1>2, <3>3, <3>5, <3>6 DEF Differs
      <4> QED BY <3>1, <3>2, <3>6, <4>1 DEF Marked
    <3>7. CASE ~Differs(comm, exe)
      <4>1. Unreadable \/ \E s, t \in Targets : t.exe = s.comm
        BY <3>3, <3>4, <3>5, <3>7 DEF Differs
      <4>2. Unreadable' \/ \E s, t \in Targets' : t.exe = s.comm
        BY <1>2, <1>3, <4>1
      <4> QED BY <3>1, <3>2, <3>7, <4>2 DEF Marked
    <3> QED BY <3>6, <3>7
  <2>9. CASE NotText
    <3>1. pc' # "link" /\ got' = <<>> /\ DOMAIN got' = {}
      BY <2>9 DEF NotText
    <3> QED BY <3>1 DEF Marked
  <2> QED BY <1>8, <2>3, <2>4, <2>5, <2>6, <2>7, <2>8, <2>9, IdentityStep
<1> QED BY <1>7, <1>8

\* The environment is kept only redacted, and only if it was asked for.
LEMMA GuardedKeeps ==
    ASSUME CallInv, [Next]_vars, op = "identity", IdentityInv
    PROVE  Guarded' /\ pc' \in {"read", "chain", "name", "comm", "link", "environ", "done", "raised"}
<1> DEFINE Here == {"read", "chain", "name", "comm", "link", "environ", "done", "raised"}
<1>1. Guarded /\ pc \in Here
  BY DEF IdentityInv
<1>2. ASSUME pc' = pc, got' = got, asked' = asked PROVE Guarded' /\ pc' \in Here
  BY <1>1, <1>2 DEF Guarded, Redact
<1>3. CASE ~Collect
  <2>1. pc' = pc /\ got' = got /\ asked' = asked
    BY <1>3, StepShape DEF vars, call
  <2> QED BY <1>2, <2>1
<1>4. CASE Collect
  <2>1. asked' = asked /\ Redact' = Redact
    BY <1>4, CollectQuiet DEF call, Redact
  <2>2. ASSUME NEW k, NEW v, k # "environ", got' = With(got, k, v) \/ got' = got
        PROVE  "environ" \in DOMAIN got' => "environ" \in DOMAIN got /\ got'["environ"] = got["environ"]
    <3>1. CASE got' = got
      BY <3>1
    <3>2. CASE got' = With(got, k, v)
      BY <2>2, <3>2 DEF With
    <3> QED BY <2>2, <3>1, <3>2
  <2>3. ASSUME pc' \in Here, pc' = "environ" => "environ" \in asked,
               "environ" \in DOMAIN got' => "environ" \in DOMAIN got /\ got'["environ"] = got["environ"]
        PROVE  Guarded' /\ pc' \in Here
    BY <1>1, <2>1, <2>3 DEF Guarded
  <2>4. CASE ReadIdentityFile
    <3>1. /\ pc = "read" /\ todo # <<>> /\ got' = With(got, Head(todo), Read(Head(todo), Target))
          /\ pc' \in Here /\ pc' # "environ"
      BY <2>4 DEF ReadIdentityFile
    <3>2. PICK i \in 1 .. Len(FilesAsked) : Remaining(i, FilesAsked, todo)
      BY <3>1 DEF IdentityInv, FilesRead
    <3>3. todo \in Seq(FileNames)
      BY <3>2 DEF Remaining
    <3>4. Head(todo) \in FileNames
      BY <3>1, <3>3, HeadTailProperties
    <3>5. Head(todo) # "environ"
      BY <3>4 DEF FileNames
    <3> QED BY <2>2, <2>3, <3>1, <3>5
  <2>5. CASE ReadParentStat
    <3>1. got' = With(got, "hop", Read("stat", NextHop)) /\ pc' \in Here /\ pc' # "environ"
      BY <2>5 DEF ReadParentStat
    <3> QED BY <2>2, <2>3, <3>1
  <2>6. CASE ReadParentExe
    <3>1. got' = got /\ pc' \in Here /\ pc' # "environ"
      BY <2>6 DEF ReadParentExe
    <3> QED BY <2>3, <3>1
  <2>7. CASE ReadComm
    <3>1. got' = With(got, "comm", Read("stat", Target)) /\ pc' \in Here /\ pc' # "environ"
      BY <2>7 DEF ReadComm
    <3> QED BY <2>2, <2>3, <3>1
  <2>8. CASE CompareWithExe
    <3>1. /\ got' = With(got, "mismatch", Differs(got["comm"], Read("exe", Target)))
          /\ pc' \in Here /\ (pc' = "environ" => "environ" \in asked)
      BY <2>8 DEF CompareWithExe, AfterMismatch
    <3> QED BY <2>2, <2>3, <3>1
  <2>9. CASE ReadEnviron
    <3>1. pc = "environ" /\ pc' = "done" /\ (got' = got \/ got' = With(got, "environ", Redact))
      BY <2>9 DEF ReadEnviron
    <3>2. "environ" \in asked
      BY <1>1, <3>1 DEF Guarded
    <3>3. CASE got' = got
      BY <2>3, <3>1, <3>3
    <3>4. CASE got' = With(got, "environ", Redact)
      <4>1. got'["environ"] = Redact
        BY <3>4 DEF With
      <4> QED BY <2>1, <3>1, <3>2, <4>1 DEF Guarded
    <3> QED BY <3>1, <3>3, <3>4
  <2>10. CASE NotText
    <3>1. pc' = "raised" /\ got' = <<>> /\ DOMAIN got' = {}
      BY <2>10 DEF NotText
    <3> QED BY <2>3, <3>1
  <2> QED BY <1>4, <2>4, <2>5, <2>6, <2>7, <2>8, <2>9, <2>10, IdentityStep
<1> QED BY <1>3, <1>4

\* Nothing is read yet.
LEMMA IdentityInit == Init => IdentityInv
<1> SUFFICES ASSUME Init, op = "identity" PROVE IdentityInv
  BY DEF IdentityInv
<1>1. /\ pc = "read" /\ todo = FilesAsked /\ got = <<>> /\ table = <<>>
  BY DEF Init, FirstStep
<1>2. DOMAIN got = {}
  BY <1>1
<1>3. Chained
  <2>1. Len(table) = 0 /\ table \in Seq(Hops)
    BY <1>1, EmptySeq
  <2>2. MaxHops \in Nat \ {0}
    BY CollectorAssumption
  <2> QED BY <1>1, <2>1, <2>2 DEF Chained
<1>4. FilesRead
  <2>1. FilesAsked \in Seq(FileNames) /\ Len(FilesAsked) \in Nat /\ Len(FilesAsked) >= 3
    BY FilesAskedFacts
  <2>2. Remaining(1, FilesAsked, FilesAsked) /\ 1 \in 1 .. Len(FilesAsked)
    <3>1. Len(FilesAsked) = Len(FilesAsked) - 1 + 1 /\ \A j \in 1 .. Len(FilesAsked) : 1 + j - 1 = j
      BY <2>1
    <3> QED BY <2>1, <3>1 DEF Remaining
  <2>3. ReadUpTo(1 - 1, FilesAsked, got, proc, lived)
    BY DEF ReadUpTo
  <2> QED BY <1>1, <2>2, <2>3 DEF FilesRead
<1>5. Marked /\ Guarded
  BY <1>1, <1>2 DEF Marked, Guarded
<1> QED BY <1>1, <1>3, <1>4, <1>5 DEF IdentityInv

\* Every step keeps the invariant of the identity.
LEMMA IdentityKeeps ==
    ASSUME KernelInv, BeganInv, CallInv, IdentityInv, [Next]_vars
    PROVE  IdentityInv'
<1>1. op' = op
  BY MachineKeeps
<1>2. CASE op = "identity"
  BY <1>1, <1>2, ChainKeeps, FilesReadKeeps, MarkedKeeps, GuardedKeeps DEF IdentityInv
<1>3. CASE op # "identity"
  BY <1>1, <1>3 DEF IdentityInv
<1> QED BY <1>2, <1>3

\* Everything the identity call rests on.
IdentityHolds == KernelInv /\ BeganInv /\ CallInv /\ IdentityInv

\* The invariant of the identity with what it rests on.
LEMMA IdentityAlways == Spec => []IdentityHolds
<1>1. Init => IdentityHolds
  BY MachineInit, IdentityInit DEF IdentityHolds
<1>2. IdentityHolds /\ [Next]_vars => IdentityHolds'
  BY MachineKeeps, CallKeeps, IdentityKeeps DEF IdentityHolds
<1> QED BY <1>1, <1>2, PTL DEF Spec

\* Where a hop of the ancestry is older than the one before it, it was its parent,
\* for any machine and any changes of it between the reads (_walk_parent_chain).
THEOREM OlderHopsWereParents == Spec => []OlderHopsAreParents
<1>1. IdentityHolds => OlderHopsAreParents
  <2> SUFFICES ASSUME IdentityHolds, op = "identity"
               PROVE  \A k \in 1 .. Len(table) - 1 :
                        table[k + 1].start < table[k].start =>
                          [child |-> <<table[k].pid, table[k].start>>,
                           parent |-> <<table[k + 1].pid, table[k + 1].start>>] \in parents
    BY DEF OlderHopsAreParents
  <2>1. \A k \in 1 .. Len(table) - 1 : LinkedIn(table[k], table[k + 1], parents)
    BY DEF IdentityHolds, IdentityInv, Chained
  <2> QED BY <2>1 DEF LinkedIn
<1> QED BY <1>1, IdentityAlways, PTL

\* What is collected of the target is its own if it still runs, its masquerade is
\* told both ways, and no secret of its environment gets out
\* (collect_process_identity, _populate_target_introspection).
THEOREM TargetIsDescribedTruly == Spec => []TargetIsDescribed
<1>1. IdentityHolds => IdentityIsOfOne
  <2> SUFFICES ASSUME IdentityHolds, Done("identity"), got["stat"] # Gone, Same(Target, got["stat"].start),
                      NEW k \in DOMAIN FilesAsked
               PROVE  got[FilesAsked[k]] \in {Gone} \cup Was(Target, got["stat"].start)
    BY DEF IdentityIsOfOne
  <2>1. ReadUpTo(Len(FilesAsked), FilesAsked, got, proc, lived)
    BY DEF IdentityHolds, IdentityInv, FilesRead, Done
  <2>2. k \in 1 .. Len(FilesAsked)
    BY FilesAskedFacts
  <2>3. OfTarget(got[FilesAsked[k]], got["stat"], proc, lived)
    BY <2>1, <2>2 DEF ReadUpTo
  <2> QED BY <2>3 DEF OfTarget, Same, Alive, Was
<1>2. IdentityHolds => MismatchIsHonest
  <2> SUFFICES ASSUME IdentityHolds, op = "identity", "mismatch" \in DOMAIN got,
                      \A s, t \in Targets : s.exe = t.exe /\ s.comm = t.comm
               PROVE  /\ got["mismatch"] => \E s \in Targets : s.exe # s.comm
                      /\ ~got["mismatch"] /\ ~Unreadable => \E s \in Targets : s.exe = s.comm
    BY DEF MismatchIsHonest, Targets, Unreadable
  <2>1. Marked
    BY DEF IdentityHolds, IdentityInv
  <2>2. ASSUME got["mismatch"] PROVE \E s \in Targets : s.exe # s.comm
    BY <2>1, <2>2 DEF Marked
  <2>3. ASSUME ~got["mismatch"], ~Unreadable
        PROVE  \E s \in Targets : s.exe = s.comm
    BY <2>1, <2>3 DEF Marked
  <2> QED BY <2>2, <2>3
<1>3. IdentityHolds => EnvironIsRedacted
  <2> SUFFICES ASSUME IdentityHolds, op = "identity", "environ" \in DOMAIN got
               PROVE  /\ "environ" \in asked
                      /\ \A k \in DOMAIN Environment : Environment[k].secret =>
                           /\ got["environ"].sanitized[k] # Environment[k].value
                           /\ Environment[k].key \in got["environ"].redacted
    BY DEF EnvironIsRedacted
  <2>1. "environ" \in asked /\ got["environ"] = Redact
    BY DEF IdentityHolds, IdentityInv, Guarded
  <2>2. ASSUME NEW k \in DOMAIN Environment, Environment[k].secret
        PROVE  Redact.sanitized[k] = "<redacted>" /\ Environment[k].key \in Redact.redacted
    BY <2>2 DEF Redact
  <2>3. \A k \in DOMAIN Environment : Environment[k].secret => Environment[k].value # "<redacted>"
    BY CollectorAssumption
  <2> QED BY <2>1, <2>2, <2>3
<1>4. IdentityHolds => TargetIsDescribed
  BY <1>1, <1>2, <1>3 DEF TargetIsDescribed
<1> QED BY <1>4, IdentityAlways, PTL

------------------------------------------------------------------------------
(* The process table                                                         *)

\* A file of the process that started at start has been closed or no text.
Excused(f, start, trouble) == <<start, f>> \in trouble

RowTrue(r, running, known, now, trouble) ==
  /\ r.pid \in Pids /\ r.start_time \in Nat /\ r.start_time < now
  /\ \E s \in known : s.pid = r.pid /\ s.start = r.start_time /\ s.ppid = r.ppid
  /\ r.pid \in DOMAIN running /\ running[r.pid].start = r.start_time =>
       /\ r.cmd_line = r.start_time \/ (r.cmd_line = 0 /\ Excused("cmdline", r.start_time, trouble))
       /\ r.rss = r.start_time \/ (r.rss = 0 /\ Excused("statm", r.start_time, trouble))
       /\ \/ \E s \in known : s.pid = r.pid /\ s.start = r.start_time /\ s.uid = r.uid
          \/ r.uid = 0 /\ Excused("status", r.start_time, trouble)

\* x, which the file f gave, tells of the process p whose stat was read, if that
\* still runs, or of nobody where the file could not always be read.
OfEntry(x, f, p, stat, running, known, trouble) ==
  /\ x \in States \cup {Gone}
  /\ p \in DOMAIN running /\ running[p].start = stat.start =>
       \/ x \in known /\ x.pid = p /\ x.start = stat.start
       \/ x = Gone /\ Excused(f, stat.start, trouble)

EntryAtHand ==
  /\ DOMAIN got \in {{}, {"stat"}, {"stat", "cmdline"}, {"stat", "cmdline", "status"}}
  /\ DOMAIN got # {} =>
       /\ pc = "read" /\ todo # <<>>
       /\ got["stat"] \in lived /\ got["stat"].pid = Head(todo)
       /\ Head(todo) \in Lasting => got["stat"].start = proc[Head(todo)].start
       /\ \A f \in DOMAIN got : OfEntry(got[f], f, Head(todo), got["stat"], proc, lived, troubled)

HasRow(p, start, rows) == \E k \in 1 .. Len(rows) : rows[k].pid = p /\ rows[k].start_time = start

\* An entry has one row or is still to come, not both, and who lasts has one if its
\* stat could be read all along.
EntriesInv ==
  /\ todo \in Seq(Pids) /\ Distinct(todo)
  /\ \A j, k \in 1 .. Len(table) : table[j].pid = table[k].pid => j = k
  /\ \A j \in 1 .. Len(table) : ~In(table[j].pid, todo)
  /\ pc \notin {"list", "raised"} /\ ~failed =>
       \A p \in Lasting : ~proc[p].hidden /\ ~Troubled("stat", proc[p].start) =>
         In(p, todo) \/ HasRow(p, proc[p].start, table)

Rowed == [pid : Pids, ppid : Nat, start_time : Nat, is_target : BOOLEAN, exe_name : Programs,
          cmd_line : Nat, uid : Nat, user : {UserOf(u) : u \in Nat}, rss : Nat]

ProcessesInv ==
  op = "processes" =>
    /\ pc \in {"list", "read", "done", "raised"}
    /\ pc = "list" => todo = <<>> /\ table = <<>>
    /\ pc = "done" => todo = <<>>
    /\ EntryAtHand /\ EntriesInv
    /\ table \in Seq(Rowed)
    /\ \A k \in 1 .. Len(table) : RowTrue(table[k], proc, lived, clock, troubled)

\* The steps of collect_process_table.
LEMMA ProcessesStep ==
    ASSUME op = "processes", Collect
    PROVE  ListProcesses \/ SkipEntry \/ ReadEntryFile \/ EndOfTable \/ ListingFails \/ NotText
  BY DEF Collect, OpenHandles, ReadHandle, ReadIdentityFile, ReadParentStat, ReadParentExe, ReadComm,
       CompareWithExe, ReadEnviron, ListHolders, ListDescriptors, MapLink, ToNetFiles, ReadNetFile,
       SkipNetFile, ListVisible, ProbePid, ReadProcModules, ListSysfs, ReadTaint, BuildModuleList, Networked

\* /proc lists each process that does not hide, and lists it once.
LEMMA VisibleFacts ==
    ASSUME KernelInv
    PROVE  /\ Listed \in Seq(Pids) /\ Distinct(Listed)
           /\ \A p : In(p, Listed) <=> p \in DOMAIN proc /\ ~proc[p].hidden
<1>1. Visible \subseteq 1 .. MaxPid /\ MaxPid \in Int /\ 1 \in Int
  BY KernelAssumption DEF Visible, KernelInv, ProcInv, Pids
<1>2. IsFiniteSet(Visible)
  BY <1>1, FS_Interval, FS_Subset
<1>3. /\ Listed \in Seq(Visible) /\ Distinct(Listed)
      /\ \A p : In(p, Listed) <=> p \in Visible
  BY <1>2, ListingFacts DEF Listed
<1>4. Listed \in Seq(Pids)
  BY <1>1, <1>3, SeqMonotonic DEF Pids
<1> QED BY <1>3, <1>4 DEF Visible

\* Which file is next, from those that were read.
LEMMA FileFacts ==
    ASSUME EntryAtHand
    PROVE  /\ FileAtHand = IF DOMAIN got = {} THEN "stat" ELSE IF DOMAIN got = {"stat"} THEN "cmdline"
                           ELSE IF DOMAIN got = {"stat", "cmdline"} THEN "status" ELSE "statm"
           /\ Cardinality(DOMAIN Seen) < Len(EntryFiles) <=> FileAtHand # "statm"
<1> DEFINE D0 == {}
           D1 == {"stat"}
           D2 == {"stat", "cmdline"}
           D3 == {"stat", "cmdline", "status"}
           D4 == {"stat", "cmdline", "status", "statm"}
<1>1. /\ "cmdline" \notin D1 /\ "status" \notin D2 /\ "statm" \notin D3
      /\ D2 = D1 \cup {"cmdline"} /\ D3 = D2 \cup {"status"} /\ D4 = D3 \cup {"statm"}
  OBVIOUS
<1>2. /\ IsFiniteSet(D1) /\ Cardinality(D1) = 1
      /\ IsFiniteSet(D2) /\ Cardinality(D2) = 2
      /\ IsFiniteSet(D3) /\ Cardinality(D3) = 3
      /\ IsFiniteSet(D4) /\ Cardinality(D4) = 4
  <2> HIDE DEF D2, D3, D4
  <2>1. IsFiniteSet(D1) /\ Cardinality(D1) = 1
    BY FS_Singleton
  <2> HIDE DEF D1
  <2>2. IsFiniteSet(D2) /\ Cardinality(D2) = 2
    BY <1>1, <2>1, FS_AddElement
  <2>3. IsFiniteSet(D3) /\ Cardinality(D3) = 3
    <3>1. IsFiniteSet(D2 \cup {"status"}) /\ Cardinality(D2 \cup {"status"}) = Cardinality(D2) + 1
      BY <1>1, <2>2, FS_AddElement
    <3> QED BY <1>1, <2>2, <3>1
  <2>4. IsFiniteSet(D4) /\ Cardinality(D4) = 4
    <3>1. IsFiniteSet(D3 \cup {"statm"}) /\ Cardinality(D3 \cup {"statm"}) = Cardinality(D3) + 1
      BY <1>1, <2>3, FS_AddElement
    <3> QED BY <1>1, <2>3, <3>1
  <2> QED BY <2>1, <2>2, <2>3, <2>4
<1>3. Cardinality({}) = 0
  BY FS_EmptySet
<1>4. Len(EntryFiles) = 4 /\ EntryFiles[1] = "stat" /\ EntryFiles[2] = "cmdline"
      /\ EntryFiles[3] = "status" /\ EntryFiles[4] = "statm"
  BY DEF EntryFiles
<1>5. DOMAIN Seen = DOMAIN got \cup {FileAtHand}
  BY DEF Seen, With
<1>6. CASE DOMAIN got = {}
  <2>1. FileAtHand = "stat" /\ DOMAIN Seen = D1
    BY <1>3, <1>4, <1>5, <1>6 DEF FileAtHand
  <2> QED BY <1>2, <1>4, <1>6, <2>1
<1>7. CASE DOMAIN got = D1
  <2>1. FileAtHand = "cmdline" /\ DOMAIN Seen = D2
    BY <1>2, <1>4, <1>5, <1>7 DEF FileAtHand
  <2> QED BY <1>2, <1>4, <1>7, <2>1
<1>8. CASE DOMAIN got = D2
  <2>1. FileAtHand = "status" /\ DOMAIN Seen = D3
    BY <1>2, <1>4, <1>5, <1>8 DEF FileAtHand
  <2> QED BY <1>2, <1>4, <1>8, <2>1
<1>9. CASE DOMAIN got = D3
  <2>1. FileAtHand = "statm" /\ DOMAIN Seen = D4
    BY <1>2, <1>4, <1>5, <1>9 DEF FileAtHand
  <2> QED BY <1>2, <1>4, <1>9, <2>1
<1> QED BY <1>6, <1>7, <1>8, <1>9 DEF EntryAtHand

\* A change of the machine leaves a row as true as it was.
LEMMA RowStays ==
    ASSUME KernelInv, Later, NEW r, RowTrue(r, proc, lived, clock, troubled), troubled \subseteq troubled'
    PROVE  RowTrue(r, proc', lived', clock', troubled')
<1>1. r.start_time \in Nat /\ r.start_time < clock /\ clock \in Nat /\ clock' \in Nat /\ clock <= clock'
  BY DEF RowTrue, KernelInv, ProcInv, Later
<1>2. r.start_time < clock' /\ r.start_time # clock
  BY <1>1
<1>3. r.pid \in DOMAIN proc' /\ proc'[r.pid].start = r.start_time
        => r.pid \in DOMAIN proc /\ proc[r.pid].start = r.start_time
  BY <1>2 DEF Later
<1>4. lived \subseteq lived'
  BY DEF Later
<1> QED BY <1>1, <1>2, <1>3, <1>4 DEF RowTrue, Excused

\* A change of the machine leaves the entry at hand as true as it was.
LEMMA EntryStays ==
    ASSUME KernelInv, Later, troubled \subseteq troubled', NEW x, NEW f, NEW p, NEW stat \in lived,
           OfEntry(x, f, p, stat, proc, lived, troubled)
    PROVE  OfEntry(x, f, p, stat, proc', lived', troubled')
<1>1. stat.start # clock
  BY DEF KernelInv, HistoryInv, ProcInv, States
<1>2. p \in DOMAIN proc' /\ proc'[p].start = stat.start => p \in DOMAIN proc /\ proc[p].start = stat.start
  BY <1>1 DEF Later
<1> QED BY <1>2 DEF OfEntry, Excused, Later

\* A file of the entry tells of whoever has the identifier now.
LEMMA EntryRead ==
    ASSUME KernelInv, BeganInv, NEW f \in {"stat", "cmdline", "status", "statm"}, NEW p, NEW stat
    PROVE  OfEntry(Read(f, p), f, p, stat, proc, lived, troubled)
<1>1. CASE Read(f, p) # Gone
  BY <1>1, ReadFacts, SnapshotFacts DEF OfEntry
<1>2. CASE Read(f, p) = Gone
  BY <1>2, PublicFacts DEF OfEntry, Alive, Troubled, Excused
<1> QED BY <1>1, <1>2

\* Without a row added, and with the machine moved on.
LEMMA ProcessesMove ==
    ASSUME KernelInv, BeganInv, KernelInv', Later, Lasts, op = "processes", op' = op, ProcessesInv,
           UNCHANGED <<pc, todo, links, got, table, failed>>
    PROVE  ProcessesInv'
<1>0. troubled \subseteq troubled'
  BY DEF Lasts
<1>1. /\ pc \in {"list", "read", "done", "raised"} /\ (pc = "list" => todo = <<>> /\ table = <<>>)
      /\ (pc = "done" => todo = <<>>) /\ EntryAtHand /\ EntriesInv /\ table \in Seq(Rowed)
      /\ \A k \in 1 .. Len(table) : RowTrue(table[k], proc, lived, clock, troubled)
  BY DEF ProcessesInv
<1>2. \A k \in 1 .. Len(table) : RowTrue(table[k], proc', lived', clock', troubled')
  BY <1>0, <1>1, RowStays
<1>3. \A p \in Lasting' : p \in Lasting /\ proc'[p].start = proc[p].start /\ proc'[p].hidden = proc[p].hidden
  BY DEF Lasts
<1>4. EntryAtHand'
  <2>1. CASE DOMAIN got = {}
    BY <1>1, <2>1 DEF EntryAtHand
  <2>2. CASE DOMAIN got # {}
    <3>1. got["stat"] \in lived'
      BY <1>1, <2>2 DEF EntryAtHand, Later
    <3>2. \A f \in DOMAIN got : OfEntry(got[f], f, Head(todo), got["stat"], proc', lived', troubled')
      BY <1>0, <1>1, <2>2, EntryStays DEF EntryAtHand
    <3>3. Head(todo) \in Lasting' => got["stat"].start = proc'[Head(todo)].start
      BY <1>1, <1>3, <2>2 DEF EntryAtHand
    <3> QED BY <1>1, <2>2, <3>1, <3>2, <3>3 DEF EntryAtHand
  <2> QED BY <2>1, <2>2
<1>5. EntriesInv'
  <2>1. ASSUME pc \notin {"list", "raised"}, ~failed, NEW p \in Lasting', ~proc'[p].hidden,
               ~Troubled("stat", proc[p].start)'
        PROVE  In(p, todo) \/ HasRow(p, proc'[p].start, table)
    BY <1>0, <1>1, <1>3, <2>1 DEF EntriesInv, Troubled
  <2> QED BY <1>1, <2>1 DEF EntriesInv
<1> QED BY <1>1, <1>2, <1>4, <1>5 DEF ProcessesInv

\* The entry at hand is done with: it is gone, or it has its row.
LEMMA EntryDone ==
    ASSUME KernelInv, EntriesInv, pc = "read", todo # <<>>, pc' = pc, todo' = Tail(todo), failed' = failed,
           proc' = proc, troubled' = troubled, Lasting' = Lasting, table \in Seq(Rowed),
           \/ /\ table' = table
              /\ Head(todo) \notin Lasting \/ Troubled("stat", proc[Head(todo)].start)
           \/ \E r \in Rowed : /\ table' = Append(table, r) /\ r.pid = Head(todo)
                               /\ Head(todo) \in Lasting => r.start_time = proc[Head(todo)].start
    PROVE  EntriesInv'
<1>1. /\ Head(todo) \in Pids /\ Tail(todo) \in Seq(Pids)
      /\ \A x : In(x, todo) <=> x = Head(todo) \/ In(x, Tail(todo))
      /\ Distinct(Tail(todo)) /\ ~In(Head(todo), Tail(todo))
  BY RestFacts DEF EntriesInv
<1>2. Len(table) \in Nat
  BY LenProperties
<1>3. /\ \A j, k \in 1 .. Len(table) : table[j].pid = table[k].pid => j = k
      /\ \A j \in 1 .. Len(table) : ~In(table[j].pid, todo)
      /\ ~failed => \A p \in Lasting : ~proc[p].hidden /\ ~Troubled("stat", proc[p].start) =>
                      In(p, todo) \/ HasRow(p, proc[p].start, table)
  BY DEF EntriesInv
<1>3a. \A start : Troubled("stat", start)' = Troubled("stat", start)
  BY DEF Troubled
<1>4. CASE table' = table /\ (Head(todo) \notin Lasting \/ Troubled("stat", proc[Head(todo)].start))
  BY <1>1, <1>3, <1>3a, <1>4 DEF EntriesInv
<1>5. ASSUME NEW r \in Rowed, table' = Append(table, r), r.pid = Head(todo),
             Head(todo) \in Lasting => r.start_time = proc[Head(todo)].start
      PROVE  EntriesInv'
  <2>1. /\ Len(table') = Len(table) + 1 /\ table'[Len(table) + 1] = r
        /\ \A k \in 1 .. Len(table) : table'[k] = table[k]
    BY <1>5, AppendProperties
  <2>2. \A k \in 1 .. Len(table') : k \in 1 .. Len(table) \/ k = Len(table) + 1
    BY <1>2, <2>1
  <2>3. \A k \in 1 .. Len(table) : k \in 1 .. Len(table')
    BY <1>2, <2>1
  <2>4. Len(table) + 1 \in 1 .. Len(table')
    BY <1>2, <2>1
  <2>5. \A k \in 1 .. Len(table) : table[k].pid # r.pid
    BY <1>1, <1>3, <1>5
  <2>6. ASSUME NEW j \in 1 .. Len(table'), NEW k \in 1 .. Len(table'), table'[j].pid = table'[k].pid
        PROVE  j = k
    BY <1>3, <2>1, <2>2, <2>5, <2>6
  <2>7. \A j \in 1 .. Len(table') : ~In(table'[j].pid, Tail(todo))
    BY <1>1, <1>3, <1>5, <2>1, <2>2
  <2>8. ASSUME ~failed, NEW p \in Lasting, ~proc[p].hidden, ~Troubled("stat", proc[p].start)
        PROVE  In(p, Tail(todo)) \/ HasRow(p, proc[p].start, table')
    <3>1. CASE p = Head(todo)
      BY <1>5, <2>1, <2>4, <2>8, <3>1 DEF HasRow
    <3>2. CASE p # Head(todo) /\ HasRow(p, proc[p].start, table)
      BY <2>1, <2>3, <3>2 DEF HasRow
    <3> QED BY <1>1, <1>3, <2>8, <3>1, <3>2
  <2> QED BY <1>1, <1>3a, <2>6, <2>7, <2>8 DEF EntriesInv
<1> QED BY <1>4, <1>5

\* Every step keeps the invariant of the process table.
LEMMA ProcessesKeep ==
    ASSUME KernelInv, BeganInv, CallInv, [Next]_vars, ProcessesInv
    PROVE  ProcessesInv'
<1>0. KernelInv' /\ BeganInv' /\ Later /\ Lasts /\ op' = op /\ began' = began
  BY MachineKeeps
<1>1. CASE op # "processes"
  BY <1>0, <1>1 DEF ProcessesInv
<1>2. CASE op = "processes" /\ ~Collect
  <2>1. UNCHANGED <<pc, todo, links, got, table, failed>>
    BY <1>2, StepShape DEF vars
  <2> QED BY <1>0, <1>2, <2>1, ProcessesMove
<1>3. CASE op = "processes" /\ Collect
  <2>1. UNCHANGED kernel
    BY <1>3, CollectQuiet
  <2>2. proc' = proc /\ lived' = lived /\ clock' = clock /\ troubled' = troubled
    BY <2>1 DEF kernel
  <2>3. Lasting' = Lasting
    BY <1>0, <2>2 DEF Lasting, Same, Alive
  <2>3a. \A start : Troubled("stat", start)' = Troubled("stat", start)
    BY <2>2 DEF Troubled
  <2>4. /\ pc \in {"list", "read", "done", "raised"} /\ (pc = "list" => todo = <<>> /\ table = <<>>)
        /\ (pc = "done" => todo = <<>>) /\ EntryAtHand /\ EntriesInv /\ table \in Seq(Rowed)
        /\ \A k \in 1 .. Len(table) : RowTrue(table[k], proc, lived, clock, troubled)
    BY <1>3 DEF ProcessesInv
  <2>5. ASSUME table' = table, pc' \in {"list", "read", "done"}, pc' = "list" => todo' = <<>> /\ table' = <<>>,
               pc' = "done" => todo' = <<>>, EntryAtHand', EntriesInv'
        PROVE  ProcessesInv'
    BY <2>2, <2>4, <2>5 DEF ProcessesInv
  <2>6. CASE ListProcesses
    <3>1. pc = "list" /\ pc' = "read" /\ todo' = Listed /\ got' = got /\ table' = table /\ failed' = failed
      BY <2>6 DEF ListProcesses
    <3>2. DOMAIN got = {} /\ table = <<>> /\ Len(table) = 0
      BY <2>4, <3>1 DEF EntryAtHand
    <3>3. EntryAtHand'
      BY <3>1, <3>2 DEF EntryAtHand
    <3>4. \A p \in Lasting : p \in DOMAIN proc
      BY DEF Lasting, Same, Alive
    <3>5. EntriesInv'
      BY <2>2, <2>3, <2>3a, <3>1, <3>2, <3>4, VisibleFacts DEF EntriesInv
    <3> QED BY <2>5, <3>1, <3>3, <3>5
  <2>7. CASE EndOfTable
    <3>1. pc = "read" /\ todo = <<>> /\ pc' = "done" /\ UNCHANGED <<todo, got, table, failed>>
      BY <2>7 DEF EndOfTable
    <3>2. EntryAtHand'
      BY <2>4, <3>1 DEF EntryAtHand
    <3>3. EntriesInv'
      BY <2>2, <2>3, <2>3a, <2>4, <3>1 DEF EntriesInv
    <3> QED BY <2>5, <3>1, <3>2, <3>3
  <2>8. CASE ListingFails
    <3>1. pc = "list" /\ pc' = "done" /\ failed' = TRUE /\ UNCHANGED <<todo, got, table>>
      BY <1>3, <2>8 DEF ListingFails, ListFailed, Networked
    <3>2. EntryAtHand'
      BY <2>4, <3>1 DEF EntryAtHand
    <3>3. EntriesInv'
      BY <2>4, <3>1 DEF EntriesInv
    <3> QED BY <2>4, <2>5, <3>1, <3>2, <3>3
  <2>9. CASE SkipEntry
    <3>1. /\ pc = "read" /\ todo # <<>> /\ FileAtHand = "stat" /\ Seen["stat"] = Gone
          /\ pc' = pc /\ todo' = Tail(todo) /\ got' = <<>> /\ table' = table /\ failed' = failed
      BY <2>9 DEF SkipEntry
    <3>2. Seen["stat"] = Read("stat", Head(todo))
      BY <3>1 DEF Seen, With
    <3>4. Head(todo) \notin Lasting \/ Troubled("stat", proc[Head(todo)].start)
      BY <3>1, <3>2, PublicFacts DEF Lasting, Same
    <3>5. EntriesInv'
      BY <2>2, <2>3, <2>4, <3>1, <3>4, EntryDone
    <3>6. DOMAIN got' = {}
      BY <3>1
    <3>7. EntryAtHand'
      BY <3>6 DEF EntryAtHand
    <3> QED BY <2>5, <3>1, <3>5, <3>7
  <2>10. CASE ReadEntryFile
    <3> DEFINE p == Head(todo)
               f == FileAtHand
               x == Read(f, p)
               row == ProcessEntry(p, Seen)
    <3>1. /\ pc = "read" /\ todo # <<>> /\ (f = "stat" => Seen["stat"] # Gone) /\ pc' = pc /\ failed' = failed
          /\ IF Cardinality(DOMAIN Seen) < Len(EntryFiles)
             THEN got' = Seen /\ UNCHANGED <<todo, table>>
             ELSE got' = <<>> /\ todo' = Tail(todo) /\ table' = Append(table, row)
      BY <2>10 DEF ReadEntryFile
    <3>2. /\ f = IF DOMAIN got = {} THEN "stat" ELSE IF DOMAIN got = {"stat"} THEN "cmdline"
                 ELSE IF DOMAIN got = {"stat", "cmdline"} THEN "status" ELSE "statm"
          /\ Cardinality(DOMAIN Seen) < Len(EntryFiles) <=> f # "statm"
      BY <2>4, FileFacts
    <3>3. /\ DOMAIN Seen = DOMAIN got \cup {f} /\ Seen[f] = x
          /\ \A g \in DOMAIN got : g # f => Seen[g] = got[g]
      BY DEF Seen, With
    <3>4. f \in {"stat", "cmdline", "status", "statm"}
      BY <3>2
    <3>5. \A stat : OfEntry(x, f, p, stat, proc, lived, troubled)
      BY <3>4, EntryRead
    <3>6. p \in Pids
      BY <2>4, <3>1, RestFacts DEF EntriesInv
    <3> HIDE DEF p, f, x, row
    <3>7. DOMAIN got \in {{}, {"stat"}, {"stat", "cmdline"}, {"stat", "cmdline", "status"}}
      BY <2>4 DEF EntryAtHand
    <3>8. /\ Seen["stat"] \in lived /\ Seen["stat"].pid = p
          /\ p \in Lasting => Seen["stat"].start = proc[p].start
          /\ \A g \in DOMAIN Seen : OfEntry(Seen[g], g, p, Seen["stat"], proc, lived, troubled)
      <4>1. CASE DOMAIN got = {}
        <5>1. f = "stat" /\ DOMAIN Seen = {"stat"} /\ Seen["stat"] = x /\ x # Gone
          BY <3>1, <3>2, <3>3, <4>1
        <5>2. x = Read("stat", p)
          BY <5>1 DEF x
        <5>3. Alive(p) /\ x = Snapshot(p) /\ Snapshot(p) \in lived
          BY <5>1, <5>2, ReadFacts
        <5> QED BY <3>5, <5>1, <5>3, SnapshotFacts
      <4>2. CASE DOMAIN got # {}
        <5>1. "stat" \in DOMAIN got /\ f # "stat" /\ f \notin DOMAIN got
          BY <3>2, <3>7, <4>2
        <5>2. /\ got["stat"] \in lived /\ got["stat"].pid = p
              /\ p \in Lasting => got["stat"].start = proc[p].start
              /\ \A g \in DOMAIN got : OfEntry(got[g], g, p, got["stat"], proc, lived, troubled)
          BY <2>4, <4>2 DEF EntryAtHand, p
        <5>3. Seen["stat"] = got["stat"]
          BY <3>3, <5>1
        <5> QED BY <3>3, <3>5, <5>1, <5>2, <5>3
      <4> QED BY <4>1, <4>2
    <3>9. CASE f # "statm"
      <4>1. got' = Seen /\ todo' = todo /\ table' = table
        BY <3>1, <3>2, <3>9
      <4>2. DOMAIN Seen \in {{}, {"stat"}, {"stat", "cmdline"}, {"stat", "cmdline", "status"}}
        BY <3>2, <3>3, <3>7, <3>9
      <4>3. EntryAtHand'
        BY <2>2, <2>3, <3>1, <3>8, <4>1, <4>2 DEF EntryAtHand, p
      <4>4. EntriesInv'
        BY <2>2, <2>3, <2>3a, <2>4, <3>1, <4>1 DEF EntriesInv
      <4> QED BY <2>4, <2>5, <3>1, <4>1, <4>3, <4>4
    <3>10. CASE f = "statm"
      <4>1. got' = <<>> /\ todo' = Tail(todo) /\ table' = Append(table, row)
        BY <3>1, <3>2, <3>10
      <4>2. DOMAIN Seen = {"stat", "cmdline", "status", "statm"}
        BY <3>2, <3>3, <3>7, <3>10
      <4> DEFINE stat == Seen["stat"]
      <4>3. stat \in States /\ stat \in lived /\ stat.start < clock
        BY <3>8 DEF KernelInv, HistoryInv
      <4>4. /\ row.pid = p /\ row.ppid = stat.ppid /\ row.start_time = stat.start
            /\ row.cmd_line = Seen["cmdline"].start /\ row.rss = Seen["statm"].start
            /\ row.uid = Seen["status"].uid
        BY DEF ProcessEntry, row
      <4>5. row \in Rowed
        <5>1. /\ Seen["cmdline"].start \in Nat /\ Seen["statm"].start \in Nat /\ Seen["status"].uid \in Nat
          <6>1. \A y \in States \cup {Gone} : y.start \in Nat /\ y.uid \in Nat
            <7>1. Gone.start = 0 /\ Gone.uid = 0
              BY DEF Gone
            <7>2. \A y \in States : y.start \in Nat /\ y.uid \in Nat
              BY DEF States
            <7> QED BY <7>1, <7>2
          <6> QED BY <3>8, <4>2, <6>1 DEF OfEntry
        <5> QED BY <3>6, <4>3, <5>1 DEF ProcessEntry, row, Rowed, States
      <4>6. RowTrue(row, proc, lived, clock, troubled)
        <5>1. ASSUME p \in DOMAIN proc, proc[p].start = stat.start, NEW g \in DOMAIN Seen
              PROVE  \/ Seen[g] \in lived /\ Seen[g].pid = p /\ Seen[g].start = stat.start
                     \/ /\ Seen[g].start = 0 /\ Seen[g].uid = 0
                        /\ Excused(g, stat.start, troubled)
          <6>1. Gone.start = 0 /\ Gone.uid = 0
            BY DEF Gone
          <6> QED BY <3>8, <5>1, <6>1 DEF OfEntry
        <5>2. \E s \in lived : s.pid = row.pid /\ s.start = row.start_time /\ s.ppid = row.ppid
          BY <3>8, <4>3, <4>4
        <5>3. ASSUME row.pid \in DOMAIN proc, proc[row.pid].start = row.start_time
              PROVE  /\ \/ row.cmd_line = row.start_time
                        \/ row.cmd_line = 0 /\ Excused("cmdline", row.start_time, troubled)
                     /\ \/ row.rss = row.start_time
                        \/ row.rss = 0 /\ Excused("statm", row.start_time, troubled)
                     /\ \/ \E s \in lived : s.pid = row.pid /\ s.start = row.start_time /\ s.uid = row.uid
                        \/ row.uid = 0 /\ Excused("status", row.start_time, troubled)
          BY <4>2, <4>4, <5>1, <5>3
        <5>4. row.pid \in Pids /\ row.start_time \in Nat /\ row.start_time < clock
          BY <3>6, <4>3, <4>4 DEF States
        <5> QED BY <5>2, <5>3, <5>4 DEF RowTrue
      <4>7. EntriesInv'
        <5>1. p \in Lasting => row.start_time = proc[p].start
          BY <3>8, <4>4
        <5> QED BY <2>2, <2>3, <2>4, <3>1, <4>1, <4>4, <4>5, <5>1, EntryDone DEF p
      <4>8. EntryAtHand'
        <5>1. DOMAIN got' = {}
          BY <4>1
        <5> QED BY <5>1 DEF EntryAtHand
      <4>9. /\ table' \in Seq(Rowed)
            /\ \A k \in 1 .. Len(table') : RowTrue(table'[k], proc, lived, clock, troubled)
        <5>1. /\ table' \in Seq(Rowed) /\ Len(table) \in Nat
              /\ Len(table') = Len(table) + 1 /\ table'[Len(table) + 1] = row
              /\ \A k \in 1 .. Len(table) : table'[k] = table[k]
          BY <2>4, <4>1, <4>5, AppendProperties, LenProperties
        <5>2. \A k \in 1 .. Len(table') : k \in 1 .. Len(table) \/ k = Len(table) + 1
          BY <5>1
        <5> QED BY <2>4, <4>6, <5>1, <5>2
      <4> QED BY <2>2, <3>1, <4>7, <4>8, <4>9 DEF ProcessesInv
    <3> QED BY <3>9, <3>10
  <2>11. CASE NotText
    <3>1. pc' = "raised" /\ todo' = <<>> /\ got' = <<>> /\ table' = <<>>
      BY <2>11 DEF NotText
    <3>2. DOMAIN got' = {} /\ Len(table') = 0 /\ Len(todo') = 0 /\ todo' \in Seq(Pids) /\ table' \in Seq(Rowed)
      BY <3>1, EmptySeq
    <3> QED BY <3>1, <3>2 DEF ProcessesInv, EntryAtHand, EntriesInv, Distinct
  <2> QED BY <1>3, <2>6, <2>7, <2>8, <2>9, <2>10, <2>11, ProcessesStep
<1> QED BY <1>1, <1>2, <1>3

\* No row yet.
LEMMA ProcessesInit == Init => ProcessesInv
<1> SUFFICES ASSUME Init, op = "processes" PROVE ProcessesInv
  BY DEF ProcessesInv
<1>1. pc = "list" /\ todo = <<>> /\ got = <<>> /\ table = <<>>
  BY DEF Init, FirstStep
<1>2. DOMAIN got = {} /\ Len(table) = 0 /\ Len(todo) = 0 /\ todo \in Seq(Pids) /\ table \in Seq(Rowed)
  BY <1>1, EmptySeq
<1> QED BY <1>1, <1>2 DEF ProcessesInv, EntryAtHand, EntriesInv, Distinct

\* Everything the process table rests on.
ProcessesHold == KernelInv /\ BeganInv /\ CallInv /\ IdentityInv /\ ProcessesInv

\* The invariant of the process table with what it rests on.
LEMMA ProcessesAlways == Spec => []ProcessesHold
<1>1. Init => ProcessesHold
  BY MachineInit, IdentityInit, ProcessesInit DEF ProcessesHold
<1>2. ProcessesHold /\ [Next]_vars => ProcessesHold'
  BY MachineKeeps, CallKeeps, IdentityKeeps, ProcessesKeep DEF ProcessesHold
<1> QED BY <1>1, <1>2, PTL DEF Spec

\* A process table that is returned has every process that was there throughout and
\* whose stat could be read, and of each what is its own or, of a file that could not
\* always be read, nothing: for any changes between the reads and any files that close
\* or are no text (collect_process_table).
THEOREM ProcessTableHolds == Spec => []ProcessTableIsTrue
<1>1. ProcessesHold => TypeOK
  <2> SUFFICES ASSUME ProcessesHold PROVE TypeOK
    OBVIOUS
  <2>1. \A p \in DOMAIN proc : proc[p] \in Process
    BY DEF ProcessesHold, KernelInv, ProcInv
  <2>2. \A k \in DOMAIN mods : mods[k] \in Module
    BY ElementOfSeq, LenProperties DEF ProcessesHold, KernelInv, ModInv
  <2>3. op = "identity" => Len(table) <= MaxHops /\ \A k \in DOMAIN table : table[k].pid \in Pids
    <3> SUFFICES ASSUME op = "identity" PROVE Len(table) <= MaxHops /\ \A k \in DOMAIN table : table[k].pid \in Pids
      OBVIOUS
    <3>1. table \in Seq(Hops) /\ Len(table) <= MaxHops
      BY DEF ProcessesHold, IdentityInv, Chained
    <3>2. \A k \in DOMAIN table : table[k] \in Hops
      BY <3>1, ElementOfSeq, LenProperties
    <3> QED BY <3>1, <3>2 DEF Hops
  <2> QED BY <2>1, <2>2, <2>3 DEF TypeOK, ProcessesHold, KernelInv, ProcInv, CallInv, Steps
<1>2. ProcessesHold => RowsOfTheLiving
  <2> SUFFICES ASSUME ProcessesHold, Done("processes"), NEW k \in DOMAIN table
               PROVE  /\ \E s \in Was(table[k].pid, table[k].start_time) : s.ppid = table[k].ppid
                      /\ Same(table[k].pid, table[k].start_time) =>
                           /\ \/ table[k].cmd_line = table[k].start_time
                              \/ table[k].cmd_line = 0 /\ Troubled("cmdline", table[k].start_time)
                           /\ \/ table[k].rss = table[k].start_time
                              \/ table[k].rss = 0 /\ Troubled("statm", table[k].start_time)
                           /\ \/ \E s \in Was(table[k].pid, table[k].start_time) : s.uid = table[k].uid
                              \/ table[k].uid = 0 /\ Troubled("status", table[k].start_time)
    BY DEF RowsOfTheLiving, Rows
  <2>1. table \in Seq(Rowed) /\ \A j \in 1 .. Len(table) : RowTrue(table[j], proc, lived, clock, troubled)
    BY DEF ProcessesHold, ProcessesInv, Done
  <2>2. RowTrue(table[k], proc, lived, clock, troubled)
    BY <2>1, LenProperties
  <2> QED BY <2>2 DEF RowTrue, Was, Same, Alive, Troubled, Excused
<1>3. ProcessesHold => NobodyIsMissed
  <2> SUFFICES ASSUME ProcessesHold, Done("processes"), ~failed, NEW p \in Lasting, ~proc[p].hidden,
                      ~Troubled("stat", proc[p].start)
               PROVE  Cardinality({k \in DOMAIN table : table[k].pid = p
                                                        /\ table[k].start_time = proc[p].start}) = 1
    BY DEF NobodyIsMissed
  <2> DEFINE K == {k \in DOMAIN table : table[k].pid = p /\ table[k].start_time = proc[p].start}
  <2>1. todo = <<>> /\ EntriesInv /\ table \in Seq(Rowed) /\ pc = "done"
    BY DEF ProcessesHold, ProcessesInv, Done
  <2>2. HasRow(p, proc[p].start, table)
    BY <2>1, NothingInEmpty DEF EntriesInv
  <2>3. DOMAIN table = 1 .. Len(table)
    BY <2>1, LenProperties
  <2>4. PICK k \in DOMAIN table : table[k].pid = p /\ table[k].start_time = proc[p].start
    BY <2>2, <2>3 DEF HasRow
  <2>5. \A j \in K : j = k
    BY <2>1, <2>3, <2>4 DEF EntriesInv
  <2>6. K = {k}
    BY <2>4, <2>5
  <2> QED BY <2>6, FS_Singleton
<1>4. ProcessesHold => ProcessTableIsTrue
  BY <1>1, <1>2, <1>3 DEF ProcessTableIsTrue
<1> QED BY <1>4, ProcessesAlways, PTL

------------------------------------------------------------------------------
(* The sweep                                                                 *)

\* Why a number that was counted was in use and not listed.
Explained(p, since, known, threads) ==
  \/ \E s \in known : s.pid = p /\ s.hidden
  \/ p \in threads
  \/ \E s \in known : s.pid = p /\ ~ \E b \in DOMAIN since : since[b].start = s.start

SweepInv ==
  op = "sweep" =>
    /\ pc \in {"list", "read", "done"}
    /\ todo \in Seq(Nat) /\ table \in Seq(Nat)
    /\ pc = "list" => table = <<>> /\ ~failed
    /\ pc = "done" => failed \/ todo = <<>>
    /\ pc \in {"read", "done"} /\ ~failed =>
         /\ \A p \in Lasting : p \in got.visible <=> ~proc[p].hidden
         /\ \A p \in Lasting : proc[p].hidden /\ p <= Cap => In(p, todo) \/ In(p, table)
    /\ pc = "read" => ~failed
    /\ \A k \in 1 .. Len(table) : Explained(table[k], began.proc, lived, threaded)

\* The steps of the sweep.
LEMMA SweepStep ==
    ASSUME op = "sweep", Collect
    PROVE  ListVisible \/ ProbePid \/ EndOfTable \/ ListingFails
  BY NotTextCalls DEF Collect, ListProcesses, SkipEntry, ReadEntryFile, OpenHandles, ReadHandle, ReadIdentityFile,
       ReadParentStat, ReadParentExe, ReadComm, CompareWithExe, ReadEnviron, ListHolders, ListDescriptors,
       MapLink, ToNetFiles, ReadNetFile, SkipNetFile, ReadProcModules, ListSysfs, ReadTaint,
       BuildModuleList, Networked

\* Every step keeps the invariant of the sweep.
LEMMA SweepKeeps ==
    ASSUME KernelInv, BeganInv, CallInv, [Next]_vars, SweepInv
    PROVE  SweepInv'
<1>0. KernelInv' /\ BeganInv' /\ Later /\ Lasts /\ op' = op /\ began' = began
  BY MachineKeeps
<1>1. CASE op # "sweep"
  BY <1>0, <1>1 DEF SweepInv
<1>2. ASSUME op = "sweep"
      PROVE  /\ pc \in {"list", "read", "done"} /\ todo \in Seq(Nat) /\ table \in Seq(Nat)
             /\ (pc = "list" => table = <<>> /\ ~failed) /\ (pc = "done" => failed \/ todo = <<>>)
             /\ (pc = "read" => ~failed)
             /\ \A k \in 1 .. Len(table) : Explained(table[k], began.proc, lived, threaded)
  BY <1>2 DEF SweepInv
<1>3. ASSUME op = "sweep", pc \in {"read", "done"}, ~failed
      PROVE  /\ \A p \in Lasting : p \in got.visible <=> ~proc[p].hidden
             /\ \A p \in Lasting : proc[p].hidden /\ p <= Cap => In(p, todo) \/ In(p, table)
  BY <1>3 DEF SweepInv
<1>4. ASSUME NEW p, Explained(p, began.proc, lived, threaded) PROVE Explained(p, began.proc, lived', threaded')
  BY <1>0, <1>4 DEF Explained, Later
<1>5. CASE op = "sweep" /\ ~Collect
  <2>1. UNCHANGED <<pc, todo, links, got, table, failed>>
    BY <1>5, StepShape DEF vars
  <2>2. \A p \in Lasting' : p \in Lasting /\ proc'[p].hidden = proc[p].hidden
    BY <1>0 DEF Lasts
  <2>3. \A k \in 1 .. Len(table) : Explained(table[k], began.proc, lived', threaded')
    BY <1>2, <1>4, <1>5
  <2>4. ASSUME pc \in {"read", "done"}, ~failed, NEW p \in Lasting'
        PROVE  /\ p \in got.visible <=> ~proc'[p].hidden
               /\ proc'[p].hidden /\ p <= Cap => In(p, todo) \/ In(p, table)
    BY <1>3, <1>5, <2>2, <2>4
  <2> QED BY <1>0, <1>2, <1>5, <2>1, <2>3, <2>4 DEF SweepInv
<1>6. CASE op = "sweep" /\ Collect
  <2>1. UNCHANGED kernel
    BY <1>6, CollectQuiet
  <2>2. proc' = proc /\ lived' = lived /\ threaded' = threaded /\ thread' = thread
    BY <2>1 DEF kernel
  <2>3. Lasting' = Lasting /\ \A p \in Lasting : p \in DOMAIN proc /\ p \in Pids
    BY <1>0, <2>2 DEF Lasting, Same, Alive, KernelInv, ProcInv
  <2>8. ASSUME pc' \in {"read", "done"}, todo' \in Seq(Nat), table' \in Seq(Nat),
               pc' = "done" => failed' \/ todo' = <<>>, pc' = "read" => ~failed',
               ~failed' => /\ \A p \in Lasting : p \in got'.visible <=> ~proc[p].hidden
                           /\ \A p \in Lasting : proc[p].hidden /\ p <= Cap => In(p, todo') \/ In(p, table'),
               \A k \in 1 .. Len(table') : Explained(table'[k], began.proc, lived, threaded)
        PROVE  SweepInv'
    BY <1>0, <2>2, <2>3, <2>8 DEF SweepInv
  <2>4. CASE ListVisible
    <3>1. /\ pc = "list" /\ pc' = "read" /\ got' = [visible |-> Visible] /\ todo' = [n \in 1 .. Upper |-> n]
          /\ table' = table /\ failed' = failed
      BY <2>4 DEF ListVisible
    <3>2. Upper \in Nat /\ \A p \in Pids : p <= Cap => p \in 1 .. Upper
      BY KernelAssumption, CollectorAssumption DEF Upper, Pids
    <3>3. todo' \in Seq(Nat) /\ Len(todo') = Upper /\ \A n \in 1 .. Upper : todo'[n] = n
      BY <3>1, <3>2
    <3>4. \A p \in Pids : p <= Cap => In(p, todo')
      BY <3>2, <3>3 DEF In
    <3>5. \A p \in Lasting : p \in got'.visible <=> ~proc[p].hidden
      BY <2>3, <3>1 DEF Visible
    <3> QED BY <1>2, <1>6, <2>3, <2>8, <3>1, <3>3, <3>4, <3>5
  <2>5. CASE ProbePid
    <3> DEFINE p == Head(todo)
               counted == p \notin got.visible /\ p \in Taken
    <3>1. /\ pc = "read" /\ todo # <<>> /\ pc' = pc /\ todo' = Tail(todo) /\ got' = got /\ failed' = failed
          /\ table' = IF counted THEN Append(table, p) ELSE table
      BY <2>5 DEF ProbePid, Answers, KillFinds
    <3>2. /\ p \in Nat /\ Tail(todo) \in Seq(Nat)
          /\ \A x : In(x, todo) <=> x = p \/ In(x, Tail(todo))
      BY <1>2, <1>6, <3>1, RestFacts
    <3> HIDE DEF p
    <3>3. ASSUME counted PROVE Explained(p, began.proc, lived, threaded)
      <4>1. CASE p \in DOMAIN thread
        BY <1>0, <4>1 DEF Explained, KernelInv, ProcInv
      <4>2. CASE p \in DOMAIN proc /\ proc[p].hidden
        <5>1. Snapshot(p) \in lived
          BY <4>2 DEF KernelInv, HistoryInv, Snapshots
        <5> QED BY <4>2, <5>1, SnapshotFacts DEF Explained
      <4>3. CASE p \in DOMAIN proc /\ ~proc[p].hidden
        <5>1. Snapshot(p) \in lived
          BY <4>3 DEF KernelInv, HistoryInv, Snapshots
        <5>2. p \notin Lasting
          BY <1>2, <1>3, <1>6, <3>1, <3>3, <4>3
        <5>3. ASSUME NEW b \in DOMAIN began.proc, began.proc[b].start = proc[p].start PROVE FALSE
          <6>1. PICK s \in lived : s.pid = b /\ s.start = began.proc[b].start
            BY DEF BeganInv
          <6>2. b = p
            BY <5>1, <5>3, <6>1, SnapshotFacts DEF KernelInv, HistoryInv
          <6> QED BY <4>3, <5>2, <5>3, <6>2 DEF Lasting, Same, Alive
        <5> QED BY <5>1, <5>3, SnapshotFacts DEF Explained
      <4> QED BY <3>3, <4>1, <4>2, <4>3 DEF Taken
    <3>4. \A n \in Lasting : n = p /\ proc[n].hidden => counted
      BY <1>2, <1>3, <1>6, <2>3, <3>1 DEF Taken
    <3>5. CASE counted
      <4>1. table' = Append(table, p)
        BY <3>1, <3>5
      <4>2. table' \in Seq(Nat) /\ \A x : In(x, table') <=> In(x, table) \/ x = p
        BY <1>2, <1>6, <3>2, <4>1, AppendFacts
      <4>3. /\ Len(table) \in Nat /\ Len(table') = Len(table) + 1 /\ table'[Len(table) + 1] = p
            /\ \A k \in 1 .. Len(table) : table'[k] = table[k]
        BY <1>2, <1>6, <3>2, <4>1, AppendProperties, LenProperties
      <4>4. \A k \in 1 .. Len(table') : k \in 1 .. Len(table) \/ k = Len(table) + 1
        BY <4>3
      <4>5. \A k \in 1 .. Len(table') : Explained(table'[k], began.proc, lived, threaded)
        BY <1>2, <1>6, <3>3, <3>5, <4>3, <4>4
      <4> QED BY <1>2, <1>3, <1>6, <2>8, <3>1, <3>2, <4>2, <4>5
    <3>6. CASE ~counted
      <4>1. table' = table
        BY <3>1, <3>6
      <4> QED BY <1>2, <1>3, <1>6, <2>8, <3>1, <3>2, <3>4, <3>6, <4>1
    <3> QED BY <3>5, <3>6
  <2>6. CASE EndOfTable
    <3>1. pc = "read" /\ todo = <<>> /\ pc' = "done" /\ UNCHANGED <<todo, got, table, failed>>
      BY <2>6 DEF EndOfTable
    <3> QED BY <1>2, <1>3, <1>6, <2>8, <3>1
  <2>7. CASE ListingFails
    <3>1. pc = "list" /\ pc' = "done" /\ failed' = TRUE /\ UNCHANGED <<todo, got, table>>
      BY <1>6, <2>7 DEF ListingFails, ListFailed, Networked
    <3> QED BY <1>2, <1>6, <2>8, <3>1
  <2> QED BY <1>6, <2>4, <2>5, <2>6, <2>7, SweepStep
<1> QED BY <1>1, <1>5, <1>6

\* Nothing is counted yet.
LEMMA SweepInit == Init => SweepInv
<1> SUFFICES ASSUME Init, op = "sweep" PROVE SweepInv
  BY DEF SweepInv
<1>1. pc = "list" /\ todo = <<>> /\ table = <<>> /\ failed = FALSE
  BY DEF Init, FirstStep
<1>2. Len(table) = 0 /\ todo \in Seq(Nat) /\ table \in Seq(Nat)
  BY <1>1, EmptySeq
<1> QED BY <1>1, <1>2 DEF SweepInv

\* The hidden-process sweep counts what hides, and whatever else it counts has one of
\* three reasons, for any changes during the sweep (_sweep_hidden_pids).
THEOREM HiddenCountHolds == Spec => []HiddenCountIsTrue
<1> DEFINE Inv == KernelInv /\ BeganInv /\ CallInv /\ SweepInv
<1>1. Init => Inv
  BY MachineInit, SweepInit
<1>2. Inv /\ [Next]_vars => Inv'
  BY MachineKeeps, CallKeeps, SweepKeeps
<1>3. Inv => HiddenCountIsTrue
  <2> SUFFICES ASSUME SweepInv PROVE CountIsExplained /\ HidingIsCounted
    BY DEF HiddenCountIsTrue
  <2>1. ASSUME op = "sweep", NEW k \in DOMAIN table PROVE Explained(table[k], began.proc, lived, threaded)
    <3>1. table \in Seq(Nat) /\ \A j \in 1 .. Len(table) : Explained(table[j], began.proc, lived, threaded)
      BY <2>1 DEF SweepInv
    <3> QED BY <3>1, LenProperties
  <2>2. CountIsExplained
    BY <2>1 DEF CountIsExplained, Explained
  <2>3. ASSUME Done("sweep"), ~failed, NEW p \in Lasting, proc[p].hidden, p <= Cap
        PROVE  \E k \in DOMAIN table : table[k] = p
    <3>1. todo = <<>> /\ table \in Seq(Nat) /\ (In(p, todo) \/ In(p, table))
      BY <2>3 DEF SweepInv, Done
    <3>2. In(p, table)
      BY <3>1, NothingInEmpty
    <3> QED BY <3>1, <3>2, LenProperties DEF In
  <2>4. HidingIsCounted
    BY <2>3 DEF HidingIsCounted
  <2> QED BY <2>2, <2>4
<1> HIDE DEF Inv
<1> QED BY <1>1, <1>2, <1>3, PTL DEF Spec

------------------------------------------------------------------------------
(* The handles                                                               *)

Kinds == {"socket", "pipe", "device", "directory", "file", "unknown"}
HandleRow == [fd : Nat, type : Kinds, path : Nat]

Shows(r, d) == r.fd = d.fd /\ r.path = d.obj.id /\ r.type = ClassifyHandle(d.obj)

WasHeld(r, known) == r.type # "unknown" => \E d \in known : d.pid = Target /\ Shows(r, d)

ShownIn(d, rows) == \E k \in 1 .. Len(rows) : Shows(rows[k], d)

\* A descriptor that was open throughout is still to come, or has its row.
HandlesInv ==
  op = "handles" =>
    /\ pc \in {"open", "read", "done"}
    /\ todo \in Seq(Nat) /\ table \in Seq(HandleRow)
    /\ pc = "open" => table = <<>>
    /\ pc = "done" => todo = <<>>
    /\ \A k \in 1 .. Len(table) : WasHeld(table[k], held)
    /\ pc # "open" /\ ~failed => \A d \in fds : d.pid = Target /\ Stayed(d) =>
         MayOpen(Target, me) /\ (In(d.fd, todo) \/ ShownIn(d, table))

\* The steps of collect_handle_table.
LEMMA HandlesStep ==
    ASSUME op = "handles", Collect
    PROVE  OpenHandles \/ ReadHandle \/ EndOfTable
  BY NotTextCalls DEF Collect, ListProcesses, SkipEntry, ReadEntryFile, ReadIdentityFile,
       ReadParentStat, ReadParentExe, ReadComm, CompareWithExe, ReadEnviron, ListHolders, ListDescriptors,
       MapLink, ToNetFiles, ReadNetFile, SkipNetFile, ListVisible, ProbePid, ReadProcModules,
       ListSysfs, ReadTaint, BuildModuleList, ListingFails, Networked

\* A listing of descriptors has the number of each, and no number twice.
LEMMA NumbersFacts ==
    ASSUME KernelInv, NEW p
    PROVE  /\ Numbers(DescriptorsOf(p)) \in Seq(Nat)
           /\ \A d \in fds : d.pid = p => In(d.fd, Numbers(DescriptorsOf(p)))
<1> DEFINE D == DescriptorsOf(p)
           N == {d.fd : d \in D}
           f == [d \in D |-> d.fd]
<1>1. IsFiniteSet(D) /\ \A d \in D : d.fd \in Nat
  BY FS_Subset DEF DescriptorsOf, KernelInv, FdInv, Descriptor
<1>2. N \subseteq Nat /\ f \in [D -> N] /\ \A n \in N : \E d \in D : f[d] = n
  BY <1>1
<1>3. \A d \in fds : d.pid = p => d.fd \in N
  BY DEF DescriptorsOf
<1>4. Numbers(D) = Listing(N)
  BY DEF Numbers
<1> HIDE DEF D, N, f
<1>5. IsFiniteSet(N)
  BY <1>1, <1>2, FiniteImage
<1>6. Listing(N) \in Seq(N) /\ \A x : In(x, Listing(N)) <=> x \in N
  BY <1>5, ListingFacts
<1>7. Listing(N) \in Seq(Nat)
  BY <1>2, <1>6, SeqMonotonic
<1> QED BY <1>3, <1>4, <1>6, <1>7 DEF D

\* The row of a descriptor names one that was open, and shows the one that is.
LEMMA HandleFacts ==
    ASSUME KernelInv, NEW n \in Nat
    PROVE  /\ HandleEntry(n) \in HandleRow
           /\ WasHeld(HandleEntry(n), held)
           /\ \A d \in fds : d.pid = Target /\ d.fd = n /\ MayOpen(Target, me) => Shows(HandleEntry(n), d)
<1> DEFINE L == LinkOf(Target, n)
<1>1. \A d \in L : d \in fds /\ d \in held /\ d.pid = Target /\ d.fd = n /\ d \in Descriptor
  BY DEF LinkOf, DescriptorsOf, KernelInv, FdInv
<1>2. \A d \in fds : d.pid = Target /\ d.fd = n /\ MayOpen(Target, me) => d \in L
  BY DEF LinkOf, DescriptorsOf
<1>3. \A d, e \in L : d = e
  BY <1>1 DEF KernelInv, FdInv
<1>4. CASE L = {}
  <2>1. HandleEntry(n) = [fd |-> n, type |-> "unknown", path |-> 0]
    BY <1>4 DEF HandleEntry
  <2> QED BY <1>2, <1>4, <2>1 DEF HandleRow, WasHeld, Kinds
<1>5. CASE L # {}
  <2> DEFINE d == CHOOSE d \in L : TRUE
             row == [fd |-> n, type |-> ClassifyHandle(d.obj), path |-> d.obj.id]
  <2>1. d \in L
    BY <1>5
  <2>2. HandleEntry(n) = row
    BY <1>5 DEF HandleEntry
  <2> HIDE DEF d
  <2>3. d.obj.id \in Nat /\ d.fd = n /\ d.pid = Target /\ d \in held
    BY <1>1, <2>1 DEF Descriptor, Object
  <2>4. ClassifyHandle(d.obj) \in Kinds
    BY DEF ClassifyHandle, Kinds
  <2>5. row \in HandleRow /\ Shows(row, d)
    BY <2>3, <2>4 DEF HandleRow, Shows
  <2> HIDE DEF row
  <2>6. \A e \in fds : e.pid = Target /\ e.fd = n /\ MayOpen(Target, me) => e = d
    BY <1>2, <1>3, <2>1
  <2> QED BY <2>2, <2>3, <2>5, <2>6 DEF WasHeld
<1> QED BY <1>4, <1>5

\* Every step keeps the invariant of the handles.
LEMMA HandlesKeep ==
    ASSUME KernelInv, BeganInv, CallInv, [Next]_vars, HandlesInv
    PROVE  HandlesInv'
<1>0. KernelInv' /\ BeganInv' /\ Later /\ Lasts /\ op' = op /\ began' = began /\ me' = me
  BY MachineKeeps
<1>1. CASE op # "handles"
  BY <1>0, <1>1 DEF HandlesInv
<1>2. ASSUME op = "handles"
      PROVE  /\ pc \in {"open", "read", "done"} /\ todo \in Seq(Nat) /\ table \in Seq(HandleRow)
             /\ (pc = "open" => table = <<>>) /\ (pc = "done" => todo = <<>>)
             /\ \A k \in 1 .. Len(table) : WasHeld(table[k], held)
  BY <1>2 DEF HandlesInv
<1>3. ASSUME op = "handles", pc # "open", ~failed, NEW d \in fds, d.pid = Target, Stayed(d)
      PROVE  MayOpen(Target, me) /\ (In(d.fd, todo) \/ ShownIn(d, table))
  BY <1>3 DEF HandlesInv
<1>4. CASE op = "handles" /\ ~Collect
  <2>1. UNCHANGED <<pc, todo, links, got, table, failed>>
    BY <1>4, StepShape DEF vars
  <2>2. \A k \in 1 .. Len(table) : WasHeld(table[k], held')
    BY <1>0, <1>2, <1>4 DEF WasHeld, Later
  <2>3. ASSUME pc # "open", ~failed, NEW d \in fds', d.pid = Target, Stayed(d)'
        PROVE  MayOpen(Target, me)' /\ (In(d.fd, todo) \/ ShownIn(d, table))
    <3>1. Stayed(d)
      BY <1>0, <2>3, StayedBefore
    <3>2. d \in fds
      BY <3>1 DEF Stayed
    <3>3. MayOpen(Target, me) /\ (In(d.fd, todo) \/ ShownIn(d, table))
      BY <1>3, <1>4, <2>3, <3>1, <3>2
    <3>4. Target \in Lasting' /\ Target \in DOMAIN proc'
      BY <2>3 DEF Stayed, Lasting, Same, Alive
    <3>5. proc'[Target].uid = proc[Target].uid
      BY <1>0, <1>4, <3>4 DEF Lasts, Dropping
    <3> QED BY <1>0, <3>3, <3>4, <3>5 DEF MayOpen, Alive
  <2> QED BY <1>0, <1>2, <1>4, <2>1, <2>2, <2>3 DEF HandlesInv
<1>5. CASE op = "handles" /\ Collect
  <2>1. UNCHANGED kernel
    BY <1>5, CollectQuiet
  <2>2. proc' = proc /\ fds' = fds /\ held' = held
    BY <2>1 DEF kernel
  <2>3. Lasting' = Lasting
    BY <1>0, <2>2 DEF Lasting, Same, Alive
  <2>4. \A d : Stayed(d)' <=> Stayed(d)
    BY <1>0, <2>2, <2>3 DEF Stayed
  <2>5. MayOpen(Target, me)' <=> MayOpen(Target, me)
    BY <1>0, <2>2 DEF MayOpen, Alive
  <2>6. ASSUME pc' \in {"read", "done"}, todo' \in Seq(Nat), table' \in Seq(HandleRow),
               pc' = "done" => todo' = <<>>, \A k \in 1 .. Len(table') : WasHeld(table'[k], held),
               ~failed' => \A d \in fds : d.pid = Target /\ Stayed(d) =>
                 MayOpen(Target, me) /\ (In(d.fd, todo') \/ ShownIn(d, table'))
        PROVE  HandlesInv'
    BY <1>0, <2>2, <2>4, <2>5, <2>6 DEF HandlesInv
  <2>7. CASE OpenHandles
    <3>1. /\ pc = "open" /\ pc' = "read" /\ table' = table /\ failed' \in BOOLEAN
          /\ IF MayOpen(Target, me) THEN todo' = Numbers(DescriptorsOf(Target)) ELSE todo' = todo /\ failed'
      BY <2>7 DEF OpenHandles, CallInv
    <3>2. table = <<>> /\ Len(table) = 0
      BY <1>2, <1>5, <3>1
    <3>3. todo' \in Seq(Nat)
      BY <1>2, <1>5, <3>1, NumbersFacts
    <3>4. ~failed' => \A d \in fds : d.pid = Target /\ Stayed(d) => MayOpen(Target, me) /\ In(d.fd, todo')
      BY <3>1, NumbersFacts
    <3> QED BY <1>2, <1>5, <2>6, <3>1, <3>2, <3>3, <3>4
  <2>8. CASE ReadHandle
    <3> DEFINE n == Head(todo)
    <3>1. /\ pc = "read" /\ todo # <<>> /\ table' = Append(table, HandleEntry(n)) /\ todo' = Tail(todo)
          /\ pc' = pc /\ failed' = failed
      BY <2>8 DEF ReadHandle
    <3>2. n \in Nat /\ Tail(todo) \in Seq(Nat) /\ \A x : In(x, todo) <=> x = n \/ In(x, Tail(todo))
      BY <1>2, <1>5, <3>1, RestFacts
    <3> HIDE DEF n
    <3>3. /\ HandleEntry(n) \in HandleRow /\ WasHeld(HandleEntry(n), held)
          /\ \A d \in fds : d.pid = Target /\ d.fd = n /\ MayOpen(Target, me) => Shows(HandleEntry(n), d)
      BY <3>2, HandleFacts
    <3>4. /\ table' \in Seq(HandleRow) /\ Len(table) \in Nat /\ Len(table') = Len(table) + 1
          /\ table'[Len(table) + 1] = HandleEntry(n) /\ \A k \in 1 .. Len(table) : table'[k] = table[k]
      BY <1>2, <1>5, <3>1, <3>3, AppendProperties, LenProperties
    <3>5. \A k \in 1 .. Len(table') : k \in 1 .. Len(table) \/ k = Len(table) + 1
      BY <3>4
    <3>6. Len(table) + 1 \in 1 .. Len(table') /\ \A k \in 1 .. Len(table) : k \in 1 .. Len(table')
      BY <3>4
    <3>7. \A k \in 1 .. Len(table') : WasHeld(table'[k], held)
      BY <1>2, <1>5, <3>3, <3>4, <3>5
    <3>8. ASSUME ~failed', NEW d \in fds, d.pid = Target, Stayed(d)
          PROVE  MayOpen(Target, me) /\ (In(d.fd, todo') \/ ShownIn(d, table'))
      <4>1. MayOpen(Target, me) /\ (In(d.fd, todo) \/ ShownIn(d, table))
        BY <1>3, <1>5, <3>1, <3>8
      <4>2. CASE ShownIn(d, table)
        BY <3>4, <3>6, <4>1, <4>2 DEF ShownIn
      <4>3. CASE d.fd = n
        BY <3>3, <3>4, <3>6, <3>8, <4>1, <4>3 DEF ShownIn
      <4> QED BY <3>1, <3>2, <4>1, <4>2, <4>3
    <3> QED BY <2>6, <3>1, <3>2, <3>4, <3>7, <3>8
  <2>9. CASE EndOfTable
    <3>1. pc = "read" /\ todo = <<>> /\ pc' = "done" /\ UNCHANGED <<todo, got, table, failed>>
      BY <2>9 DEF EndOfTable
    <3> QED BY <1>2, <1>3, <1>5, <2>6, <3>1
  <2> QED BY <1>5, <2>7, <2>8, <2>9, HandlesStep
<1> QED BY <1>1, <1>4, <1>5

\* No row yet.
LEMMA HandlesInit == Init => HandlesInv
<1> SUFFICES ASSUME Init, op = "handles" PROVE HandlesInv
  BY DEF HandlesInv
<1>1. pc = "open" /\ todo = <<>> /\ table = <<>>
  BY DEF Init, FirstStep
<1>2. Len(table) = 0 /\ todo \in Seq(Nat) /\ table \in Seq(HandleRow)
  BY <1>1, EmptySeq
<1> QED BY <1>1, <1>2 DEF HandlesInv

------------------------------------------------------------------------------
(* The connections                                                           *)

NetRow == [pid : Nat, inode : Nat]

Holds(p, inode, known) == \E d \in known : d.pid = p /\ d.obj.kind = "socket" /\ d.obj.id = inode

RowHeld(r, known) == r.pid # 0 => Holds(r.pid, r.inode, known)

\* A readable process that shows itself holds the socket alone, all along.
Lone(d) ==
  /\ d \in fds /\ Stayed(d) /\ d.obj.kind = "socket"
  /\ \E k \in DOMAIN NetFiles : NetFiles[k] = d.obj.net
  /\ me \in {0, began.proc[d.pid].uid} /\ ~proc[d.pid].hidden
  /\ \A h \in held : h.obj = d.obj => h.pid = d.pid

MappedIn(d, map) == d.obj.id \in DOMAIN map /\ map[d.obj.id] = d.pid

RowOf(d) == [pid |-> d.pid, inode |-> d.obj.id]

\* How far the walk has come with a socket that has one holder.
OnItsWay(d, where, toGo, open, map, rows) ==
  /\ where = "dir" => MappedIn(d, map) \/ In(d.pid, toGo)
  /\ where = "link" => MappedIn(d, map) \/ In(d.pid, Tail(toGo)) \/ (d.pid = Head(toGo) /\ In(d.fd, open))
  /\ where \in {"net", "done"} => MappedIn(d, map) /\ (In(d.obj.net, toGo) \/ In(RowOf(d), rows))

NetInv ==
  op \in Networked =>
    /\ pc \in {"list", "dir", "link", "net", "done", "raised"}
    /\ pc \in {"list", "dir", "link"} => todo \in Seq(Pids)
    /\ pc \in {"net", "done"} => todo \in Seq({"tcp", "unix", "packet"})
    /\ pc \in {"link", "net"} => todo # <<>>
    /\ pc = "done" => todo = <<>>
    /\ pc = "list" => todo = <<>>
    /\ links \in Seq(Nat) /\ table \in Seq(NetRow)
    /\ \A i \in DOMAIN got : Holds(got[i], i, held)
    /\ \A k \in 1 .. Len(table) : RowHeld(table[k], held)
    /\ ~failed => \A d \in fds : Lone(d) => OnItsWay(d, pc, todo, links, got, table)

\* The steps of the two calls that look sockets up.
LEMMA NetStep ==
    ASSUME op \in Networked, Collect
    PROVE  \/ ListHolders \/ ListDescriptors \/ MapLink \/ ToNetFiles \/ ReadNetFile \/ SkipNetFile
           \/ NotText \/ ListingFails
  BY DEF Collect, ListProcesses, SkipEntry, ReadEntryFile, EndOfTable, ReadIdentityFile,
       ReadParentStat, ReadParentExe, ReadComm, CompareWithExe, ReadEnviron, OpenHandles, ReadHandle,
       ListVisible, ProbePid, ReadProcModules, ListSysfs, ReadTaint, BuildModuleList, Networked

\* The files under /proc/net that the call parses, at least one.
LEMMA NetFilesFacts ==
    ASSUME op \in Networked
    PROVE  /\ NetFiles \in Seq({"tcp", "unix", "packet"}) /\ NetFiles # <<>>
           /\ \A k \in DOMAIN NetFiles : In(NetFiles[k], NetFiles)
<1>1. CASE op = "connections"
  <2>1. NetFiles = <<"tcp", "unix">>
    BY <1>1 DEF NetFiles
  <2> QED BY <2>1 DEF In
<1>2. CASE op # "connections"
  <2>1. NetFiles = <<"packet">>
    BY <1>2 DEF NetFiles
  <2> QED BY <2>1 DEF In
<1> QED BY <1>1, <1>2

\* What one file under /proc/net adds.
LEMMA NetRows ==
    ASSUME KernelInv, NEW f, \A i \in DOMAIN got : Holds(got[i], i, held)
    PROVE  /\ ParseNetFile(f) \in Seq(NetRow)
           /\ \A x : In(x, ParseNetFile(f)) => RowHeld(x, held)
           /\ \A d \in fds : d.obj.kind = "socket" /\ d.obj.net = f /\ MappedIn(d, got)
                => In(RowOf(d), ParseNetFile(f))
<1> DEFINE D == {d \in fds : d.obj.kind = "socket" /\ d.obj.net = f}
           N == {d.obj.id : d \in D}
           g == [d \in D |-> d.obj.id]
           l == InFile(f)
           rows == ParseNetFile(f)
<1>1. IsFiniteSet(D) /\ \A d \in D : d.obj.id \in Nat
  BY FS_Subset DEF KernelInv, FdInv, Descriptor, Object
<1>2. N \subseteq Nat /\ g \in [D -> N] /\ \A n \in N : \E d \in D : g[d] = n
  BY <1>1
<1>3. \A d \in fds : d.obj.kind = "socket" /\ d.obj.net = f => d.obj.id \in N
  OBVIOUS
<1>4. l = Listing(N)
  BY DEF InFile
<1> HIDE DEF D, N, g, l
<1>5. IsFiniteSet(N)
  BY <1>1, <1>2, FiniteImage
<1>6. l \in Seq(N) /\ \A x : In(x, l) <=> x \in N
  BY <1>4, <1>5, ListingFacts
<1>7. Len(l) \in Nat /\ DOMAIN l = 1 .. Len(l) /\ \A k \in 1 .. Len(l) : l[k] \in Nat
  BY <1>2, <1>6, LenProperties, ElementOfSeq
<1>8. rows = [k \in 1 .. Len(l) |-> [pid |-> PidOfInode(l[k]), inode |-> l[k]]]
  BY <1>7 DEF ParseNetFile, l
<1> HIDE DEF rows
<1>9. ASSUME NEW i \in Nat PROVE PidOfInode(i) \in Nat /\ (PidOfInode(i) # 0 => Holds(PidOfInode(i), i, held))
  <2>1. CASE i \in DOMAIN got
    <3>1. Holds(got[i], i, held) /\ PidOfInode(i) = got[i]
      BY <2>1 DEF PidOfInode
    <3>2. got[i] \in Nat
      BY <3>1, PidsNat DEF Holds, KernelInv, FdInv, Descriptor
    <3> QED BY <3>1, <3>2
  <2>2. CASE i \notin DOMAIN got
    BY <2>2 DEF PidOfInode
  <2> QED BY <2>1, <2>2
<1>10. ASSUME NEW k \in 1 .. Len(l) PROVE rows[k] \in NetRow /\ RowHeld(rows[k], held)
  <2>1. rows[k] = [pid |-> PidOfInode(l[k]), inode |-> l[k]]
    BY <1>8
  <2>2. l[k] \in Nat
    BY <1>7
  <2>3. PidOfInode(l[k]) \in Nat /\ (PidOfInode(l[k]) # 0 => Holds(PidOfInode(l[k]), l[k], held))
    BY <1>9, <2>2
  <2> QED BY <2>1, <2>2, <2>3 DEF NetRow, RowHeld
<1>11. rows \in Seq(NetRow) /\ Len(rows) = Len(l)
  BY <1>7, <1>8, <1>10
<1>12. \A x : In(x, rows) => RowHeld(x, held)
  BY <1>10, <1>11 DEF In
<1>13. ASSUME NEW d \in fds, d.obj.kind = "socket", d.obj.net = f, MappedIn(d, got) PROVE In(RowOf(d), rows)
  <2>1. In(d.obj.id, l)
    BY <1>3, <1>6, <1>13
  <2>2. PICK k \in 1 .. Len(l) : l[k] = d.obj.id
    BY <2>1 DEF In
  <2>3. PidOfInode(d.obj.id) = d.pid
    BY <1>13 DEF MappedIn, PidOfInode
  <2>4. rows[k] = RowOf(d)
    BY <1>8, <2>2, <2>3 DEF RowOf
  <2> QED BY <1>11, <2>4 DEF In
<1> QED BY <1>11, <1>12, <1>13 DEF rows

\* The holder of a lone socket may be read, and is listed.
LEMMA LoneFacts ==
    ASSUME KernelInv, BeganInv, op \in Networked, NEW d, Lone(d)
    PROVE  /\ MayOpen(d.pid, me) /\ In(d.pid, Listed)
           /\ \A e \in held : e.obj.id = d.obj.id => e.pid = d.pid
<1>1. d \in fds /\ d.pid \in Lasting /\ d.pid \in DOMAIN proc
  BY DEF Lone, Stayed, Lasting, Same, Alive
<1>2. op \notin Dropping
  BY DEF Networked, Dropping
<1>3. proc[d.pid].uid = began.proc[d.pid].uid
  <2>1. \A p \in Lasting : op \notin Dropping => proc[p].uid = began.proc[p].uid
    BY DEF BeganInv
  <2> QED BY <1>1, <1>2, <2>1
<1>4. d \in held /\ \A e \in held : e.obj.id = d.obj.id => e.obj = d.obj
  BY <1>1 DEF KernelInv, FdInv
<1> QED BY <1>1, <1>3, <1>4, VisibleFacts DEF Lone, MayOpen, Alive

\* Who is the only holder ever was it before the step too.
LEMMA LoneBefore ==
    ASSUME KernelInv, BeganInv, Later, Lasts, began' = began, op' = op, me' = me, NEW d, Lone(d)'
    PROVE  Lone(d)
<1>1. Stayed(d)' /\ d.obj.kind = "socket" /\ ~proc'[d.pid].hidden
  BY DEF Lone
<1>2. Stayed(d)
  BY <1>1, StayedBefore
<1>3. proc'[d.pid].hidden = proc[d.pid].hidden
  BY <1>1 DEF Stayed, Lasts
<1>4. NetFiles' = NetFiles
  BY DEF NetFiles
<1>5. (\E k \in DOMAIN NetFiles : NetFiles[k] = d.obj.net) /\ me \in {0, began.proc[d.pid].uid}
  BY <1>4 DEF Lone
<1>6. \A h \in held : h.obj = d.obj => h.pid = d.pid
  BY DEF Lone, Later
<1> QED BY <1>1, <1>2, <1>3, <1>5, <1>6 DEF Lone, Stayed

\* Every step keeps the invariant of the connections.
LEMMA NetKeeps ==
    ASSUME KernelInv, BeganInv, CallInv, [Next]_vars, NetInv
    PROVE  NetInv'
<1>0. KernelInv' /\ BeganInv' /\ Later /\ Lasts /\ op' = op /\ began' = began /\ me' = me
  BY MachineKeeps
<1>1. CASE op \notin Networked
  BY <1>0, <1>1 DEF NetInv, Networked
<1>2. ASSUME op \in Networked
      PROVE  /\ pc \in {"list", "dir", "link", "net", "done", "raised"}
             /\ pc \in {"list", "dir", "link"} => todo \in Seq(Pids)
             /\ pc \in {"net", "done"} => todo \in Seq({"tcp", "unix", "packet"})
             /\ (pc \in {"link", "net"} => todo # <<>>) /\ (pc \in {"done", "list"} => todo = <<>>)
             /\ links \in Seq(Nat) /\ table \in Seq(NetRow)
             /\ \A i \in DOMAIN got : Holds(got[i], i, held)
             /\ \A k \in 1 .. Len(table) : RowHeld(table[k], held)
  BY <1>2 DEF NetInv
<1>3. ASSUME op \in Networked, ~failed, NEW d, Lone(d) PROVE OnItsWay(d, pc, todo, links, got, table)
  BY <1>3 DEF NetInv, Lone
<1>4. CASE op \in Networked /\ ~Collect
  <2>1. UNCHANGED <<pc, todo, links, got, table, failed>>
    BY <1>4, StepShape DEF vars
  <2>2. \A p, i : Holds(p, i, held) => Holds(p, i, held')
    BY <1>0 DEF Holds, Later
  <2>3. ASSUME ~failed, NEW d, Lone(d)' PROVE OnItsWay(d, pc, todo, links, got, table)
    BY <1>0, <1>3, <1>4, <2>3, LoneBefore
  <2>4. \A k \in 1 .. Len(table) : RowHeld(table[k], held')
    BY <1>2, <1>4, <2>2 DEF RowHeld
  <2> QED BY <1>0, <1>2, <1>4, <2>1, <2>2, <2>3, <2>4 DEF NetInv, Networked
<1>5. CASE op \in Networked /\ Collect
  <2>1. UNCHANGED kernel
    BY <1>5, CollectQuiet
  <2>2. proc' = proc /\ fds' = fds /\ held' = held
    BY <2>1 DEF kernel
  <2>3. ASSUME NEW d, Lone(d)' PROVE Lone(d)
    BY <1>0, <2>3, LoneBefore
  <2>4. ASSUME pc' \in {"dir", "link", "net", "done", "raised"}, pc' \in {"dir", "link"} => todo' \in Seq(Pids),
               pc' \in {"net", "done"} => todo' \in Seq({"tcp", "unix", "packet"}),
               pc' \in {"link", "net"} => todo' # <<>>, pc' = "done" => todo' = <<>>,
               links' \in Seq(Nat), table' \in Seq(NetRow),
               \A i \in DOMAIN got' : Holds(got'[i], i, held),
               \A k \in 1 .. Len(table') : RowHeld(table'[k], held),
               ~failed' => \A d : Lone(d) => OnItsWay(d, pc', todo', links', got', table')
        PROVE  NetInv'
    BY <1>0, <2>2, <2>3, <2>4 DEF NetInv, Networked
  <2>5. CASE ListHolders
    <3>1. pc = "list" /\ pc' = "dir" /\ todo' = Listed /\ UNCHANGED <<links, got, table, failed>>
      BY <2>5 DEF ListHolders
    <3>2. todo' \in Seq(Pids)
      BY <3>1, VisibleFacts
    <3>3. ASSUME NEW d, Lone(d) PROVE OnItsWay(d, pc', todo', links', got', table')
      BY <1>5, <3>1, <3>3, LoneFacts DEF OnItsWay
    <3> QED BY <1>2, <1>5, <2>4, <3>1, <3>2, <3>3
  <2>6. CASE ListDescriptors
    <3> DEFINE p == Head(todo)
    <3>1. /\ pc = "dir" /\ todo # <<>> /\ UNCHANGED <<got, table, failed>>
          /\ IF MayOpen(p, me) THEN links' = Numbers(DescriptorsOf(p)) /\ pc' = "link" /\ todo' = todo
             ELSE todo' = Tail(todo) /\ links' = links /\ pc' = pc
      BY <2>6 DEF ListDescriptors
    <3>2. Tail(todo) \in Seq(Pids) /\ \A x : In(x, todo) <=> x = p \/ In(x, Tail(todo))
      BY <1>2, <1>5, <3>1, RestFacts
    <3>3. /\ Numbers(DescriptorsOf(p)) \in Seq(Nat)
          /\ \A d \in fds : d.pid = p => In(d.fd, Numbers(DescriptorsOf(p)))
      BY NumbersFacts
    <3> HIDE DEF p
    <3>4. ASSUME ~failed, NEW d, Lone(d) PROVE OnItsWay(d, pc', todo', links', got', table')
      <4>1. MappedIn(d, got) \/ In(d.pid, todo)
        BY <1>3, <1>5, <3>1, <3>4 DEF OnItsWay
      <4>2. d \in fds /\ MayOpen(d.pid, me)
        BY <1>5, <3>4, LoneFacts DEF Lone
      <4>3. CASE MayOpen(p, me)
        <5>1. p = Head(todo') /\ Tail(todo) = Tail(todo') /\ pc' = "link"
          BY <3>1, <4>3 DEF p
        <5>2. d.pid = p => In(d.fd, links')
          BY <3>1, <3>3, <4>2, <4>3
        <5> QED BY <3>1, <3>2, <4>1, <5>1, <5>2 DEF OnItsWay
      <4>4. CASE ~MayOpen(p, me)
        BY <3>1, <3>2, <4>1, <4>2, <4>4 DEF OnItsWay
      <4> QED BY <4>3, <4>4
    <3> QED BY <1>2, <1>5, <2>4, <3>1, <3>2, <3>3, <3>4
  <2>7. CASE MapLink
    <3> DEFINE p == Head(todo)
               n == Head(links)
               sockets == {d \in LinkOf(p, n) : d.obj.kind = "socket"}
               e == CHOOSE d \in sockets : TRUE
    <3>1. /\ pc = "link" /\ UNCHANGED <<table, failed>>
          /\ IF links = <<>> THEN todo' = Tail(todo) /\ pc' = "dir" /\ links' = links /\ got' = got
             ELSE /\ links' = Tail(links) /\ todo' = todo /\ pc' = pc
                  /\ got' = IF sockets = {} THEN got ELSE With(got, e.obj.id, p)
      BY <2>7 DEF MapLink, MapsTo
    <3>2. todo # <<>> /\ todo \in Seq(Pids) /\ Tail(todo) \in Seq(Pids)
      BY <1>2, <1>5, <3>1, RestFacts
    <3>3. \A d \in sockets : d \in fds /\ d \in held /\ d.pid = p /\ d.fd = n /\ d.obj.kind = "socket"
      BY DEF LinkOf, DescriptorsOf, KernelInv, FdInv
    <3>4. \A d \in fds : d.pid = p /\ d.fd = n /\ d.obj.kind = "socket" /\ MayOpen(p, me) => d \in sockets
      BY DEF LinkOf, DescriptorsOf
    <3>5. \A c, d \in sockets : c = d
      BY <3>3 DEF KernelInv, FdInv
    <3>6. sockets # {} => e \in sockets
      OBVIOUS
    <3> HIDE DEF sockets, e
    <3>7. CASE links = <<>>
      <4>1. pc' = "dir" /\ todo' = Tail(todo) /\ links' = links /\ got' = got
        BY <3>1, <3>7
      <4>2. ASSUME ~failed, NEW d, Lone(d) PROVE OnItsWay(d, pc', todo', links', got', table')
        <5>1. MappedIn(d, got) \/ In(d.pid, Tail(todo)) \/ In(d.fd, links)
          BY <1>3, <1>5, <3>1, <4>2 DEF OnItsWay
        <5> QED BY <3>7, <4>1, <5>1, NothingInEmpty DEF OnItsWay
      <4> QED BY <1>2, <1>5, <2>4, <3>1, <3>2, <4>1, <4>2
    <3>8. CASE links # <<>>
      <4>1. pc' = "link" /\ todo' = todo /\ links' = Tail(links)
        BY <3>1, <3>8
      <4>2. Tail(links) \in Seq(Nat) /\ \A x : In(x, links) <=> x = n \/ In(x, Tail(links))
        BY <1>2, <1>5, <3>8, RestFacts
      <4>3. got' = got \/ (e \in sockets /\ got' = With(got, e.obj.id, p))
        BY <3>1, <3>6, <3>8
      <4>4. \A i \in DOMAIN got' : Holds(got'[i], i, held)
        <5>1. CASE got' = got
          BY <1>2, <1>5, <5>1
        <5>2. CASE e \in sockets /\ got' = With(got, e.obj.id, p)
          <6>1. Holds(p, e.obj.id, held)
            BY <3>3, <5>2 DEF Holds
          <6> QED BY <1>2, <1>5, <5>2, <6>1 DEF With
        <5> QED BY <4>3, <5>1, <5>2
      <4>5. ASSUME ~failed, NEW d, Lone(d) PROVE OnItsWay(d, pc', todo', links', got', table')
        <5>1. MappedIn(d, got) \/ In(d.pid, Tail(todo)) \/ (d.pid = p /\ In(d.fd, links))
          BY <1>3, <1>5, <3>1, <4>5 DEF OnItsWay
        <5>2. d \in fds /\ d.obj.kind = "socket" /\ MayOpen(d.pid, me)
              /\ \A c \in held : c.obj.id = d.obj.id => c.pid = d.pid
          BY <1>5, <4>5, LoneFacts DEF Lone
        <5>3. MappedIn(d, got) => MappedIn(d, got')
          <6>1. e \in sockets /\ e.obj.id = d.obj.id => p = d.pid
            BY <3>3, <5>2
          <6> QED BY <4>3, <6>1 DEF With, MappedIn
        <5>4. d.pid = p /\ d.fd = n => MappedIn(d, got')
          <6> SUFFICES ASSUME d.pid = p, d.fd = n PROVE MappedIn(d, got')
            OBVIOUS
          <6>1. d \in sockets
            BY <3>4, <5>2
          <6>2. e = d /\ got' = With(got, e.obj.id, p)
            BY <3>1, <3>5, <3>6, <3>8, <6>1
          <6> QED BY <6>2 DEF With, MappedIn
        <5> QED BY <4>1, <4>2, <5>1, <5>3, <5>4 DEF OnItsWay
      <4> QED BY <1>2, <1>5, <2>4, <3>1, <3>2, <4>1, <4>2, <4>4, <4>5
    <3> QED BY <3>7, <3>8
  <2>8. CASE ToNetFiles
    <3>1. pc = "dir" /\ todo = <<>> /\ todo' = NetFiles /\ pc' = "net" /\ UNCHANGED <<links, got, table, failed>>
      BY <2>8 DEF ToNetFiles
    <3>2. todo' \in Seq({"tcp", "unix", "packet"}) /\ todo' # <<>>
      BY <1>5, <3>1, NetFilesFacts
    <3>3. ASSUME ~failed, NEW d, Lone(d) PROVE OnItsWay(d, pc', todo', links', got', table')
      <4>1. MappedIn(d, got)
        BY <1>3, <1>5, <3>1, <3>3, NothingInEmpty DEF OnItsWay
      <4>2. In(d.obj.net, NetFiles)
        BY <1>5, <3>3, NetFilesFacts DEF Lone
      <4> QED BY <3>1, <4>1, <4>2 DEF OnItsWay
    <3> QED BY <1>2, <1>5, <2>4, <3>1, <3>2, <3>3
\* One net file less to go through.
  <2>8a. ASSUME pc = "net", todo' = Tail(todo), pc' = IF Len(todo) = 1 THEN "done" ELSE "net"
         PROVE  /\ todo # <<>> /\ todo \in Seq({"tcp", "unix", "packet"})
                /\ todo' \in Seq({"tcp", "unix", "packet"})
                /\ (pc' = "done" => todo' = <<>>) /\ (pc' = "net" => todo' # <<>>)
    <3>1. todo \in Seq({"tcp", "unix", "packet"}) /\ todo # <<>>
      BY <1>2, <1>5, <2>8a
    <3>2. Tail(todo) \in Seq({"tcp", "unix", "packet"})
      BY <3>1, RestFacts
    <3>3. Len(todo) \in Nat /\ Len(todo) >= 1 /\ Len(Tail(todo)) = Len(todo) - 1
      BY <3>1, EmptySeq, LenProperties, HeadTailProperties
    <3>4. CASE Len(todo) = 1
      <4>1. Len(Tail(todo)) = 0
        BY <3>3, <3>4
      <4>2. Tail(todo) = <<>>
        BY <3>2, <4>1, EmptySeq
      <4> QED BY <2>8a, <3>1, <3>2, <3>4, <4>2
    <3>5. CASE Len(todo) # 1
      <4>1. Len(Tail(todo)) # 0
        BY <3>3, <3>5
      <4>2. Tail(todo) # <<>>
        BY <4>1
      <4> QED BY <2>8a, <3>1, <3>2, <3>5, <4>2
    <3> QED BY <3>4, <3>5
  <2>9. CASE ReadNetFile
    <3> DEFINE f == Head(todo)
               rows == ParseNetFile(f)
    <3>1. /\ pc = "net" /\ table' = table \o rows /\ todo' = Tail(todo)
          /\ pc' = (IF Len(todo) = 1 THEN "done" ELSE "net") /\ UNCHANGED <<links, got, failed>>
      BY <2>9 DEF ReadNetFile
    <3>2. /\ todo \in Seq({"tcp", "unix", "packet"}) /\ todo # <<>>
          /\ todo' \in Seq({"tcp", "unix", "packet"})
          /\ (pc' = "done" => todo' = <<>>) /\ (pc' = "net" => todo' # <<>>)
      BY <2>8a, <3>1
    <3>3. \A x : In(x, todo) <=> x = f \/ In(x, Tail(todo))
      BY <3>2, RestFacts
    <3>6. /\ rows \in Seq(NetRow)
          /\ \A x : In(x, rows) => RowHeld(x, held)
          /\ \A d \in fds : d.obj.kind = "socket" /\ d.obj.net = f /\ MappedIn(d, got) => In(RowOf(d), rows)
      BY <1>2, <1>5, NetRows
    <3> HIDE DEF rows, f
    <3>7. table' \in Seq(NetRow) /\ \A x : In(x, table') <=> In(x, table) \/ In(x, rows)
      BY <1>2, <1>5, <3>1, <3>6, ConcatFacts
    <3>8. \A k \in 1 .. Len(table') : RowHeld(table'[k], held)
      <4>1. \A k \in 1 .. Len(table') : In(table'[k], table')
        BY DEF In
      <4>2. \A x : In(x, table) => RowHeld(x, held)
        BY <1>2, <1>5 DEF In
      <4> QED BY <3>6, <3>7, <4>1, <4>2
    <3>9. ASSUME ~failed, NEW d, Lone(d) PROVE OnItsWay(d, pc', todo', links', got', table')
      <4>1. MappedIn(d, got) /\ (In(d.obj.net, todo) \/ In(RowOf(d), table))
        BY <1>3, <1>5, <3>1, <3>9 DEF OnItsWay
      <4>2. d \in fds /\ d.obj.kind = "socket"
        BY <3>9 DEF Lone
      <4>3. In(d.obj.net, Tail(todo)) \/ In(RowOf(d), table')
        BY <3>3, <3>6, <3>7, <4>1, <4>2
      <4> QED BY <3>1, <4>1, <4>3 DEF OnItsWay
    <3> QED BY <1>2, <1>5, <2>4, <3>1, <3>2, <3>7, <3>8, <3>9
  <2>10. CASE ListingFails
    <3>1. pc = "list" /\ pc' = "dir" /\ failed' = TRUE /\ UNCHANGED <<todo, links, got, table>>
      BY <1>5, <2>10 DEF ListingFails, ListFailed, Networked
    <3> QED BY <1>2, <1>5, <2>4, <3>1
  <2>11. CASE SkipNetFile
    <3>1. /\ pc = "net" /\ todo' = Tail(todo) /\ failed' = TRUE
          /\ pc' = (IF Len(todo) = 1 THEN "done" ELSE "net") /\ UNCHANGED <<links, got, table>>
      BY <2>11 DEF SkipNetFile
    <3> QED BY <1>2, <1>5, <2>4, <2>8a, <3>1
  <2>12. CASE NotText
    <3>1. pc' = "raised" /\ links' = links /\ got' = <<>> /\ table' = <<>>
      BY <2>12 DEF NotText
    <3>2. DOMAIN got' = {} /\ Len(table') = 0 /\ table' \in Seq(NetRow)
      BY <3>1, EmptySeq
    <3>3. \A d : OnItsWay(d, pc', todo', links', got', table')
      BY <3>1 DEF OnItsWay
    <3> QED BY <1>2, <1>5, <2>4, <3>1, <3>2, <3>3
  <2> QED BY <1>5, <2>5, <2>6, <2>7, <2>8, <2>9, <2>10, <2>11, <2>12, NetStep
<1> QED BY <1>1, <1>4, <1>5

\* No socket is in the map yet.
LEMMA NetInit == Init => NetInv
<1> SUFFICES ASSUME Init, op \in Networked PROVE NetInv
  BY DEF NetInv
<1>1. pc = "list" /\ todo = <<>> /\ table = <<>> /\ links = <<>> /\ got = <<>>
  BY DEF Init, FirstStep, Networked
<1>2. Len(table) = 0 /\ todo \in Seq(Pids) /\ table \in Seq(NetRow) /\ links \in Seq(Nat) /\ DOMAIN got = {}
  BY <1>1, EmptySeq
<1> QED BY <1>1, <1>2 DEF NetInv, OnItsWay

\* What is said of descriptors was so, and those that lasted are not missed, for any
\* descriptors opened, passed on and closed meanwhile (collect_handle_table,
\* collect_connection_table).
THEOREM DescriptorsHold == Spec => []DescriptorsAreTrue
<1> DEFINE Inv == KernelInv /\ BeganInv /\ CallInv /\ HandlesInv /\ NetInv
<1>1. Init => Inv
  BY MachineInit, HandlesInit, NetInit
<1>2. Inv /\ [Next]_vars => Inv'
  BY MachineKeeps, CallKeeps, HandlesKeep, NetKeeps
<1>3. Inv => HandlesAreTrue
  <2> SUFFICES ASSUME Inv, Done("handles") PROVE HandlesAreTrue
    BY DEF HandlesAreTrue
  <2>1. /\ todo = <<>> /\ table \in Seq(HandleRow) /\ \A k \in 1 .. Len(table) : WasHeld(table[k], held)
        /\ ~failed => \A d \in fds : d.pid = Target /\ Stayed(d) => In(d.fd, todo) \/ ShownIn(d, table)
    BY DEF HandlesInv, Done
  <2>2. DOMAIN table = 1 .. Len(table)
    BY <2>1, LenProperties
  <2>3. ASSUME NEW r \in Rows, r.type # "unknown"
        PROVE  \E d \in held : d.pid = Target /\ d.fd = r.fd /\ d.obj.id = r.path /\ ClassifyHandle(d.obj) = r.type
    BY <2>1, <2>2, <2>3 DEF Rows, WasHeld, Shows
  <2>4. ASSUME ~failed, NEW d \in DescriptorsOf(Target), Stayed(d)
        PROVE  \E r \in Rows : r.fd = d.fd /\ r.path = d.obj.id /\ r.type = ClassifyHandle(d.obj)
    <3>1. ShownIn(d, table)
      BY <2>1, <2>4, NothingInEmpty DEF DescriptorsOf
    <3> QED BY <2>2, <3>1 DEF ShownIn, Shows, Rows
  <2> QED BY <2>3, <2>4 DEF HandlesAreTrue
<1>4. Inv => HoldersAreReal
  <2> SUFFICES ASSUME NetInv, op \in Networked, NEW k \in DOMAIN table, table[k].pid # 0
               PROVE  \E d \in held : d.pid = table[k].pid /\ d.obj.kind = "socket" /\ d.obj.id = table[k].inode
    BY DEF HoldersAreReal, Rows
  <2>1. table \in Seq(NetRow) /\ \A j \in 1 .. Len(table) : RowHeld(table[j], held)
    BY DEF NetInv
  <2>2. RowHeld(table[k], held)
    BY <2>1, LenProperties
  <2> QED BY <2>2 DEF RowHeld, Holds
<1>5. Inv => LoneHolderIsNamed
  <2> SUFFICES ASSUME NetInv, op \in Networked, pc = "done", ~failed, NEW d \in fds, Lone(d)
               PROVE  \E r \in Rows : r.inode = d.obj.id /\ r.pid = d.pid
    BY DEF LoneHolderIsNamed, Lone
  <2>1. table \in Seq(NetRow) /\ todo = <<>> /\ OnItsWay(d, pc, todo, links, got, table)
    BY DEF NetInv
  <2>2. In(RowOf(d), table)
    BY <2>1, NothingInEmpty DEF OnItsWay
  <2> QED BY <2>1, <2>2, LenProperties DEF In, RowOf, Rows
<1>6. Inv => DescriptorsAreTrue
  BY <1>3, <1>4, <1>5 DEF DescriptorsAreTrue
<1> HIDE DEF Inv
<1> QED BY <1>1, <1>2, <1>6, PTL DEF Spec

------------------------------------------------------------------------------
(* What /proc/modules shows                                                  *)

Less == {ss \in Nat \X Nat : ss[1] < ss[2]}

\* A non-empty set of naturals has a least element: with it a recursive function is
\* shown to exist, and to do what it should, one number after the other.
LEMMA LeastOfSet ==
    ASSUME NEW T \in SUBSET Nat, T # {}
    PROVE  \E x \in T : \A y \in T : x <= y
<1>1. OpToRel(<, Nat) = Less
  BY DEF OpToRel, Less
<1>2. IsWellFoundedOn(Less, Nat)
  BY <1>1, NatLessThanWellFounded
<1>3. PICK x \in T : \A y \in T : ~(<<y, x>> \in Less)
  BY <1>2, WFMin
<1>4. \A m, n \in Nat : m < n => <<m, n>> \in Less
  BY DEF Less
<1>5. \A y \in T : ~(y < x)
  BY <1>3, <1>4
<1> QED BY <1>5

\* The elements of s that are in T, up to the n-th, taken from those up to the one before.
OneMore(g, n, s, T) ==
  IF n = 0 THEN <<>> ELSE IF s[n] \in T THEN Append(g[n - 1], s[n]) ELSE g[n - 1]

Keeps(g, m, s, T) == DOMAIN g = 0 .. m /\ \A n \in 0 .. m : g[n] = OneMore(g, n, s, T)

\* The recursion of Kept has a solution up to any length.
LEMMA KeeperExists ==
    ASSUME NEW s, NEW T, NEW m \in Nat
    PROVE  \E g : Keeps(g, m, s, T)
<1> DEFINE Bad == {n \in Nat : ~ \E g : Keeps(g, n, s, T)}
<1> SUFFICES ASSUME Bad # {} PROVE FALSE
  OBVIOUS
<1>1. PICK n \in Bad : \A k \in Bad : n <= k
  BY LeastOfSet
<1>2. n \in Nat /\ ~ \E g : Keeps(g, n, s, T)
  OBVIOUS
<1>3. CASE n = 0
  <2> DEFINE g == [k \in 0 .. 0 |-> <<>>]
  <2>1. Keeps(g, 0, s, T)
    BY DEF Keeps, OneMore
  <2> QED BY <1>2, <1>3, <2>1
<1>4. CASE n # 0
  <2>1. n - 1 \in Nat /\ ~(n <= n - 1)
    BY <1>2, <1>4
  <2>2. n - 1 \notin Bad
    BY <1>1, <2>1
  <2>3. PICK h : Keeps(h, n - 1, s, T)
    BY <2>1, <2>2
  <2> DEFINE g == [k \in 0 .. n |-> IF k = n THEN OneMore(h, n, s, T) ELSE h[k]]
  <2>4. \A k \in 0 .. n : k # n => g[k] = h[k]
    OBVIOUS
  <2>5. g[n] = OneMore(h, n, s, T) /\ DOMAIN g = 0 .. n
    BY <1>2
  <2> HIDE DEF g
  <2>6. ASSUME NEW k \in 0 .. n PROVE g[k] = OneMore(g, k, s, T)
    <3>1. k # 0 => k - 1 \in 0 .. n /\ k - 1 # n
      BY <1>2
    <3>2. OneMore(g, k, s, T) = OneMore(h, k, s, T)
      BY <2>4, <3>1 DEF OneMore
    <3>3. CASE k = n
      BY <2>5, <3>2, <3>3
    <3>4. CASE k # n
      <4>1. k \in 0 .. n - 1
        BY <1>2, <3>4
      <4> QED BY <2>3, <2>4, <3>2, <3>4, <4>1 DEF Keeps
    <3> QED BY <3>3, <3>4
  <2>7. Keeps(g, n, s, T)
    BY <2>5, <2>6 DEF Keeps
  <2> QED BY <1>2, <2>7
<1> QED BY <1>3, <1>4

\* Kept is that solution.
LEMMA KeptIsKept ==
    ASSUME NEW s, NEW T, Len(s) \in Nat
    PROVE  \E g : Keeps(g, Len(s), s, T) /\ Kept(s, T) = g[Len(s)]
<1> DEFINE P(g) == g = [n \in 0 .. Len(s) |->
                          IF n = 0 THEN <<>> ELSE IF s[n] \in T THEN Append(g[n - 1], s[n]) ELSE g[n - 1]]
           kept == CHOOSE g : P(g)
<1>1. PICK h : Keeps(h, Len(s), s, T)
  BY KeeperExists
<1>2. \E g : P(g)
  <2> DEFINE g == [n \in 0 .. Len(s) |-> h[n]]
  <2>1. \A n \in 0 .. Len(s) : n # 0 => n - 1 \in 0 .. Len(s)
    OBVIOUS
  <2>2. \A n \in 0 .. Len(s) : n # 0 => g[n - 1] = h[n - 1]
    BY <2>1
  <2>3. \A n \in 0 .. Len(s) :
          h[n] = IF n = 0 THEN <<>> ELSE IF s[n] \in T THEN Append(g[n - 1], s[n]) ELSE g[n - 1]
    BY <1>1, <2>2 DEF Keeps, OneMore
  <2>4. P(g)
    BY <2>3
  <2> QED BY <2>4
<1>3. P(kept)
  BY <1>2
<1>4. Kept(s, T) = kept[Len(s)]
  BY DEF Kept
<1> HIDE DEF kept
<1>5. Keeps(kept, Len(s), s, T)
  BY <1>3 DEF Keeps, OneMore
<1> QED BY <1>4, <1>5

\* What is kept of a sequence are its elements in the set.
LEMMA KeptFacts ==
    ASSUME NEW M, NEW s \in Seq(M), NEW T
    PROVE  /\ Kept(s, T) \in Seq(M)
           /\ \A x : In(x, Kept(s, T)) <=> In(x, s) /\ x \in T
<1>1. Len(s) \in Nat /\ \A k \in 1 .. Len(s) : s[k] \in M
  BY LenProperties, ElementOfSeq
<1>2. PICK g : Keeps(g, Len(s), s, T) /\ Kept(s, T) = g[Len(s)]
  BY <1>1, KeptIsKept
<1> DEFINE Good(n) == /\ g[n] \in Seq(M)
                      /\ \A x : In(x, g[n]) <=> x \in T /\ \E k \in 1 .. n : s[k] = x
           Bad == {n \in Nat : n <= Len(s) /\ ~Good(n)}
<1>3. Bad = {}
  <2> SUFFICES ASSUME Bad # {} PROVE FALSE
    OBVIOUS
  <2>1. PICK n \in Bad : \A k \in Bad : n <= k
    BY LeastOfSet
  <2>2. n \in Nat /\ n <= Len(s) /\ ~Good(n) /\ n \in 0 .. Len(s)
    BY <1>1
  <2>3. CASE n = 0
    <3>1. g[0] = <<>>
      BY <1>2, <2>2, <2>3 DEF Keeps, OneMore
    <3>2. g[0] \in Seq(M) /\ \A x : ~In(x, g[0])
      BY <3>1, NothingInEmpty, EmptySeq
    <3> QED BY <2>2, <2>3, <3>2
  <2>4. CASE n # 0
    <3>1. n - 1 \in Nat /\ n - 1 <= Len(s) /\ ~(n <= n - 1) /\ n \in 1 .. Len(s)
      BY <1>1, <2>2, <2>4
    <3>2. Good(n - 1)
      BY <2>1, <3>1
    <3>3. g[n] = IF s[n] \in T THEN Append(g[n - 1], s[n]) ELSE g[n - 1]
      BY <1>2, <2>2, <2>4 DEF Keeps, OneMore
    <3>4. \A k \in 1 .. n : k \in 1 .. n - 1 \/ k = n
      BY <2>2
    <3>5. \A k \in 1 .. n - 1 : k \in 1 .. n
      BY <2>2
    <3>6. n \in 1 .. n
      BY <2>2, <2>4
    <3>7. \A x : (\E k \in 1 .. n : s[k] = x) <=> (\E k \in 1 .. n - 1 : s[k] = x) \/ x = s[n]
      BY <3>4, <3>5, <3>6
    <3>8. CASE s[n] \in T
      <4>1. g[n] \in Seq(M) /\ \A x : In(x, g[n]) <=> In(x, g[n - 1]) \/ x = s[n]
        BY <1>1, <3>1, <3>2, <3>3, <3>8, AppendFacts
      <4> QED BY <2>2, <3>2, <3>7, <3>8, <4>1
    <3>9. CASE s[n] \notin T
      <4>1. g[n] = g[n - 1]
        BY <3>3, <3>9
      <4> QED BY <2>2, <3>2, <3>7, <3>9, <4>1
    <3> QED BY <3>8, <3>9
  <2> QED BY <2>3, <2>4
<1>4. Good(Len(s))
  <2>1. Len(s) \notin Bad
    <3> HIDE DEF Bad
    <3> QED BY <1>3
  <2> HIDE DEF Good
  <2> QED BY <1>1, <2>1
<1> QED BY <1>2, <1>4 DEF In

------------------------------------------------------------------------------
(* The modules                                                               *)

Line == [name : Nat, base : Nat]

NamedIn(n, lines) == \E k \in 1 .. Len(lines) : lines[k].name = n

\* The lines read are of modules that are loaded, if those did not come or go since;
\* and unless the read was full, of all that are shown.
LinesTrue(lines, loaded, past) ==
  /\ lines \in Seq(Line) /\ Len(lines) <= MaxLines
  /\ \A n \in Nat \ past : NamedIn(n, lines) => \E m \in InProcModules : In(m, loaded) /\ m.name = n
  /\ Len(lines) < MaxLines =>
       \A m \in InProcModules : In(m, loaded) /\ m.name \notin past => NamedIn(m.name, lines)

\* The names read, and those still to come, are of the modules in sysfs.
NamesTrue(names, loaded, past) ==
  \A n \in Nat \ past : n \in names <=> \E m \in Module : m.inSysfs /\ In(m, loaded) /\ m.name = n

ModulesInv ==
  op = "modules" /\ ~failed =>
    /\ pc \in {"modules", "list", "taint", "done"}
    /\ todo \in Seq(Nat)
    /\ pc # "modules" => /\ got = [lines |-> got.lines, sysfs |-> got.sysfs]
                         /\ IsFiniteSet(DOMAIN got.sysfs) /\ DOMAIN got.sysfs \subseteq Nat
                         /\ LinesTrue(got.lines, mods, touched)
    /\ pc = "list" => DOMAIN got.sysfs = {}
    /\ pc = "taint" => NamesTrue(DOMAIN got.sysfs \cup {n \in Nat : In(n, todo)}, mods, touched)
    /\ pc = "done" => NamesTrue(DOMAIN got.sysfs, mods, touched) /\ table = ProcRows \o SysfsRows

\* The steps of collect_kernel_module_list.
LEMMA ModulesStep ==
    ASSUME op = "modules", Collect
    PROVE  ReadProcModules \/ ListSysfs \/ ReadTaint \/ BuildModuleList \/ ListingFails
  BY NotTextCalls DEF Collect, ListProcesses, SkipEntry, ReadEntryFile, EndOfTable, ReadIdentityFile,
       ReadParentStat, ReadParentExe, ReadComm, CompareWithExe, ReadEnviron, OpenHandles, ReadHandle,
       ListHolders, ListDescriptors, MapLink, ToNetFiles, ReadNetFile, SkipNetFile, ListVisible,
       ProbePid, Networked

\* Only what is named in touched comes or goes.
LEMMA ModsStay ==
    ASSUME KernelInv, KernelStep, NEW m \in Module, m.name \notin touched'
    PROVE  In(m, mods') <=> In(m, mods)
<1>0. mods \in Seq(Module)
  BY DEF KernelInv, ModInv
<1>1. CASE \E k \in NewModules : Load(k)
  <2>1. PICK l \in NewModules : mods' = <<l>> \o mods /\ touched' = touched \cup {l.name}
    BY <1>1 DEF Load
  <2>2. l \in Module
    BY CollectorAssumption
  <2>3. <<l>> \in Seq(Module) /\ \A x : In(x, <<l>>) <=> x = l
    BY <2>2 DEF In
  <2>4. \A x : In(x, mods') <=> In(x, <<l>>) \/ In(x, mods)
    BY <1>0, <2>1, <2>3, ConcatFacts
  <2> QED BY <2>1, <2>3, <2>4
<1>2. CASE \E k \in DOMAIN mods : Unload(mods[k].name)
  <2>1. PICK name \in {mods[k].name : k \in DOMAIN mods} : Unload(name)
    BY <1>2
  <2>2. PICK k \in DOMAIN mods :
               /\ mods[k].name = name
               /\ mods' = SubSeq(mods, 1, k - 1) \o SubSeq(mods, k + 1, Len(mods))
    BY <2>1 DEF Unload
  <2>3. touched' = touched \cup {name}
    BY <2>1 DEF Unload
  <2>4. DOMAIN mods = 1 .. Len(mods) /\ Len(mods) \in Nat /\ k \in 1 .. Len(mods)
    BY <1>0, LenProperties
  <2>5. /\ Len(mods') = Len(mods) - 1
        /\ \A i \in 1 .. Len(mods) - 1 : mods'[i] = IF i < k THEN mods[i] ELSE mods[i + 1]
    BY <1>0, <2>2, <2>4, WithoutOne
  <2>6. ASSUME In(m, mods) PROVE In(m, mods')
    <3>1. PICK j \in 1 .. Len(mods) : mods[j] = m
      BY <2>6 DEF In
    <3>2. j # k
      BY <2>2, <2>3, <3>1
    <3>3. CASE j < k
      <4>1. j \in 1 .. Len(mods) - 1
        BY <2>4, <3>3
      <4> QED BY <2>5, <3>1, <3>3, <4>1 DEF In
    <3>4. CASE j > k
      <4>1. j - 1 \in 1 .. Len(mods) - 1 /\ ~(j - 1 < k) /\ (j - 1) + 1 = j
        BY <2>4, <3>4
      <4>2. mods'[j - 1] = m
        BY <2>5, <3>1, <4>1
      <4> QED BY <2>5, <4>1, <4>2 DEF In
    <3> QED BY <2>4, <3>2, <3>3, <3>4
  <2>7. ASSUME In(m, mods') PROVE In(m, mods)
    <3>1. PICK j \in 1 .. Len(mods) - 1 : mods'[j] = m
      BY <2>5, <2>7 DEF In
    <3>2. j \in 1 .. Len(mods) /\ j + 1 \in 1 .. Len(mods)
      BY <2>4
    <3> QED BY <2>5, <3>1, <3>2 DEF In
  <2> QED BY <2>6, <2>7
<1>3. CASE mods' = mods
  BY <1>3
<1> QED BY <1>1, <1>2, <1>3 DEF KernelStep, Fork, Exit, DropRoot, Exec, Unlink, Becomes, NewThread, Open, Close,
             Guard, Garble

\* What one read of /proc/modules gives.
LEMMA FileShows ==
    ASSUME KernelInv
    PROVE  LinesTrue([k \in DOMAIN ModulesFile |-> [name |-> ModulesFile[k].name, base |-> BaseOf(ModulesFile[k])]],
                     mods, touched)
<1> DEFINE all == Kept(mods, InProcModules)
           file == ModulesFile
           top == IF Len(all) < MaxLines THEN Len(all) ELSE MaxLines
           lines == [k \in DOMAIN file |-> [name |-> file[k].name, base |-> BaseOf(file[k])]]
<1>0. MaxLines \in Nat \ {0}
  BY CollectorAssumption
<1>1. all \in Seq(Module) /\ \A x : In(x, all) <=> In(x, mods) /\ x \in InProcModules
  BY KeptFacts DEF KernelInv, ModInv
<1>2. file = SubSeq(all, 1, top)
  BY DEF ModulesFile, FirstLines
<1> HIDE DEF all, file
<1>3. Len(all) \in Nat /\ \A k \in 1 .. Len(all) : all[k] \in Module
  BY <1>1, LenProperties, ElementOfSeq
<1>4. top \in Nat /\ top <= Len(all) /\ top <= MaxLines /\ (top < MaxLines => top = Len(all))
  BY <1>0, <1>3
<1> HIDE DEF top
<1>5. /\ file \in Seq(Module) /\ Len(file) = top
      /\ \A k \in 1 .. top : file[k] = all[k]
  <2>1. \A k \in 1 .. top : all[k] \in Module
    BY <1>3, <1>4
  <2>2. /\ file \in Seq(Module) /\ Len(file) = IF 1 <= top THEN top - 1 + 1 ELSE 0
        /\ \A k \in 1 .. top - 1 + 1 : file[k] = all[1 + k - 1]
    BY <1>2, <1>4, <2>1, SubSeqProperties
  <2>3. Len(file) = top
    BY <1>4, <2>2
  <2>4. \A k \in 1 .. top : k \in 1 .. top - 1 + 1 /\ 1 + k - 1 = k
    BY <1>4
  <2> QED BY <2>2, <2>3, <2>4
<1>6. DOMAIN file = 1 .. top
  BY <1>5, LenProperties
<1>7. ASSUME NEW k \in 1 .. top
      PROVE  file[k] \in InProcModules /\ In(file[k], mods) /\ file[k] \in Module
  <2>1. k \in 1 .. Len(all)
    BY <1>3, <1>4
  <2>2. In(all[k], all)
    BY <2>1 DEF In
  <2> QED BY <1>1, <1>3, <1>5, <2>1, <2>2
<1>8. \A k \in 1 .. top : [name |-> file[k].name, base |-> BaseOf(file[k])] \in Line
  BY <1>7 DEF Line, BaseOf, Module
<1>9. lines \in Seq(Line) /\ Len(lines) = top /\ \A k \in 1 .. top : lines[k].name = file[k].name
  BY <1>4, <1>6, <1>8
<1> HIDE DEF lines
<1>10. \A n \in Nat \ touched : NamedIn(n, lines) => \E m \in InProcModules : In(m, mods) /\ m.name = n
  BY <1>7, <1>9 DEF NamedIn
<1>11. ASSUME Len(lines) < MaxLines, NEW m \in InProcModules, In(m, mods) PROVE NamedIn(m.name, lines)
  <2>1. In(m, all) /\ top = Len(all)
    BY <1>1, <1>4, <1>9, <1>11
  <2>2. PICK k \in 1 .. top : all[k] = m
    BY <2>1 DEF In
  <2> QED BY <1>5, <1>9, <2>2 DEF NamedIn
<1>12. LinesTrue(lines, mods, touched)
  BY <1>4, <1>9, <1>10, <1>11 DEF LinesTrue
<1> QED BY <1>12 DEF lines, file

\* What the list of /sys/module gives.
LEMMA SysfsShows ==
    ASSUME KernelInv
    PROVE  /\ Listing({m.name : m \in InSysfs}) \in Seq(Nat)
           /\ \A n : In(n, Listing({m.name : m \in InSysfs}))
                <=> \E m \in Module : m.inSysfs /\ In(m, mods) /\ m.name = n
<1> DEFINE N == {m.name : m \in InSysfs}
           D == {k \in DOMAIN mods : mods[k].inSysfs}
           f == [k \in D |-> mods[k].name]
<1>1. /\ DOMAIN mods = 1 .. Len(mods) /\ Len(mods) \in Nat
      /\ \A k \in DOMAIN mods : mods[k] \in Module
  BY LenProperties, ElementOfSeq DEF KernelInv, ModInv
<1>2. IsFiniteSet(D)
  <2>1. IsFiniteSet(1 .. Len(mods)) /\ D \subseteq 1 .. Len(mods)
    BY <1>1, FS_Interval
  <2> QED BY <2>1, FS_Subset
<1>3. \A n : n \in N <=> \E m \in Module : m.inSysfs /\ In(m, mods) /\ m.name = n
  BY <1>1 DEF InSysfs, In
<1>4. f \in [D -> N] /\ (\A n \in N : \E k \in D : f[k] = n)
  BY DEF InSysfs
<1>5. N \subseteq Nat
  BY <1>3 DEF Module
<1> HIDE DEF N, D, f
<1>6. IsFiniteSet(N)
  BY <1>2, <1>4, FiniteImage
<1>7. Listing(N) \in Seq(N) /\ \A n : In(n, Listing(N)) <=> n \in N
  BY <1>6, ListingFacts
<1>8. Listing(N) \in Seq(Nat)
  BY <1>5, <1>7, SeqMonotonic
<1> QED BY <1>3, <1>7, <1>8 DEF N

\* A load or an unload leaves the lines read as true as they were.
LEMMA LinesStay ==
    ASSUME KernelInv, KernelStep, Later, NEW lines, LinesTrue(lines, mods, touched)
    PROVE  LinesTrue(lines, mods', touched')
<1>1. touched \subseteq touched'
  BY DEF Later
<1>2. InProcModules \subseteq Module /\ \A m \in Module : m.name \in Nat
  BY DEF InProcModules, Module
<1>3. \A n \in Nat \ touched' : NamedIn(n, lines) => \E m \in InProcModules : In(m, mods') /\ m.name = n
  BY <1>1, <1>2, ModsStay DEF LinesTrue
<1>4. Len(lines) < MaxLines =>
        \A m \in InProcModules : In(m, mods') /\ m.name \notin touched' => NamedIn(m.name, lines)
  BY <1>1, <1>2, ModsStay DEF LinesTrue
<1> QED BY <1>3, <1>4 DEF LinesTrue

\* A load or an unload leaves the names read as true as they were.
LEMMA NamesStay ==
    ASSUME KernelInv, KernelStep, Later, NEW names, NamesTrue(names, mods, touched)
    PROVE  NamesTrue(names, mods', touched')
<1>1. touched \subseteq touched'
  BY DEF Later
<1>2. ASSUME NEW n \in Nat \ touched'
      PROVE  (\E m \in Module : m.inSysfs /\ In(m, mods) /\ m.name = n)
               <=> (\E m \in Module : m.inSysfs /\ In(m, mods') /\ m.name = n)
  BY ModsStay
<1> QED BY <1>1, <1>2 DEF NamesTrue

\* Every step keeps the invariant of the module list.
LEMMA ModulesKeep ==
    ASSUME KernelInv, BeganInv, CallInv, [Next]_vars, ModulesInv
    PROVE  ModulesInv'
<1>0. KernelInv' /\ Later /\ op' = op
  BY MachineKeeps
<1>1. CASE op # "modules" \/ failed'
  BY <1>0, <1>1 DEF ModulesInv
<1>2. ASSUME op = "modules", ~failed
      PROVE  /\ pc \in {"modules", "list", "taint", "done"} /\ todo \in Seq(Nat)
             /\ pc # "modules" => /\ got = [lines |-> got.lines, sysfs |-> got.sysfs]
                                  /\ IsFiniteSet(DOMAIN got.sysfs) /\ DOMAIN got.sysfs \subseteq Nat
                                  /\ LinesTrue(got.lines, mods, touched)
             /\ pc = "list" => DOMAIN got.sysfs = {}
             /\ pc = "taint" => NamesTrue(DOMAIN got.sysfs \cup {n \in Nat : In(n, todo)}, mods, touched)
             /\ pc = "done" => NamesTrue(DOMAIN got.sysfs, mods, touched) /\ table = ProcRows \o SysfsRows
  BY <1>2 DEF ModulesInv
<1>3. CASE op = "modules" /\ ~failed' /\ UNCHANGED vars
  <2>1. UNCHANGED <<pc, todo, got, table, failed, mods, touched>>
    BY <1>3 DEF vars, kernel
  <2>2. ProcRows' = ProcRows /\ SysfsRows' = SysfsRows
    BY <2>1 DEF ProcRows, SysfsRows, SysfsOnly, TaintOf, ProcFlag
  <2> QED BY <1>0, <1>2, <1>3, <2>1, <2>2 DEF ModulesInv
<1>4. CASE op = "modules" /\ ~failed' /\ MachineChanges
  <2>1. UNCHANGED <<pc, todo, links, got, table, failed>> /\ pc # "done"
    BY <1>4 DEF MachineChanges
  <2>1a. KernelStep
    BY <1>4, ChangesStep
  <2>2. pc # "modules" => LinesTrue(got.lines, mods', touched')
    BY <1>0, <1>2, <1>4, <2>1, <2>1a, LinesStay
  <2>3. pc = "taint" => NamesTrue(DOMAIN got.sysfs \cup {n \in Nat : In(n, todo)}, mods', touched')
    BY <1>0, <1>2, <1>4, <2>1, <2>1a, NamesStay
  <2> QED BY <1>0, <1>2, <1>4, <2>1, <2>2, <2>3 DEF ModulesInv
<1>5. CASE op = "modules" /\ ~failed' /\ Collect
  <2>1. UNCHANGED kernel
    BY <1>5, CollectQuiet
  <2>2. mods' = mods /\ touched' = touched
    BY <2>1 DEF kernel
  <2>3. CASE ListingFails
    BY <1>5, <2>3 DEF ListingFails, ListFailed
  <2>4. CASE ReadProcModules
    <3> DEFINE lines == [k \in DOMAIN ModulesFile |->
                           [name |-> ModulesFile[k].name, base |-> BaseOf(ModulesFile[k])]]
    <3>1. got' = [lines |-> lines, sysfs |-> <<>>] /\ pc = "modules" /\ pc' = "list" /\ todo' = todo /\ failed' = failed
      BY <2>4 DEF ReadProcModules
    <3>2. LinesTrue(lines, mods, touched)
      BY FileShows
    <3> HIDE DEF lines
    <3>3. got'.lines = lines /\ got'.sysfs = <<>> /\ DOMAIN got'.sysfs = {} /\ IsFiniteSet({})
      BY <3>1, FS_EmptySet
    <3> QED BY <1>0, <1>2, <1>5, <2>2, <3>1, <3>2, <3>3 DEF ModulesInv
  <2>5. CASE ListSysfs
    <3> DEFINE names == Listing({m.name : m \in InSysfs})
    <3>1. pc = "list" /\ pc' = "taint" /\ todo' = names /\ got' = got /\ failed' = failed
      BY <2>5 DEF ListSysfs
    <3>2. /\ names \in Seq(Nat)
          /\ \A n : In(n, names) <=> \E m \in Module : m.inSysfs /\ In(m, mods) /\ m.name = n
      BY SysfsShows
    <3> HIDE DEF names
    <3>3. DOMAIN got.sysfs = {}
      BY <1>2, <1>5, <3>1
    <3>4. NamesTrue({} \cup {n \in Nat : In(n, names)}, mods, touched)
      BY <3>2 DEF NamesTrue
    <3> QED BY <1>0, <1>2, <1>5, <2>2, <3>1, <3>2, <3>3, <3>4 DEF ModulesInv
  <2>6. CASE ReadTaint
    <3> DEFINE n == Head(todo)
               taint == UNION {m.taint : m \in {m \in InSysfs : m.name = n}}
               value == ParseTaintLetters(taint)
    <3>1. /\ pc = "taint" /\ todo # <<>> /\ got' = [got EXCEPT !.sysfs = With(got.sysfs, n, value)]
          /\ todo' = Tail(todo) /\ pc' = pc /\ failed' = failed
      BY <2>6 DEF ReadTaint
    <3> HIDE DEF value
    <3>2. /\ n \in Nat /\ Tail(todo) \in Seq(Nat)
          /\ \A x : In(x, todo) <=> x = n \/ In(x, Tail(todo))
      BY <1>2, <1>5, <3>1, RestFacts
    <3> HIDE DEF n
    <3>3. got = [lines |-> got.lines, sysfs |-> got.sysfs]
      BY <1>2, <1>5, <3>1
    <3>4. got' = [lines |-> got.lines, sysfs |-> With(got.sysfs, n, value)]
      BY <3>1, <3>3
    <3>5. got'.lines = got.lines /\ got'.sysfs = With(got.sysfs, n, value)
      BY <3>4
    <3>6. DOMAIN got'.sysfs = DOMAIN got.sysfs \cup {n}
      BY <3>5 DEF With
    <3>7. IsFiniteSet(DOMAIN got'.sysfs) /\ DOMAIN got'.sysfs \subseteq Nat
      <4> DEFINE D == DOMAIN got.sysfs
      <4>1. IsFiniteSet(D) /\ D \subseteq Nat
        BY <1>2, <1>5, <3>1
      <4> HIDE DEF D
      <4>2. IsFiniteSet(D \cup {n}) /\ D \cup {n} \subseteq Nat
        BY <3>2, <4>1, FS_AddElement
      <4> QED BY <3>6, <4>2 DEF D
    <3>8. DOMAIN got'.sysfs \cup {x \in Nat : In(x, todo')} = DOMAIN got.sysfs \cup {x \in Nat : In(x, todo)}
      BY <3>1, <3>2, <3>6
    <3> QED BY <1>0, <1>2, <1>5, <2>2, <3>1, <3>2, <3>4, <3>5, <3>7, <3>8 DEF ModulesInv
  <2>7. CASE BuildModuleList
    <3>1. /\ pc = "taint" /\ todo = <<>> /\ pc' = "done" /\ UNCHANGED <<todo, got, failed>>
          /\ table' = ProcRows \o SysfsRows
      BY <2>7 DEF BuildModuleList
    <3>2. ProcRows' = ProcRows /\ SysfsRows' = SysfsRows
      BY <3>1 DEF ProcRows, SysfsRows, SysfsOnly, TaintOf, ProcFlag
    <3>3. NamesTrue(DOMAIN got.sysfs \cup {n \in Nat : In(n, todo)}, mods, touched)
      BY <1>2, <1>5, <3>1
    <3>4. {n \in Nat : In(n, todo)} = {}
      BY <3>1, NothingInEmpty
    <3>5. DOMAIN got.sysfs \cup {} = DOMAIN got.sysfs
      OBVIOUS
    <3>6. NamesTrue(DOMAIN got.sysfs, mods, touched)
      BY <3>3, <3>4, <3>5
    <3> QED BY <1>0, <1>2, <1>5, <2>2, <3>1, <3>2, <3>6 DEF ModulesInv
  <2> QED BY <1>5, <2>3, <2>4, <2>5, <2>6, <2>7, ModulesStep
<1> QED BY <1>1, <1>3, <1>4, <1>5 DEF Next

\* Nothing is read yet.
LEMMA ModulesInit == Init => ModulesInv
<1> SUFFICES ASSUME Init, op = "modules" PROVE ModulesInv
  BY DEF ModulesInv
<1>1. pc = "modules" /\ todo = <<>>
  BY DEF Init, FirstStep
<1>2. todo \in Seq(Nat)
  BY <1>1, EmptySeq
<1> QED BY <1>1, <1>2 DEF ModulesInv

\* A function on 1 .. n is a sequence.
LEMMA FunctionIsSeq ==
    ASSUME NEW S, NEW n \in Nat, NEW f, DOMAIN f = 1 .. n, f = [k \in 1 .. n |-> f[k]],
           \A k \in 1 .. n : f[k] \in S
    PROVE  f \in Seq(S)
<1>1. f \in [1 .. n -> S]
  OBVIOUS
<1> QED BY <1>1

\* The rows: one for each line, one for each name that has no line.
LEMMA RowsFacts ==
    ASSUME got.lines \in Seq(Line), IsFiniteSet(DOMAIN got.sysfs)
    PROVE  /\ \A r : In(r, ProcRows \o SysfsRows) =>
                \/ /\ NamedIn(r.name, got.lines) /\ r.name \in Nat
                   /\ r.flags = IF r.name \in DOMAIN got.sysfs THEN 0 ELSE 1
                \/ ~NamedIn(r.name, got.lines) /\ r.name \in DOMAIN got.sysfs /\ r.flags = 2
           /\ \A n : NamedIn(n, got.lines) /\ n \notin DOMAIN got.sysfs =>
                \E r : In(r, ProcRows \o SysfsRows) /\ r.name = n /\ r.flags = 1
           /\ \A n \in DOMAIN got.sysfs : ~NamedIn(n, got.lines) =>
                \E r : In(r, ProcRows \o SysfsRows) /\ r.name = n /\ r.flags = 2
           /\ DOMAIN (ProcRows \o SysfsRows) = 1 .. Len(ProcRows \o SysfsRows)
<1> DEFINE N == {n \in DOMAIN got.sysfs : \A k \in DOMAIN got.lines : got.lines[k].name # n}
           only == SysfsOnly
           first == ProcRows
           second == SysfsRows
           All == {first[k] : k \in DOMAIN first} \cup {second[k] : k \in DOMAIN second}
<1>1. DOMAIN got.lines = 1 .. Len(got.lines) /\ Len(got.lines) \in Nat
      /\ \A k \in 1 .. Len(got.lines) : got.lines[k] \in Line
  BY LenProperties, ElementOfSeq
<1>2. IsFiniteSet(N) /\ \A n : n \in N <=> n \in DOMAIN got.sysfs /\ ~NamedIn(n, got.lines)
  BY <1>1, FS_Subset DEF NamedIn
<1>3. only = Listing(N)
  BY DEF SysfsOnly
<1> HIDE DEF N, only
<1>4. only \in Seq(N) /\ \A n : In(n, only) <=> n \in N
  BY <1>2, <1>3, ListingFacts
<1>5. DOMAIN only = 1 .. Len(only) /\ Len(only) \in Nat
  BY <1>4, LenProperties
<1>6. first = [k \in 1 .. Len(got.lines) |->
                 [name |-> got.lines[k].name, base |-> got.lines[k].base,
                  taint |-> TaintOf(got.lines[k].name), flags |-> ProcFlag(got.lines[k].name)]]
  BY <1>1 DEF ProcRows
<1>7. second = [k \in 1 .. Len(only) |->
                  [name |-> only[k], base |-> 0, taint |-> got.sysfs[only[k]], flags |-> 2]]
  BY <1>5 DEF SysfsRows, only
<1> HIDE DEF first, second
<1>8. Len(first) = Len(got.lines) /\ Len(second) = Len(only) /\ first \in Seq(All) /\ second \in Seq(All)
  <2>1. /\ DOMAIN first = 1 .. Len(got.lines) /\ first = [k \in 1 .. Len(got.lines) |-> first[k]]
        /\ DOMAIN second = 1 .. Len(only) /\ second = [k \in 1 .. Len(only) |-> second[k]]
    BY <1>6, <1>7
  <2>2. /\ \A k \in 1 .. Len(got.lines) : first[k] \in All
        /\ \A k \in 1 .. Len(only) : second[k] \in All
    BY <2>1
  <2> HIDE DEF All
  <2>3. first \in Seq(All) /\ second \in Seq(All)
    BY <1>1, <1>5, <2>1, <2>2, FunctionIsSeq
  <2> QED BY <1>1, <1>5, <2>1, <2>3, LenProperties
<1> HIDE DEF All
<1>9. /\ \A r : In(r, first \o second) <=> In(r, first) \/ In(r, second)
      /\ DOMAIN (first \o second) = 1 .. Len(first \o second)
  <2>1. first \o second \in Seq(All) /\ \A r : In(r, first \o second) <=> In(r, first) \/ In(r, second)
    BY <1>8, ConcatFacts
  <2> QED BY <2>1, LenProperties
<1>10. \A k \in 1 .. Len(first) : first[k].name = got.lines[k].name
         /\ first[k].flags = IF got.lines[k].name \in DOMAIN got.sysfs THEN 0 ELSE 1
  BY <1>6, <1>8 DEF ProcFlag
<1>11. \A k \in 1 .. Len(second) : second[k].name = only[k] /\ second[k].flags = 2
  BY <1>7, <1>8
<1>12. ASSUME NEW r, In(r, first)
       PROVE  /\ NamedIn(r.name, got.lines) /\ r.name \in Nat
              /\ r.flags = IF r.name \in DOMAIN got.sysfs THEN 0 ELSE 1
  <2>1. PICK k \in 1 .. Len(first) : first[k] = r
    BY <1>12 DEF In
  <2>2. r.name = got.lines[k].name /\ k \in 1 .. Len(got.lines) /\ got.lines[k] \in Line
    BY <1>1, <1>8, <1>10, <2>1
  <2> QED BY <1>10, <2>1, <2>2 DEF NamedIn, Line
<1>13. ASSUME NEW r, In(r, second)
       PROVE  ~NamedIn(r.name, got.lines) /\ r.name \in DOMAIN got.sysfs /\ r.flags = 2
  <2>1. PICK k \in 1 .. Len(second) : second[k] = r
    BY <1>13 DEF In
  <2>2. In(only[k], only)
    BY <1>8, <2>1 DEF In
  <2> QED BY <1>2, <1>4, <1>11, <2>1, <2>2
<1>14. ASSUME NEW n, NamedIn(n, got.lines), n \notin DOMAIN got.sysfs
       PROVE  \E r : In(r, first) /\ r.name = n /\ r.flags = 1
  <2>1. PICK k \in 1 .. Len(first) : got.lines[k].name = n
    BY <1>8, <1>14 DEF NamedIn
  <2> QED BY <1>10, <1>14, <2>1 DEF In
<1>15. ASSUME NEW n \in DOMAIN got.sysfs, ~NamedIn(n, got.lines)
       PROVE  \E r : In(r, second) /\ r.name = n /\ r.flags = 2
  <2>1. In(n, only)
    BY <1>2, <1>4, <1>15
  <2>2. PICK k \in 1 .. Len(second) : only[k] = n
    BY <1>8, <2>1 DEF In
  <2> QED BY <1>11, <2>2 DEF In
<1> QED BY <1>9, <1>12, <1>13, <1>14, <1>15 DEF first, second

\* A module that hides from one of the two listings has its flag, and a flag has a known
\* reason, for any modules loaded and unloaded meanwhile (_build_kernel_module_list).
THEOREM ModuleFlagsHold == Spec => []ModuleFlagsAreTrue
<1> DEFINE Inv == KernelInv /\ BeganInv /\ CallInv /\ ModulesInv
<1>1. Init => Inv
  BY MachineInit, ModulesInit
<1>2. Inv /\ [Next]_vars => Inv'
  BY MachineKeeps, CallKeeps, ModulesKeep
<1>3. Inv => ModuleFlagsAreTrue
  <2> SUFFICES ASSUME KernelInv, ModulesInv, Done("modules"), ~failed PROVE FlagsAreExplained /\ HidingIsFlagged
    BY DEF ModuleFlagsAreTrue, FlagsAreExplained, HidingIsFlagged
  <2>1. /\ IsFiniteSet(DOMAIN got.sysfs) /\ DOMAIN got.sysfs \subseteq Nat
        /\ LinesTrue(got.lines, mods, touched) /\ NamesTrue(DOMAIN got.sysfs, mods, touched)
        /\ table = ProcRows \o SysfsRows
    BY DEF ModulesInv, Done
  <2>2. got.lines \in Seq(Line) /\ Len(got.lines) \in Nat /\ MaxLines \in Nat
    BY <2>1, LenProperties, CollectorAssumption DEF LinesTrue
  <2>3. DOMAIN mods = 1 .. Len(mods) /\ \A k \in DOMAIN mods : mods[k] \in Module
    BY LenProperties, ElementOfSeq DEF KernelInv, ModInv
  <2>4. \A r : r \in Rows <=> In(r, table)
    <3>1. DOMAIN table = 1 .. Len(table)
      BY <2>1, <2>2, RowsFacts
    <3> QED BY <3>1 DEF Rows, In
  <2>5. \A j, k \in DOMAIN mods : mods[j].name = mods[k].name => j = k
    BY DEF KernelInv, ModInv
  <2>6. ASSUME NEW r \in Rows, r.flags # 0
        PROVE  \/ r.name \in touched
               \/ r.flags = 2 /\ Len(got.lines) = MaxLines
               \/ \E k \in DOMAIN mods :
                    /\ mods[k].name = r.name
                    /\ \/ r.flags = 1 /\ ~mods[k].inSysfs
                       \/ r.flags = 2 /\ (mods[k].builtin \/ ~mods[k].inProc)
    <3> SUFFICES ASSUME r.name \notin touched
                 PROVE  \/ r.flags = 2 /\ Len(got.lines) = MaxLines
                        \/ \E k \in DOMAIN mods :
                             /\ mods[k].name = r.name
                             /\ \/ r.flags = 1 /\ ~mods[k].inSysfs
                                \/ r.flags = 2 /\ (mods[k].builtin \/ ~mods[k].inProc)
      OBVIOUS
    <3>1. CASE NamedIn(r.name, got.lines) /\ r.name \in Nat /\ r.flags = 1 /\ r.name \notin DOMAIN got.sysfs
      <4>1. PICK m \in InProcModules : In(m, mods) /\ m.name = r.name
        BY <2>1, <3>1 DEF LinesTrue
      <4>2. m \in Module
        BY DEF InProcModules
      <4>3. ~m.inSysfs
        BY <2>1, <3>1, <4>1, <4>2 DEF NamesTrue
      <4> QED BY <2>3, <3>1, <4>1, <4>3 DEF In
    <3>2. CASE ~NamedIn(r.name, got.lines) /\ r.name \in DOMAIN got.sysfs /\ r.flags = 2
      <4>1. PICK m \in Module : m.inSysfs /\ In(m, mods) /\ m.name = r.name
        BY <2>1, <3>2 DEF NamesTrue
      <4>2. CASE Len(got.lines) < MaxLines
        <5>1. m \notin InProcModules
          BY <2>1, <3>2, <4>1, <4>2 DEF LinesTrue
        <5>2. m.builtin \/ ~m.inProc
          BY <5>1 DEF InProcModules
        <5> QED BY <2>3, <3>2, <4>1, <5>2 DEF In
      <4>3. CASE ~(Len(got.lines) < MaxLines)
        <5>1. Len(got.lines) = MaxLines
          BY <2>1, <2>2, <4>3 DEF LinesTrue
        <5> QED BY <3>2, <5>1
      <4> QED BY <4>2, <4>3
    <3>3. \/ /\ NamedIn(r.name, got.lines) /\ r.name \in Nat
             /\ r.flags = IF r.name \in DOMAIN got.sysfs THEN 0 ELSE 1
          \/ ~NamedIn(r.name, got.lines) /\ r.name \in DOMAIN got.sysfs /\ r.flags = 2
      BY <2>1, <2>2, <2>4, RowsFacts
    <3> QED BY <2>6, <3>1, <3>2, <3>3
  <2>7. FlagsAreExplained
    BY <2>6 DEF FlagsAreExplained
  <2>8. ASSUME NEW k \in DOMAIN mods, mods[k].name \notin touched, ~mods[k].builtin
        PROVE  /\ mods[k].inSysfs /\ ~mods[k].inProc => \E r \in Rows : r.name = mods[k].name /\ r.flags = 2
               /\ mods[k].inProc /\ ~mods[k].inSysfs /\ Len(got.lines) < MaxLines =>
                    \E r \in Rows : r.name = mods[k].name /\ r.flags = 1
    <3> DEFINE m == mods[k]
    <3>1. m \in Module /\ In(m, mods) /\ m.name \in Nat
      BY <2>3 DEF In, Module
    <3>2. \A l \in Module : In(l, mods) /\ l.name = m.name => l = m
      BY <2>3, <2>5 DEF In
    <3>3. ASSUME m.inSysfs, ~m.inProc PROVE \E r \in Rows : r.name = m.name /\ r.flags = 2
      <4>1. m.name \in DOMAIN got.sysfs
        BY <2>1, <2>8, <3>1, <3>3 DEF NamesTrue
      <4>2. ~NamedIn(m.name, got.lines)
        BY <2>1, <2>8, <3>1, <3>2, <3>3 DEF LinesTrue, InProcModules
      <4> QED BY <2>1, <2>2, <2>4, <4>1, <4>2, RowsFacts
    <3>4. ASSUME m.inProc, ~m.inSysfs, Len(got.lines) < MaxLines PROVE \E r \in Rows : r.name = m.name /\ r.flags = 1
      <4>1. m.name \notin DOMAIN got.sysfs
        BY <2>1, <2>8, <3>1, <3>2, <3>4 DEF NamesTrue
      <4>2. NamedIn(m.name, got.lines)
        BY <2>1, <2>8, <3>1, <3>4 DEF LinesTrue, InProcModules
      <4> QED BY <2>1, <2>2, <2>4, <4>1, <4>2, RowsFacts
    <3> QED BY <3>3, <3>4
  <2>9. HidingIsFlagged
    BY <2>8 DEF HidingIsFlagged
  <2> QED BY <2>7, <2>9
<1> HIDE DEF Inv
<1> QED BY <1>1, <1>2, <1>3, PTL DEF Spec
==============================================================================

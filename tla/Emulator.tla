------------------------------ MODULE Emulator -------------------------------
(***************************************************************************)
(* emu/engine.py: MSLEmulator over the memory and the threads of a slice.  *)
(*                                                                         *)
(* The CPU is Unicorn's; what an instruction does is a choice.  The        *)
(* emulator adds three things to it: a journal from which steps are undone *)
(* (context before the step, old content of every cell it wrote), bounded  *)
(* to the newest MaxBack steps; a log of all cells ever written, to find   *)
(* code that was written and then executed; and switching between the      *)
(* captured threads.  The write hook serves both logs.  It is also called  *)
(* while a BehaviorTracer runs the same CPU, which keeps no journal, and   *)
(* it is called before Unicorn finds out that a cell is not mapped.        *)
(*                                                                         *)
(* A cell stands for the bytes of one access, and holds a pointer.         *)
(***************************************************************************)
EXTENDS Integers, Sequences, FiniteSets

CONSTANTS
    MaxAddr,    \* cells are numbered 0 .. MaxAddr
    Mapped,     \* cells in captured regions
    Image,      \* captured executable cells of the program image
    Values,     \* what a cell may hold
    Captured,   \* the memories a slice may hold
    Cpus,       \* CPU states an instruction may end in
    Threads,    \* captured threads, as the registers captured of each
    MaxBack,    \* _max_back
    MaxWrites,  \* bound of the model: journaled writes of one instruction
    MaxSteps    \* bound of the model: steps and runs

Addr == 0 .. MaxAddr
Absent == -1    \* a register that was not captured

ASSUME EmulatorAssumption ==
    /\ MaxAddr \in Nat /\ MaxBack \in Nat \ {0} /\ MaxWrites \in Nat /\ MaxSteps \in Nat
    /\ Mapped \subseteq Addr /\ Image \subseteq Mapped
    /\ Captured \subseteq [Mapped -> Values] /\ Values \subseteq Addr
    /\ Cpus \subseteq [pc : Addr, sp : Nat, base : Addr]
    /\ Threads \subseteq [pc : Addr, sp : Addr, base : Addr \cup {Absent}]

VARIABLES
    cpu,        \* the registers: pc, sp, and a segment base
    mem,        \* content of the mapped cells
    thread,     \* MSLEmulator.thread
    phase,      \* "idle", in "step", or in the "run" of a tracer
    faulted,    \* Unicorn has met an unmapped cell
    pending,    \* _pending, when phase = "step"
    history,    \* _history
    written,    \* the cells covered by _written
    wxEvents,   \* _wx_events; _wx_seen holds the same addresses
    image,      \* ghost: the memory as captured, and as stubs of a tracer filled it
    before,     \* ghost: the state before the step in progress, if any
    trail,      \* ghost: the states before the steps that can be undone
    steps       \* ghost: steps and runs begun

emuVars == <<cpu, mem, thread, phase, faulted, pending, history,
             written, wxEvents, image, before, trail, steps>>

\* The state before a step; `exact' as long as nothing but steps has run.
Snapshot == [cpu |-> cpu, mem |-> mem, thread |-> thread, exact |-> TRUE]

\* The newest MaxBack elements.
Newest(s) == IF Len(s) > MaxBack THEN Tail(s) ELSE s

Flagged == {wxEvents[i] : i \in 1 .. Len(wxEvents)}

------------------------------------------------------------------------------
(* Threads                                                                   *)

\* _seed_registers over the register values there are.
Seeded(t, old) ==
    [pc |-> t.pc, sp |-> t.sp, base |-> IF t.base = Absent THEN old.base ELSE t.base]

Init ==
    /\ thread \in Threads
    /\ cpu = Seeded(thread, [pc |-> 0, sp |-> 0, base |-> 0])
    /\ mem \in Captured /\ image = mem
    /\ phase = "idle" /\ faulted = FALSE /\ pending = <<>>
    /\ history = <<>> /\ written = {} /\ wxEvents = <<>>
    /\ before = <<>> /\ trail = <<>> /\ steps = 0

\* Mutant: the journal of the previous thread is kept.
MutSwitchThreadKeeps(t) ==
    /\ phase = "idle"
    /\ thread' = t
    /\ cpu' = Seeded(t, cpu)
    /\ trail' = <<>>
    /\ UNCHANGED <<mem, phase, faulted, pending, history, written, wxEvents, image, before, steps>>

\* switch_thread: the general registers are cleared, all captured registers
\* are written, the journal is dropped.  Memory and the write log stay.
SwitchThread(t) ==
    /\ phase = "idle"
    /\ thread' = t
    /\ cpu' = Seeded(t, [cpu EXCEPT !.pc = 0, !.sp = 0])
    /\ history' = <<>> /\ trail' = <<>>
    /\ UNCHANGED <<mem, phase, faulted, pending, written, wxEvents, image, before, steps>>

\* find_caller_frame: the first stack slot from SP up that holds an address
\* in the image; the walk ends at an unmapped slot.
CallerSlots ==
    {slot \in Mapped :
        /\ cpu.sp <= slot /\ mem[slot] \in Image
        /\ \A below \in cpu.sp .. slot - 1 : below \in Mapped /\ mem[below] \notin Image}

\* resume_from_syscall, with a frame found: without one nothing changes.
ResumeFromSyscall(popCells) ==
    /\ phase = "idle"
    /\ \E slot \in CallerSlots :
          cpu' = [cpu EXCEPT !.pc = mem[slot], !.sp = slot + 1 + popCells]
    /\ history' = <<>> /\ trail' = <<>>
    /\ UNCHANGED <<mem, thread, phase, faulted, pending, written, wxEvents, image, before, steps>>

\* write_reg and the pc setter.
WriteReg ==
    /\ phase = "idle"
    /\ cpu' \in Cpus
    /\ UNCHANGED <<mem, thread, phase, faulted, pending, history, written,
                   wxEvents, image, before, trail, steps>>

------------------------------------------------------------------------------
(* Forward                                                                   *)

\* Mutant: the write log is looked at only while there is a journal.
MutBeginStepUnseen ==
    /\ phase = "idle" /\ steps < MaxSteps
    /\ phase' = "step" /\ faulted' = (cpu.pc \notin Mapped)
    /\ pending' = <<>>
    /\ wxEvents' = IF cpu.pc \in written /\ history # <<>> /\ cpu.pc \notin Flagged
                   THEN Append(wxEvents, cpu.pc) ELSE wxEvents
    /\ before' = <<Snapshot>> /\ steps' = steps + 1
    /\ UNCHANGED <<cpu, mem, thread, history, written, image, trail>>

\* step, up to emu_start: write-then-execute detection.  The context it saves
\* is the CPU, which stays as it is here until the instruction ends.
BeginStep ==
    /\ phase = "idle" /\ steps < MaxSteps
    /\ phase' = "step" /\ faulted' = (cpu.pc \notin Mapped)
    /\ pending' = <<>>
    /\ wxEvents' = IF cpu.pc \in written /\ cpu.pc \notin Flagged
                   THEN Append(wxEvents, cpu.pc) ELSE wxEvents
    /\ before' = <<Snapshot>> /\ steps' = steps + 1
    /\ UNCHANGED <<cpu, mem, thread, history, written, image, trail>>

\* An instruction stores v at a: _on_mem_write, then the store itself, which
\* faults if the cell is not mapped.
Store(a, v) ==
    /\ phase \in {"step", "run"} /\ ~faulted
    /\ written' = written \cup {a}
    /\ IF a \in Mapped
       THEN /\ mem' = [mem EXCEPT ![a] = v]
            /\ phase = "step" => Len(pending) < MaxWrites
            /\ pending' = IF phase = "step"
                          THEN Append(pending, [addr |-> a, old |-> mem[a]]) ELSE pending
            /\ UNCHANGED faulted
       ELSE faulted' = TRUE /\ UNCHANGED <<mem, pending>>
    /\ UNCHANGED <<cpu, thread, phase, history, wxEvents, image, before, trail, steps>>

\* step, from the end of emu_start: the instruction has ended or faulted, and
\* goes into the journal either way.
EndStep ==
    /\ phase = "step"
    /\ phase' = "idle" /\ faulted' = FALSE /\ pending' = <<>>
    /\ cpu' \in Cpus
    /\ history' = Newest(Append(history, [ctx |-> cpu, writes |-> pending]))
    /\ trail' = Newest(trail \o before) /\ before' = <<>>
    /\ UNCHANGED <<mem, thread, written, wxEvents, image, steps>>

\* A BehaviorTracer starts the CPU; it does not journal.
BeginRun ==
    /\ phase = "idle" /\ steps < MaxSteps
    /\ phase' = "run"
    /\ trail' = [i \in 1 .. Len(trail) |-> [trail[i] EXCEPT !.exact = FALSE]]
    /\ steps' = steps + 1
    /\ UNCHANGED <<cpu, mem, thread, faulted, pending, history, written, wxEvents, image, before>>

\* A stub of the tracer stores v at a from outside the CPU: no hook is called.
StubWrite(a, v) ==
    /\ phase = "run"
    /\ mem' = [mem EXCEPT ![a] = v] /\ image' = [image EXCEPT ![a] = v]
    /\ UNCHANGED <<cpu, thread, phase, faulted, pending, history, written, wxEvents,
                   before, trail, steps>>

EndRun ==
    /\ phase = "run"
    /\ phase' = "idle" /\ faulted' = FALSE
    /\ cpu' \in Cpus
    /\ UNCHANGED <<mem, thread, pending, history, written, wxEvents, image, before, trail, steps>>

------------------------------------------------------------------------------
(* Back                                                                      *)

\* Mutant: the writes are undone in the order they were made.
MutUndoneLast(writes, a) ==
    CHOOSE k \in 1 .. Len(writes) :
        /\ writes[k].addr = a
        /\ \A j \in k + 1 .. Len(writes) : writes[j].addr # a

\* step_back undoes the writes of a step newest first: of several to a cell
\* the oldest is undone last.
UndoneLast(writes, a) ==
    CHOOSE k \in 1 .. Len(writes) :
        /\ writes[k].addr = a
        /\ \A j \in 1 .. k - 1 : writes[j].addr # a

Recorded(writes) == {writes[k].addr : k \in 1 .. Len(writes)}

Revert(m, writes) ==
    [a \in Mapped |-> IF a \in Recorded(writes) THEN writes[UndoneLast(writes, a)].old ELSE m[a]]

\* step_back, with a history: without one nothing changes.
StepBack ==
    /\ phase = "idle" /\ history # <<>>
    /\ LET last == history[Len(history)] IN
       cpu' = last.ctx /\ mem' = Revert(mem, last.writes)
    /\ history' = SubSeq(history, 1, Len(history) - 1)
    /\ trail' = SubSeq(trail, 1, Len(trail) - 1)
    /\ UNCHANGED <<thread, phase, faulted, pending, written, wxEvents, image, before, steps>>

Next ==
    \/ \E t \in Threads : SwitchThread(t)
    \/ \E popCells \in 0 .. 1 : ResumeFromSyscall(popCells)
    \/ WriteReg
    \/ BeginStep \/ EndStep \/ StepBack
    \/ \E a \in Addr, v \in Values : Store(a, v)
    \/ \E a \in Mapped, v \in Values : StubWrite(a, v)
    \/ BeginRun \/ EndRun

Spec == Init /\ [][Next]_emuVars

------------------------------------------------------------------------------
(* Properties                                                                *)

CpuStates == [pc : Addr, sp : Nat, base : Addr]
Memories == [Mapped -> Values]
Records == [addr : Mapped, old : Values]
Snapshots == [cpu : CpuStates, mem : Memories, thread : Threads, exact : BOOLEAN]

TypeOK ==
    /\ cpu \in CpuStates /\ mem \in Memories /\ image \in Memories
    /\ thread \in Threads /\ phase \in {"idle", "step", "run"} /\ faulted \in BOOLEAN
    /\ pending \in Seq(Records)
    /\ history \in Seq([ctx : CpuStates, writes : Seq(Records)])
    /\ trail \in Seq(Snapshots) /\ before \in Seq(Snapshots) /\ Len(before) <= 1
    /\ Len(history) <= MaxBack /\ Len(trail) <= MaxBack
    /\ written \subseteq Addr /\ wxEvents \in Seq(Addr) /\ steps \in 0 .. MaxSteps

\* The journal goes back exactly over the steps of the current thread that were
\* not undone, up to its bound: not one too many after a switch or an unwind,
\* none missing for a step that faulted.
JournalDepth == Len(history) = Len(trail)

\* A step back restores the registers and every cell as they were before the
\* step, within its thread, however often an instruction wrote a cell and
\* whatever was undone or dropped before; cells only if no tracer ran between.
BackRestores ==
    [][StepBack =>
        LET undone == trail[Len(trail)] IN
        /\ cpu' = undone.cpu /\ thread' = undone.thread
        /\ undone.exact => mem' = undone.mem]_emuVars

\* No cell differs from what the capture or a stub put there without being in
\* the write log, whoever ran the CPU and whatever was undone since.
DirtyIsWritten == \A a \in Mapped : mem[a] # image[a] => a \in written

\* Stepping onto a cell the code has changed is reported, whoever ran the code
\* and in whichever thread: no unpacking goes unseen.
NoUnpackMissed ==
    [][phase = "idle" /\ phase' = "step" /\ cpu.pc \in Mapped /\ mem[cpu.pc] # image[cpu.pc]
        => \E i \in 1 .. Len(wxEvents') : wxEvents'[i] = cpu.pc]_emuVars

\* What dump_written saves: the coalesced ranges of the write log, without
\* those Unicorn cannot read as a whole.
DirtyRanges ==
    {r \in Addr \X Addr :
        /\ r[1] <= r[2] /\ r[1] .. r[2] \subseteq written
        /\ r[1] - 1 \notin written /\ r[2] + 1 \notin written}

Dumped == UNION {r[1] .. r[2] : r \in {q \in DirtyRanges : q[1] .. q[2] \subseteq Mapped}}

\* README.md, of dump_written: "write each range out": every captured cell the
\* code wrote is in the dump.  It is not: a store that ran off the end of a
\* region joins the range before it to a cell that cannot be read.
DumpIsComplete == written \cap Mapped \subseteq Dumped
==============================================================================

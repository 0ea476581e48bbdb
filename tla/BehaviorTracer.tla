---------------------------- MODULE BehaviorTracer ----------------------------
(***************************************************************************)
(* behavior/: a BehaviorTracer runs the code of a slice on Unicorn and     *)
(* builds a BehaviorGraph from what its probes see.                        *)
(*                                                                         *)
(* The code is a program of units (basic blocks, or instructions), whose   *)
(* branches are choices.  The entry of an export is not run: its stub      *)
(* decides what the call returns, Unicorn is stopped and started again at  *)
(* the return address.  Three probes look at the same run and must tell    *)
(* the same story: ControlFlowProbe (nodes, edges, the step budget),       *)
(* FunctionProbe (a call graph with a shadow stack) and MemProbe (who      *)
(* wrote executable memory).  When the run is over, link_dataflow connects *)
(* the calls by the values they return and take, and the analyst may edit  *)
(* a skeleton of the observed stubs and trace the slice again.             *)
(* The Speakeasy backend emulates a PE with Speakeasy instead and fills    *)
(* the same graph from the calls Speakeasy reports.                        *)
(***************************************************************************)
EXTENDS Integers, Sequences, FiniteSets

CONSTANTS
    NUnits,        \* the units are 1 .. NUnits, in the order of their addresses
    Term,          \* what a unit ends in: "fall", "jump", "call" or "ret"
    Goes,          \* where a jump or a call may lead
    Insns,         \* how many instructions a unit has
    NameAt,        \* the export that begins at a unit, or the syscall in it, or NoName
    Exports,       \* units that are the entry of an export
    Zero,          \* zero-filled units outside of all modules
    Writers,       \* units that write executable memory
    Names,         \* the names of calls and stubs
    NoName,
    BaseName,      \* a name without its A or W
    Private,       \* names that begin with an underscore
    Terminators,   \* _TERMINATORS: calls that end the process
    Library,       \* the stubs to begin with: what a name's stub does, or "none"
    StartLinks,    \* ARM: what the link register may hold in the slice
    Keys, CounterStart, CounterStep,   \* stublib: the counters fresh values are taken from
    FixedValue,    \* what a stub with a constant answer returns (GetModuleHandle, getpid)
    MinTaint,      \* MIN_TAINT_VALUE
    Sentinels,     \* SENTINELS: the usual error values
    MaxSteps,      \* max_steps of run; what Speakeasy runs at most
    MaxApiCalls,   \* max_api_calls of the Speakeasy backend
    Modes,         \* granularity, probes, and whether calls set a link register
    Rounds,        \* bound of the model: traces of the same slice
    MaxEvents      \* bound of the model: events kept of a trace

Units == 1 .. NUnits
Stubs == {"none", "zero", "stop", "echo", "fixed"} \cup Keys
None == 0    \* no unit: _prev, _cur_code, _redirect and the like before they are set

ASSUME TracerAssumption ==
    /\ NUnits \in Nat \ {0} /\ MaxSteps \in Nat \ {0} /\ Rounds \in Nat /\ MaxEvents \in Nat
    /\ Term \in [Units -> {"fall", "jump", "call", "ret"}]
    /\ Goes \in [Units -> SUBSET Units] /\ Insns \in [Units -> Nat \ {0}]
    /\ \A u \in Units : Term[u] \in {"jump", "call"} => Goes[u] # {}
    /\ Exports \cup Zero \cup Writers \subseteq Units /\ Exports \cap Zero = {}
    /\ \A u \in Zero : Term[u] = "fall" /\ NameAt[u] = NoName
    /\ \A u \in Exports : NameAt[u] # NoName
    /\ NameAt \in [Units -> Names \cup {NoName}] /\ NoName \notin Names /\ MaxApiCalls \in Nat \ {0}
    /\ CounterStart \in [Keys -> Nat] /\ CounterStep \in [Keys -> Nat \ {0}]
    /\ \A k, m \in Keys : CounterStart[k] = CounterStart[m] => k = m
    /\ Keys \cap {"none", "zero", "stop", "echo", "fixed"} = {}
    /\ BaseName \in [Names -> Names] /\ Private \cup Terminators \subseteq Names
    /\ Library \in [Names -> Stubs] /\ StartLinks \subseteq 1 .. NUnits + 1
    /\ MinTaint \in Nat \ {0} /\ FixedValue \in Nat
    /\ Modes \subseteq [granularity : {"block", "instruction", "function", "speakeasy"},
                       callGraph : BOOLEAN, link : BOOLEAN]

VARIABLES
    mode,       \* granularity (or the other backend), the call_graph option, the architecture
    phase,      \* "ready", at a unit ("at"), "in" it, emu_start "returned", "linking", "done"
    pc, stack, lr,     \* the CPU: next unit, return addresses, link register
    left,       \* instructions left of the count given to emu_start
    redirect, stopped, reason,      \* _redirect, _stopped, meta["stop_reason"]
    steps, cur, last, prev,         \* _steps, _cur_code, _last_event, ControlFlowProbe._prev
    nodes, flow, invokes, seqs, events,   \* the graph: code nodes, edges by type, the trace
    fn,         \* FunctionProbe: _cur, _stack, _prev_term
    counters,   \* ctx.state: the next handle, socket, descriptor, ...
    registry,   \* _byname: what the stub of a name does
    tagged,     \* code nodes with attrs["writes_exec"]
    round, skeleton,   \* which trace this is; the names written by emit_skeleton
    linked, dataflow,  \* link_dataflow: how many events it has read; its edges and its two maps
    here,       \* ghost: the unit that ran to its end last
    resumed,    \* ghost: where emulation was restarted
    made,       \* ghost: <<unit, call>>, the calls the units really made
    real,       \* ghost: the function that really runs, and its real callers
    met         \* ghost: an export was reached

cpuVars == <<pc, stack, lr, left>>
runVars == <<redirect, stopped, reason>>
graphVars == <<nodes, flow, invokes, seqs, events, cur, last, tagged>>
stubVars == <<counters, registry>>
roundVars == <<mode, round, skeleton, linked, dataflow>>
ghosts == <<here, resumed, made, real, met>>
tracerVars == <<phase, cpuVars, runVars, steps, prev, graphVars, fn, stubVars, roundVars, ghosts>>

Speakeasy == mode.granularity = "speakeasy"

\* ARM: a call puts its return address into a register.
LinkRegister == mode.link

Edge(src, dst, type) == [src |-> src, dst |-> dst, type |-> type]

NoLinks == [links |-> {}, produced |-> {}, users |-> {}]

\* What the constructors of the tracer, its graph and its probes set up.
Fresh ==
    /\ mode' \in Modes
    /\ phase' = "ready" /\ pc' = 1 /\ stack' = <<>> /\ left' = 0
    /\ lr' \in IF mode'.link THEN StartLinks ELSE {None}
    /\ redirect' = None /\ stopped' = FALSE /\ reason' = "none"
    /\ steps' = 0 /\ cur' = None /\ last' = NoName /\ prev' = None
    /\ nodes' = {} /\ flow' = {} /\ invokes' = {} /\ seqs' = {} /\ events' = <<>> /\ tagged' = {}
    /\ fn' = [cur |-> None, stack |-> <<>>, term |-> "none"]
    /\ counters' = CounterStart /\ linked' = 0 /\ dataflow' = NoLinks
    /\ here' = None /\ resumed' = {} /\ made' = {} /\ real' = [cur |-> 1, stack |-> <<>>] /\ met' = FALSE

Init ==
    /\ mode \in Modes
    /\ phase = "ready" /\ pc = 1 /\ stack = <<>> /\ left = 0
    /\ lr \in IF mode.link THEN StartLinks ELSE {None}
    /\ redirect = None /\ stopped = FALSE /\ reason = "none"
    /\ steps = 0 /\ cur = None /\ last = NoName /\ prev = None
    /\ nodes = {} /\ flow = {} /\ invokes = {} /\ seqs = {} /\ events = <<>> /\ tagged = {}
    /\ fn = [cur |-> None, stack |-> <<>>, term |-> "none"]
    /\ counters = CounterStart
    /\ here = None /\ resumed = {} /\ made = {} /\ real = [cur |-> 1, stack |-> <<>>] /\ met = FALSE
    /\ registry = Library /\ round = 1 /\ skeleton = {} /\ linked = 0 /\ dataflow = NoLinks

------------------------------------------------------------------------------
(* Stubs                                                                     *)

\* Mutant: the A/W twin is looked up first.
MutHandlerBaseFirst(n) ==
    IF registry[BaseName[n]] # "none" THEN registry[BaseName[n]]
    ELSE IF registry[n] # "none" THEN registry[n] ELSE "zero"

\* StubRegistry._lookup and handler: by name, by the name without A or W,
\* else the default stub, which returns 0, or stops where the process ends.
\* Speakeasy answers a call without a stub itself.
Handler(n) ==
    IF registry[n] # "none" THEN registry[n]
    ELSE IF registry[BaseName[n]] # "none" THEN registry[BaseName[n]]
    ELSE IF n \in Terminators /\ ~Speakeasy THEN "stop" ELSE "zero"

\* What a stub leaves in the return register: a fresh value, a length it was
\* passed, a constant, or zero; one that stops the run leaves the register alone.
Returned(stub, arg) ==
    CASE stub \in Keys -> counters[stub]
      [] stub \in {"stop", "echo"} -> arg
      [] stub = "fixed" -> FixedValue
      [] OTHER -> 0

\* Mutant: a counter is only moved by the first call.
MutCounted(stub) ==
    IF stub \in Keys /\ events = <<>> THEN [counters EXCEPT ![stub] = @ + CounterStep[stub]] ELSE counters

\* _counter: every value given out moves its counter on.
Counted(stub) ==
    IF stub \in Keys THEN [counters EXCEPT ![stub] = @ + CounterStep[stub]] ELSE counters

\* dispatch: the stub runs, then the event is made; the arguments and the
\* return value of the event are read after the stub.  Where the first
\* argument and the return value share a register, the event shows the value
\* the stub left there.
CallEvent(kind, n, arg) ==
    LET ret == Returned(Handler(n), arg)
    IN [name |-> n, kind |-> kind, arg |-> IF LinkRegister THEN ret ELSE arg,
        passed |-> arg, ret |-> ret, stub |-> Handler(n)]

\* Values a call may pass: none, or one an earlier call returned.
ArgValues == {0} \cup {events[i].ret : i \in 1 .. Len(events)}

\* emit of a call: an INVOKE edge from the current code node.
Invoked(n) == IF cur = None THEN invokes ELSE invokes \cup {<<cur, n>>}

\* emit of a call: the event, its INVOKE edge, and a SEQ edge from the call before it.
EmitCall(kind, n, arg) ==
    /\ events' = IF Len(events) >= MaxEvents THEN events ELSE Append(events, CallEvent(kind, n, arg))
    /\ invokes' = Invoked(n)
    /\ seqs' = IF last = NoName THEN seqs ELSE seqs \cup {<<last, n>>}
    /\ last' = n
    /\ counters' = Counted(Handler(n))

------------------------------------------------------------------------------
(* The probes                                                                *)

ControlFlow == mode.granularity \in {"block", "instruction"}
CallGraph == (mode.callGraph /\ ControlFlow) \/ mode.granularity = "function"

\* Mutant: a jump to the next address counts as taken.
MutFlowEdge(u) == Edge(prev, u, IF Term[prev] = "jump" THEN "jump_true" ELSE Term[prev])

\* ControlFlowProbe: the edge from the previous unit is classified by what
\* that unit ends in; a jump is taken unless it leads to the next address.
FlowEdge(u) ==
    Edge(prev, u, CASE Term[prev] = "jump" -> (IF u = prev + 1 THEN "jump_false" ELSE "jump_true")
                    [] OTHER -> Term[prev])

\* Mutant: a return does not rejoin the caller.
MutFunctionEntered(u) ==
    IF fn.cur = None THEN [fn EXCEPT !.cur = u, !.term = Term[u]]
    ELSE IF fn.term = "call"
         THEN [cur |-> u, stack |-> <<fn.cur>> \o fn.stack, term |-> Term[u]]
    ELSE [fn EXCEPT !.term = Term[u]]

\* FunctionProbe._on_block, for a block that is not the entry of an export.
FunctionEntered(u) ==
    IF fn.cur = None THEN [fn EXCEPT !.cur = u, !.term = Term[u]]
    ELSE IF fn.term = "call"
         THEN [cur |-> u, stack |-> <<fn.cur>> \o fn.stack, term |-> Term[u]]
    ELSE IF fn.term = "ret" /\ fn.stack # <<>>
         THEN [cur |-> Head(fn.stack), stack |-> Tail(fn.stack), term |-> Term[u]]
    ELSE [fn EXCEPT !.term = Term[u]]

\* Unicorn announces a block before it counts the block's instructions.
Announced == left > 0 \/ mode.granularity \in {"block", "function"}

\* Mutant: the current code is never forgotten.
MutEnterUnitFirst ==
    /\ phase = "at" /\ pc \in Units \ Exports /\ Announced
    /\ nodes' = nodes \cup {pc} /\ cur' = IF cur = None THEN pc ELSE cur
    /\ steps' = steps + 1 /\ prev' = pc /\ phase' = "in"
    /\ UNCHANGED <<cpuVars, runVars, flow, invokes, seqs, events, last, tagged, fn, stubVars,
                   roundVars, ghosts>>

\* A unit that is run.  It is listed, ticked and joined to the previous unit,
\* except in zero-filled memory outside of all modules; the call graph sees
\* every unit but the entries of exports.
EnterUnit ==
    /\ phase = "at" /\ pc \in Units /\ Announced
    /\ pc \in Exports => ~ControlFlow /\ ~Speakeasy
    /\ IF ControlFlow /\ pc \notin Zero
       THEN /\ steps' = steps + 1
            /\ nodes' = nodes \cup {pc}
            /\ flow' = IF prev = None THEN flow ELSE flow \cup {FlowEdge(pc)}
            /\ cur' = pc /\ prev' = pc
       ELSE UNCHANGED <<steps, nodes, flow, cur, prev>>
    /\ fn' = IF CallGraph /\ pc \notin Exports THEN FunctionEntered(pc) ELSE fn
    /\ met' = (met \/ pc \in Exports)
    /\ phase' = "in"
    /\ UNCHANGED <<cpuVars, runVars, invokes, seqs, events, last, tagged, stubVars, roundVars,
                   here, resumed, made, real>>

\* MemProbe._on_write: the current code node is tagged.
WriteExec ==
    /\ phase = "in" /\ pc \in Writers /\ left > 0 /\ ~Speakeasy
    /\ tagged' = IF cur = None THEN tagged ELSE tagged \cup {cur}
    /\ tagged' # tagged
    /\ UNCHANGED <<phase, cpuVars, runVars, steps, prev, nodes, flow, invokes, seqs, events, cur, last,
                   fn, stubVars, roundVars, ghosts>>

------------------------------------------------------------------------------
(* Calls                                                                     *)

\* _dispatch_api and _return_from_api: the return address comes off the stack,
\* or stays in the link register; a stack that cannot be read is a fault.
EnterApi ==
    /\ phase = "at" /\ pc \in Exports /\ Announced /\ ControlFlow
    /\ \E arg \in ArgValues : EmitCall("api", NameAt[pc], arg)
    /\ IF Handler(NameAt[pc]) = "stop"
       THEN /\ stopped' = TRUE /\ reason' = "stub"
            /\ UNCHANGED <<stack, redirect>>
       ELSE IF LinkRegister
            THEN redirect' = lr /\ UNCHANGED <<stack, stopped, reason>>
       ELSE IF stack = <<>>
            THEN reason' = "fault" /\ UNCHANGED <<stack, redirect, stopped>>
       ELSE /\ redirect' = Head(stack) /\ stack' = Tail(stack)
            /\ UNCHANGED <<stopped, reason>>
    /\ phase' = "returned" /\ met' = TRUE
    /\ made' = made \cup {<<IF here \in Zero THEN cur ELSE here, NameAt[pc]>>}
    /\ UNCHANGED <<pc, lr, left, steps, prev, nodes, flow, cur, tagged, fn, registry, roundVars,
                   here, resumed, real>>

\* SyscallProbe._handle, in a unit that holds a syscall.
Syscall ==
    /\ phase = "in" /\ pc \notin Exports /\ NameAt[pc] # NoName /\ left >= Insns[pc] /\ ~Speakeasy
    /\ \E arg \in ArgValues : EmitCall("syscall", NameAt[pc], arg)
    /\ IF Handler(NameAt[pc]) = "stop"
       THEN phase' = "returned" /\ stopped' = TRUE /\ reason' = "stub"
       ELSE phase' = "called" /\ UNCHANGED <<stopped, reason>>
    /\ made' = made \cup {<<pc, NameAt[pc]>>}
    /\ UNCHANGED <<cpuVars, redirect, steps, prev, nodes, flow, cur, tagged, fn, registry, roundVars,
                   here, resumed, real, met>>

\* SpeakeasyBackend._on_api: Speakeasy performs the return; the code the call
\* is attributed to is its return site, and the arguments are Speakeasy's.
SpeakeasyApi ==
    /\ phase = "at" /\ pc \in Exports /\ Speakeasy /\ left > 0
    /\ LET n == NameAt[pc]
           site == IF stack = <<>> THEN None ELSE Head(stack)
       IN /\ \E arg \in ArgValues :
                events' = Append(events, [CallEvent("api", n, arg) EXCEPT !.arg = arg])
          /\ counters' = Counted(Handler(n))
          /\ cur' = IF site = None THEN cur ELSE site
          /\ nodes' = IF site = None THEN nodes ELSE nodes \cup {site}
          /\ invokes' = IF cur' = None THEN invokes ELSE invokes \cup {<<cur', n>>}
          /\ seqs' = IF last = NoName THEN seqs ELSE seqs \cup {<<last, n>>}
          /\ last' = n
          /\ pc' = site /\ stack' = IF site = None THEN stack ELSE Tail(stack)
          /\ made' = made \cup {<<cur', n>>}
          /\ IF Handler(n) = "stop" \/ Len(events') >= MaxApiCalls
             THEN phase' = "returned" /\ reason' = IF Handler(n) = "stop" THEN "stub" ELSE "max_calls"
             ELSE phase' = "at" /\ UNCHANGED reason
    /\ met' = TRUE
    /\ UNCHANGED <<lr, left, redirect, stopped, steps, prev, flow, tagged, fn, registry,
                   roundVars, here, resumed, real>>

------------------------------------------------------------------------------
(* The CPU                                                                   *)

\* The rest of a unit is run and control goes on.
RunUnit ==
    /\ phase = "called" \/ (phase = "in" /\ (NameAt[pc] = NoName \/ pc \in Exports \/ Speakeasy))
    /\ left >= Insns[pc]
    /\ left' = left - Insns[pc]
    /\ phase' = "at" /\ here' = pc
    /\ CASE Term[pc] = "fall" -> pc' = pc + 1 /\ UNCHANGED <<stack, lr, real>>
         [] Term[pc] = "jump" -> pc' \in Goes[pc] \cup {pc + 1} /\ UNCHANGED <<stack, lr, real>>
         [] Term[pc] = "call" ->
              \E target \in Goes[pc] :
                 /\ pc' = target /\ lr' = pc + 1
                 /\ stack' = IF LinkRegister /\ ControlFlow /\ target \in Exports THEN stack
                             ELSE <<pc + 1>> \o stack
                 /\ real' = IF target \in Exports THEN real
                            ELSE [cur |-> target, stack |-> <<real.cur>> \o real.stack]
         [] OTHER ->
              IF stack = <<>> THEN pc' = None /\ UNCHANGED <<stack, lr, real>>
              ELSE /\ pc' = Head(stack) /\ stack' = Tail(stack) /\ lr' = Head(stack)
                   /\ real' = IF real.stack = <<>> \/ pc \in Exports THEN real
                              ELSE [cur |-> Head(real.stack), stack |-> Tail(real.stack)]
    /\ UNCHANGED <<runVars, steps, prev, graphVars, fn, stubVars, roundVars, resumed, made, met>>

\* An instruction faults, or control went where nothing is mapped.
Fault ==
    /\ phase = "in" \/ (phase = "at" /\ pc \notin Units)
    /\ left > 0
    /\ phase' = "returned" /\ reason' = "fault"
    /\ UNCHANGED <<cpuVars, redirect, stopped, steps, prev, graphVars, fn, stubVars, roundVars, ghosts>>

\* The count of emu_start is used up.
CountReached ==
    /\ \/ phase = "at" /\ left = 0
       \/ phase \in {"in", "called"} /\ left < Insns[pc]
    /\ phase' = "returned"
    /\ UNCHANGED <<cpuVars, runVars, steps, prev, graphVars, fn, stubVars, roundVars, ghosts>>

------------------------------------------------------------------------------
(* run                                                                       *)

BeginRun ==
    /\ phase = "ready"
    /\ phase' = "at" /\ left' = MaxSteps
    /\ UNCHANGED <<pc, stack, lr, runVars, steps, prev, graphVars, fn, stubVars, roundVars, ghosts>>

\* Mutant: every emu_start is given the whole budget.
MutRestartFull ==
    /\ phase = "returned" /\ reason = "none" /\ redirect # None /\ ~stopped
    /\ pc' = redirect /\ left' = MaxSteps /\ redirect' = None
    /\ phase' = "at" /\ resumed' = resumed \cup {redirect}
    /\ UNCHANGED <<stack, lr, stopped, reason, steps, prev, graphVars, fn, stubVars, roundVars,
                   here, made, real, met>>

\* emu_start again, after a call was answered.
Restart ==
    /\ phase = "returned" /\ reason = "none" /\ redirect # None /\ ~stopped
    /\ steps < MaxSteps
    /\ pc' = redirect /\ left' = MaxSteps - steps /\ redirect' = None
    /\ phase' = "at" /\ resumed' = resumed \cup {redirect}
    /\ UNCHANGED <<stack, lr, stopped, reason, steps, prev, graphVars, fn, stubVars, roundVars,
                   here, made, real, met>>

\* Mutant: the loop goes on when emu_start comes back without a redirection.
MutEndRun ==
    /\ phase = "returned" /\ reason # "none"
    /\ phase' = "linking"
    /\ UNCHANGED <<cpuVars, runVars, steps, prev, graphVars, fn, stubVars, roundVars, ghosts>>

EndRun ==
    /\ phase = "returned"
    /\ reason # "none" \/ redirect = None \/ steps >= MaxSteps
    /\ phase' = "linking"
    /\ reason' = IF reason = "none" THEN "max_steps" ELSE reason
    /\ UNCHANGED <<cpuVars, redirect, stopped, steps, prev, graphVars, fn, stubVars, roundVars, ghosts>>

\* The names load_stubs finds in an edited skeleton.
Loaded == skeleton' \ Private

\* emit_skeleton, the analyst's edits, and load_stubs merged over the library
\* in a second trace of the slice.
EditAndTraceAgain ==
    /\ phase = "done" /\ ~Speakeasy /\ round < Rounds /\ events # <<>>
    /\ skeleton' = {events[i].name : i \in 1 .. Len(events)}
    /\ \E edited \in {"zero", "stop"} :
          registry' = [n \in Names |-> IF n \in Loaded THEN edited ELSE Library[n]]
    /\ round' = round + 1
    /\ Fresh

------------------------------------------------------------------------------
(* link_dataflow, over the events of a finished run                          *)

\* _is_taintable: a value that is neither small nor one of the usual errors.
Taintable(v) == v >= MinTaint /\ v \notin Sentinels

\* Mutant: an event produces its value before its argument is looked up.
MutLinked(acc, ev) ==
    [acc EXCEPT !.links = @ \cup {Edge(p.call, ev.name, "dataflow") : p \in acc.produced},
                !.produced = @ \cup {[value |-> ev.ret, call |-> ev.name]}]

\* One event: its argument joins it to the call that last returned the value,
\* and to the call that last passed it; then its own return value is recorded.
Linked(acc, ev) ==
    LET use == Taintable(ev.arg)
        from(map) == {p.call : p \in {q \in map : q.value = ev.arg}} \ {ev.name}
        put(map, v) == {q \in map : q.value # v} \cup {[value |-> v, call |-> ev.name]}
    IN [links |-> acc.links \cup
                  (IF use THEN {Edge(c, ev.name, "dataflow") : c \in from(acc.produced)}
                               \cup {Edge(c, ev.name, "buffer") : c \in from(acc.users)}
                   ELSE {}),
        produced |-> IF Taintable(ev.ret) THEN put(acc.produced, ev.ret) ELSE acc.produced,
        users |-> IF use THEN put(acc.users, ev.arg) ELSE acc.users]

\* The loop of link_dataflow over graph.events.
LinkDataflow ==
    /\ phase = "linking"
    /\ IF linked < Len(events)
       THEN /\ dataflow' = Linked(dataflow, events[linked + 1]) /\ linked' = linked + 1
            /\ UNCHANGED phase
       ELSE phase' = "done" /\ UNCHANGED <<linked, dataflow>>
    /\ UNCHANGED <<cpuVars, runVars, steps, prev, graphVars, fn, stubVars, mode, round, skeleton, ghosts>>

\* Mutant: the vector is taken before link_dataflow.
MutFeatures ==
    [t \in {"fall", "jump", "call", "ret", "seq", "invoke", "dataflow", "buffer"} |->
       CASE t = "seq" -> Cardinality(seqs)
         [] t = "invoke" -> Cardinality(invokes)
         [] t \in {"dataflow", "buffer"} -> 0
         [] OTHER -> Cardinality({e \in flow : e.type = t})]

\* feature_vector: the number of edges of each of FEATURE_EDGE_TYPES.
Features ==
    [t \in {"fall", "jump", "call", "ret", "seq", "invoke", "dataflow", "buffer"} |->
       CASE t = "seq" -> Cardinality(seqs)
         [] t = "invoke" -> Cardinality(invokes)
         [] t \in {"dataflow", "buffer"} -> Cardinality({e \in dataflow.links : e.type = t})
         [] OTHER -> Cardinality({e \in flow : e.type = t})]

Next ==
    \/ BeginRun \/ EnterUnit \/ WriteExec \/ EnterApi \/ SpeakeasyApi \/ Syscall \/ RunUnit
    \/ Fault \/ CountReached \/ Restart \/ EndRun \/ LinkDataflow \/ EditAndTraceAgain

Spec == Init /\ [][Next]_tracerVars /\ WF_tracerVars(Next)

------------------------------------------------------------------------------
(* Properties                                                                *)

\* The graph and the state of the probes are made of units, names and values.
TypeOK ==
    /\ mode \in Modes /\ phase \in {"ready", "at", "in", "called", "returned", "linking", "done"}
    /\ pc \in 0 .. NUnits + 1 /\ stack \in Seq(2 .. NUnits + 1) /\ lr \in 0 .. NUnits + 1
    /\ left \in 0 .. MaxSteps /\ redirect \in 0 .. NUnits + 1 /\ stopped \in BOOLEAN
    /\ reason \in {"none", "stub", "fault", "max_steps", "max_calls"}
    /\ steps \in Nat /\ {cur, prev} \subseteq 0 .. NUnits + 1 /\ last \in Names \cup {NoName}
    /\ nodes \subseteq 1 .. NUnits + 1 /\ tagged \subseteq nodes /\ skeleton \subseteq Names
    /\ fn.cur \in {None} \cup Units /\ registry \in [Names -> Stubs] /\ round \in Nat
    /\ counters \in [Keys -> Nat]

\* The budget counts listed units, is given to Unicorn as a number of
\* instructions, and starts anew with every intercepted call: together the
\* restarts list no more than max_steps units, and the one that is announced
\* when the count runs out.
BudgetHeld == steps <= MaxSteps + 1 /\ (phase \in {"at", "in"} => steps + left <= MaxSteps + 1)

\* A call is invoked by the code that made it, also after earlier calls were
\* intercepted and emulation was restarted; consecutive calls are joined in
\* the order they were made, across restarts.
CallsAttributed ==
    /\ invokes = IF ControlFlow \/ Speakeasy THEN {m \in made : m[1] # None} ELSE {}
    /\ Len(events) < MaxEvents =>
          seqs = {<<events[i].name, events[i + 1].name>> : i \in 1 .. Len(events) - 1}

\* A code node tagged with a write to executable memory is one that wrote it,
\* unless zero-filled memory, which is never listed, was run after it.
TagsAreWriters == Zero \cap Writers = {} => tagged \subseteq Writers

\* An edge between code nodes is a transfer the first unit can make, of the
\* kind it ends in, or leads to where emulation was restarted after the calls
\* that were intercepted; zero-filled memory in between is left out.
FlowIsReal ==
    \A e \in flow :
       LET into(S) == e.dst \in S \/ \E u \in S : u < e.dst /\ u .. e.dst - 1 \subseteq Zero
       IN CASE e.type = "fall" -> Term[e.src] = "fall" /\ into({e.src + 1} \cup resumed)
            [] e.type = "jump_false" -> Term[e.src] = "jump" /\ e.dst = e.src + 1
            [] e.type = "jump_true" ->
                   Term[e.src] = "jump" /\ e.dst # e.src + 1
                   /\ into(Goes[e.src] \cup {e.src + 1} \cup resumed)
            [] e.type = "call" -> Term[e.src] = "call" /\ into((Goes[e.src] \ Exports) \cup resumed)
            [] OTHER -> Term[e.src] = "ret"

\* As long as no export was reached, the shadow stack of the call graph is
\* the real call stack at every block.
CallGraphTrue == CallGraph /\ ~met /\ phase = "in" => fn.cur = real.cur /\ fn.stack = real.stack

\* Where the first argument does not share a register with the return value,
\* a data-flow edge stands for a value that the first call returned before
\* the second was really passed it.
ProvenanceIsReal ==
    ~LinkRegister =>
       \A e \in {f \in dataflow.links : f.type = "dataflow"} :
          \E i, j \in 1 .. Len(events) :
             /\ i < j /\ events[i].name = e.src /\ events[j].name = e.dst
             /\ events[i].ret = events[j].passed /\ Taintable(events[i].ret)

\* Until a counter has grown into the range another one began in, no value
\* that stubs took from their counters is given out twice.  (A counter that
\* does grow that far, and a stub with a constant answer, may repeat a value.)
FreshApart ==
    (\A k, m \in Keys : CounterStart[k] < CounterStart[m] => counters[k] <= CounterStart[m]) =>
       \A i, j \in 1 .. Len(events) :
          i # j /\ events[i].stub \in Keys /\ events[j].stub \in Keys => events[i].ret # events[j].ret

\* In the second trace the edited stub answers every call the skeleton had
\* been written for, but for names that begin with an underscore.
EditedStubWins ==
    round > 1 => \A i \in 1 .. Len(events) :
       LET n == events[i].name
       IN n \in skeleton \ Private => events[i].stub \in {"zero", "stop"}

\* The feature vector counts every edge of the graph but those of jumps, whose
\* types in the graph are not among its types.
FeaturesCoverEdges ==
    LET total == Features["fall"] + Features["jump"] + Features["call"] + Features["ret"]
                 + Features["seq"] + Features["invoke"] + Features["dataflow"] + Features["buffer"]
    IN phase = "done" =>
         Cardinality(flow) + Cardinality(seqs) + Cardinality(invokes) + Cardinality(dataflow.links)
           = total + Cardinality({e \in flow : e.type \in {"jump_true", "jump_false"}})

\* What a trace says of the calls: who made them and in which order, and that
\* the stub that answered was the user's where there was one (EnterApi, the
\* overlay of load_stubs).
CallsAreTrue == CallsAttributed /\ EditedStubWins

\* What it says of the code: tags, transfers, call stack, and the vector made
\* of them (ControlFlowProbe, CallGraphProbe, feature_vector).
GraphIsTrue == TypeOK /\ TagsAreWriters /\ FlowIsReal /\ CallGraphTrue /\ FeaturesCoverEdges

\* What it says of the data: a value that joins two calls was returned by the
\* one and then passed to the other, and no counter gives a value twice
\* (link_dataflow, _counter in stublib).
DataFlowIsTrue == ProvenanceIsReal /\ FreshApart

\* The link register leads to the entry of an export, and no unit before it is listed.
AnsweredAgain == LinkRegister /\ \E u \in Exports : lr <= u /\ lr .. u - 1 \subseteq Zero

\* A trace comes to an end (the loop of run), but for one case: an intercepted
\* call goes back through the link register, which no interception changes, to
\* the entry of an export, which is answered in its turn, for ever: max_steps
\* counts listed units only and so never takes effect.
RunEnds == (phase = "at") ~> (phase = "done" \/ []AnsweredAgain)
==============================================================================

------------------------- MODULE BehaviorTracerProofs --------------------------
(***************************************************************************)
(* For any program, any stubs and edits of them, any budget: the restarts  *)
(* of emulation together keep to the budget, calls are attributed to the   *)
(* code that made them in the order they were made, and edited stubs are   *)
(* the ones that answer.                                                   *)
(***************************************************************************)
EXTENDS BehaviorTracer, SequenceTheorems, FiniteSetTheorems, TLAPS

Event == [name : Names, kind : {"api", "syscall"}, arg : Nat, passed : Nat, ret : Nat, stub : Stubs]

Types ==
    /\ phase \in {"ready", "at", "in", "called", "returned", "linking", "done"}
    /\ steps \in Nat /\ left \in Nat
    /\ events \in Seq(Event) /\ counters \in [Keys -> Nat]
    /\ registry \in [Names -> Stubs] /\ skeleton \subseteq Names
    /\ phase \in {"in", "called"} => pc \in Units

\* A unit is paid for when it is run, but it is listed when it is entered.
Budget ==
    /\ phase = "ready" => steps = 0
    /\ phase = "at" => steps + left <= MaxSteps
    /\ phase \in {"in", "called"} => steps + left <= MaxSteps + 1
    /\ steps <= MaxSteps + 1

\* Where the calls come from: the unit listed last is the one that ran last,
\* and still is when emulation is restarted.
Attributed ==
    /\ invokes = IF ControlFlow \/ Speakeasy THEN {m \in made : m[1] # None} ELSE {}
    /\ ~ControlFlow /\ ~Speakeasy => cur = None
    /\ ControlFlow =>
          /\ phase \in {"in", "called"} => (pc \notin Zero => cur = pc)
          /\ phase \in {"ready", "at"} \/ (phase = "returned" /\ redirect # None) =>
                (here \notin Zero => cur = here)
          /\ phase \in {"ready", "at", "in", "called"} => redirect = None

Sequenced ==
    Len(events) < MaxEvents =>
       /\ seqs = {<<events[i].name, events[i + 1].name>> : i \in 1 .. Len(events) - 1}
       /\ last = IF events = <<>> THEN NoName ELSE events[Len(events)].name

Edited ==
    /\ round > 1 => \A n \in skeleton \ Private : registry[n] \in {"zero", "stop"}
    /\ EditedStubWins

TracerInv == Types /\ Budget /\ Attributed /\ Sequenced /\ Edited

------------------------------------------------------------------------------
(* Control                                                                   *)

LEMMA NoEvents ==
    /\ <<>> \in Seq(Event) /\ Len(<<>>) = 0
    /\ {<<(<<>>)[i].name, (<<>>)[i + 1].name>> : i \in 1 .. Len(<<>>) - 1} = {}
<1>1. <<>> \in Seq(Event) /\ Len(<<>>) = 0
  OBVIOUS
<1>2. 1 .. Len(<<>>) - 1 = {}
  BY <1>1
<1> QED
  BY <1>1, <1>2

LEMMA InitTracer == Init => TracerInv
<1> SUFFICES ASSUME Init
             PROVE  TracerInv
  OBVIOUS
<1>1. /\ phase = "ready" /\ steps = 0 /\ left = 0 /\ events = <<>> /\ seqs = {} /\ last = NoName
      /\ counters = CounterStart /\ registry = Library /\ skeleton = {} /\ round = 1
      /\ invokes = {} /\ made = {} /\ cur = None /\ here = None /\ redirect = None
  BY DEF Init
<1>2. Types
  BY <1>1, NoEvents, TracerAssumption DEF Types
<1>3. Budget
  BY <1>1, TracerAssumption DEF Budget
<1>4. Attributed
  BY <1>1 DEF Attributed
<1>5. Sequenced
  BY <1>1, NoEvents DEF Sequenced
<1>6. Edited
  BY <1>1 DEF Edited, EditedStubWins
<1> QED
  BY <1>2, <1>3, <1>4, <1>5, <1>6 DEF TracerInv

\* Steps without a call.
LEMMA NoCall ==
    ASSUME TracerInv, UNCHANGED <<mode, events, seqs, last, counters, registry, skeleton, round>>
    PROVE  /\ events' \in Seq(Event) /\ counters' \in [Keys -> Nat]
           /\ registry' \in [Names -> Stubs] /\ skeleton' \subseteq Names
           /\ Sequenced' /\ Edited'
           /\ (ControlFlow' <=> ControlFlow) /\ (Speakeasy' <=> Speakeasy)
<1>1. /\ mode' = mode /\ events' = events /\ seqs' = seqs /\ last' = last /\ counters' = counters
      /\ registry' = registry /\ skeleton' = skeleton /\ round' = round
  OBVIOUS
<1>2. Sequenced' /\ Edited'
  BY <1>1 DEF TracerInv, Sequenced, Edited, EditedStubWins
<1> QED
  BY <1>1, <1>2 DEF TracerInv, Types, ControlFlow, Speakeasy

LEMMA EnterUnitInv == ASSUME TracerInv, EnterUnit PROVE TracerInv'
<1>1. /\ phase = "at" /\ pc \in Units /\ phase' = "in" /\ pc' = pc /\ left' = left /\ made' = made
      /\ invokes' = invokes /\ here' = here /\ redirect' = redirect
      /\ UNCHANGED <<mode, events, seqs, last, counters, registry, skeleton, round>>
      /\ IF ControlFlow /\ pc \notin Zero
         THEN steps' = steps + 1 /\ cur' = pc
         ELSE steps' = steps /\ cur' = cur
  BY DEF EnterUnit, cpuVars, runVars, stubVars, roundVars
<1>2. steps \in Nat /\ left \in Nat /\ steps + left <= MaxSteps /\ MaxSteps \in Nat
  BY <1>1, TracerAssumption DEF TracerInv, Types, Budget
<1>3. Types'
  BY <1>1, <1>2, NoCall DEF Types
<1>4. Budget'
  BY <1>1, <1>2 DEF Budget
<1>5. Attributed'
  BY <1>1, NoCall DEF TracerInv, Attributed
<1> QED
  BY <1>1, <1>3, <1>4, <1>5, NoCall DEF TracerInv

LEMMA RunUnitInv == ASSUME TracerInv, RunUnit PROVE TracerInv'
<1>1. /\ phase \in {"in", "called"} /\ phase' = "at" /\ here' = pc /\ left >= Insns[pc]
      /\ left' = left - Insns[pc] /\ steps' = steps /\ cur' = cur /\ made' = made
      /\ invokes' = invokes /\ redirect' = redirect
      /\ UNCHANGED <<mode, events, seqs, last, counters, registry, skeleton, round>>
  BY DEF RunUnit, runVars, graphVars, stubVars, roundVars
<1>2. /\ steps \in Nat /\ left \in Nat /\ steps + left <= MaxSteps + 1 /\ MaxSteps \in Nat
      /\ Insns[pc] \in Nat /\ Insns[pc] > 0 /\ steps <= MaxSteps + 1
  BY <1>1, TracerAssumption DEF TracerInv, Types, Budget
<1>3. Types'
  BY <1>1, <1>2, NoCall DEF Types
<1>4. Budget'
  BY <1>1, <1>2 DEF Budget
<1>5. Attributed'
  BY <1>1, NoCall DEF TracerInv, Attributed
<1> QED
  BY <1>1, <1>3, <1>4, <1>5, NoCall DEF TracerInv

LEMMA RestartInv == ASSUME TracerInv, BeginRun \/ Restart PROVE TracerInv'
<1>1. /\ phase' = "at" /\ steps' = steps /\ cur' = cur /\ made' = made /\ here' = here
      /\ invokes' = invokes
      /\ UNCHANGED <<mode, events, seqs, last, counters, registry, skeleton, round>>
      /\ \/ phase = "ready" /\ left' = MaxSteps /\ redirect' = redirect
         \/ /\ phase = "returned" /\ steps < MaxSteps /\ left' = MaxSteps - steps
            /\ redirect # None /\ redirect' = None
  BY DEF BeginRun, Restart, runVars, graphVars, stubVars, roundVars, ghosts
<1>2. steps \in Nat /\ MaxSteps \in Nat /\ steps <= MaxSteps + 1 /\ (phase = "ready" => steps = 0)
  BY TracerAssumption DEF TracerInv, Types, Budget
<1>3. left' \in Nat /\ steps' + left' <= MaxSteps
  BY <1>1, <1>2
<1>4. Types'
  BY <1>1, <1>2, <1>3, NoCall DEF Types
<1>5. Budget'
  BY <1>1, <1>2, <1>3 DEF Budget
<1>6. Attributed'
  BY <1>1, NoCall DEF TracerInv, Attributed
<1> QED
  BY <1>1, <1>4, <1>5, <1>6, NoCall DEF TracerInv

LEMMA OtherInv ==
    ASSUME TracerInv, WriteExec \/ Fault \/ CountReached \/ EndRun \/ LinkDataflow \/ UNCHANGED tracerVars
    PROVE  TracerInv'
<1>1. /\ steps' = steps /\ left' = left /\ cur' = cur /\ made' = made /\ here' = here /\ pc' = pc
      /\ invokes' = invokes /\ redirect' = redirect
      /\ UNCHANGED <<mode, events, seqs, last, counters, registry, skeleton, round>>
  BY DEF WriteExec, Fault, CountReached, EndRun, LinkDataflow, tracerVars, cpuVars, runVars, graphVars, stubVars,
     roundVars, ghosts
<1>2. \/ phase' = phase
      \/ phase \in {"at", "in", "called"} /\ phase' = "returned"
      \/ phase' \in {"linking", "done"}
  BY DEF WriteExec, Fault, CountReached, EndRun, LinkDataflow, tracerVars
<1>3. Types'
  BY <1>1, <1>2, NoCall DEF TracerInv, Types
<1>4. Budget'
  BY <1>1, <1>2 DEF TracerInv, Budget
<1>5. Attributed'
  BY <1>1, <1>2, NoCall DEF TracerInv, Attributed
<1> QED
  BY <1>1, <1>3, <1>4, <1>5, NoCall DEF TracerInv

------------------------------------------------------------------------------
(* Calls                                                                     *)

LEMMA StubOf ==
    ASSUME Types, NEW n \in Names
    PROVE  /\ Handler(n) \in Stubs /\ Counted(Handler(n)) \in [Keys -> Nat]
           /\ registry[n] \in {"zero", "stop"} => Handler(n) = registry[n]
<1>1. Handler(n) \in Stubs
  BY TracerAssumption DEF Types, Handler, Stubs
<1>2. Counted(Handler(n)) \in [Keys -> Nat]
  <2>1. \A k \in Keys : counters[k] + CounterStep[k] \in Nat
    BY TracerAssumption DEF Types
  <2> QED
    BY <2>1 DEF Types, Counted
<1>3. registry[n] \in {"zero", "stop"} => Handler(n) = registry[n]
  BY DEF Handler
<1> QED
  BY <1>1, <1>2, <1>3

LEMMA EventsAre ==
    ASSUME NEW s \in Seq(Event), NEW i \in 1 .. Len(s)
    PROVE  s[i] \in Event /\ s[i].name \in Names /\ s[i].ret \in Nat
<1>1. s[i] \in Event
  OBVIOUS
<1> QED
  BY <1>1 DEF Event

LEMMA EventOf ==
    ASSUME Types, NEW n \in Names, NEW arg \in ArgValues, NEW kind \in {"api", "syscall"}
    PROVE  /\ CallEvent(kind, n, arg) \in Event
           /\ [CallEvent(kind, n, arg) EXCEPT !.arg = arg] \in Event
           /\ CallEvent(kind, n, arg).name = n /\ CallEvent(kind, n, arg).stub = Handler(n)
<1>1. arg \in Nat
  BY EventsAre DEF ArgValues, Types
<1>2. Returned(Handler(n), arg) \in Nat
  BY <1>1, TracerAssumption DEF Returned, Types
<1> QED
  BY <1>1, <1>2, StubOf DEF CallEvent, Event

\* One more event: it follows the one before it, and its stub is the edited one.
LEMMA EventAppended ==
    ASSUME TracerInv, NEW ev \in Event, ev.stub = Handler(ev.name), events' = Append(events, ev),
           seqs' = IF last = NoName THEN seqs ELSE seqs \cup {<<last, ev.name>>}, last' = ev.name,
           registry' = registry, skeleton' = skeleton, round' = round
    PROVE  events' \in Seq(Event) /\ Sequenced' /\ Edited'
<1>1. events \in Seq(Event) /\ Len(events) \in Nat /\ MaxEvents \in Nat /\ ev.name \in Names
      /\ NoName \notin Names
  BY TracerAssumption DEF TracerInv, Types, Event
<1> DEFINE t == Append(events, ev)
<1>2. /\ t \in Seq(Event) /\ Len(t) = Len(events) + 1 /\ t[Len(events) + 1] = ev /\ t # <<>>
      /\ \A i \in 1 .. Len(events) : t[i] = events[i] /\ events[i].name \in Names
      /\ (events = <<>> <=> Len(events) = 0)
  BY <1>1, EventsAre
<1> HIDE DEF t
<1>3. events' = t
  BY DEF t
<1> DEFINE Joined(s, n) == {<<s[i].name, s[i + 1].name>> : i \in 1 .. n}
<1>4. Sequenced'
  <2> SUFFICES ASSUME Len(t) < MaxEvents
               PROVE  seqs' = Joined(t, Len(t) - 1) /\ last' = t[Len(t)].name
    BY <1>2, <1>3 DEF Sequenced
  <2>1. /\ seqs = Joined(events, Len(events) - 1)
        /\ last = IF events = <<>> THEN NoName ELSE events[Len(events)].name
    BY <1>1, <1>2 DEF TracerInv, Sequenced
  <2>2. CASE events = <<>>
    <3>1. 1 .. Len(t) - 1 = {} /\ 1 .. Len(events) - 1 = {}
      BY <1>1, <1>2, <2>2
    <3>2. seqs = {} /\ Joined(t, Len(t) - 1) = {}
      BY <2>1, <3>1
    <3> QED
      BY <1>2, <2>1, <2>2, <3>2
  <2>3. CASE events # <<>>
    <3> DEFINE n == Len(events)
    <3>1. n > 0 /\ last = t[n].name /\ last # NoName /\ Len(t) - 1 = n /\ t[n + 1].name = ev.name
      BY <1>1, <1>2, <2>1, <2>3
    <3>2. Joined(t, n) = Joined(t, n - 1) \cup {<<t[n].name, t[n + 1].name>>}
      <4>1. 1 .. n = (1 .. n - 1) \cup {n}
        BY <1>1, <3>1
      <4> QED
        BY <4>1
    <3>3. Joined(t, n - 1) = Joined(events, n - 1)
      <4>1. \A i \in 1 .. n - 1 : i \in 1 .. n /\ i + 1 \in 1 .. n
        BY <1>1
      <4>2. \A i \in 1 .. n - 1 : t[i].name = events[i].name /\ t[i + 1].name = events[i + 1].name
        BY <1>2, <4>1
      <4> HIDE DEF n
      <4> QED
        BY <4>2
    <3> QED
      BY <1>2, <2>1, <3>1, <3>2, <3>3
  <2> QED
    BY <2>2, <2>3
<1>5. Edited'
  <2>1. ASSUME round > 1, NEW i \in 1 .. Len(t), t[i].name \in skeleton \ Private
        PROVE  t[i].stub \in {"zero", "stop"}
    <3>1. CASE i = Len(events) + 1
      <4>1. t[i] = ev /\ registry[ev.name] \in {"zero", "stop"}
        BY <1>2, <2>1, <3>1 DEF TracerInv, Edited
      <4> QED
        BY <1>1, <4>1, StubOf DEF TracerInv
    <3>2. CASE i # Len(events) + 1
      <4>1. i \in 1 .. Len(events) /\ t[i] = events[i]
        BY <1>1, <1>2, <2>1, <3>2
      <4> QED
        BY <2>1, <4>1 DEF TracerInv, Edited, EditedStubWins
    <3> QED
      BY <3>1, <3>2
  <2>2. EditedStubWins'
    BY <1>3, <2>1 DEF EditedStubWins
  <2> QED
    BY <2>2 DEF TracerInv, Edited
<1> QED
  BY <1>2, <1>3, <1>4, <1>5

LEMMA CallEmitted ==
    ASSUME TracerInv, NEW n \in Names, NEW arg \in ArgValues, NEW kind \in {"api", "syscall"},
           EmitCall(kind, n, arg), UNCHANGED <<mode, registry, skeleton, round>>
    PROVE  /\ events' \in Seq(Event) /\ counters' \in [Keys -> Nat] /\ Sequenced' /\ Edited'
           /\ registry' \in [Names -> Stubs] /\ skeleton' \subseteq Names
           /\ (ControlFlow' <=> ControlFlow) /\ (Speakeasy' <=> Speakeasy)
<1>1. /\ Types /\ registry' = registry /\ skeleton' = skeleton /\ round' = round /\ mode' = mode
      /\ events' = IF Len(events) >= MaxEvents THEN events ELSE Append(events, CallEvent(kind, n, arg))
      /\ seqs' = IF last = NoName THEN seqs ELSE seqs \cup {<<last, n>>}
      /\ last' = n /\ counters' = Counted(Handler(n))
  BY DEF TracerInv, EmitCall
<1>2. events' \in Seq(Event) /\ Sequenced' /\ Edited'
  <2>1. CASE Len(events) >= MaxEvents
    <3>1. events' = events /\ events \in Seq(Event) /\ Len(events) \in Nat /\ MaxEvents \in Nat
      BY <1>1, <2>1, TracerAssumption DEF Types
    <3>2. Sequenced'
      BY <2>1, <3>1 DEF Sequenced
    <3>3. Edited'
      BY <1>1, <3>1 DEF TracerInv, Edited, EditedStubWins
    <3> QED
      BY <3>1, <3>2, <3>3
  <2>2. CASE ~(Len(events) >= MaxEvents)
    <3> DEFINE ev == CallEvent(kind, n, arg)
    <3>1. ev \in Event /\ ev.name = n /\ ev.stub = Handler(n)
      BY <1>1, EventOf
    <3>2. events' = Append(events, ev)
      BY <1>1, <2>2
    <3> HIDE DEF ev
    <3> QED
      BY <1>1, <3>1, <3>2, EventAppended
  <2> QED
    BY <2>1, <2>2
<1> QED
  BY <1>1, <1>2, StubOf DEF Types, ControlFlow, Speakeasy

\* One more call, made by the unit the call is attributed to.
LEMMA CallAttributed ==
    ASSUME NEW I, NEW M, NEW u, NEW n, I = {m \in M : m[1] # None}
    PROVE  (IF u = None THEN I ELSE I \cup {<<u, n>>}) = {m \in M \cup {<<u, n>>} : m[1] # None}
<1>1. <<u, n>>[1] = u
  OBVIOUS
<1> QED
  BY <1>1

LEMMA EnterApiInv == ASSUME TracerInv, EnterApi PROVE TracerInv'
<1>1. /\ phase = "at" /\ pc \in Exports /\ ControlFlow /\ phase' = "returned"
      /\ steps' = steps /\ left' = left /\ pc' = pc /\ cur' = cur /\ here' = here
      /\ made' = made \cup {<<IF here \in Zero THEN cur ELSE here, NameAt[pc]>>}
      /\ UNCHANGED <<mode, registry, skeleton, round>>
  BY DEF EnterApi, roundVars
<1>2. PICK arg \in ArgValues : EmitCall("api", NameAt[pc], arg)
  BY DEF EnterApi
<1>3. NameAt[pc] \in Names
  BY <1>1, TracerAssumption
<1>4. (IF here \in Zero THEN cur ELSE here) = cur /\ invokes = {m \in made : m[1] # None}
  BY <1>1 DEF TracerInv, Attributed
<1>5. invokes' = IF cur = None THEN invokes ELSE invokes \cup {<<cur, NameAt[pc]>>}
  BY <1>2 DEF EmitCall, Invoked
<1>6. invokes' = {m \in made' : m[1] # None}
  BY <1>1, <1>4, <1>5, CallAttributed
<1>7. /\ events' \in Seq(Event) /\ counters' \in [Keys -> Nat] /\ Sequenced' /\ Edited'
      /\ registry' \in [Names -> Stubs] /\ skeleton' \subseteq Names
      /\ ControlFlow' /\ (Speakeasy' <=> Speakeasy)
  BY <1>1, <1>2, <1>3, CallEmitted
<1>8. Types'
  BY <1>1, <1>7 DEF TracerInv, Types
<1>9. Budget'
  BY <1>1 DEF TracerInv, Budget
<1>10. Attributed'
  BY <1>1, <1>6, <1>7 DEF TracerInv, Attributed
<1> QED
  BY <1>7, <1>8, <1>9, <1>10 DEF TracerInv

LEMMA SyscallInv == ASSUME TracerInv, Syscall PROVE TracerInv'
<1>1. /\ phase = "in" /\ phase' \in {"called", "returned"} /\ ~Speakeasy /\ NameAt[pc] # NoName
      /\ steps' = steps /\ left' = left /\ pc' = pc /\ cur' = cur /\ here' = here
      /\ redirect' = redirect /\ made' = made \cup {<<pc, NameAt[pc]>>}
      /\ UNCHANGED <<mode, registry, skeleton, round>>
  BY DEF Syscall, cpuVars, roundVars
<1>2. PICK arg \in ArgValues : EmitCall("syscall", NameAt[pc], arg)
  BY DEF Syscall
<1>3. pc \in Units /\ NameAt[pc] \in Names /\ pc \notin Zero
  BY <1>1, TracerAssumption DEF TracerInv, Types
<1>4. invokes' = IF cur = None THEN invokes ELSE invokes \cup {<<cur, NameAt[pc]>>}
  BY <1>2 DEF EmitCall, Invoked
<1>5. /\ events' \in Seq(Event) /\ counters' \in [Keys -> Nat] /\ Sequenced' /\ Edited'
      /\ registry' \in [Names -> Stubs] /\ skeleton' \subseteq Names
      /\ (ControlFlow' <=> ControlFlow) /\ (Speakeasy' <=> Speakeasy)
  BY <1>1, <1>2, <1>3, CallEmitted
<1>6. Types'
  BY <1>1, <1>3, <1>5 DEF TracerInv, Types
<1>7. Budget'
  BY <1>1 DEF TracerInv, Budget
<1>8. invokes' = IF ControlFlow THEN {m \in made' : m[1] # None} ELSE {}
  <2>1. CASE ControlFlow
    <3>1. cur = pc /\ invokes = {m \in made : m[1] # None}
      BY <1>1, <1>3, <2>1 DEF TracerInv, Attributed
    <3> QED
      BY <1>1, <1>4, <2>1, <3>1, CallAttributed
  <2>2. CASE ~ControlFlow
    BY <1>1, <1>4, <2>2 DEF TracerInv, Attributed
  <2> QED
    BY <2>1, <2>2
<1>9. Attributed'
  BY <1>1, <1>5, <1>8 DEF TracerInv, Attributed
<1> QED
  BY <1>5, <1>6, <1>7, <1>9 DEF TracerInv

LEMMA SpeakeasyInv == ASSUME TracerInv, SpeakeasyApi PROVE TracerInv'
<1> DEFINE n == NameAt[pc]
<1>1. /\ phase = "at" /\ phase' \in {"at", "returned"} /\ Speakeasy /\ pc \in Exports
      /\ steps' = steps /\ left' = left /\ last' = n /\ counters' = Counted(Handler(n))
      /\ seqs' = IF last = NoName THEN seqs ELSE seqs \cup {<<last, n>>}
      /\ invokes' = IF cur' = None THEN invokes ELSE invokes \cup {<<cur', n>>}
      /\ made' = made \cup {<<cur', n>>}
      /\ mode' = mode /\ registry' = registry /\ skeleton' = skeleton /\ round' = round
  BY DEF SpeakeasyApi, roundVars
<1>2. PICK arg \in ArgValues : events' = Append(events, [CallEvent("api", n, arg) EXCEPT !.arg = arg])
  BY DEF SpeakeasyApi
<1>3. n \in Names
  BY <1>1, TracerAssumption
<1>4. Types /\ ~ControlFlow
  BY <1>1 DEF TracerInv, Speakeasy, ControlFlow
<1> HIDE DEF n
<1> DEFINE ev == [CallEvent("api", n, arg) EXCEPT !.arg = arg]
<1>5. ev \in Event /\ ev.name = n /\ ev.stub = Handler(n)
  BY <1>3, <1>4, EventOf DEF CallEvent
<1>6. events' = Append(events, ev)
  BY <1>2
<1> HIDE DEF ev
<1>7. events' \in Seq(Event) /\ Sequenced' /\ Edited'
  BY <1>1, <1>5, <1>6, EventAppended
<1>8. /\ counters' \in [Keys -> Nat] /\ registry' \in [Names -> Stubs] /\ skeleton' \subseteq Names
      /\ ~ControlFlow' /\ Speakeasy'
  BY <1>1, <1>3, <1>4, StubOf DEF Types, ControlFlow, Speakeasy
<1>9. Types'
  BY <1>1, <1>7, <1>8 DEF TracerInv, Types
<1>10. Budget'
  BY <1>1 DEF TracerInv, Types, Budget
<1>11. Attributed'
  <2>1. invokes = {m \in made : m[1] # None}
    BY <1>1 DEF TracerInv, Attributed
  <2>2. invokes' = {m \in made' : m[1] # None}
    BY <1>1, <2>1, CallAttributed
  <2> QED
    BY <1>8, <2>2 DEF Attributed
<1> QED
  BY <1>7, <1>9, <1>10, <1>11 DEF TracerInv

------------------------------------------------------------------------------
(* A second trace, and the theorems                                          *)

LEMMA EditInv == ASSUME TracerInv, EditAndTraceAgain PROVE TracerInv'
<1>1. /\ phase' = "ready" /\ steps' = 0 /\ left' = 0 /\ events' = <<>> /\ seqs' = {} /\ last' = NoName
      /\ counters' = CounterStart /\ invokes' = {} /\ made' = {} /\ cur' = None /\ here' = None
      /\ redirect' = None
      /\ skeleton' = {events[i].name : i \in 1 .. Len(events)}
  BY DEF EditAndTraceAgain, Fresh
<1>2. PICK edited \in {"zero", "stop"} :
          registry' = [n \in Names |-> IF n \in Loaded THEN edited ELSE Library[n]]
  BY DEF EditAndTraceAgain
<1>3. skeleton' \subseteq Names
  BY <1>1, EventsAre DEF TracerInv, Types
<1>4. Types'
  BY <1>1, <1>2, <1>3, NoEvents, TracerAssumption DEF Types, Stubs
<1>5. Budget'
  BY <1>1, TracerAssumption DEF Budget
<1>6. Attributed'
  BY <1>1 DEF Attributed
<1>7. Sequenced'
  BY <1>1, NoEvents DEF Sequenced
<1>8. \A n \in skeleton' \ Private : registry'[n] \in {"zero", "stop"}
  BY <1>2, <1>3 DEF Loaded
<1>9. Edited'
  BY <1>1, <1>8, NoEvents DEF Edited, EditedStubWins
<1> QED
  BY <1>4, <1>5, <1>6, <1>7, <1>9 DEF TracerInv

LEMMA TracerKept == ASSUME TracerInv, [Next]_tracerVars PROVE TracerInv'
  BY EnterUnitInv, RunUnitInv, RestartInv, OtherInv, EnterApiInv, SyscallInv, SpeakeasyInv, EditInv DEF Next

\* What a restart of emulation carries over: the count left, the unit the next
\* call stems from, the call before it, the stubs (BehaviorTracer.run).
THEOREM TracerInvariant == Spec => []TracerInv
  BY InitTracer, TracerKept, PTL DEF Spec

\* All restarts of one trace together list at most max_steps units, and the
\* one that is announced when the count runs out.
THEOREM TracerBudgetHeld == Spec => []BudgetHeld
<1>1. TracerInv => BudgetHeld
  <2> SUFFICES ASSUME TracerInv
               PROVE  BudgetHeld
    OBVIOUS
  <2>1. /\ steps \in Nat /\ left \in Nat /\ MaxSteps \in Nat /\ steps <= MaxSteps + 1
        /\ phase = "at" => steps + left <= MaxSteps
        /\ phase = "in" => steps + left <= MaxSteps + 1
    BY TracerAssumption DEF TracerInv, Types, Budget
  <2> QED
    BY <2>1 DEF BudgetHeld
<1> QED
  BY <1>1, TracerInvariant, PTL

\* Every call is invoked by the code that made it, calls follow each other as
\* they were made, and the stub the analyst edited is the one that answered.
THEOREM TracerCallsAreTrue == Spec => []CallsAreTrue
<1>1. TracerInv => CallsAreTrue
  BY DEF TracerInv, Attributed, Sequenced, Edited, CallsAreTrue, CallsAttributed
<1> QED
  BY <1>1, TracerInvariant, PTL
------------------------------------------------------------------------------
(* The graph: types, probes and transfers                                    *)

\* Where control may go from a unit, when the calls it made are not intercepted.
Successors(u) ==
    CASE Term[u] = "fall" -> {u + 1} [] Term[u] = "jump" -> Goes[u] \cup {u + 1} [] OTHER -> Goes[u]

\* To d from a unit of S, by way of zero-filled memory or directly.
Into(d, S) == d \in S \/ \E u \in S : u < d /\ u .. d - 1 \subseteq Zero

\* FlowIsReal of one edge, R the units where emulation was restarted.
RealEdge(e, R) ==
    CASE e.type = "fall" -> Term[e.src] = "fall" /\ Into(e.dst, {e.src + 1} \cup R)
      [] e.type = "jump_false" -> Term[e.src] = "jump" /\ e.dst = e.src + 1
      [] e.type = "jump_true" ->
             Term[e.src] = "jump" /\ e.dst # e.src + 1 /\ Into(e.dst, Goes[e.src] \cup {e.src + 1} \cup R)
      [] e.type = "call" -> Term[e.src] = "call" /\ Into(e.dst, (Goes[e.src] \ Exports) \cup R)
      [] OTHER -> Term[e.src] = "ret"

\* What the type invariant leaves open of the call graph and of the real stack.
Stacks ==
    /\ fn \in [cur : {None} \cup Units, stack : Seq(Units), term : {"none", "fall", "jump", "call", "ret"}]
    /\ real \in [cur : Units, stack : Seq(Units)]

\* The probe that lists code and the one that joins it are at the same unit,
\* a listed one; what it tags is a unit that wrote.
Probes ==
    /\ prev = (IF ControlFlow THEN cur ELSE None)
    /\ prev \in {None} \cup Units /\ (phase = "ready" => cur = None)
    /\ cur # None => cur \in nodes
    /\ TagsAreWriters

\* Between listed units there is nothing but transfers into zero-filled memory,
\* restarts and the zero-filled memory itself.
Transfers ==
    /\ FlowIsReal /\ resumed \subseteq 0 .. NUnits + 1
    /\ \A e \in flow : e.dst \in Units /\ e.type \in {"fall", "jump_false", "jump_true", "call", "ret"}
    /\ prev # None /\ (phase = "at" \/ (phase \in {"in", "called"} /\ pc \in Zero)) =>
          Term[prev] = "ret" \/ Into(pc, Successors(prev) \cup resumed)

\* FunctionEntered of a shadow stack f.
Learned(f, u) ==
    IF f.cur = None THEN [f EXCEPT !.cur = u, !.term = Term[u]]
    ELSE IF f.term = "call" THEN [cur |-> u, stack |-> <<f.cur>> \o f.stack, term |-> Term[u]]
    ELSE IF f.term = "ret" /\ f.stack # <<>>
         THEN [cur |-> Head(f.stack), stack |-> Tail(f.stack), term |-> Term[u]]
    ELSE [f EXCEPT !.term = Term[u]]

\* The shadow stack follows the real one by a step: it learns from the next
\* block what the last instruction of this one did.
Shadowed ==
    CallGraph /\ ~met =>
       /\ redirect = None
       /\ phase = "ready" => pc = 1 /\ fn.cur = None /\ fn.stack = <<>> /\ real.cur = 1 /\ real.stack = <<>>
       /\ phase \in {"in", "called"} =>
             pc \notin Exports /\ fn.cur = real.cur /\ fn.stack = real.stack /\ fn.term = Term[pc]
       /\ phase = "at" /\ pc \in Units \ Exports =>
             Learned(fn, pc).cur = real.cur /\ Learned(fn, pc).stack = real.stack

GraphIsFinite == IsFiniteSet(flow) /\ IsFiniteSet(seqs) /\ IsFiniteSet(invokes)

GraphInv == TypeOK /\ Stacks /\ Probes /\ Transfers /\ Shadowed /\ GraphIsFinite

LEMMA Machine ==
    /\ NUnits \in Nat /\ NUnits > 0 /\ Units = 1 .. NUnits /\ 1 \in Units /\ None = 0
    /\ \A u \in Units : u + 1 \in 2 .. NUnits + 1 /\ Goes[u] \subseteq Units /\ Insns[u] \in Nat
    /\ Units \subseteq 0 .. NUnits + 1 /\ 2 .. NUnits + 1 \subseteq 1 .. NUnits + 1
    /\ 1 .. NUnits + 1 \subseteq 0 .. NUnits + 1
    /\ MaxSteps \in Nat /\ Exports \subseteq Units /\ Zero \subseteq Units
  BY TracerAssumption DEF Units, None

\* Stacks of any kind of element, as pushes and pops use them.
LEMMA PushPop ==
    ASSUME NEW S, NEW s \in Seq(S), NEW x \in S
    PROVE  /\ <<x>> \o s \in Seq(S) /\ <<x>> \o s # <<>> /\ Head(<<x>> \o s) = x /\ Tail(<<x>> \o s) = s
           /\ s # <<>> => Head(s) \in S /\ Tail(s) \in Seq(S)
<1>1. <<x>> \in Seq(S) /\ Len(<<x>>) = 1
  OBVIOUS
<1>2. <<x>> \o s \in Seq(S) /\ Len(<<x>> \o s) = Len(s) + 1
  BY <1>1
<1>3. Head(<<x>> \o s) = x
  BY <1>1, <1>2
<1>4. Tail(<<x>> \o s) = s
  BY <1>1, <1>2
<1> QED
  BY <1>2, <1>3, <1>4

\* Addresses are stacked, popped and jumped to.
LEMMA Addresses ==
    /\ <<>> \in Seq(2 .. NUnits + 1)
    /\ \A s \in Seq(2 .. NUnits + 1) :
          s # <<>> => Head(s) \in 2 .. NUnits + 1 /\ Tail(s) \in Seq(2 .. NUnits + 1)
<1> DEFINE S == 2 .. NUnits + 1
<1>1. <<>> \in Seq(S) /\ \A s \in Seq(S) : s # <<>> => Head(s) \in S /\ Tail(s) \in Seq(S)
  <2> HIDE DEF S
  <2> QED
    OBVIOUS
<1> QED
  BY <1>1

LEMMA InitGraph == Init => GraphInv
<1> SUFFICES ASSUME Init
             PROVE  GraphInv
  OBVIOUS
<1>1. TypeOK
  <2>1. /\ mode \in Modes /\ phase = "ready" /\ pc = 1 /\ stack = <<>> /\ left = 0
        /\ lr \in StartLinks \/ lr = 0
        /\ redirect = 0 /\ stopped = FALSE /\ reason = "none" /\ cur = 0 /\ prev = 0 /\ steps = 0
        /\ last = NoName /\ nodes = {} /\ tagged = {} /\ fn.cur = 0 /\ round = 1 /\ skeleton = {}
        /\ counters = CounterStart /\ registry = Library
    BY DEF Init, None
  <2>2. CounterStart \in [Keys -> Nat] /\ Library \in [Names -> Stubs]
    BY TracerAssumption
  <2>3. /\ 0 \in 0 .. NUnits + 1 /\ 1 \in 0 .. NUnits + 1 /\ 0 \in 0 .. MaxSteps
        /\ StartLinks \subseteq 0 .. NUnits + 1
    BY Machine, TracerAssumption
  <2> QED
    BY <2>1, <2>2, <2>3, Addresses DEF TypeOK, None
<1>2. Stacks
  BY Machine DEF Init, Stacks
<1>3. Probes
  BY DEF Init, Probes, TagsAreWriters
<1>4. Transfers
  BY DEF Init, Transfers, FlowIsReal
<1>5. Shadowed
  BY DEF Init, Shadowed
<1>6. GraphIsFinite
  BY FS_EmptySet DEF Init, GraphIsFinite
<1> QED
  BY <1>1, <1>2, <1>3, <1>4, <1>5, <1>6 DEF GraphInv

LEMMA FunctionEnteredType ==
    ASSUME Stacks, NEW u \in Units
    PROVE  FunctionEntered(u) \in [cur : Units, stack : Seq(Units), term : {"fall", "jump", "call", "ret"}]
<1>1. Term[u] \in {"fall", "jump", "call", "ret"} /\ fn.cur \in {None} \cup Units /\ fn.stack \in Seq(Units)
  BY TracerAssumption DEF Stacks
<1>2. fn.cur # None => <<fn.cur>> \o fn.stack \in Seq(Units)
  BY <1>1, PushPop
<1>3. fn.stack # <<>> => Head(fn.stack) \in Units /\ Tail(fn.stack) \in Seq(Units)
  BY <1>1
<1> QED
  BY <1>1, <1>2, <1>3 DEF FunctionEntered, Stacks

\* A step leaves the stacks and registers of the CPU to RunUnit and to calls.
LEMMA EnterUnitTypes == ASSUME TracerInv', TypeOK, Stacks, EnterUnit PROVE TypeOK' /\ Stacks'
<1>1. /\ pc \in Units /\ UNCHANGED <<pc, stack, lr, left, redirect, stopped, reason, last, tagged, mode, round, real>>
      /\ cur' \in {cur, pc} /\ prev' \in {prev, pc} /\ nodes' \in {nodes, nodes \cup {pc}}
      /\ fn' \in {fn, FunctionEntered(pc)} /\ phase' = "in"
  BY DEF EnterUnit, cpuVars, runVars, roundVars
<1>2. fn' \in [cur : {None} \cup Units, stack : Seq(Units), term : {"none", "fall", "jump", "call", "ret"}]
  BY <1>1, FunctionEnteredType DEF Stacks
<1>3. Stacks'
  BY <1>1, <1>2 DEF Stacks
<1>4. /\ steps' \in Nat /\ counters' \in [Keys -> Nat] /\ registry' \in [Names -> Stubs] /\ skeleton' \subseteq Names
  BY DEF TracerInv, Types
<1>5. fn'.cur \in {None} \cup Units
  BY <1>2
<1>6. {cur', prev'} \subseteq 0 .. NUnits + 1 /\ nodes' \subseteq 1 .. NUnits + 1 /\ tagged' \subseteq nodes'
  BY <1>1, Machine DEF TypeOK
<1> QED
  BY <1>1, <1>3, <1>4, <1>5, <1>6 DEF TypeOK

LEMMA RunUnitTypes == ASSUME TracerInv, TracerInv', TypeOK, Stacks, RunUnit PROVE TypeOK' /\ Stacks'
<1>1. /\ phase \in {"in", "called"} /\ phase' = "at" /\ left >= Insns[pc] /\ left' = left - Insns[pc]
      /\ UNCHANGED <<redirect, stopped, reason, last, tagged, mode, round, cur, prev, nodes, fn>>
  BY DEF RunUnit, runVars, graphVars, roundVars
<1>2. pc \in Units /\ left \in 0 .. MaxSteps /\ Insns[pc] \in Nat
  BY <1>1, Machine DEF TracerInv, Types, TypeOK
<1>3. left' \in 0 .. MaxSteps
  BY <1>1, <1>2, Machine
<1>4. pc' \in 0 .. NUnits + 1 /\ stack' \in Seq(2 .. NUnits + 1) /\ lr' \in 0 .. NUnits + 1 /\ Stacks'
  <2>1. /\ stack \in Seq(2 .. NUnits + 1) /\ lr \in 0 .. NUnits + 1
        /\ real \in [cur : Units, stack : Seq(Units)] /\ real.cur \in Units /\ real.stack \in Seq(Units)
    BY DEF TypeOK, Stacks
  <2>2. pc + 1 \in 2 .. NUnits + 1 /\ pc + 1 \in 0 .. NUnits + 1 /\ Goes[pc] \subseteq Units
        /\ Units \subseteq 0 .. NUnits + 1 /\ None \in 0 .. NUnits + 1 /\ 2 .. NUnits + 1 \subseteq 0 .. NUnits + 1
    BY <1>2, Machine
  <2>3. fn' = fn
    BY <1>1
  <2>4. CASE Term[pc] \in {"fall", "jump"}
    <3>1. pc' \in Goes[pc] \cup {pc + 1} /\ stack' = stack /\ lr' = lr /\ real' = real
      BY <2>4 DEF RunUnit
    <3> QED
      BY <2>1, <2>2, <2>3, <3>1 DEF Stacks
  <2>5. CASE Term[pc] = "call"
    <3>1. PICK target \in Goes[pc] :
             /\ pc' = target /\ lr' = pc + 1
             /\ stack' = IF LinkRegister /\ ControlFlow /\ target \in Exports THEN stack ELSE <<pc + 1>> \o stack
             /\ real' = IF target \in Exports THEN real
                        ELSE [cur |-> target, stack |-> <<real.cur>> \o real.stack]
      BY <2>5 DEF RunUnit
    <3>2. <<pc + 1>> \o stack \in Seq(2 .. NUnits + 1) /\ <<real.cur>> \o real.stack \in Seq(Units)
      BY <2>1, <2>2, PushPop
    <3>3. real' \in [cur : Units, stack : Seq(Units)]
      BY <2>1, <2>2, <3>1, <3>2
    <3> QED
      BY <2>1, <2>2, <2>3, <3>1, <3>2, <3>3 DEF Stacks
  <2>6. CASE Term[pc] \notin {"fall", "jump", "call"}
    <3>1. IF stack = <<>> THEN pc' = None /\ stack' = stack /\ lr' = lr /\ real' = real
          ELSE /\ pc' = Head(stack) /\ stack' = Tail(stack) /\ lr' = Head(stack)
               /\ real' = IF real.stack = <<>> \/ pc \in Exports THEN real
                          ELSE [cur |-> Head(real.stack), stack |-> Tail(real.stack)]
      BY <2>6 DEF RunUnit
    <3>2. stack # <<>> => Head(stack) \in 2 .. NUnits + 1 /\ Tail(stack) \in Seq(2 .. NUnits + 1)
      BY <2>1, Addresses
    <3>3. real.stack # <<>> => Head(real.stack) \in Units /\ Tail(real.stack) \in Seq(Units)
      BY <2>1
    <3>4. real' \in [cur : Units, stack : Seq(Units)]
      BY <2>1, <3>1, <3>3
    <3> QED
      BY <2>1, <2>2, <2>3, <3>1, <3>2, <3>4 DEF Stacks
  <2>7. Term[pc] \in {"fall", "jump", "call", "ret"}
    BY <1>2, TracerAssumption
  <2> QED
    BY <2>4, <2>5, <2>6
<1>5. /\ steps' \in Nat /\ counters' \in [Keys -> Nat] /\ registry' \in [Names -> Stubs] /\ skeleton' \subseteq Names
  BY DEF TracerInv, Types
<1> QED
  BY <1>1, <1>3, <1>4, <1>5 DEF TypeOK

\* A call takes a return address off the stack, or out of the link register.
LEMMA CallTypes ==
    ASSUME TracerInv, TracerInv', TypeOK, Stacks, EnterApi \/ Syscall \/ SpeakeasyApi
    PROVE  TypeOK' /\ Stacks'
<1>1. /\ phase \in {"at", "in"} /\ phase' \in {"at", "called", "returned"}
      /\ UNCHANGED <<lr, left, mode, round, tagged, fn, real, prev>>
      /\ last' = NameAt[pc] /\ NameAt[pc] # NoName /\ pc \in Units
  BY Machine, TracerAssumption DEF EnterApi, Syscall, SpeakeasyApi, EmitCall, cpuVars, roundVars, TracerInv, Types
<1>2. NameAt[pc] \in Names
  BY <1>1, TracerAssumption
<1>3. stopped' \in BOOLEAN /\ reason' \in {"none", "stub", "fault", "max_steps", "max_calls"}
  BY DEF EnterApi, Syscall, SpeakeasyApi, TypeOK
<1>4. stack # <<>> => Head(stack) \in 2 .. NUnits + 1 /\ Tail(stack) \in Seq(2 .. NUnits + 1)
  BY Addresses DEF TypeOK
<1>5. /\ stack' \in {stack, Tail(stack)} /\ (stack = <<>> => stack' = stack)
      /\ redirect' \in {redirect, lr, Head(stack)} /\ (stack = <<>> => redirect' \in {redirect, lr})
      /\ pc' \in {pc, None, Head(stack)} /\ (stack = <<>> => pc' \in {pc, None})
      /\ cur' \in {cur, Head(stack)} /\ (stack = <<>> => cur' = cur)
      /\ nodes' \in {nodes, nodes \cup {Head(stack)}} /\ (stack = <<>> => nodes' = nodes)
  BY DEF EnterApi, Syscall, SpeakeasyApi, cpuVars
<1>6. /\ stack' \in Seq(2 .. NUnits + 1) /\ redirect' \in 0 .. NUnits + 1 /\ pc' \in 0 .. NUnits + 1
      /\ cur' \in 0 .. NUnits + 1 /\ nodes' \subseteq 1 .. NUnits + 1 /\ tagged' \subseteq nodes'
  <2>1. /\ stack \in Seq(2 .. NUnits + 1) /\ {redirect, lr, pc, cur, None} \subseteq 0 .. NUnits + 1
        /\ nodes \subseteq 1 .. NUnits + 1 /\ tagged' \subseteq nodes
    BY <1>1, Machine DEF TypeOK
  <2>2. stack # <<>> => Head(stack) \in 0 .. NUnits + 1 /\ Head(stack) \in 1 .. NUnits + 1
    BY <1>4, Machine
  <2> QED
    BY <1>4, <1>5, <2>1, <2>2
<1>7. /\ steps' \in Nat /\ counters' \in [Keys -> Nat] /\ registry' \in [Names -> Stubs] /\ skeleton' \subseteq Names
  BY DEF TracerInv, Types
<1> QED
  BY <1>1, <1>2, <1>3, <1>6, <1>7 DEF TypeOK, Stacks

LEMMA OtherTypes ==
    ASSUME TracerInv, TracerInv', TypeOK, Stacks, Probes, [Next]_tracerVars,
           ~(EnterUnit \/ RunUnit \/ EnterApi \/ Syscall \/ SpeakeasyApi)
    PROVE  TypeOK' /\ Stacks'
<1>1. /\ steps' \in Nat /\ counters' \in [Keys -> Nat] /\ registry' \in [Names -> Stubs] /\ skeleton' \subseteq Names
  BY DEF TracerInv, Types
<1>2. CASE EditAndTraceAgain
  <2>1. /\ mode' \in Modes /\ phase' = "ready" /\ pc' = 1 /\ stack' = <<>> /\ left' = 0
        /\ lr' \in StartLinks \/ lr' = 0
        /\ redirect' = 0 /\ stopped' = FALSE /\ reason' = "none" /\ cur' = 0 /\ prev' = 0
        /\ last' = NoName /\ nodes' = {} /\ tagged' = {} /\ fn' = [cur |-> 0, stack |-> <<>>, term |-> "none"]
        /\ real' = [cur |-> 1, stack |-> <<>>] /\ round' = round + 1
    BY <1>2 DEF EditAndTraceAgain, Fresh, None
  <2>2. Stacks'
    BY <2>1, Machine DEF Stacks
  <2>3. /\ 0 \in 0 .. NUnits + 1 /\ 1 \in 0 .. NUnits + 1 /\ 0 \in 0 .. MaxSteps /\ round' \in Nat
        /\ StartLinks \subseteq 0 .. NUnits + 1
    BY <2>1, Machine, TracerAssumption DEF TypeOK
  <2>4. TypeOK'
    BY <1>1, <2>1, <2>3, Addresses DEF TypeOK, None
  <2> QED
    BY <2>2, <2>4
<1>3. CASE ~EditAndTraceAgain
  <2>1. /\ BeginRun \/ WriteExec \/ Fault \/ CountReached \/ Restart \/ EndRun \/ LinkDataflow \/ UNCHANGED tracerVars
    BY <1>3 DEF Next
  <2>2. /\ UNCHANGED <<stack, lr, cur, prev, last, nodes, fn, real, mode, round, stopped>>
        /\ pc' \in {pc, redirect} /\ redirect' \in {redirect, None}
        /\ reason' \in {reason, "fault", "max_steps"}
        /\ tagged' \in {tagged, tagged \cup {cur}} /\ (cur = None => tagged' = tagged)
        /\ phase' \in {phase, "at", "returned", "linking", "done"}
    BY <2>1 DEF BeginRun, WriteExec, Fault, CountReached, Restart, EndRun, LinkDataflow, tracerVars, cpuVars,
       runVars, graphVars, roundVars, ghosts
  <2>3. left' \in {left, MaxSteps} \/ (steps < MaxSteps /\ left' = MaxSteps - steps)
    BY <2>1 DEF BeginRun, WriteExec, Fault, CountReached, Restart, EndRun, LinkDataflow, tracerVars, cpuVars
  <2>4. left' \in 0 .. MaxSteps
    BY <2>3, Machine DEF TypeOK
  <2>5. tagged' \subseteq nodes'
    BY <2>2 DEF Probes, TypeOK
  <2>6. redirect' \in 0 .. NUnits + 1 /\ pc' \in 0 .. NUnits + 1
    BY <2>2, Machine DEF TypeOK
  <2>7. Stacks'
    BY <2>2 DEF Stacks
  <2>8. nodes' \subseteq 1 .. NUnits + 1
    BY <2>2 DEF TypeOK
  <2> QED
    BY <1>1, <2>2, <2>4, <2>5, <2>6, <2>7, <2>8 DEF TypeOK
<1> QED
  BY <1>2, <1>3

LEMMA TypesKept ==
    ASSUME TracerInv, TracerInv', TypeOK, Stacks, Probes, [Next]_tracerVars
    PROVE  TypeOK' /\ Stacks'
  BY EnterUnitTypes, RunUnitTypes, CallTypes, OtherTypes

LEMMA ProbesKept ==
    ASSUME TracerInv, TypeOK, Probes, [Next]_tracerVars
    PROVE  Probes'
<1>1. CASE EnterUnit
  <2>1. /\ pc \in Units /\ phase' = "in" /\ tagged' = tagged /\ (ControlFlow' <=> ControlFlow)
        /\ IF ControlFlow /\ pc \notin Zero
           THEN cur' = pc /\ prev' = pc /\ nodes' = nodes \cup {pc}
           ELSE cur' = cur /\ prev' = prev /\ nodes' = nodes
    BY <1>1 DEF EnterUnit, roundVars, ControlFlow
  <2> QED
    BY <2>1, Machine DEF Probes, TagsAreWriters
<1>2. CASE WriteExec
  <2>1. /\ phase = "in" /\ phase' = "in" /\ pc \in Writers /\ ~Speakeasy /\ cur # None
        /\ tagged' = tagged \cup {cur} /\ cur' = cur /\ prev' = prev /\ nodes' = nodes
        /\ (ControlFlow' <=> ControlFlow)
    BY <1>2 DEF WriteExec, roundVars, ControlFlow
  <2>2. pc \notin Zero => cur = pc
    BY <2>1 DEF TracerInv, Attributed
  <2>3. TagsAreWriters'
    BY <2>1, <2>2 DEF Probes, TagsAreWriters
  <2> QED
    BY <2>1, <2>3 DEF Probes
<1>3. CASE SpeakeasyApi
  <2>1. /\ mode' = mode /\ prev' = prev /\ tagged' = tagged /\ phase' # "ready"
        /\ \/ cur' = cur /\ nodes' = nodes
           \/ cur' \in nodes' /\ nodes \subseteq nodes'
        /\ ~ControlFlow /\ ~ControlFlow'
    BY <1>3 DEF SpeakeasyApi, roundVars, ControlFlow, Speakeasy
  <2> QED
    BY <2>1 DEF Probes, TagsAreWriters
<1>4. CASE EditAndTraceAgain
  <2>1. cur' = None /\ prev' = None /\ tagged' = {}
    BY <1>4 DEF EditAndTraceAgain, Fresh
  <2> QED
    BY <2>1 DEF Probes, TagsAreWriters
<1>5. CASE ~(EnterUnit \/ WriteExec \/ SpeakeasyApi \/ EditAndTraceAgain)
  <2>1. /\ mode' = mode /\ cur' = cur /\ prev' = prev /\ tagged' = tagged /\ nodes' = nodes
        /\ phase' = "ready" => phase = "ready"
    BY <1>5 DEF Next, BeginRun, EnterApi, Syscall, RunUnit, Fault, CountReached, Restart, EndRun, LinkDataflow,
       tracerVars, graphVars, roundVars
  <2> QED
    BY <2>1 DEF Probes, TagsAreWriters, ControlFlow
<1> QED
  BY <1>1, <1>2, <1>3, <1>4, <1>5

LEMMA FlowIsRealEdges == FlowIsReal <=> \A e \in flow : RealEdge(e, resumed)
  BY DEF FlowIsReal, RealEdge, Into

LEMMA IntoGrows ==
    ASSUME NEW d, NEW S, NEW T, S \subseteq T, Into(d, S)
    PROVE  Into(d, T)
  BY DEF Into

LEMMA RealEdgeGrows ==
    ASSUME NEW e, NEW R, NEW T, R \subseteq T, RealEdge(e, R)
    PROVE  RealEdge(e, T)
<1>1. \A S : S \cup R \subseteq S \cup T
  OBVIOUS
<1>2. \A S : Into(e.dst, S \cup R) => Into(e.dst, S \cup T)
  BY <1>1, IntoGrows
<1>3. \A S : Into(e.dst, S \cup {e.src + 1} \cup R) => Into(e.dst, S \cup {e.src + 1} \cup T)
  BY <1>2
<1> QED
  BY <1>2, <1>3 DEF RealEdge

\* The edge EnterUnit adds.
LEMMA NewEdgeIsReal ==
    ASSUME NEW R \in SUBSET (0 .. NUnits + 1), NEW u \in Units \ Exports, prev \in Units,
           Term[prev] = "ret" \/ Into(u, Successors(prev) \cup R)
    PROVE  /\ RealEdge(FlowEdge(u), R) /\ FlowEdge(u).dst \in Units
           /\ FlowEdge(u).type \in {"fall", "jump_false", "jump_true", "call", "ret"}
<1> DEFINE e == FlowEdge(u)
<1>1. /\ e.src = prev /\ e.dst = u /\ Term[prev] \in {"fall", "jump", "call", "ret"}
      /\ e.type = IF Term[prev] = "jump" THEN (IF u = prev + 1 THEN "jump_false" ELSE "jump_true") ELSE Term[prev]
  BY TracerAssumption DEF FlowEdge, Edge
<1> HIDE DEF e
<1>2. CASE Term[prev] \in {"fall", "jump"}
  <2>1. Successors(prev) = IF Term[prev] = "fall" THEN {prev + 1} ELSE Goes[prev] \cup {prev + 1}
    BY <1>2 DEF Successors
  <2>2. Into(u, Successors(prev) \cup R)
    BY <1>2
  <2>3. CASE Term[prev] = "fall"
    BY <1>1, <2>1, <2>2, <2>3 DEF RealEdge, e
  <2>4. CASE Term[prev] = "jump"
    BY <1>1, <2>1, <2>2, <2>4 DEF RealEdge, e
  <2> QED
    BY <1>2, <2>3, <2>4
<1>3. CASE Term[prev] = "call"
  <2>1. Into(u, Goes[prev] \cup R)
    BY <1>3 DEF Successors
  <2>2. Into(u, (Goes[prev] \ Exports) \cup R)
    <3>1. CASE u \in Goes[prev] \cup R
      BY <3>1 DEF Into
    <3>2. CASE u \notin Goes[prev] \cup R
      <4>1. PICK w \in Goes[prev] \cup R : w < u /\ w .. u - 1 \subseteq Zero
        BY <2>1, <3>2 DEF Into
      <4>2. w \in 0 .. NUnits + 1 /\ u \in 0 .. NUnits + 1
        BY <4>1, Machine
      <4>3. w \in w .. u - 1
        BY <4>1, <4>2, Machine
      <4>4. w \notin Exports
        BY <4>1, <4>3, TracerAssumption
      <4> QED
        BY <4>1, <4>4 DEF Into
    <3> QED
      BY <3>1, <3>2
  <2> QED
    BY <1>1, <1>3, <2>2 DEF RealEdge, e
<1>4. CASE Term[prev] = "ret"
  BY <1>1, <1>4 DEF RealEdge, e
<1> QED
  BY <1>1, <1>2, <1>3, <1>4

\* Zero-filled memory falls through.
LEMMA IntoNext ==
    ASSUME NEW d \in Units, NEW S \in SUBSET (0 .. NUnits + 1), Into(d, S), d \in Zero
    PROVE  Into(d + 1, S)
<1>1. PICK u \in S : u = d \/ (u < d /\ u .. d - 1 \subseteq Zero)
  BY DEF Into
<1>2. u \in Nat /\ d \in Nat /\ u < d + 1 /\ (d + 1) - 1 = d
  BY <1>1, Machine
<1>3. \A v \in u .. d : v = d \/ v \in u .. d - 1
  BY <1>2
<1>4. u .. d \subseteq Zero
  BY <1>1, <1>2, <1>3
<1> QED
  BY <1>1, <1>2, <1>4 DEF Into

LEMMA SuccessorsType == ASSUME NEW u \in Units PROVE Successors(u) \subseteq 0 .. NUnits + 1
<1>1. u + 1 \in 0 .. NUnits + 1 /\ Goes[u] \subseteq 0 .. NUnits + 1
  BY Machine
<1> QED
  BY <1>1 DEF Successors

LEMMA TransfersKept ==
    ASSUME TracerInv, TypeOK, Probes, Transfers, [Next]_tracerVars
    PROVE  Transfers'
<1>1. CASE EnterUnit
  <2>1. /\ phase = "at" /\ pc \in Units /\ phase' = "in" /\ pc' = pc /\ resumed' = resumed
        /\ (ControlFlow => pc \notin Exports)
        /\ IF ControlFlow /\ pc \notin Zero
           THEN prev' = pc /\ flow' = IF prev = None THEN flow ELSE flow \cup {FlowEdge(pc)}
           ELSE prev' = prev /\ flow' = flow
    BY <1>1 DEF EnterUnit, cpuVars
  <2>2. prev # None => Term[prev] = "ret" \/ Into(pc, Successors(prev) \cup resumed)
    BY <2>1 DEF Transfers
  <2>3. \A e \in flow : RealEdge(e, resumed)
    BY FlowIsRealEdges DEF Transfers
  <2>4. CASE ControlFlow /\ pc \notin Zero
    <3>1. prev # None => /\ RealEdge(FlowEdge(pc), resumed) /\ FlowEdge(pc).dst \in Units
                         /\ FlowEdge(pc).type \in {"fall", "jump_false", "jump_true", "call", "ret"}
      BY <2>1, <2>2, <2>4, NewEdgeIsReal DEF Probes, Transfers
    <3>2. \A e \in flow' : RealEdge(e, resumed')
      BY <2>1, <2>3, <2>4, <3>1
    <3>3. FlowIsReal'
      BY <3>2 DEF FlowIsReal, RealEdge, Into
    <3> QED
      BY <2>1, <2>4, <3>1, <3>3 DEF Transfers
  <2>5. CASE ~(ControlFlow /\ pc \notin Zero)
    <3>1. FlowIsReal'
      BY <2>1, <2>5 DEF Transfers, FlowIsReal
    <3> QED
      BY <2>1, <2>2, <2>5, <3>1 DEF Transfers
  <2> QED
    BY <2>4, <2>5
<1>2. CASE RunUnit
  <2>1. /\ phase \in {"in", "called"} /\ phase' = "at" /\ prev' = prev /\ flow' = flow /\ resumed' = resumed
        /\ pc \in Units
    BY <1>2 DEF RunUnit, graphVars, TracerInv, Types
  <2>2. FlowIsReal'
    BY <2>1 DEF Transfers, FlowIsReal
  <2>3. ASSUME prev # None, Term[prev] # "ret"
        PROVE  Into(pc', Successors(prev) \cup resumed)
    <3>1. ControlFlow /\ prev = cur /\ prev \in Units
      BY <2>3 DEF Probes
    <3>2. CASE pc \in Zero
      <4>1. Into(pc, Successors(prev) \cup resumed)
        BY <2>1, <2>3, <3>2 DEF Transfers
      <4>2. Term[pc] = "fall" /\ pc' = pc + 1
        BY <1>2, <3>2, TracerAssumption DEF RunUnit
      <4>3. Successors(prev) \cup resumed \subseteq 0 .. NUnits + 1
        BY <3>1, SuccessorsType DEF Transfers
      <4> QED
        BY <2>1, <3>2, <4>1, <4>2, <4>3, IntoNext
    <3>3. CASE pc \notin Zero
      <4>1. prev = pc
        BY <2>1, <3>1, <3>3 DEF TracerInv, Attributed
      <4>2. Term[pc] \in {"fall", "jump", "call"}
        BY <2>1, <2>3, <4>1, TracerAssumption
      <4>3. pc' \in Successors(prev)
        BY <1>2, <4>1, <4>2 DEF RunUnit, Successors
      <4> QED
        BY <4>3 DEF Into
    <3> QED
      BY <3>2, <3>3
  <2> QED
    BY <2>1, <2>2, <2>3 DEF Transfers, Successors, Into
<1>3. CASE Restart
  <2>1. /\ phase' = "at" /\ pc' = redirect /\ resumed' = resumed \cup {redirect} /\ flow' = flow /\ prev' = prev
    BY <1>3 DEF Restart, graphVars
  <2>2. \A e \in flow' : RealEdge(e, resumed')
    BY <2>1, FlowIsRealEdges, RealEdgeGrows DEF Transfers
  <2>3. FlowIsReal'
    BY <2>2 DEF FlowIsReal, RealEdge, Into
  <2>4. resumed' \subseteq 0 .. NUnits + 1
    BY <2>1 DEF TypeOK, Transfers
  <2>5. \A S : Into(pc', S \cup resumed')
    BY <2>1 DEF Into
  <2> QED
    BY <2>1, <2>3, <2>4, <2>5 DEF Transfers, Successors, Into
<1>4. CASE EditAndTraceAgain
  <2>1. flow' = {} /\ resumed' = {} /\ prev' = None
    BY <1>4 DEF EditAndTraceAgain, Fresh
  <2> QED
    BY <2>1 DEF Transfers, FlowIsReal
<1>5. CASE ~(EnterUnit \/ RunUnit \/ Restart \/ EditAndTraceAgain)
  <2>1. flow' = flow /\ resumed' = resumed /\ prev' = prev
    BY <1>5 DEF Next, BeginRun, WriteExec, EnterApi, SpeakeasyApi, Syscall, Fault, CountReached, EndRun,
       LinkDataflow, tracerVars, graphVars, ghosts
  <2>2. FlowIsReal'
    BY <2>1 DEF Transfers, FlowIsReal
  <2>3. \/ phase' \notin {"at", "in", "called"}
        \/ phase' = phase /\ pc' = pc
        \/ phase = "in" /\ phase' = "called" /\ pc' = pc /\ pc \notin Zero
        \/ prev = None
    <3>1. ASSUME BeginRun PROVE prev = None
      BY <3>1 DEF BeginRun, Probes
    <3>2. ASSUME SpeakeasyApi PROVE prev = None
      BY <3>2 DEF SpeakeasyApi, Speakeasy, ControlFlow, Probes
    <3>3. ASSUME Syscall PROVE pc \notin Zero /\ phase = "in" /\ pc' = pc /\ phase' \in {"called", "returned"}
      BY <3>3, TracerAssumption DEF Syscall, cpuVars
    <3> QED
      BY <1>5, <3>1, <3>2, <3>3 DEF Next, WriteExec, EnterApi, Fault, CountReached, EndRun, LinkDataflow, tracerVars,
         cpuVars
  <2> QED
    BY <2>1, <2>2, <2>3 DEF Transfers, Successors, Into
<1> QED
  BY <1>1, <1>2, <1>3, <1>4, <1>5

\* The entry of a unit: the shadow stack is what the block told it.
LEMMA ShadowEnters == ASSUME Shadowed, Stacks, EnterUnit PROVE Shadowed'
<1>1. /\ phase = "at" /\ phase' = "in" /\ pc \in Units /\ pc' = pc /\ redirect' = redirect /\ real' = real
      /\ (CallGraph' <=> CallGraph) /\ met' = (met \/ pc \in Exports)
      /\ fn' = IF CallGraph /\ pc \notin Exports THEN FunctionEntered(pc) ELSE fn
  BY DEF EnterUnit, cpuVars, runVars, roundVars, CallGraph, ControlFlow
<1> SUFFICES ASSUME CallGraph', ~met'
             PROVE  /\ redirect' = None
                    /\ pc' \notin Exports /\ fn'.cur = real'.cur /\ fn'.stack = real'.stack /\ fn'.term = Term[pc']
  BY <1>1 DEF Shadowed
<1>2. CallGraph /\ ~met /\ pc \in Units \ Exports
  BY <1>1
<1>3. /\ fn' = Learned(fn, pc) /\ redirect = None
      /\ Learned(fn, pc).cur = real.cur /\ Learned(fn, pc).stack = real.stack
  BY <1>1, <1>2 DEF Shadowed, FunctionEntered, Learned
<1>4. Learned(fn, pc).term = Term[pc]
  BY DEF Learned, Stacks
<1> QED
  BY <1>1, <1>2, <1>3, <1>4

\* The end of a unit: what the real stack becomes is what the shadow stack will
\* be told by the next block.
LEMMA ShadowRuns == ASSUME TracerInv, Shadowed, TypeOK, Stacks, RunUnit PROVE Shadowed'
<1>1. /\ phase \in {"in", "called"} /\ phase' = "at" /\ pc \in Units /\ redirect' = redirect /\ fn' = fn
      /\ met' = met /\ (CallGraph' <=> CallGraph)
  BY DEF RunUnit, runVars, roundVars, TracerInv, Types, CallGraph, ControlFlow
<1> SUFFICES ASSUME CallGraph, ~met, pc' \in Units \ Exports
             PROVE  Learned(fn, pc').cur = real'.cur /\ Learned(fn, pc').stack = real'.stack
  BY <1>1 DEF Shadowed
<1>2. /\ redirect = None /\ pc \notin Exports /\ fn.cur = real.cur /\ fn.stack = real.stack /\ fn.term = Term[pc]
  BY <1>1 DEF Shadowed
<1>3. /\ fn \in [cur : {None} \cup Units, stack : Seq(Units), term : {"none", "fall", "jump", "call", "ret"}]
      /\ fn.cur # None /\ real \in [cur : Units, stack : Seq(Units)]
  BY <1>2, Machine DEF Stacks
<1>4. CASE Term[pc] \in {"fall", "jump"}
  <2>1. real' = real
    BY <1>4 DEF RunUnit
  <2> QED
    BY <1>2, <1>3, <1>4, <2>1 DEF Learned
<1>5. CASE Term[pc] = "call"
  <2>1. real' = [cur |-> pc', stack |-> <<real.cur>> \o real.stack]
    BY <1>5 DEF RunUnit
  <2> QED
    BY <1>2, <1>3, <1>5, <2>1 DEF Learned
<1>6. CASE Term[pc] = "ret"
  <2>1. stack # <<>>
    BY <1>6, Machine DEF RunUnit
  <2>2. real' = IF real.stack = <<>> THEN real ELSE [cur |-> Head(real.stack), stack |-> Tail(real.stack)]
    BY <1>2, <1>6, <2>1 DEF RunUnit
  <2> QED
    BY <1>2, <1>3, <1>6, <2>2 DEF Learned
<1> QED
  BY <1>1, <1>4, <1>5, <1>6, TracerAssumption

LEMMA ShadowedKept ==
    ASSUME TracerInv, TypeOK, Stacks, Shadowed, [Next]_tracerVars
    PROVE  Shadowed'
<1>1. CASE EnterApi \/ SpeakeasyApi
  BY <1>1 DEF EnterApi, SpeakeasyApi, Shadowed
<1>2. CASE BeginRun
  <2>1. /\ phase = "ready" /\ phase' = "at" /\ UNCHANGED <<pc, redirect, fn, real, met, mode>>
    BY <1>2 DEF BeginRun, runVars, roundVars, ghosts
  <2>2. CallGraph /\ ~met => Learned(fn, 1).cur = 1 /\ Learned(fn, 1).stack = <<>>
    BY <2>1 DEF Shadowed, Learned, Stacks
  <2>3. CallGraph' <=> CallGraph
    BY <2>1 DEF CallGraph, ControlFlow
  <2>4. CallGraph /\ ~met => pc = 1 /\ real.cur = 1 /\ real.stack = <<>> /\ redirect = None
    BY <2>1 DEF Shadowed
  <2> QED
    BY <2>1, <2>2, <2>3, <2>4 DEF Shadowed
<1>3. CASE Restart
  <2>1. /\ redirect # None /\ met' = met /\ (CallGraph' <=> CallGraph)
    BY <1>3 DEF Restart, roundVars, CallGraph, ControlFlow
  <2> QED
    BY <2>1 DEF Shadowed
<1>4. CASE EditAndTraceAgain
  BY <1>4 DEF EditAndTraceAgain, Fresh, Shadowed
<1>5. CASE ~(EnterUnit \/ RunUnit \/ EnterApi \/ SpeakeasyApi \/ BeginRun \/ Restart \/ EditAndTraceAgain)
  <2>1. UNCHANGED <<pc, redirect, fn, real, met, mode>>
    BY <1>5 DEF Next, WriteExec, Syscall, Fault, CountReached, EndRun, LinkDataflow, tracerVars, cpuVars, runVars,
       roundVars, ghosts
  <2>2. \/ phase' = phase
        \/ phase = "in" /\ phase' = "called"
        \/ phase' \notin {"ready", "at", "in", "called"}
    BY <1>5 DEF Next, WriteExec, Syscall, Fault, CountReached, EndRun, LinkDataflow, tracerVars
  <2>3. CallGraph' <=> CallGraph
    BY <2>1 DEF CallGraph, ControlFlow
  <2> QED
    BY <2>1, <2>2, <2>3 DEF Shadowed
<1> QED
  BY <1>1, <1>2, <1>3, <1>4, <1>5, ShadowEnters, ShadowRuns

LEMMA FiniteKept == ASSUME GraphIsFinite, [Next]_tracerVars PROVE GraphIsFinite'
<1>1. \/ flow' = flow
      \/ flow' = {}
      \/ flow' = flow \cup {FlowEdge(pc)}
  BY DEF Next, tracerVars, graphVars, BeginRun, EnterUnit, WriteExec, EnterApi, SpeakeasyApi, Syscall, RunUnit, Fault,
     CountReached, Restart, EndRun, LinkDataflow, EditAndTraceAgain, Fresh
<1>2. \/ seqs' = seqs
      \/ seqs' = {}
      \/ seqs' = seqs \cup {<<last, NameAt[pc]>>}
  BY DEF Next, tracerVars, graphVars, BeginRun, EnterUnit, WriteExec, EnterApi, SpeakeasyApi, Syscall, RunUnit, Fault,
     CountReached, Restart, EndRun, LinkDataflow, EditAndTraceAgain, Fresh, EmitCall
<1>3. \/ invokes' = invokes
      \/ invokes' = {}
      \/ \E u : invokes' = invokes \cup {<<u, NameAt[pc]>>}
  BY DEF Next, tracerVars, graphVars, BeginRun, EnterUnit, WriteExec, EnterApi, SpeakeasyApi, Syscall, RunUnit, Fault,
     CountReached, Restart, EndRun, LinkDataflow, EditAndTraceAgain, Fresh, EmitCall, Invoked
<1>4. IsFiniteSet(flow')
  <2>1. IsFiniteSet(flow \cup {FlowEdge(pc)})
    BY FS_AddElement DEF GraphIsFinite
  <2> QED
    BY <1>1, <2>1, FS_EmptySet DEF GraphIsFinite
<1>5. IsFiniteSet(seqs')
  <2>1. IsFiniteSet(seqs \cup {<<last, NameAt[pc]>>})
    BY FS_AddElement DEF GraphIsFinite
  <2> QED
    BY <1>2, <2>1, FS_EmptySet DEF GraphIsFinite
<1>6. IsFiniteSet(invokes')
  <2>1. ASSUME NEW u PROVE IsFiniteSet(invokes \cup {<<u, NameAt[pc]>>})
    BY FS_AddElement DEF GraphIsFinite
  <2>2. CASE \E u : invokes' = invokes \cup {<<u, NameAt[pc]>>}
    <3>1. PICK u : invokes' = invokes \cup {<<u, NameAt[pc]>>}
      BY <2>2
    <3> QED
      BY <2>1, <3>1
  <2>3. CASE invokes' = invokes \/ invokes' = {}
    BY <2>3, FS_EmptySet DEF GraphIsFinite
  <2> QED
    BY <1>3, <2>2, <2>3
<1> QED
  BY <1>4, <1>5, <1>6 DEF GraphIsFinite

LEMMA GraphKept == ASSUME TracerInv, TracerInv', GraphInv, [Next]_tracerVars PROVE GraphInv'
  BY TypesKept, ProbesKept, TransfersKept, ShadowedKept, FiniteKept DEF GraphInv

------------------------------------------------------------------------------
(* The data: links and values                                                *)

\* A value is recorded for a call that returned it, among the events read so far.
Produced ==
    \A p \in dataflow.produced :
       Taintable(p.value) /\ \E i \in 1 .. linked : events[i].name = p.call /\ events[i].ret = p.value

Provenance ==
    \A e \in dataflow.links :
       /\ e.type \in {"dataflow", "buffer"}
       /\ e.type = "dataflow" =>
             \E i, j \in 1 .. linked :
                /\ i < j /\ events[i].name = e.src /\ events[j].name = e.dst
                /\ events[i].ret = events[j].arg /\ Taintable(events[i].ret)

Linking ==
    /\ linked \in 0 .. Len(events)
    /\ phase \notin {"linking", "done"} => linked = 0 /\ dataflow = NoLinks
    /\ IsFiniteSet(dataflow.links) /\ IsFiniteSet(dataflow.produced) /\ IsFiniteSet(dataflow.users)
    /\ Produced /\ Provenance

\* A value that a counter gave out lies between its start and where it stands,
\* above all that it gave out before.
GivenOut ==
    /\ ~LinkRegister => \A i \in 1 .. Len(events) : events[i].arg = events[i].passed
    /\ \A k \in Keys : CounterStart[k] <= counters[k]
    /\ \A i \in 1 .. Len(events) : events[i].stub \in Keys =>
          CounterStart[events[i].stub] <= events[i].ret /\ events[i].ret < counters[events[i].stub]
    /\ \A i, j \in 1 .. Len(events) :
          i < j /\ events[i].stub \in Keys /\ events[j].stub = events[i].stub => events[i].ret < events[j].ret

DataInv == Linking /\ GivenOut
LEMMA InitData == Init => DataInv
<1> SUFFICES ASSUME Init
             PROVE  DataInv
  OBVIOUS
<1>1. /\ phase = "ready" /\ events = <<>> /\ Len(events) = 0 /\ counters = CounterStart /\ linked = 0
      /\ dataflow = NoLinks /\ dataflow.links = {} /\ dataflow.produced = {} /\ dataflow.users = {}
  BY DEF Init, NoLinks
<1>2. Linking
  BY <1>1, FS_EmptySet DEF Linking, Produced, Provenance
<1>3. 1 .. Len(events) = {} /\ \A k \in Keys : CounterStart[k] \in Nat
  BY <1>1, TracerAssumption
<1>4. GivenOut
  BY <1>1, <1>3 DEF GivenOut
<1> QED
  BY <1>2, <1>4 DEF DataInv

\* One more value, the one its counter stood at.
LEMMA GivenAppended ==
    ASSUME Types, GivenOut, NEW ev \in Event, events' = Append(events, ev),
           counters' = IF ev.stub \in Keys THEN [counters EXCEPT ![ev.stub] = @ + CounterStep[ev.stub]] ELSE counters,
           ev.stub \in Keys => ev.ret = counters[ev.stub],
           ~LinkRegister => ev.arg = ev.passed, mode' = mode
    PROVE  GivenOut'
<1> DEFINE t == Append(events, ev)
           n == Len(events)
<1>1. events \in Seq(Event) /\ n \in Nat /\ counters \in [Keys -> Nat]
  BY DEF Types
<1>2. /\ Len(t) = n + 1 /\ t[n + 1] = ev
      /\ \A i \in 1 .. n : t[i] = events[i] /\ events[i].ret \in Nat
      /\ \A i \in 1 .. n + 1 : i \in 1 .. n \/ i = n + 1
  BY <1>1, EventsAre
<1>3. events' = t /\ ev.ret \in Nat
  BY DEF Event
<1>4. \A k \in Keys : /\ counters[k] \in Nat /\ counters'[k] \in Nat /\ CounterStart[k] \in Nat
                      /\ counters'[k] >= counters[k]
                      /\ (k = ev.stub => counters'[k] > counters[k])
  BY <1>1, TracerAssumption
<1> HIDE DEF t, n
<1>5. ~LinkRegister => \A i \in 1 .. n + 1 : t[i].arg = t[i].passed
  BY <1>2 DEF GivenOut, n
<1>6. \A k \in Keys : CounterStart[k] <= counters'[k]
  BY <1>4 DEF GivenOut
<1>7. ASSUME NEW i \in 1 .. n + 1, t[i].stub \in Keys
      PROVE  CounterStart[t[i].stub] <= t[i].ret /\ t[i].ret < counters'[t[i].stub]
  <2>1. CASE i \in 1 .. n
    <3>1. CounterStart[t[i].stub] <= t[i].ret /\ t[i].ret < counters[t[i].stub] /\ t[i].ret \in Nat
      BY <1>2, <1>7, <2>1 DEF GivenOut, n
    <3> QED
      BY <1>4, <1>7, <3>1
  <2>2. CASE i = n + 1
    <3>1. t[i] = ev /\ ev.ret = counters[ev.stub]
      BY <1>2, <1>7, <2>2
    <3> QED
      BY <1>4, <1>7, <3>1 DEF GivenOut
  <2> QED
    BY <1>2, <2>1, <2>2
<1>8. ASSUME NEW i \in 1 .. n + 1, NEW j \in 1 .. n + 1, i < j, t[i].stub \in Keys, t[j].stub = t[i].stub
      PROVE  t[i].ret < t[j].ret
  <2>1. i \in 1 .. n
    BY <1>1, <1>8 DEF n
  <2>2. CASE j \in 1 .. n
    BY <1>2, <1>8, <2>1, <2>2 DEF GivenOut, n
  <2>3. CASE j = n + 1
    <3>1. t[j] = ev /\ ev.ret = counters[ev.stub] /\ t[i] = events[i]
      BY <1>2, <1>8, <2>1, <2>3
    <3>2. t[i].ret < counters[t[i].stub]
      BY <1>8, <2>1, <3>1 DEF GivenOut, n
    <3> QED
      BY <1>8, <3>1, <3>2
  <2> QED
    BY <1>2, <2>2, <2>3
<1> QED
  BY <1>2, <1>3, <1>5, <1>6, <1>7, <1>8 DEF GivenOut, LinkRegister

\* A call that is not kept as an event moves the counters all the same.
LEMMA GivenDropped ==
    ASSUME Types, GivenOut, NEW stub, events' = events, counters' = Counted(stub), mode' = mode
    PROVE  GivenOut'
<1>1. \A k \in Keys : /\ counters[k] \in Nat /\ counters'[k] \in Nat /\ CounterStart[k] \in Nat
                      /\ counters'[k] >= counters[k]
  BY TracerAssumption DEF Types, Counted
<1>2. \A i \in 1 .. Len(events) : events[i].ret \in Nat
  BY EventsAre DEF Types
<1>3. \A k \in Keys : CounterStart[k] <= counters'[k]
  BY <1>1 DEF GivenOut
<1>4. ASSUME NEW i \in 1 .. Len(events), events[i].stub \in Keys
      PROVE  CounterStart[events[i].stub] <= events[i].ret /\ events[i].ret < counters'[events[i].stub]
  BY <1>1, <1>2, <1>4 DEF GivenOut
<1> QED
  BY <1>3, <1>4 DEF GivenOut, LinkRegister

LEMMA CallReturns ==
    ASSUME NEW n, NEW arg, NEW kind
    PROVE  /\ Handler(n) \in Keys => CallEvent(kind, n, arg).ret = counters[Handler(n)]
           /\ CallEvent(kind, n, arg).stub = Handler(n)
           /\ [CallEvent(kind, n, arg) EXCEPT !.arg = arg].stub = Handler(n)
           /\ [CallEvent(kind, n, arg) EXCEPT !.arg = arg].ret = CallEvent(kind, n, arg).ret
           /\ ~LinkRegister => CallEvent(kind, n, arg).arg = CallEvent(kind, n, arg).passed
           /\ [CallEvent(kind, n, arg) EXCEPT !.arg = arg].arg = [CallEvent(kind, n, arg) EXCEPT !.arg = arg].passed
<1>1. Handler(n) \in Keys => Returned(Handler(n), arg) = counters[Handler(n)]
  BY TracerAssumption DEF Returned
<1> QED
  BY <1>1 DEF CallEvent

LEMMA GivenOutKept == ASSUME TracerInv, GivenOut, [Next]_tracerVars PROVE GivenOut'
<1> USE DEF TracerInv
<1>1. ASSUME NEW n \in Names, NEW arg \in ArgValues, NEW kind \in {"api", "syscall"}, EmitCall(kind, n, arg), mode' = mode
      PROVE  GivenOut'
  <2> DEFINE ev == CallEvent(kind, n, arg)
  <2>1. /\ ev \in Event /\ ev.stub = Handler(n) /\ (ev.stub \in Keys => ev.ret = counters[ev.stub])
        /\ ~LinkRegister => ev.arg = ev.passed
    <3>1. Types
      OBVIOUS
    <3>2. ev \in Event
      BY <3>1, EventOf
    <3> QED
      BY <3>2, CallReturns
  <2>2. /\ events' = IF Len(events) >= MaxEvents THEN events ELSE Append(events, ev)
        /\ counters' = Counted(ev.stub)
    BY <1>1, <2>1 DEF EmitCall
  <2> HIDE DEF ev
  <2>3. Len(events) \in Nat /\ MaxEvents \in Nat
    BY TracerAssumption DEF Types
  <2>4. CASE Len(events) >= MaxEvents
    <3>1. events' = events
      BY <2>2, <2>4
    <3> QED
      BY <1>1, <2>2, <3>1, GivenDropped
  <2>5. CASE ~(Len(events) >= MaxEvents)
    <3>1. /\ events' = Append(events, ev)
          /\ counters' = IF ev.stub \in Keys THEN [counters EXCEPT ![ev.stub] = @ + CounterStep[ev.stub]] ELSE counters
      BY <2>2, <2>3, <2>5 DEF Counted
    <3> QED
      BY <1>1, <2>1, <3>1, GivenAppended
  <2> QED
    BY <2>4, <2>5
<1>2. CASE EnterApi
  <2>1. mode' = mode /\ NameAt[pc] \in Names
    BY <1>2, TracerAssumption DEF EnterApi, roundVars
  <2>2. PICK arg \in ArgValues : EmitCall("api", NameAt[pc], arg)
    BY <1>2 DEF EnterApi
  <2> QED
    BY <1>1, <2>1, <2>2
<1>3. CASE Syscall
  <2>1. mode' = mode /\ NameAt[pc] \in Names
    BY <1>3, TracerAssumption DEF Syscall, Types, roundVars
  <2>2. PICK arg \in ArgValues : EmitCall("syscall", NameAt[pc], arg)
    BY <1>3 DEF Syscall
  <2> QED
    BY <1>1, <2>1, <2>2
<1>4. CASE SpeakeasyApi
  <2> DEFINE n == NameAt[pc]
  <2>1. mode' = mode /\ n \in Names /\ counters' = Counted(Handler(n))
    BY <1>4, TracerAssumption DEF SpeakeasyApi, roundVars
  <2>2. PICK arg \in ArgValues : events' = Append(events, [CallEvent("api", n, arg) EXCEPT !.arg = arg])
    BY <1>4 DEF SpeakeasyApi
  <2> HIDE DEF n
  <2> DEFINE ev == [CallEvent("api", n, arg) EXCEPT !.arg = arg]
  <2>3. /\ ev \in Event /\ ev.stub = Handler(n) /\ (ev.stub \in Keys => ev.ret = counters[ev.stub])
        /\ ev.arg = ev.passed
    <3>1. Types
      OBVIOUS
    <3>2. ev \in Event
      BY <2>1, <3>1, EventOf
    <3>3. ev.ret = CallEvent("api", n, arg).ret /\ ev.stub = Handler(n) /\ ev.arg = ev.passed
      BY CallReturns
    <3> QED
      BY <3>2, <3>3, CallReturns
  <2>4. events' = Append(events, ev)
    BY <2>2
  <2> HIDE DEF ev
  <2>5. counters' = IF ev.stub \in Keys THEN [counters EXCEPT ![ev.stub] = @ + CounterStep[ev.stub]] ELSE counters
    BY <2>1, <2>3 DEF Counted
  <2> QED
    BY <2>1, <2>3, <2>4, <2>5, GivenAppended
<1>5. CASE EditAndTraceAgain
  <2>1. events' = <<>> /\ counters' = CounterStart
    BY <1>5 DEF EditAndTraceAgain, Fresh
  <2>2. 1 .. Len(events') = {} /\ \A k \in Keys : CounterStart[k] \in Nat
    BY <2>1, TracerAssumption
  <2> QED
    BY <2>1, <2>2 DEF GivenOut
<1>6. CASE ~(EnterApi \/ Syscall \/ SpeakeasyApi \/ EditAndTraceAgain)
  <2>1. events' = events /\ counters' = counters /\ mode' = mode
    BY <1>6 DEF Next, BeginRun, EnterUnit, WriteExec, RunUnit, Fault, CountReached, Restart, EndRun, LinkDataflow,
       tracerVars, graphVars, stubVars, roundVars
  <2> QED
    BY <2>1 DEF GivenOut, LinkRegister
<1> QED
  BY <1>2, <1>3, <1>4, <1>5, <1>6

\* What a function makes of a finite set.
LEMMA ImageIsFinite ==
    ASSUME NEW S, IsFiniteSet(S), NEW T, NEW f \in [S -> T], \A t \in T : \E x \in S : f[x] = t
    PROVE  IsFiniteSet(T)
<1>1. f \in Surjection(S, T)
  BY DEF Surjection
<1> QED
  BY <1>1, FS_Surjection

\* The edges an event of that name gets from one of the two maps.
EdgesFrom(map, v, name, type) ==
    {Edge(c, name, type) : c \in {p.call : p \in {q \in map : q.value = v}} \ {name}}

LEMMA EdgesFromMap ==
    ASSUME NEW map, IsFiniteSet(map), NEW v, NEW name, NEW type
    PROVE  IsFiniteSet(EdgesFrom(map, v, name, type))
<1> DEFINE A == {q \in map : q.value = v}
           B == {p.call : p \in A}
           C == B \ {name}
           E == {Edge(c, name, type) : c \in C}
           f == [p \in A |-> p.call]
           g == [c \in C |-> Edge(c, name, type)]
<1>1. IsFiniteSet(A)
  BY FS_Subset
<1>2. f \in [A -> B] /\ \A t \in B : \E p \in A : f[p] = t
  OBVIOUS
<1>3. IsFiniteSet(B)
  <2> HIDE DEF A, B, f
  <2> QED
    BY <1>1, <1>2, ImageIsFinite
<1>4. IsFiniteSet(C)
  <2> HIDE DEF B
  <2> QED
    BY <1>3, FS_Difference
<1>5. g \in [C -> E] /\ \A t \in E : \E c \in C : g[c] = t
  <2> HIDE DEF C
  <2> QED
    OBVIOUS
<1>6. IsFiniteSet(E)
  <2> HIDE DEF C, E, g
  <2> QED
    BY <1>4, <1>5, ImageIsFinite
<1> QED
  BY <1>6 DEF EdgesFrom

\* One event: its argument is linked to what earlier events returned.
LEMMA EventLinked ==
    ASSUME Types, Linking, phase = "linking", linked < Len(events),
           dataflow' = Linked(dataflow, events[linked + 1]), linked' = linked + 1, events' = events, phase' = phase
    PROVE  Linking'
<1> DEFINE n == linked + 1
           ev == events[n]
           put(map, v) == {q \in map : q.value # v} \cup {[value |-> v, call |-> ev.name]}
           use == Taintable(ev.arg)
           from(map) == {p.call : p \in {q \in map : q.value = ev.arg}} \ {ev.name}
           new == {Edge(c, ev.name, "dataflow") : c \in from(dataflow.produced)}
           buf == {Edge(c, ev.name, "buffer") : c \in from(dataflow.users)}
<1>1. /\ Len(events) \in Nat /\ linked \in Nat /\ linked <= Len(events) /\ n \in 1 .. Len(events) /\ n \in Nat
      /\ n <= Len(events) /\ MinTaint \in Nat
  BY TracerAssumption DEF Types, Linking
<1>2. ev \in Event /\ ev.ret \in Nat /\ ev.arg \in Nat
  BY <1>1, EventsAre DEF Types, Event
<1>3. /\ dataflow'.links = dataflow.links \cup (IF use THEN new \cup buf ELSE {})
      /\ dataflow'.produced = IF Taintable(ev.ret) THEN put(dataflow.produced, ev.ret) ELSE dataflow.produced
      /\ dataflow'.users = IF use THEN put(dataflow.users, ev.arg) ELSE dataflow.users
  BY DEF Linked
<1>4. IsFiniteSet(dataflow.links) /\ IsFiniteSet(dataflow.produced) /\ IsFiniteSet(dataflow.users)
  BY DEF Linking
<1>5. IsFiniteSet(dataflow'.links)
  <2>1. IsFiniteSet(new) /\ IsFiniteSet(buf)
    <3>1. /\ new = EdgesFrom(dataflow.produced, ev.arg, ev.name, "dataflow")
          /\ buf = EdgesFrom(dataflow.users, ev.arg, ev.name, "buffer")
      BY DEF EdgesFrom
    <3> HIDE DEF new, buf, ev
    <3> QED
      BY <1>4, <3>1, EdgesFromMap
  <2> HIDE DEF new, buf, use
  <2>2. IsFiniteSet(new \cup buf)
    BY <2>1, FS_Union
  <2>3. IsFiniteSet(dataflow.links \cup (new \cup buf))
    BY <1>4, <2>2, FS_Union
  <2>4. CASE use
    BY <1>3, <2>3, <2>4
  <2>5. CASE ~use
    BY <1>3, <1>4, <2>5
  <2> QED
    BY <2>4, <2>5
<1>6. \A v : IsFiniteSet(put(dataflow.produced, v)) /\ IsFiniteSet(put(dataflow.users, v))
  <2> TAKE v
  <2>1. IsFiniteSet({q \in dataflow.produced : q.value # v}) /\ IsFiniteSet({q \in dataflow.users : q.value # v})
    BY <1>4, FS_Subset
  <2>2. IsFiniteSet(put(dataflow.produced, v))
    BY <2>1, FS_AddElement
  <2>3. IsFiniteSet(put(dataflow.users, v))
    BY <2>1, FS_AddElement
  <2> QED
    BY <2>2, <2>3
<1>7. IsFiniteSet(dataflow'.produced) /\ IsFiniteSet(dataflow'.users)
  <2> HIDE DEF put
  <2> QED
    BY <1>3, <1>4, <1>6
<1>8. Produced'
  <2> SUFFICES ASSUME NEW p \in dataflow'.produced
               PROVE  Taintable(p.value) /\ \E i \in 1 .. n : events[i].name = p.call /\ events[i].ret = p.value
    BY DEF Produced
  <2>1. CASE p \in dataflow.produced
    <3>1. PICK i \in 1 .. linked : events[i].name = p.call /\ events[i].ret = p.value
      BY <2>1 DEF Linking, Produced
    <3>2. i \in 1 .. n /\ Taintable(p.value)
      BY <1>1, <2>1 DEF Linking, Produced
    <3> QED
      BY <3>1, <3>2
  <2>2. CASE p \notin dataflow.produced
    <3>1. Taintable(ev.ret) /\ p = [value |-> ev.ret, call |-> ev.name]
      BY <1>3, <2>2
    <3>2. n \in 1 .. n
      BY <1>1
    <3> QED
      BY <1>2, <3>1, <3>2 DEF Taintable
  <2> QED
    BY <2>1, <2>2
<1>9. Provenance'
  <2> SUFFICES ASSUME NEW e \in dataflow'.links
               PROVE  /\ e.type \in {"dataflow", "buffer"}
                      /\ e.type = "dataflow" =>
                            \E i, j \in 1 .. n :
                               /\ i < j /\ events[i].name = e.src /\ events[j].name = e.dst
                               /\ events[i].ret = events[j].arg /\ Taintable(events[i].ret)
    BY DEF Provenance
  <2>1. CASE e \in dataflow.links
    <3>1. /\ e.type \in {"dataflow", "buffer"}
          /\ e.type = "dataflow" =>
                \E i, j \in 1 .. linked :
                   /\ i < j /\ events[i].name = e.src /\ events[j].name = e.dst
                   /\ events[i].ret = events[j].arg /\ Taintable(events[i].ret)
      BY <2>1 DEF Linking, Provenance
    <3>2. \A i \in 1 .. linked : i \in 1 .. n
      BY <1>1
    <3> QED
      BY <3>1, <3>2
  <2>2. CASE e \in new
    <3>1. PICK p \in dataflow.produced : p.value = ev.arg /\ e = Edge(p.call, ev.name, "dataflow")
      BY <2>2
    <3>2. e.src = p.call /\ e.dst = ev.name /\ e.type = "dataflow"
      BY <3>1 DEF Edge
    <3>3. PICK i \in 1 .. linked : events[i].name = p.call /\ events[i].ret = p.value
      BY DEF Linking, Produced
    <3>4. i \in 1 .. n /\ n \in 1 .. n /\ i < n /\ Taintable(events[i].ret)
      BY <1>1, <3>3 DEF Linking, Produced
    <3> QED
      BY <3>1, <3>2, <3>3, <3>4
  <2>3. CASE e \in buf
    BY <2>3 DEF Edge
  <2> HIDE DEF new, buf, use
  <2> QED
    BY <1>3, <2>1, <2>2, <2>3
<1>10. linked' \in 0 .. Len(events')
  BY <1>1
<1> QED
  BY <1>5, <1>7, <1>8, <1>9, <1>10 DEF Linking

LEMMA LinkingKept == ASSUME TracerInv, TracerInv', Linking, [Next]_tracerVars PROVE Linking'
<1>1. CASE LinkDataflow
  <2>1. phase = "linking" /\ events' = events
    BY <1>1 DEF LinkDataflow, graphVars
  <2>2. CASE linked < Len(events)
    BY <1>1, <2>1, <2>2, EventLinked DEF LinkDataflow, TracerInv
  <2>3. CASE ~(linked < Len(events))
    <3>1. linked' = linked /\ dataflow' = dataflow /\ phase' = "done"
      BY <1>1, <2>3 DEF LinkDataflow
    <3> QED
      BY <2>1, <3>1 DEF Linking, Produced, Provenance
  <2> QED
    BY <2>2, <2>3
<1>2. CASE EditAndTraceAgain
  <2>1. linked' = 0 /\ dataflow' = NoLinks /\ events' = <<>>
    BY <1>2 DEF EditAndTraceAgain, Fresh
  <2>2. /\ dataflow'.links = {} /\ dataflow'.produced = {} /\ dataflow'.users = {} /\ Len(events') = 0
    BY <2>1 DEF NoLinks
  <2> QED
    BY <2>1, <2>2, FS_EmptySet DEF Linking, Produced, Provenance
<1>3. CASE UNCHANGED tracerVars
  BY <1>3 DEF tracerVars, graphVars, roundVars, Linking, Produced, Provenance
<1>4. CASE Next /\ ~LinkDataflow /\ ~EditAndTraceAgain
  <2>1. linked' = linked /\ dataflow' = dataflow /\ phase \notin {"linking", "done"} /\ phase' # "done"
    BY <1>4 DEF Next, BeginRun, EnterUnit, WriteExec, EnterApi, SpeakeasyApi, Syscall, RunUnit, Fault,
       CountReached, Restart, EndRun, roundVars
  <2>2. linked = 0 /\ dataflow = NoLinks
    BY <2>1 DEF Linking
  <2>3. Len(events') \in Nat
    BY DEF TracerInv, Types
  <2>4. /\ dataflow.links = {} /\ dataflow.produced = {} /\ dataflow.users = {}
    BY <2>2 DEF NoLinks
  <2> QED
    BY <2>1, <2>2, <2>3, <2>4, FS_EmptySet DEF Linking, Produced, Provenance
<1> QED
  BY <1>1, <1>2, <1>3, <1>4

LEMMA DataKept == ASSUME TracerInv, TracerInv', DataInv, [Next]_tracerVars PROVE DataInv'
  BY LinkingKept, GivenOutKept DEF DataInv

------------------------------------------------------------------------------
(* What follows                                                              *)

\* The edges of one more type.
OfTypes(S, A) == {e \in S : e.type \in A}

LEMMA OneMoreType ==
    ASSUME NEW S, IsFiniteSet(S), NEW A, NEW t, t \notin A
    PROVE  /\ Cardinality(OfTypes(S, A)) \in Nat /\ Cardinality(OfTypes(S, {t})) \in Nat
           /\ Cardinality(OfTypes(S, A \cup {t})) = Cardinality(OfTypes(S, A)) + Cardinality(OfTypes(S, {t}))
<1> DEFINE X == OfTypes(S, A)
           Y == OfTypes(S, {t})
<1>1. X \in SUBSET S /\ Y \in SUBSET S /\ OfTypes(S, A \cup {t}) = X \cup Y /\ X \cap Y = {}
  BY DEF OfTypes
<1> HIDE DEF X, Y
<1>2. IsFiniteSet(X) /\ IsFiniteSet(Y)
  BY <1>1, FS_Subset
<1>3. Cardinality(X \cup Y) = Cardinality(X) + Cardinality(Y) - Cardinality(X \cap Y)
  BY <1>2, FS_Union
<1>4. Cardinality(X) \in Nat /\ Cardinality(Y) \in Nat /\ Cardinality(X \cap Y) = 0
  BY <1>1, <1>2, FS_CardinalityType, FS_EmptySet
<1>5. Cardinality(X \cup Y) = Cardinality(X) + Cardinality(Y)
  BY <1>3, <1>4
<1> QED
  BY <1>1, <1>4, <1>5 DEF X, Y

LEMMA FeaturesAreCounts == ASSUME GraphInv, DataInv PROVE FeaturesCoverEdges
<1> DEFINE L == dataflow.links
           Flow(t) == Cardinality(OfTypes(flow, {t}))
           Links(t) == Cardinality(OfTypes(L, {t}))
           J == {"jump_true", "jump_false"}
           jumps == Cardinality(OfTypes(flow, J))
<1>1. IsFiniteSet(flow) /\ IsFiniteSet(seqs) /\ IsFiniteSet(invokes) /\ IsFiniteSet(L)
  BY DEF GraphInv, GraphIsFinite, DataInv, Linking
<1>2. Cardinality(flow) = jumps + Flow("fall") + Flow("call") + Flow("ret")
      /\ jumps \in Nat /\ Flow("fall") \in Nat /\ Flow("call") \in Nat /\ Flow("ret") \in Nat
  <2> DEFINE In(A) == Cardinality(OfTypes(flow, A))
             J1 == J \cup {"fall"}
             J2 == J1 \cup {"call"}
             J3 == J2 \cup {"ret"}
  <2>1. "fall" \notin J /\ "call" \notin J1 /\ "ret" \notin J2
    OBVIOUS
  <2>2. OfTypes(flow, J3) = flow
    BY DEF GraphInv, Transfers, OfTypes
  <2> HIDE DEF J
  <2>3. In(J1) = jumps + Flow("fall") /\ jumps \in Nat /\ Flow("fall") \in Nat
    BY <1>1, <2>1, OneMoreType
  <2> HIDE DEF J1
  <2>4. In(J2) = In(J1) + Flow("call") /\ Flow("call") \in Nat
    BY <1>1, <2>1, OneMoreType
  <2> HIDE DEF J2
  <2>5. In(J3) = In(J2) + Flow("ret") /\ Flow("ret") \in Nat
    BY <1>1, <2>1, OneMoreType
  <2> HIDE DEF Flow, J3, jumps
  <2> QED
    BY <2>2, <2>3, <2>4, <2>5
<1>3. Flow("jump") = 0
  <2>1. OfTypes(flow, {"jump"}) = {}
    BY DEF GraphInv, Transfers, OfTypes
  <2> QED
    BY <2>1, FS_EmptySet
<1>4. Cardinality(L) = Links("dataflow") + Links("buffer") /\ Links("dataflow") \in Nat /\ Links("buffer") \in Nat
  <2>1. OfTypes(L, {"dataflow"} \cup {"buffer"}) = L
    BY DEF DataInv, Linking, Provenance, OfTypes
  <2>2. "buffer" \notin {"dataflow"}
    OBVIOUS
  <2> HIDE DEF L
  <2> QED
    BY <1>1, <2>1, <2>2, OneMoreType
<1>5. Cardinality(seqs) \in Nat /\ Cardinality(invokes) \in Nat
  BY <1>1, FS_CardinalityType
<1>6. /\ Features["fall"] = Flow("fall") /\ Features["jump"] = Flow("jump") /\ Features["call"] = Flow("call")
      /\ Features["ret"] = Flow("ret") /\ Features["seq"] = Cardinality(seqs)
      /\ Features["invoke"] = Cardinality(invokes)
      /\ Features["dataflow"] = Links("dataflow") /\ Features["buffer"] = Links("buffer")
  <2>1. \A t : /\ OfTypes(flow, {t}) = {e \in flow : e.type = t}
               /\ OfTypes(L, {t}) = {e \in L : e.type = t}
    BY DEF OfTypes
  <2> QED
    BY <2>1 DEF Features
<1>8. jumps = Cardinality({e \in flow : e.type \in {"jump_true", "jump_false"}})
  BY DEF OfTypes
<1> HIDE DEF Flow, Links, jumps, L
<1>7. Cardinality(flow) + Cardinality(seqs) + Cardinality(invokes) + Cardinality(L)
        = Features["fall"] + Features["jump"] + Features["call"] + Features["ret"]
          + Features["seq"] + Features["invoke"] + Features["dataflow"] + Features["buffer"] + jumps
  BY <1>2, <1>3, <1>4, <1>5, <1>6
<1> QED
  BY <1>7, <1>8 DEF FeaturesCoverEdges, L

LEMMA ValuesAreApart == ASSUME TracerInv, GivenOut PROVE FreshApart
<1> SUFFICES ASSUME \A k, m \in Keys : CounterStart[k] < CounterStart[m] => counters[k] <= CounterStart[m],
                    NEW i \in 1 .. Len(events), NEW j \in 1 .. Len(events), i # j,
                    events[i].stub \in Keys, events[j].stub \in Keys
             PROVE  events[i].ret # events[j].ret
  BY DEF FreshApart
<1>1. /\ Len(events) \in Nat /\ events[i].ret \in Nat /\ events[j].ret \in Nat
      /\ \A k \in Keys : CounterStart[k] \in Nat /\ counters[k] \in Nat
  BY EventsAre, TracerAssumption DEF TracerInv, Types
<1> DEFINE k == events[i].stub
           m == events[j].stub
<1>2. /\ CounterStart[k] <= events[i].ret /\ events[i].ret < counters[k]
      /\ CounterStart[m] <= events[j].ret /\ events[j].ret < counters[m]
  BY DEF GivenOut
<1>3. CASE k = m
  <2>1. i < j \/ j < i
    BY <1>1
  <2>2. events[i].ret < events[j].ret \/ events[j].ret < events[i].ret
    BY <1>3, <2>1 DEF GivenOut
  <2> QED
    BY <1>1, <2>2
<1>4. CASE k # m
  <2>1. CounterStart[k] < CounterStart[m] \/ CounterStart[m] < CounterStart[k]
    BY <1>1, <1>4, TracerAssumption
  <2>2. counters[k] <= CounterStart[m] \/ counters[m] <= CounterStart[k]
    BY <2>1
  <2> HIDE DEF k, m
  <2>3. k \in Keys /\ m \in Keys
    BY DEF k, m
  <2> QED
    BY <1>1, <1>2, <2>2, <2>3
<1> QED
  BY <1>3, <1>4

LEMMA LinksAreReal == ASSUME TracerInv, DataInv PROVE ProvenanceIsReal
<1> SUFFICES ASSUME ~LinkRegister, NEW e \in dataflow.links, e.type = "dataflow"
             PROVE  \E i, j \in 1 .. Len(events) :
                       /\ i < j /\ events[i].name = e.src /\ events[j].name = e.dst
                       /\ events[i].ret = events[j].passed /\ Taintable(events[i].ret)
  BY DEF ProvenanceIsReal
<1>1. PICK i \in 1 .. linked, j \in 1 .. linked :
         /\ i < j /\ events[i].name = e.src /\ events[j].name = e.dst
         /\ events[i].ret = events[j].arg /\ Taintable(events[i].ret)
  BY DEF DataInv, Linking, Provenance
<1>2. linked \in Nat /\ Len(events) \in Nat /\ linked <= Len(events)
  BY DEF DataInv, Linking, TracerInv, Types
<1>3. i \in 1 .. Len(events) /\ j \in 1 .. Len(events)
  BY <1>2
<1>4. events[j].arg = events[j].passed
  BY <1>3 DEF DataInv, GivenOut
<1> QED
  BY <1>1, <1>3, <1>4

\* How far link_dataflow has come and what the graph and the counters hold.
THEOREM TracerGraphInvariant == Spec => [](TracerInv /\ GraphInv /\ DataInv)
<1>1. Init => TracerInv /\ GraphInv /\ DataInv
  BY InitTracer, InitGraph, InitData
<1>2. TracerInv /\ GraphInv /\ DataInv /\ [Next]_tracerVars => (TracerInv /\ GraphInv /\ DataInv)'
  BY TracerKept, GraphKept, DataKept
<1> QED
  BY <1>1, <1>2, PTL DEF Spec

\* Tags, transfers and the shadow call stack are those of the run, and the
\* feature vector counts every edge but those of jumps.
THEOREM TracerGraphIsTrue == Spec => []GraphIsTrue
<1>1. TracerInv /\ GraphInv /\ DataInv => GraphIsTrue
  BY FeaturesAreCounts DEF GraphInv, Probes, Transfers, Shadowed, GraphIsTrue, CallGraphTrue
<1> QED
  BY <1>1, TracerGraphInvariant, PTL

\* A value that joins two calls was returned by the one and then passed to the
\* other, and no counter gives a value twice.
THEOREM TracerDataFlowIsTrue == Spec => []DataFlowIsTrue
<1>1. TracerInv /\ GraphInv /\ DataInv => DataFlowIsTrue
  BY ValuesAreApart, LinksAreReal DEF DataInv, DataFlowIsTrue
<1> QED
  BY <1>1, TracerGraphInvariant, PTL
==============================================================================

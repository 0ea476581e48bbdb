-------------------------------- MODULE GdbMi --------------------------------
(***************************************************************************)
(* The GDB bridge (acquirer/gdb_bridge.py): one GDB/MI session.            *)
(*                                                                         *)
(* The caller's thread writes a command to GDB's stdin and takes lines     *)
(* from _line_queue until a result record; a daemon thread copies GDB's    *)
(* stdout into that queue and puts None when it ends, at the end of stdout *)
(* or at output it cannot decode.  Nothing ties a result                   *)
(* record to a command but the order in which they come (no MI tokens).    *)
(*                                                                         *)
(* GDB is modelled from how the bridge uses it: it works its commands off  *)
(* in order, each with one result record and a prompt, may print           *)
(* asynchronous records in between, and may die.  Its prompt is "(gdb) ",  *)
(* with a trailing blank, so the bridge's test for a line "(gdb)" never    *)
(* ends a command; the prompt stays in the queue in front of the next      *)
(* answer.                                                                 *)
(***************************************************************************)
EXTENDS Integers, Sequences, FiniteSets

CONSTANTS
    MaxReads,   \* bound of the model: read_memory calls of a session
    MaxAsync,   \* bound of the model: asynchronous records of a session
    MayTimeout, \* the mi_timeout of a queue.get may elapse
    MayDie      \* GDB may exit by itself

ASSUME GdbAssumption ==
    /\ MaxReads \in Nat /\ MaxAsync \in Nat
    /\ MayTimeout \in BOOLEAN /\ MayDie \in BOOLEAN

VARIABLES
    gdb,        \* "running", "dead"
    attached,   \* GDB has attached to the target
    stdin,      \* commands GDB has not answered yet
    stdout,     \* lines in the pipe from GDB
    queue,      \* _line_queue
    reader,     \* the reader thread: "reading", "ended"
    caller,     \* "idle", "waiting" in _send_mi_command, "gone" (disconnected)
    atStart,    \* the list `lines' of _send_mi_command is empty
    commands,   \* history: the kinds of the commands sent or tried
    outcomes,   \* history: how each ended; one entry per ended command
    asyncs      \* asynchronous records printed so far

gdbVars == <<gdb, attached, stdin, stdout, queue, reader, caller, atStart,
             commands, outcomes, asyncs>>

\* Lines, by what _send_mi_command does with them; `of' is the number of the
\* command a result record answers.
Line(kind, of) == [kind |-> kind, of |-> of]
\* Mutant: a line that begins with "(gdb)" ends the command.
MutResultPrompt(line) == line.kind \in {"done", "error", "prompt"}

Result(line) == line.kind \in {"done", "error"}
Prompt == Line("prompt", 0)
Async == Line("async", 0)
Eof == Line("eof", 0)       \* the None of _stdout_reader

------------------------------------------------------------------------------
(* GDB                                                                       *)

GdbAnswers ==
    /\ gdb = "running" /\ stdin # <<>>
    /\ \E status \in {"done", "error"} :
          /\ stdout' = stdout \o <<Line(status, Head(stdin)), Prompt>>
          /\ attached' = (attached \/ (commands[Head(stdin)] = "attach" /\ status = "done"))
    /\ stdin' = Tail(stdin)
    /\ UNCHANGED <<gdb, queue, reader, caller, atStart, commands, outcomes, asyncs>>

GdbNotifies ==
    /\ gdb = "running"
    /\ asyncs < MaxAsync /\ asyncs' = asyncs + 1
    /\ stdout' = Append(stdout, Async)
    /\ UNCHANGED <<gdb, attached, stdin, queue, reader, caller, atStart, commands, outcomes>>

\* Commands it had not read are lost; what it printed can still be read.
GdbDies ==
    /\ MayDie /\ gdb = "running"
    /\ gdb' = "dead" /\ stdin' = <<>>
    /\ UNCHANGED <<attached, stdout, queue, reader, caller, atStart, commands,
                   outcomes, asyncs>>

------------------------------------------------------------------------------
(* _stdout_reader                                                            *)

ReaderLine ==
    /\ reader = "reading" /\ stdout # <<>>
    /\ queue' = Append(queue, Head(stdout))
    /\ stdout' = Tail(stdout)
    /\ UNCHANGED <<gdb, attached, stdin, reader, caller, atStart, commands, outcomes, asyncs>>

\* End of stdout, or a line that is not text (ValueError) or cannot be read
\* (OSError) from a GDB that lives: the `finally' puts None, what else GDB prints
\* is never read.
ReaderEnds ==
    /\ reader = "reading"
    /\ gdb = "dead" \/ stdout # <<>>
    /\ reader' = "ended"
    /\ queue' = Append(queue, Eof)
    /\ UNCHANGED <<gdb, attached, stdin, stdout, caller, atStart, commands, outcomes, asyncs>>

------------------------------------------------------------------------------
(* _send_mi_command                                                          *)

\* How a command ends: "answer" (returned; `of' is the command whose result
\* record was taken) or one of the exceptions.
Outcome(kind, of) == [kind |-> kind, of |-> of]

\* Writing to a dead GDB raises BrokenPipeError, an OSError.
Send(kind) ==
    /\ caller = "idle"
    /\ commands' = Append(commands, kind)
    /\ IF gdb = "running"
       THEN /\ stdin' = Append(stdin, Len(commands) + 1)
            /\ caller' = "waiting" /\ atStart' = TRUE
            /\ UNCHANGED outcomes
       ELSE /\ outcomes' = Append(outcomes, Outcome("OSError", 0))
            /\ UNCHANGED <<stdin, caller, atStart>>
    /\ UNCHANGED <<gdb, attached, stdout, queue, reader, asyncs>>

\* The next line of the queue.  The joined lines are tested for "^error" at
\* their start, so only an error record that came first raises.
Receive ==
    /\ caller = "waiting" /\ queue # <<>>
    /\ LET line == Head(queue) IN
       \/ /\ line.kind = "eof"
          /\ outcomes' = Append(outcomes, Outcome("RuntimeError", 0))
          /\ caller' = "idle"
       \/ /\ Result(line)
          /\ outcomes' = Append(outcomes,
                 Outcome(IF line.kind = "error" /\ atStart THEN "RuntimeError" ELSE "answer",
                         line.of))
          /\ caller' = "idle"
       \/ /\ ~Result(line) /\ line.kind # "eof"
          /\ UNCHANGED <<outcomes, caller>>
    /\ queue' = Tail(queue) /\ atStart' = FALSE
    /\ UNCHANGED <<gdb, attached, stdin, stdout, reader, commands, asyncs>>

\* Mutant: queue.get has no timeout.
MutTimeoutNever == FALSE /\ UNCHANGED gdbVars

\* queue.get timed out; the lines so far are thrown away, the command stays
\* with GDB.
Timeout ==
    /\ MayTimeout /\ caller = "waiting" /\ queue = <<>>
    /\ outcomes' = Append(outcomes, Outcome("TimeoutError", 0))
    /\ caller' = "idle"
    /\ UNCHANGED <<gdb, attached, stdin, stdout, queue, reader, atStart, commands, asyncs>>

------------------------------------------------------------------------------
(* The bridge's operations, in the order the engine calls them               *)

\* The last command ended with an exception its operation does not handle:
\* connect handles none, read_memory not OSError.
LetThrough ==
    LET n == Len(outcomes) IN
    /\ n > 0
    /\ \/ outcomes[n].kind = "OSError"
       \/ commands[n] \in {"hello", "attach"} /\ outcomes[n].kind # "answer"

Connected == Len(outcomes) >= 2 /\ \A i \in 1 .. 2 : outcomes[i].kind = "answer"

\* connect: an empty command, then the attach.
Connect ==
    \/ commands = <<>> /\ Send("hello")
    \/ commands = <<"hello">> /\ caller = "idle" /\ ~LetThrough /\ Send("attach")

ReadMemory ==
    /\ Connected /\ ~LetThrough /\ Len(commands) < MaxReads + 2
    /\ commands[Len(commands)] # "detach"
    /\ Send("read")

\* Mutant: disconnect is called only at the end of a session that connected.
MutDetachConnected ==
    /\ caller = "idle" /\ commands # <<>>
    /\ commands[Len(commands)] # "detach"
    /\ Connected /\ ~LetThrough
    /\ Send("detach")

\* disconnect, from the engine's `finally': whatever the detach comes to, ...
Detach ==
    /\ caller = "idle" /\ commands # <<>>
    /\ commands[Len(commands)] # "detach"
    /\ Connected \/ LetThrough
    /\ Send("detach")

\* ... GDB is terminated after it.
Terminate ==
    /\ caller = "idle" /\ commands # <<>> /\ commands[Len(commands)] = "detach"
    /\ gdb' = "dead" /\ stdin' = <<>> /\ caller' = "gone"
    /\ UNCHANGED <<attached, stdout, queue, reader, atStart, commands, outcomes, asyncs>>

SessionInit ==
    /\ gdb = "running" /\ attached = FALSE /\ stdin = <<>>
    /\ stdout = <<Async, Prompt>>       \* =thread-group-added and the first prompt
    /\ queue = <<>> /\ reader = "reading"
    /\ caller = "idle" /\ atStart = TRUE
    /\ commands = <<>> /\ outcomes = <<>> /\ asyncs = 0

GdbStep == GdbAnswers \/ GdbNotifies \/ GdbDies
ReaderStep == ReaderLine \/ ReaderEnds
Await == Receive \/ Timeout
CallerStep == Connect \/ ReadMemory \/ Detach \/ Await \/ Terminate

SessionNext == GdbStep \/ ReaderStep \/ CallerStep

SessionSpec == SessionInit /\ [][SessionNext]_gdbVars

\* The reader thread runs, the caller's thread takes what is in the queue, times
\* out if nothing comes, and goes on; of GDB nothing is assumed.
FairSessionSpec == SessionSpec /\ WF_gdbVars(ReaderStep) /\ WF_gdbVars(CallerStep)

------------------------------------------------------------------------------
(* Properties                                                                *)

LineType == [kind : {"done", "error", "prompt", "async", "eof"}, of : Nat]

SessionTypeOK ==
    /\ gdb \in {"running", "dead"} /\ attached \in BOOLEAN
    /\ stdin \in Seq(Nat) /\ stdout \in Seq(LineType) /\ queue \in Seq(LineType)
    /\ reader \in {"reading", "ended"} /\ caller \in {"idle", "waiting", "gone"}
    /\ atStart \in BOOLEAN
    /\ commands \in Seq({"hello", "attach", "read", "detach"})
    /\ outcomes \in Seq([kind : {"answer", "RuntimeError", "TimeoutError", "OSError"}, of : Nat])
    /\ Len(outcomes) = Len(commands) - (IF caller = "waiting" THEN 1 ELSE 0)
    /\ asyncs \in Nat

TimeoutsBefore(i) == Cardinality({j \in 1 .. i - 1 : outcomes[j].kind = "TimeoutError"})

\* The result record a command takes is its own, set back by exactly one for
\* every command before it that timed out: records are neither lost nor taken
\* twice, and a session never gets back into step after a timeout.
LagIsTimeouts ==
    \A i \in 1 .. Len(outcomes) :
        outcomes[i].of # 0 => outcomes[i].of = i - TimeoutsBefore(i)

\* The bytes read_memory returns are the answer to this very read.  The code
\* does not keep this after a timeout, so no run checks it.
ReadsOwnAnswer ==
    \A i \in 1 .. Len(outcomes) :
        commands[i] = "read" /\ outcomes[i].kind = "answer" => outcomes[i].of = i

\* connect returns only if GDB attached to the target.  The code does not keep
\* this when a prompt stands before the error, so no run checks it.
ConnectedIsAttached == Connected => attached

\* A command without a result record ends with the timeout, or with the None of
\* the reader thread, once GDB prints no more (MaxAsync): every line restarts
\* the timeout.
CommandEnds == caller = "waiting" ~> caller # "waiting"

\* A session is closed in the end, whatever GDB did.
SessionEnds == <>(caller = "gone")

\* Whatever GDB did, neither a command nor a session stays open.
NothingHangs == CommandEnds /\ SessionEnds
==============================================================================

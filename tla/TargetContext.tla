---------------------------- MODULE TargetContext ----------------------------
(***************************************************************************)
(* Who describes the target, and how: the system context of a slice taken  *)
(* in investigation mode (memslicer -I: cli.py and acquirer/engine.py), and *)
(* the report of memslicer-sysctx (cli_sysctx.py) on the same collectors.   *)
(*                                                                         *)
(* Programs run on the machine "host".  The target is a process there or,  *)
(* behind a remote link, on the machine "device".  A collector answers for *)
(* one machine: those that read /proc or call the system answer for the    *)
(* host, whatever the target is.                                           *)
(***************************************************************************)
EXTENDS OSDetail

CONSTANTS
    Invocations,  \* command lines; see TypeOK
    Hosts,        \* [os, proc]: sys.platform of the host, and whether /proc is a directory
    TargetOSes,   \* operating systems of targets
    Infos,        \* [machine -> what a collector may find there]
    HostNames,    \* answers of socket.gethostname(); <<>> when it raises
    MaxString,    \* MAX_FORENSIC_STRING_LEN
    Characters,   \* what texts are made of
    Secrets       \* [gate -> the words that occur behind that gate only]

Texts == Seq(Characters)
Values == [str : Texts] \cup [int : Nat] \cup [bool : BOOLEAN] \cup [list : Seq(Texts)]

ASSUME InvocationAssumption ==
    \A i \in Invocations :
        /\ i.tool \in {"memslicer", "engine", "sysctx"} /\ i.backend \in {"frida", "gdb", "lldb"}
        /\ i.link \in {"local", "remote", "usb"} /\ i.given \in {"none", "FridaRemote"}
        /\ i.override \in Texts

\* What a collector fills in has the types of TargetSystemInfo.
ASSUME InfoAssumption ==
    /\ HostNames \subseteq Texts /\ DOMAIN Infos = {"host", "device"}
    /\ \A m \in DOMAIN Infos : \A i \in Infos[m] :
          /\ {"hostname", "warnings", "os_detail"} \subseteq DOMAIN i
          /\ i.hostname \in Texts /\ i.warnings \in Seq(Texts)
          /\ \A k \in DOMAIN i \cap (Keys \cup {"os_detail"}) : i[k] \in Values

\* A secret of a gate is a word of no other field, nor of a warning, nor one of the format's.
ASSUME SecretAssumption ==
    \A gate \in DOMAIN Secrets :
        /\ gate # "none" /\ Secrets[gate] \cap FormatWords = {}
        /\ \A m \in DOMAIN Infos : \A i \in Infos[m] :
              /\ \A w \in ToSet(i.warnings) : ToSet(w) \cap Secrets[gate] = {}
              /\ \A k \in DOMAIN i \cap (Keys \cup {"os_detail"}) :
                    GateOf(k) = gate \/ ToSet(Text(i[k])) \cap Secrets[gate] = {}

VARIABLES
    inv, host, target,
    pc,         \* where the program is
    collector,  \* the class of the collector, or "none"
    tables,     \* [table -> the machines its rows are about]
    raised,     \* history: the collector calls that raised
    info,       \* history: what collect_system_info answered
    context     \* the SystemContext, once it is built

contextVars == <<inv, host, target, pc, collector, tables, raised, info, context>>

TableNames == {"identity", "process", "connection", "handle"}
\* AttributionConfig.is_remote and the is_remote of the bridges.
IsRemote == inv.link # "local"
Nobody == [machine |-> "nobody",
           raw |-> [hostname |-> <<>>, warnings |-> <<>>, os_detail |-> Str(<<>>), raw_os |-> Str(<<>>)]]
NoContext == [hostname |-> <<>>, fields |-> <<>>, detail |-> <<>>, parsed |-> <<>>, encrypted |-> FALSE]

------------------------------------------------------------------------------
(* Operator strings and collectors                                           *)

\* validate_forensic_string; texts are taken to be in normal form already.
StringAccepted(text) ==
    Len(text) <= MaxString /\ \A i \in DOMAIN text : text[i] \notin {"NUL", "NL", "BIDI", ";", "="}

\* create_collector: by the operating system of the target, if the host has
\* what the class reads.
CollectorFor(os) ==
    CASE os \in {"Android", "Linux"} /\ host.proc -> os
      [] os \in {"iOS", "macOS"} /\ host.os = "macOS" -> os
      [] os = "Windows" /\ host.os = "Windows" -> os
      [] OTHER -> "Null"

\* infer_os_type, and the same rule in _create_acquirer: the option, or the host's platform.
InferOS ==
    IF inv.os # "none" THEN inv.os
    ELSE IF host.os = "Android" THEN "Linux"
    ELSE IF host.os \in {"Linux", "macOS", "Windows"} THEN host.os ELSE "Unknown"

\* What the bridge takes the target for.  Frida has a platform of three and
\* looks for Android and iOS in the modules.
FridaOS ==
    IF target.marks THEN target.os
    ELSE CASE target.os = "Android" -> "Linux" [] target.os = "iOS" -> "macOS" [] OTHER -> target.os
\* LLDB has the triple of the target.
LldbOS == target.os
\* GDB reads /proc/<pid>/maps of the host, or takes the host's own platform.
GdbOS ==
    IF target.machine = "host" /\ host.proc /\ target.marks THEN target.os
    ELSE IF host.os \in {"macOS", "Windows"} THEN host.os ELSE "Linux"
DetectOS == CASE inv.backend = "frida" -> FridaOS [] inv.backend = "lldb" -> LldbOS [] OTHER -> GdbOS

\* The machine a collector reads.
MachineOf(c) == CASE c = "Null" -> "nobody" [] c = "FridaRemote" -> target.machine [] OTHER -> "host"

Answers(c) ==
    IF MachineOf(c) = "nobody" THEN {Nobody}
    ELSE {[machine |-> MachineOf(c), raw |-> i] : i \in Infos[MachineOf(c)]}

\* The rows of a table: there may be none, and about the process a handle
\* table or an identity names there is whatever has its pid on that machine.
Rows(c) == IF MachineOf(c) = "nobody" THEN {{}} ELSE {{}, {MachineOf(c)}}

\* Without a collector the engine makes a LinuxCollector, if there is a /proc.
FallbackRows == IF host.proc THEN {{}, {"host"}} ELSE {{}}

------------------------------------------------------------------------------
(* The description                                                           *)

\* resolve_target_identity; local is what socket.gethostname() would say.
ResolveIdentity(found, local) ==
    LET name == IF inv.override # <<>> THEN inv.override ELSE found
    IN CASE name # <<>> -> [hostname |-> name, warnings |-> <<>>]
         [] name = <<>> /\ IsRemote -> [hostname |-> <<>>, warnings |-> <<<<"remote_hostname_unavailable">>>>]
         [] OTHER -> [hostname |-> local,
                      warnings |-> IF local = <<>> THEN <<<<"local_hostname_unavailable">>>> ELSE <<>>]

\* Fields with the warnings of the collector and of the resolution among them.
WithWarnings(fields, warnings) ==
    IF warnings = <<>> THEN fields ELSE Over([collector_warning |-> Str(Joined(warnings, <<",">>))], fields)

\* Mutant: the warnings of the resolution are forgotten.
MutDescribe(fields, warnings, local, found, encrypted) ==
    LET identity == ResolveIdentity(found, local)
        all == WithWarnings(fields, warnings)
        detail == PackOSDetail(all)
    IN [hostname |-> identity.hostname, fields |-> all, detail |-> detail,
        parsed |-> ParseOSDetail(detail), encrypted |-> encrypted]

Describe(fields, warnings, local, found, encrypted) ==
    LET identity == ResolveIdentity(found, local)
        all == WithWarnings(fields, warnings \o identity.warnings)
        detail == PackOSDetail(all)
    IN [hostname |-> identity.hostname, fields |-> all, detail |-> detail,
        parsed |-> ParseOSDetail(detail), encrypted |-> encrypted]

\* use_encryption of the acquisition command; an empty passphrase encrypts too.
Encrypted == inv.encrypt \/ ~ inv.noEncrypt

------------------------------------------------------------------------------
(* memslicer -I                                                              *)

Init ==
    /\ inv \in Invocations /\ host \in Hosts
    /\ target \in [machine : {IF inv.link = "local" THEN "host" ELSE "device"}, os : TargetOSes, marks : BOOLEAN]
    /\ target.machine = "host" => target.os = host.os /\ target.marks
    /\ pc = "parse" /\ collector = "none" /\ raised = {} /\ info = Nobody /\ context = NoContext
    /\ tables = [t \in TableNames |-> {}]

Accepted ==
    /\ StringAccepted(inv.override) /\ StringAccepted(inv.caseRef)
    /\ inv.tool = "memslicer" => (inv.link = "usb" => inv.backend = "frida")
    /\ inv.tool = "sysctx" => inv.tables \subseteq {"process", "connection", "handle"}

Refuse ==
    /\ pc = "parse" /\ ~ Accepted
    /\ pc' = "refused"
    /\ UNCHANGED <<inv, host, target, collector, tables, raised, info, context>>

CreateAcquirer ==
    /\ pc = "parse" /\ inv.tool = "memslicer" /\ Accepted
    /\ collector' = CollectorFor(InferOS)
    /\ pc' = "connect"
    /\ UNCHANGED <<inv, host, target, tables, raised, info, context>>

\* A program of its own may give the engine no collector, or the remote one.
BuildEngine ==
    /\ pc = "parse" /\ inv.tool = "engine" /\ Accepted
    /\ collector' = inv.given
    /\ pc' = "connect"
    /\ UNCHANGED <<inv, host, target, tables, raised, info, context>>

\* Mutant: the collector of the host is kept.
MutRefined(os) == collector

\* _maybe_refine_collector: every collector of the project is replaced, the
\* remote one too.
Refined(os) == IF collector = "none" THEN "none" ELSE CollectorFor(os)

Connect ==
    /\ pc = "connect"
    /\ collector' = Refined(IF inv.os # "none" THEN inv.os ELSE DetectOS)
    /\ pc' = "tables"
    /\ UNCHANGED <<inv, host, target, tables, raised, info, context>>

\* Collected before the header; what a collector raises ends the acquisition,
\* what the engine's own fallback raises is an empty table.
CollectTables ==
    /\ pc = "tables"
    /\ \/ /\ tables' \in [TableNames -> IF collector = "none" THEN FallbackRows ELSE Rows(collector)]
          /\ collector = "none" => tables'["identity"] = {}
          /\ pc' = "context" /\ raised' = raised
       \/ /\ collector \notin {"none", "Null"}
          /\ pc' = "failed" /\ raised' = raised \cup {"table"} /\ UNCHANGED tables
    /\ UNCHANGED <<inv, host, target, collector, info, context>>

CollectContext ==
    /\ pc = "context"
    /\ \/ /\ collector # "none"
          /\ info' \in Answers(collector)
          /\ \E local \in HostNames :
                context' = Describe(SystemInfoFields(info'.raw, inv.gates), info'.raw.warnings, local,
                                    info'.raw.hostname, Encrypted)
          /\ pc' = "written" /\ raised' = raised
       \/ /\ collector = "none"
          /\ \E local \in HostNames :
                context' = Describe([raw_os |-> Str(<<"platform">>)], <<>>, local, <<>>, Encrypted)
          /\ pc' = "written" /\ raised' = raised /\ info' = info
       \/ /\ collector \notin {"none", "Null"}
          /\ pc' = "failed" /\ raised' = raised \cup {"system"} /\ UNCHANGED <<info, context>>
    /\ UNCHANGED <<inv, host, target, collector, tables>>

------------------------------------------------------------------------------
(* memslicer-sysctx: every section fails on its own                          *)

MakeCollector ==
    /\ pc = "parse" /\ inv.tool = "sysctx" /\ Accepted
    /\ collector' = CollectorFor(InferOS)
    /\ pc' = "system"
    /\ UNCHANGED <<inv, host, target, tables, raised, info, context>>

\* Mutant: what the collector raises ends the program.
MutInspectSystem ==
    /\ pc = "system"
    /\ \E failed \in {FALSE, collector # "Null"}, answer \in Answers(collector), local \in HostNames :
         /\ info' = (IF failed THEN Nobody ELSE answer)
         /\ raised' = (IF failed THEN raised \cup {"system"} ELSE raised)
         /\ context' = Describe(SystemInfoFields(info'.raw, inv.gates), info'.raw.warnings, local,
                                info'.raw.hostname, FALSE)
         /\ pc' = IF failed THEN "exit1" ELSE "identity"
    /\ UNCHANGED <<inv, host, target, collector, tables>>

InspectSystem ==
    /\ pc = "system"
    /\ \E failed \in {FALSE, collector # "Null"}, answer \in Answers(collector), local \in HostNames :
         /\ info' = (IF failed THEN Nobody ELSE answer)
         /\ raised' = (IF failed THEN raised \cup {"system"} ELSE raised)
         /\ context' = Describe(SystemInfoFields(info'.raw, inv.gates), info'.raw.warnings, local,
                                info'.raw.hostname, FALSE)
    /\ pc' = "identity"
    /\ UNCHANGED <<inv, host, target, collector, tables>>

\* The identity and the handles need a target, the other tables were asked for or not.
Wanted(t) == (t \in {"identity", "handle"} => inv.hasPid) /\ (t # "identity" => t \in inv.tables)

Inspect(t, next) ==
    /\ pc = t /\ inv.tool = "sysctx"
    /\ IF ~ Wanted(t) THEN UNCHANGED <<tables, raised>>
       ELSE \/ \E rows \in Rows(collector) : tables' = [tables EXCEPT ![t] = rows] /\ raised' = raised
            \/ collector # "Null" /\ raised' = raised \cup {t} /\ tables' = tables
    /\ pc' = next
    /\ UNCHANGED <<inv, host, target, collector, info, context>>

MinimumSetComplete == context.hostname # <<>> /\ DOMAIN context.parsed \ {<<"_human">>} # {}

Exit ==
    /\ pc = "exit"
    /\ pc' = IF MinimumSetComplete THEN "exit0" ELSE IF inv.strict THEN "exit1" ELSE "exit2"
    /\ UNCHANGED <<inv, host, target, collector, tables, raised, info, context>>

InspectTables ==
    \/ Inspect("identity", "handle") \/ Inspect("handle", "process")
    \/ Inspect("process", "connection") \/ Inspect("connection", "exit")

Next ==
    \/ Refuse \/ CreateAcquirer \/ BuildEngine \/ Connect \/ CollectTables \/ CollectContext
    \/ MakeCollector \/ InspectSystem \/ InspectTables \/ Exit

Spec == Init /\ [][Next]_contextVars

------------------------------------------------------------------------------
(* Properties                                                                *)

\* The variables have their types.
TypeOK ==
    /\ inv.tool \in {"memslicer", "engine", "sysctx"} /\ inv.backend \in {"frida", "gdb", "lldb"}
    /\ inv.link \in {"local", "remote", "usb"} /\ inv.given \in {"none", "FridaRemote"}
    /\ pc \in {"parse", "refused", "connect", "tables", "context", "written", "failed", "system", "exit",
               "exit0", "exit1", "exit2"} \cup TableNames
    /\ collector \in {"none", "Null", "FridaRemote", "Linux", "Android", "macOS", "iOS", "Windows"}
    /\ pc \notin {"parse", "refused"} /\ collector \in {"Linux", "Android"} => host.proc
    /\ tables \in [TableNames -> SUBSET {"host", "device"}]
    /\ raised \subseteq TableNames \cup {"table", "system"}
    /\ DOMAIN context = DOMAIN NoContext

Described == context # NoContext
HumanPart == HumanOS(context.fields)
\* A name of the system that holds the delimiter itself ends the human part
\* early, and so does one that ends with its beginning, " |": the delimiter is
\* found there, one character before its place, and the first pair is lost.
HumanIsPlain == \A i \in DOMAIN HumanPart : ~ Occurs(Delimiter, HumanPart \o Delimiter, i)
HumanFits == Len(HumanPart) + 4 <= HardCap - 4
Collected == {k \in DOMAIN context.fields : Text(context.fields[k]) # <<>>}
Marker == IF <<"truncated">> \in DOMAIN context.parsed THEN context.parsed[<<"truncated">>] ELSE <<>>

\* Whatever a collector found, a reader of os_detail finds no key that was not
\* collected and no value other than the one collected, unless the string was
\* cut by the hard cap (pack_os_detail and parse_os_detail: escaping, order,
\* budget and cap).
ReadsWhatWasFound ==
    (Described /\ HumanIsPlain) =>
        \A key \in DOMAIN context.parsed \ {<<"_human">>, <<"truncated">>} :
            /\ Len(key) = 1 /\ key[1] \in Collected
            /\ Marker # <<"hard">> => context.parsed[key] = Text(context.fields[key[1]])

\* A key that was collected and is missing was dropped with a marker, never
\* one of the provenance keys, and never while a key of lower rank was kept.
TruncationIsHonest ==
    (Described /\ HumanIsPlain /\ HumanFits) =>
        LET missing == {k \in Collected : <<k>> \notin DOMAIN context.parsed}
            Rank(k) == CHOOSE i \in DOMAIN KeyOrder : KeyOrder[i] = k
        IN missing # {} =>
              /\ Marker # <<>>
              /\ Marker # <<"hard">> =>
                    /\ missing \cap ProvenanceKeys = {}
                    /\ \A k \in missing, other \in (Collected \ missing) \ ProvenanceKeys : Rank(other) < Rank(k)
              /\ Len(context.detail) <= HardCap

\* What lies behind a gate is in the slice or the report only if the operator
\* opened that gate, and a slice of the whole system is in the clear only if
\* the operator said so: from the options through the projection, the human
\* part included, to the string.
PrivateOnRequest ==
    Described =>
        /\ \A gate \in DOMAIN Secrets : ToSet(context.detail) \cap Secrets[gate] # {} => gate \in inv.gates
        /\ pc = "written" /\ ~ context.encrypted => inv.noEncrypt

\* A slice of a target on another machine, of a system the bridge recognises
\* and the host has no collector for, holds nothing about the host: the
\* collector made for the host before the bridge was connected is gone, and no
\* name of the host stands in for the target's.
ForeignTargetKeepsHostOut ==
    (/\ pc = "written" /\ inv.tool = "memslicer" /\ target.machine = "device"
     /\ inv.os = "none" /\ inv.backend # "gdb" /\ target.marks /\ CollectorFor(target.os) = "Null") =>
        /\ context.hostname = inv.override
        /\ \A t \in TableNames : tables[t] = {}
        /\ info.machine # "host"

\* A blank name on a remote target is explained: a slice or report without a
\* hostname carries a warning, or says that it was truncated.
BlankNameIsExplained ==
    (Described /\ HumanIsPlain /\ HumanFits /\ context.hostname = <<>>) =>
        <<"collector_warning">> \in DOMAIN context.parsed \/ Marker # <<>>

\* sysctx: a section that raises costs no other section; and a run that
\* collected nothing of the system, because there was no collector for it or
\* because it raised, never claims to be complete.
SectionsStandAlone ==
    /\ inv.tool = "sysctx" => pc # "failed" /\ (pc = "exit1" => inv.strict)
    /\ pc = "exit0" => info.machine # "nobody"

\* A part that is missing leaves a trace for the reader or the caller: in the
\* slice, or in the exit code (collect_system_info, _collect_all, main).
FailuresShow == TypeOK /\ BlankNameIsExplained /\ SectionsStandAlone

\* What a slice says of the system is about the machine of its target:
\* identity.py on the acquisition host's name, cli.py on remote targets.
DescribesTarget ==
    pc = "written" =>
        /\ \A t \in TableNames : tables[t] \subseteq {target.machine}
        /\ info.machine \in {target.machine, "nobody"}
==============================================================================

--------------------------- MODULE MCTargetContext ---------------------------
EXTENDS TargetContext

Machine(name, serial, mac, print, page) ==
    [distro |-> Str(<<"Ubuntu", " ", "24">>), kernel |-> Str(<<"6.8">>), arch |-> Str(<<"x86_64">>),
     machine_id |-> Str(<<serial>>), hw_serial |-> Str(<<"no", "=", serial>>),
     hw_model |-> Str(<<"X", "%", "3", "B", ";", "=", "|", "%">>), cpu_count |-> Num(0),
     nic_macs |-> List(<<<<mac>>, <<>>, <<mac>>>>), fingerprint |-> Str(<<print>>), page_size |-> Num(page),
     mode |-> Str(<<"safe">>), collector_caps |-> Str(<<"caps">>), truncated |-> Bool(FALSE),
     raw_os |-> Str(<<"raw">>), os_detail |-> Str(<<"detail">>),
     hostname |-> <<name, "local">>, warnings |-> <<<<"kallsyms">>, <<"hidepid">>>>]
Words(n) == Str([i \in 1 .. n |-> "x"])

\* One that is complete; one that is empty but for the raw string; one whose
\* distribution holds the delimiter and one whose ends with its beginning; two that overrun the budget and the cap;
\* one whose own flag says that it was truncated.
Variants(m) ==
    {m,
     [k \in DOMAIN m |-> CASE k = "os_detail" -> m[k] [] k = "nic_macs" -> List(<<<<>>>>)
                             [] k \in {"hostname", "warnings"} -> <<>> [] OTHER -> Str(<<>>)],
     [m EXCEPT !.distro = Str(<<"Odd", " ", "|", " ", "kernel", "=", "9">>)],
     [m EXCEPT !.distro = Str(<<"Odd", " ", "|">>), !.kernel = Str(<<>>), !.arch = Str(<<>>)],
     [m EXCEPT !.hw_model = Words(70), !.hostname = <<>>],
     [m EXCEPT !.cpu_count = Num(8), !.truncated = Bool(TRUE), !.machine_id = Words(45)],
     [m EXCEPT !.collector_caps = Words(90), !.hostname = <<>>]}
MCInfos == [host |-> Variants(Machine("hostId", "hostSerial", "hostMac", "hostPrint", 4096)),
            device |-> Variants(Machine("devId", "devSerial", "devMac", "devPrint", 16384))]
MCSecrets == [serials |-> {"hostSerial", "devSerial"}, network_identity |-> {"hostMac", "devMac"},
              fingerprint |-> {"hostPrint", "devPrint"}, kernel_symbols |-> {"4096", "16384"}]
MCCharacters ==
    FormatWords \cup UNION {MCSecrets[g] : g \in DOMAIN MCSecrets}
    \cup {"Ubuntu", "24", "6.8", "x86_64", "no", "X", "safe", "caps", "raw", "detail", "local", "hostId", "devId",
          "kallsyms", "hidepid", "x", "Odd", "kernel", "given", "bad", "hostName"}
AllGates == DOMAIN MCSecrets

Base == [tool |-> "memslicer", backend |-> "frida", link |-> "local", os |-> "none", gates |-> {},
         override |-> <<>>, caseRef |-> <<>>, encrypt |-> FALSE, noEncrypt |-> FALSE, strict |-> FALSE,
         tables |-> {"process", "connection", "handle"}, hasPid |-> TRUE, given |-> "none"]

MCInvocations ==
    {[Base EXCEPT !.backend = b, !.link = l, !.override = o] :
        b \in {"frida", "gdb", "lldb"}, l \in {"local", "remote", "usb"}, o \in {<<>>, <<"given">>, <<"bad", ";">>}}
    \cup {[Base EXCEPT !.gates = g, !.noEncrypt = (g = AllGates)] : g \in SUBSET AllGates}
    \cup {[Base EXCEPT !.tool = "engine", !.link = "remote", !.given = g, !.encrypt = TRUE, !.noEncrypt = TRUE] :
            g \in {"none", "FridaRemote"}}
    \cup {[Base EXCEPT !.tool = "sysctx", !.strict = s, !.tables = t, !.hasPid = ~ s, !.link = l, !.os = o] :
            s \in BOOLEAN, t \in {{"process", "handle"}, {"modules"}}, l \in {"local", "remote"},
            o \in {"none", "iOS"}}
RemoteInvocations == {i \in MCInvocations : i.link # "local" /\ i.tool = "memslicer"}

MCHosts == {[os |-> "Linux", proc |-> TRUE], [os |-> "Linux", proc |-> FALSE], [os |-> "Android", proc |-> TRUE],
            [os |-> "macOS", proc |-> FALSE], [os |-> "Windows", proc |-> FALSE], [os |-> "Other", proc |-> FALSE]}
LinuxHosts == {[os |-> "Linux", proc |-> TRUE]}
MCHostNames == {<<>>, <<"hostName">>}
=============================================================================

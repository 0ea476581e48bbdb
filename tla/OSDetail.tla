------------------------------- MODULE OSDetail -------------------------------
(***************************************************************************)
(* os_detail.py: the string a SystemContext carries what a collector found *)
(* in, as "msl.memslicer/1 <human> | k1=v1;k2=v2", and the parser for it.  *)
(*                                                                         *)
(* A text is a sequence of characters; a run of characters that no rule of *)
(* the format looks into (a word, a key, the schema prefix) counts as one. *)
(* What a collector found is a record of tagged values, since the packer   *)
(* treats strings, integers, truth values and lists each in its own way.   *)
(***************************************************************************)
EXTENDS Naturals, SequencesExt

CONSTANTS
    SoftBudget,   \* SOFT_BUDGET_BYTES, in characters of the model
    HardCap       \* HARD_CAP_BYTES

ASSUME BudgetAssumption == SoftBudget \in Nat /\ HardCap \in Nat /\ SoftBudget <= HardCap /\ 4 < HardCap

Schema == <<"msl.memslicer/1 ">>
Delimiter == <<" ", "|", " ">>

Reserved == {"NUL", "NL", ";", "=", "|", "%"}
EscapeOf(char) ==
    CASE char = "NUL" -> <<"%", "0", "0">> [] char = "NL" -> <<"%", "0", "A">> [] char = ";" -> <<"%", "3", "B">>
      [] char = "=" -> <<"%", "3", "D">> [] char = "|" -> <<"%", "7", "C">> [] char = "%" -> <<"%", "2", "5">>
      [] OTHER -> <<char>>

FieldOrder ==
    <<"distro", "kernel", "arch", "machine_id", "hw_vendor", "hw_model", "hw_serial", "bios", "cpu", "cpu_count",
      "ram", "boot_id", "virt", "secure_boot", "disk_enc", "selinux", "apparmor", "tz", "nic_macs",
      "mode", "collector_caps", "redacted_keys", "truncated">>
ProvenanceKeys == {"mode", "collector_caps", "redacted_keys", "truncated"}
\* The keys the order does not name, sorted; one per gate and one without.
OtherKeys == <<"collector_warning", "fingerprint", "page_size", "raw_os">>
KeyOrder == FieldOrder \o OtherKeys
Keys == ToSet(KeyOrder)
Digits == {"0", "1", "2", "3", "4", "5", "6", "7", "8", "9"}
\* What a string holds besides the values that were collected.
FormatWords == ToSet(Schema) \cup Keys \cup Reserved \cup Digits \cup
    {" ", "(", ")", ",", "A", "B", "C", "D", "hard", "unknown OS", "platform",
     "remote_hostname_unavailable", "local_hostname_unavailable"}

Str(text) == [str |-> text]
Num(n) == [int |-> n]
Bool(b) == [bool |-> b]
List(texts) == [list |-> texts]

\* f, and g where f has nothing to say.
Over(f, g) == [x \in DOMAIN f \cup DOMAIN g |-> IF x \in DOMAIN f THEN f[x] ELSE g[x]]

\* The elements of s that are in T, in their order.
Kept(s, T) ==
    LET kept[n \in 0 .. Len(s)] ==
            IF n = 0 THEN <<>> ELSE IF s[n] \in T THEN Append(kept[n - 1], s[n]) ELSE kept[n - 1]
    IN kept[Len(s)]
NonEmpty(texts) == Kept(texts, ToSet(texts) \ {<<>>})

\* The part stands in the text, from position i on.
Occurs(part, text, i) == i - 1 + Len(part) <= Len(text) /\ \A j \in DOMAIN part : text[i - 1 + j] = part[j]

------------------------------------------------------------------------------
(* Values                                                                    *)

\* Mutant: a percent sign stays as it is.
MutEscape(text) ==
    FlattenSeq([i \in DOMAIN text |-> IF text[i] = "%" THEN <<"%">> ELSE EscapeOf(text[i])])

Escape(text) == FlattenSeq([i \in DOMAIN text |-> EscapeOf(text[i])])

\* A percent sign that does not begin the code of a reserved character stands
\* for itself.  last[n] is what the last n characters stand for.
Unescape(text) ==
    LET Coded(n) == {c \in Reserved : Occurs(EscapeOf(c), text, Len(text) - n + 1)}
        last[n \in 0 .. Len(text)] ==
            IF n = 0 THEN <<>>
            ELSE IF Coded(n) # {} THEN <<CHOOSE c \in Coded(n) : TRUE>> \o last[n - 3]
            ELSE <<text[Len(text) - n + 1]>> \o last[n - 1]
    IN last[Len(text)]

\* Texts with a separator between them.
Joined(texts, separator) ==
    FlattenSeq([i \in DOMAIN texts |-> IF i = 1 THEN texts[i] ELSE separator \o texts[i]])

\* _maybe_add: nothing, zero and false count as not collected and have no text.
Text(raw) ==
    CASE "list" \in DOMAIN raw -> Joined(NonEmpty(raw.list), <<",">>)
      [] "bool" \in DOMAIN raw -> IF raw.bool THEN <<"1">> ELSE <<>>
      [] "int" \in DOMAIN raw -> IF raw.int = 0 THEN <<>> ELSE <<ToString(raw.int)>>
      [] OTHER -> raw.str

------------------------------------------------------------------------------
(* Packing                                                                   *)

TextAt(fields, key) == IF key \in DOMAIN fields THEN Text(fields[key]) ELSE <<>>

FirstOf(text, other) == IF text # <<>> THEN text ELSE other

HumanOS(fields) ==
    LET base == FirstOf(TextAt(fields, "distro"), FirstOf(TextAt(fields, "raw_os"), <<"unknown OS">>))
        extras == NonEmpty(<<TextAt(fields, "kernel"), TextAt(fields, "arch")>>)
    IN base \o (IF extras = <<>> THEN <<>> ELSE <<" ", "(">> \o Joined(extras, <<" ">>) \o <<")">>)

OrderedPairs(fields) ==
    LET present == Kept(KeyOrder, {k \in DOMAIN fields : Text(fields[k]) # <<>>})
    IN [i \in DOMAIN present |-> [key |-> present[i], value |-> Escape(Text(fields[present[i]]))]]

\* The human part is never empty: no caller passes one of its own.
Render(human, pairs) ==
    LET body == Joined([i \in DOMAIN pairs |-> <<pairs[i].key, "=">> \o pairs[i].value], <<";">>)
    IN Schema \o human \o (IF body = <<>> THEN <<>> ELSE Delimiter \o body)

\* The pairs with the first n of those that may be dropped.
KeepFirst(pairs, n) ==
    LET Rank(i) == Cardinality({j \in 1 .. i : pairs[j].key \notin ProvenanceKeys})
        kept == Kept([i \in DOMAIN pairs |-> i],
                     {i \in DOMAIN pairs : pairs[i].key \in ProvenanceKeys \/ Rank(i) <= n})
    IN [i \in DOMAIN kept |-> pairs[kept[i]]]

Unmarked(pairs) == Kept(pairs, {p \in ToSet(pairs) : p.key # "truncated"})
Mark == [key |-> "truncated", value |-> <<"1">>]

\* Mutant: the marker joins the pairs only when they still fit with it.
MutFitBudget(human, pairs) ==
    LET droppable == Cardinality({i \in DOMAIN pairs : pairs[i].key \notin ProvenanceKeys})
        fits == {n \in 0 .. droppable : Len(Render(human, KeepFirst(pairs, n))) <= SoftBudget}
        n == IF fits = {} THEN 0 ELSE Max(fits)
        marked == Append(Unmarked(KeepFirst(pairs, n)), Mark)
    IN IF n = droppable THEN pairs
       ELSE IF Len(Render(human, marked)) <= SoftBudget THEN marked ELSE KeepFirst(pairs, n)

\* From the tail, everything but provenance is dropped until the string fits;
\* the marker is added then, and may exceed the budget again.
FitBudget(human, pairs) ==
    LET droppable == Cardinality({i \in DOMAIN pairs : pairs[i].key \notin ProvenanceKeys})
        fits == {n \in 0 .. droppable : Len(Render(human, KeepFirst(pairs, n))) <= SoftBudget}
        n == IF fits = {} THEN 0 ELSE Max(fits)
    IN IF n = droppable THEN pairs ELSE Append(Unmarked(KeepFirst(pairs, n)), Mark)

CapHard(text) ==
    IF Len(text) <= HardCap THEN text ELSE SubSeq(text, 1, HardCap - 4) \o <<";", "truncated", "=", "hard">>

PackOSDetail(fields) ==
    LET human == HumanOS(fields) IN CapHard(Render(human, FitBudget(human, OrderedPairs(fields))))

------------------------------------------------------------------------------
(* Parsing                                                                   *)

ValidKey(key) == key # <<>> /\ \A i \in DOMAIN key : key[i] \in Keys \cup Digits \cup {"_human", "hard"}

\* The parts of a text between separators, by the position at which each begins.
SplitAt(text, separator) ==
    LET starts == {1} \cup {i + 1 : i \in {j \in DOMAIN text : text[j] = separator}}
        EndOf(start) == Min({e \in start - 1 .. Len(text) : e = Len(text) \/ text[e + 1] = separator})
    IN [start \in starts |-> SubSeq(text, start, EndOf(start))]

Strip(text) ==
    LET inside == {i \in DOMAIN text : text[i] # " "}
    IN [i \in 1 .. (IF inside = {} THEN 0 ELSE Max(inside) - Min(inside) + 1) |-> text[Min(inside) + i - 1]]

\* The text up to the first "=" is the key; the last pair of a key counts.
PairsIn(body) ==
    LET pairs == SplitAt(body, ";")
        EqualsAt(p) == Min({i \in DOMAIN p : p[i] = "="})
        KeyOf(p) == Strip(SubSeq(p, 1, EqualsAt(p) - 1))
        read == {i \in DOMAIN pairs : "=" \in ToSet(pairs[i]) /\ ValidKey(KeyOf(pairs[i]))}
        LastOf(key) == pairs[Max({i \in read : KeyOf(pairs[i]) = key})]
    IN [key \in {KeyOf(pairs[i]) : i \in read} |->
            Unescape(SubSeq(LastOf(key), EqualsAt(LastOf(key)) + 1, Len(LastOf(key))))]

Human(text) == IF text = <<>> THEN <<>> ELSE [key \in {<<"_human">>} |-> text]

ParseOSDetail(text) ==
    IF ~ IsPrefix(Schema, text) THEN Human(text)
    ELSE LET rest == SubSeq(text, 2, Len(text))
             hits == {i \in DOMAIN rest : Occurs(Delimiter, rest, i)}
         IN IF hits = {} THEN Human(rest)
            ELSE Over(PairsIn(SubSeq(rest, Min(hits) + 3, Len(rest))), Human(SubSeq(rest, 1, Min(hits) - 1)))

------------------------------------------------------------------------------
(* Projections                                                               *)

\* The gate a key is behind; those named are closed by default.
GateOf(key) ==
    CASE key \in {"machine_id", "hw_serial"} -> "serials" [] key = "nic_macs" -> "network_identity"
      [] key = "fingerprint" -> "fingerprint" [] key = "page_size" -> "kernel_symbols" [] OTHER -> "none"

\* Mutant: the serial number of the hardware is taken for part of its model.
MutSystemInfoFields(info, gates) ==
    LET open == {k \in DOMAIN info \cap Keys : k = "hw_serial" \/ GateOf(k) \in gates \cup {"none"}}
    IN [k \in open |-> IF k = "raw_os" /\ Text(info.raw_os) = <<>> THEN info.os_detail ELSE info[k]]

SystemInfoFields(info, gates) ==
    LET open == {k \in DOMAIN info \cap Keys : GateOf(k) \in gates \cup {"none"}}
    IN [k \in open |-> IF k = "raw_os" /\ Text(info.raw_os) = <<>> THEN info.os_detail ELSE info[k]]
==============================================================================

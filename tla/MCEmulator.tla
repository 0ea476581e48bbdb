----------------------------- MODULE MCEmulator ------------------------------
(***************************************************************************)
(* Two mapped cells and one behind the end of the region, two threads, one *)
(* without a segment base; an instruction may jump behind the region.      *)
(***************************************************************************)
EXTENDS Emulator

SomeCpus == {[pc |-> 1, sp |-> 0, base |-> 1], [pc |-> 2, sp |-> 0, base |-> 1]}

TwoThreads == {[pc |-> 0, sp |-> 1, base |-> 1], [pc |-> 1, sp |-> 0, base |-> Absent]}

OneMemory == {[a \in {0, 1} |-> a]}
==============================================================================

------------------------------ MODULE SealedLog ------------------------------
(***************************************************************************)
(* What a Memory Slice promises a reader who verifies the integrity chain: *)
(* an append-only log.  `accepted' is what the writer acknowledged to its  *)
(* caller, `visible' is the part a verifying reader of the file can see at *)
(* this moment, `sealed' says that the reader also finds a valid           *)
(* End-of-Capture block closing the whole file.                            *)
(*                                                                         *)
(* MSLWriter implements this module, in the clear and encrypted mode,      *)
(* under failing writes and under a kill of the process.                   *)
(***************************************************************************)
EXTENDS Integers, Sequences

VARIABLES accepted, visible, sealed

logVars == <<accepted, visible, sealed>>

PrefixOf(s, t) == Len(s) <= Len(t) /\ \A i \in 1 .. Len(s) : s[i] = t[i]

Init == accepted = <<>> /\ visible = <<>> /\ sealed = FALSE

\* One block is acknowledged.  The reader may see it now or only later, and
\* never loses what it could see before.  A seal covers everything accepted.
Accept ==
    /\ ~sealed
    /\ Len(accepted') = Len(accepted) + 1 /\ PrefixOf(accepted, accepted')
    /\ PrefixOf(visible, visible') /\ PrefixOf(visible', accepted')
    /\ sealed' \in BOOLEAN
    /\ sealed' => visible' = accepted'

\* The process dies, or its last flush fails: the file is what reached the
\* disk, an earlier prefix.  A sealed log loses nothing any more.
Cut ==
    /\ ~sealed
    /\ \/ UNCHANGED accepted
       \/ Len(accepted') = Len(accepted) + 1 /\ PrefixOf(accepted, accepted')
    /\ PrefixOf(visible', accepted)
    /\ UNCHANGED sealed

Next == Accept \/ Cut

LogSpec == Init /\ [][Next]_logVars
==============================================================================

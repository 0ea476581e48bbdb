--------------------------- MODULE MCBehaviorTracer ---------------------------
(***************************************************************************)
(* Unit 1 calls the functions at 3 and 4 or the export at 6; 2 may loop,   *)
(* or jump to zero-filled memory (7) in front of code that writes          *)
(* executable memory and exits (8); 3 holds a syscall and returns; 4 calls *)
(* an export that does not come back, right in front of the export at 5.   *)
(* The library has a stub for Open, by which OpenW is answered.            *)
(***************************************************************************)
EXTENDS BehaviorTracer

ProgTerm == <<"call", "jump", "ret", "call", "ret", "ret", "fall", "jump">>
ProgGoes == <<{3, 4, 6}, {1, 7}, {}, {6}, {}, {}, {}, {6}>>
ProgInsns == <<1, 1, 1, 1, 1, 1, 1, 2>>
ProgNames == <<"none", "none", "socket", "none", "_module", "OpenW", "none", "exit">>
CallNames == {"socket", "_module", "Open", "OpenW", "exit"}
ProgBase == [n \in CallNames |-> IF n = "OpenW" THEN "Open" ELSE n]
ProgLibrary == [n \in CallNames |->
                  CASE n = "Open" -> "handle" [] n = "socket" -> "sock" [] n = "_module" -> "fixed" [] OTHER -> "none"]
Starts == [handle |-> 10, sock |-> 18]
Steps == [handle |-> 4, sock |-> 4]
Mode(granularity, callGraph, link) ==
    [granularity |-> granularity, callGraph |-> callGraph, link |-> link]
AllModes == {Mode("block", TRUE, FALSE), Mode("block", TRUE, TRUE), Mode("instruction", FALSE, FALSE),
             Mode("instruction", FALSE, TRUE), Mode("function", FALSE, FALSE),
             Mode("speakeasy", FALSE, FALSE)}
==============================================================================

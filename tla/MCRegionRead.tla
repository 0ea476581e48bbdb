----------------------------- MODULE MCRegionRead -----------------------------
(* A region that takes several chunks, and one of the same size that fits in a   *)
(* single read: the same code with another _max_chunk_size.                      *)
EXTENDS RegionRead

VARIABLE fits
Whole == INSTANCE RegionRead WITH MaxChunk <- NumPages

MCInit == Init /\ fits \in BOOLEAN
Chunked == ~ fits /\ Step /\ UNCHANGED fits
AtOnce == fits /\ Whole!Step /\ UNCHANGED fits
Abort == RequestAbort /\ UNCHANGED fits
MCNext == Abort \/ Chunked \/ AtOnce
MCSpec == MCInit /\ [][MCNext]_<<readVars, fits>> /\ WF_<<readVars, fits>>(Chunked \/ AtOnce)
==============================================================================

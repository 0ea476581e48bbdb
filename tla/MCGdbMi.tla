------------------------------- MODULE MCGdbMi -------------------------------
EXTENDS GdbMi
==============================================================================

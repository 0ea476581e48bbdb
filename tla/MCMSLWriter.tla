----------------------------- MODULE MCMSLWriter -----------------------------
EXTENDS MSLWriter
==============================================================================

----------------------------- MODULE MCSigHandler -----------------------------
EXTENDS SigHandler

MCProcs == 1..2
=============================================================================

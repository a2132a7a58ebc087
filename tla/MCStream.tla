------------------------------- MODULE MCStream -------------------------------
EXTENDS EventStream
=============================================================================

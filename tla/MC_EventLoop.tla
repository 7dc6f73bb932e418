---------------------------- MODULE MC_EventLoop ----------------------------
EXTENDS EventLoop
=============================================================================

---------------------------- MODULE MCChatRuntime ----------------------------
EXTENDS ChatRuntime

CONSTANTS r1, r2, t1, t2
=============================================================================

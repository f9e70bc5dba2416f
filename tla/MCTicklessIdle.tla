--------------------------- MODULE MCTicklessIdle ---------------------------
EXTENDS TicklessIdle
=============================================================================

--------------------------- MODULE MCSenderQueue ---------------------------
\* The sender's queue for TLC: all constants are given in the configurations.
EXTENDS SenderQueue
=============================================================================

--------------------------- MODULE MC_UnixTransport ---------------------------
EXTENDS UnixTransport, TLC

CONSTANTS q1, q2, o1

MCPeers == {q1, q2}
MCOthers == {o1}
MCFds == 0 .. 2

=============================================================================

\* ContinueOnError under the bounds of TcpTransport.cfg: expected to be
\* violated by a publish that raises SIGPIPE part way through the broadcast.
CONSTANTS
  q1 = q1
  q2 = q2
  o1 = o1
  Peers <- MCPeers
  ServerPeer = q1
  Others <- MCOthers
  Fds <- MCFds
  MaxClients = 2
  MaxPublish = 1
  MaxPeerFrames = 1
SPECIFICATION Spec
INVARIANT ContinueOnError
CHECK_DEADLOCK FALSE

\* StopTerminates under the bounds of TcpTransport.cfg: expected to be violated.
CONSTANTS
  q1 = q1
  q2 = q2
  o1 = o1
  Peers <- MCPeers
  ServerPeer = q1
  Others <- MCOthers
  Fds <- MCFds
  MaxClients = 2
  MaxPublish = 1
  MaxPeerFrames = 1
SPECIFICATION Spec
PROPERTY StopTerminates
CHECK_DEADLOCK FALSE

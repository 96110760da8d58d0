\* The unlinks of start and stop against another server on the same path.
CONSTANTS
  q1 = q1
  q2 = q2
  o1 = o1
  Peers <- MCPeers
  ServerPeer = q1
  Others <- MCOthers
  Fds <- MCFds
  MaxClients = 1
  MaxPublish = 1
  MaxPeerFrames = 1
SPECIFICATION Spec
INVARIANT NoStolenPath
CHECK_DEADLOCK FALSE

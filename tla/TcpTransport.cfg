\* Server or client role, two peers sending one frame between them, one
\* other socket in the process, four descriptor numbers (enough for every
\* file at once), max_clients 2 so that a broadcast has two targets.
CONSTANTS
  q1 = q1
  q2 = q2
  o1 = o1
  Peers <- MCPeers
  ServerPeer = q1
  Others <- MCOthers
  Fds <- MCFds
  MaxClients = 2
  MaxPublish = 1
  MaxPeerFrames = 1
SPECIFICATION Spec
INVARIANTS TypeOK ClientFdsMatchThreads
PROPERTIES ClosedPeerReleased
CHECK_DEADLOCK FALSE

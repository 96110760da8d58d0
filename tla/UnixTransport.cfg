\* Server or client role, a stale socket file or none at the start, another
\* server process on the same path, two peers, one other socket, three descriptor numbers,
\* max_clients 1 so that the second connection is refused.
CONSTANTS
  q1 = q1
  q2 = q2
  o1 = o1
  Peers <- MCPeers
  ServerPeer = q1
  Others <- MCOthers
  Fds <- MCFds
  MaxClients = 1
  MaxPublish = 1
  MaxPeerFrames = 1
SPECIFICATION Spec
INVARIANT PathNamesListener
CHECK_DEADLOCK FALSE

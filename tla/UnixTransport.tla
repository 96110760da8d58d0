---------------------------- MODULE UnixTransport ----------------------------
(***************************************************************************)
(* UnixTransport (unix_transport.cpp) is TcpTransport with AF_UNIX         *)
(* sockets: start, stop, publish, the accept and receive loops,            *)
(* remove_client_fd, close_socket and the framing are the same code line   *)
(* for line, and are the actions of TcpTransport, taken by INSTANCE.  What *)
(* differs is the address: a filesystem path, which the server role        *)
(* unlinks before bind and again at the end of stop, and which another     *)
(* server process configured with the same path (a second instance, or a  *)
(* restart overlapping this one) binds and unlinks by the same code.       *)
(*                                                                         *)
(* path is what the name config_.path refers to: nothing, a socket file    *)
(* no socket is bound to any more (left by a crashed server), this         *)
(* transport's listening socket, or the other server's.                    *)
(***************************************************************************)
EXTENDS Naturals, Sequences, FiniteSets

CONSTANTS Peers, ServerPeer, Others, Fds, MaxClients, MaxPublish, MaxPeerFrames

VARIABLES
  isServer, running, listenFd, serverFd, clientFds, fdTable, ctl, acc, rcv,
  rcvFd, rcvOn, backlog, peer, unread, sent, pub, published, got, pubTo,
  foreign, killed,
  path,     \* what config_.path names: "none", "stale", "self", "other"
  other     \* the other server process: "none", "up", "down"

T == INSTANCE TcpTransport

tvars == <<isServer, running, listenFd, serverFd, clientFds, fdTable, ctl,
           acc, rcv, rcvFd, rcvOn, backlog, peer, unread, sent, pub,
           published, got, pubTo, foreign, killed>>
vars == <<tvars, path, other>>

Init ==
  /\ T!Init
  /\ path \in {"none", "stale"}
  /\ other = "none"

(* start, server role: socket() (EMFILE leaves the path alone), then       *)
(* unlink(path), bind and listen; the path names this socket when they     *)
(* succeed, and nothing when bind or listen fail after the unlink.         *)
StartServer ==
  /\ T!StartServer
  /\ path' = IF T!FreeFds(fdTable) = {} THEN path
             ELSE IF running' THEN "self" ELSE "none"
  /\ UNCHANGED other

(* start, client role: connect(path) succeeds only on a path a listening   *)
(* server is bound to, which for a client is the other server.             *)
StartClient ==
  /\ T!StartClient
  /\ running' => path = "other"
  /\ UNCHANGED <<path, other>>

\* Mutant of StopJoin: stop ends after the joins without the unlink.
StopJoinKeepPath ==
  /\ T!StopJoin
  /\ UNCHANGED <<path, other>>

(* stop, after the joins: the server role unlinks config_.path, whatever   *)
(* it names by now.                                                        *)
StopJoin ==
  /\ T!StopJoin
  /\ path' = IF isServer THEN "none" ELSE path
  /\ UNCHANGED other

\* A client reaches this server only through the path.
PeerConnect(p) ==
  /\ T!PeerConnect(p)
  /\ path = "self"
  /\ UNCHANGED <<path, other>>

\* The other server's start (unlink, bind) and stop (unlink).
OtherStart ==
  /\ other = "none"
  /\ other' = "up" /\ path' = "other"
  /\ UNCHANGED tvars

OtherStop ==
  /\ other = "up"
  /\ other' = "down" /\ path' = "none"
  /\ UNCHANGED tvars

\* Steps that do not touch the path.
Same(A) == A /\ UNCHANGED <<path, other>>

\* The code UnixTransport shares with TcpTransport, statement for statement.
StopBegin == Same(T!StopBegin)
StopCloseListen == Same(T!StopCloseListen)
StopCloseClients == Same(T!StopCloseClients)
PublishStart == Same(T!PublishStart)

(* publish: a SIGPIPE that ends a server leaves its socket file behind,    *)
(* bound to nothing.                                                       *)
PublishSend ==
  /\ T!PublishSend
  /\ path' = IF killed' /\ path = "self" THEN "stale" ELSE path
  /\ UNCHANGED other
AcceptLoop == Same(T!AcceptLoop)
AcceptReturn == Same(T!AcceptReturn)
RecvLoop(p) == Same(T!RecvLoop(p))
RecvReturn(p) == Same(T!RecvReturn(p))
RecvRemove(p) == Same(T!RecvRemove(p))
RecvClose(p) == Same(T!RecvClose(p))

Thread(p) == RecvLoop(p) \/ RecvReturn(p) \/ RecvRemove(p) \/ RecvClose(p)

Process ==
  \/ StartServer \/ StartClient
  \/ StopBegin \/ StopCloseListen \/ StopCloseClients \/ StopJoin
  \/ AcceptLoop \/ AcceptReturn
  \/ \E p \in Peers : Thread(p)
  \/ PublishStart \/ PublishSend
  \/ \E o \in Others : Same(T!OtherOpen(o))

\* Once SIGPIPE has ended the process, only the peers and the other server
\* act.
Next ==
  \/ ~killed /\ Process
  \/ \E p \in Peers : PeerConnect(p) \/ Same(T!PeerSend(p))
                      \/ Same(T!PeerClose(p))
  \/ OtherStart \/ OtherStop

\* The fairness of TcpTransport: the transport's threads, and stop once
\* called, are scheduled; the peers and the other server are not obliged
\* to act.
Spec == Init /\ [][Next]_vars
        /\ WF_vars(~killed /\ AcceptLoop) /\ WF_vars(~killed /\ AcceptReturn)
        /\ \A p \in Peers : WF_vars(~killed /\ Thread(p))
        /\ WF_vars(~killed /\ StopCloseListen)
        /\ WF_vars(~killed /\ StopCloseClients)
        /\ WF_vars(~killed /\ StopJoin) /\ WF_vars(~killed /\ PublishSend)

-----------------------------------------------------------------------------

(* Whenever config_.path names this transport's socket, that socket is   *)
(* listening, except while stop is in progress: a client that finds the   *)
(* name finds a listener.  It rests on start binding only after its       *)
(* unlink and giving up the name when bind or listen fail, and on stop's  *)
(* unlink after the joins, once the listening socket is closed.           *)
PathNamesListener ==
  path = "self" =>
    \/ T!ListenAlive(fdTable, acc)
    \/ ctl \in {"closing", "clients", "join"}

(* A server that is up keeps the path only while nobody else unlinks it:   *)
(* the name never refers to another live server after this transport's    *)
(* start or stop unlinked it.  start and stop unlink config_.path without  *)
(* knowing whose socket it names.                                          *)
NoStolenPath == other = "up" => path = "other"

=============================================================================

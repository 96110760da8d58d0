---------------------------- MODULE TcpTransport ----------------------------
(***************************************************************************)
(* TcpTransport (tcp_transport.cpp) in one process, in its server or its   *)
(* client role (config_.is_server, chosen at Init).                        *)
(*                                                                         *)
(* The process's descriptor table fdTable maps each number in Fds to the   *)
(* open file it names: the listening socket, this transport's end of the   *)
(* connection to a peer (named by the peer), a socket another part of the  *)
(* process opened (Others), or NoFile.  socket() and accept() take the     *)
(* lowest free number, as POSIX requires, so a closed number is reused.    *)
(* A thread blocked in accept() or recv() holds the file it resolved:      *)
(* closing the number from another thread does not wake it, and the file   *)
(* (so the connection) stays alive until the call returns.                 *)
(*                                                                         *)
(* Frames are whole units: send_frame/recv_frame (length prefix, then the  *)
(* bytes, through send_all/recv_all) are one step each.  Frames from a     *)
(* peer are only counted (unread); frames to a peer are identified by the  *)
(* publish that sent them (got).  Each mutex section of socket_mutex_ is   *)
(* one step.  A send to a peer that has closed is still accepted by the   *)
(* kernel, fails (ECONNRESET), or raises SIGPIPE: send_all passes flags 0 *)
(* and nothing in the program ignores the signal, so its default action   *)
(* ends the process (killed), and the kernel closes every descriptor.     *)
(***************************************************************************)
EXTENDS Naturals, Sequences, FiniteSets, SequencesExt

CONSTANTS
  Peers,          \* remote endpoints: clients of a server, or its server
  ServerPeer,     \* the endpoint a client-role transport connects to
  Others,         \* sockets other parts of the process open
  Fds,            \* the process's descriptor numbers
  MaxClients,     \* config_.max_clients
  MaxPublish,     \* bound on publish calls
  MaxPeerFrames   \* bound on the frames the peers send in all

ASSUME ServerPeer \in Peers /\ Fds \subseteq Nat /\ MaxClients \in Nat

Listen == "listen"
NoFile == "nofile"
None   == "none"
Files  == {Listen} \cup Peers \cup Others

VARIABLES
  isServer,    \* config_.is_server
  running,     \* running_
  listenFd,    \* listen_fd_
  serverFd,    \* server_fd_
  clientFds,   \* client_fds_
  fdTable,     \* the process's descriptor table
  ctl,         \* the thread that calls start and stop
  acc,         \* accept_thread_: "none", "loop", "blocked", "done"
  rcv,         \* receive thread per connection: its pc
  rcvFd,       \* the socket_fd argument of run_receive_loop
  rcvOn,       \* the connection a blocked recv() holds
  backlog,     \* connections completed by the kernel, not yet accepted
  peer,        \* each peer: "idle", "open", "closed"
  unread,      \* frames a peer sent that the transport has not read
  sent,        \* frames the peers sent
  pub,         \* the publishing thread: "idle", "send"
  published,   \* publish calls that passed the running_ check
  got,         \* publish numbers each peer received
  pubTo,       \* the peers connected when publish k sent, if running
  foreign,     \* a close or send hit a number naming another part's file
  killed       \* SIGPIPE ended the process

vars == <<isServer, running, listenFd, serverFd, clientFds, fdTable, ctl,
          acc, rcv, rcvFd, rcvOn, backlog, peer, unread, sent, pub,
          published, got, pubTo, foreign, killed>>

-----------------------------------------------------------------------------
(* The descriptor table.                                                   *)

FreeFds(tab) == {n \in Fds : tab[n] = NoFile}

\* socket()/accept(): the lowest free number.
Lowest(tab) == Min(FreeFds(tab))

\* A connection end stays open while a number names it, a blocked recv()
\* holds it, or it waits in the listening socket's backlog.
Alive(p) ==
  \/ \E n \in Fds : fdTable[n] = p
  \/ \E t \in Peers : rcv[t] = "blocked" /\ rcvOn[t] = p
  \/ p \in backlog

\* The listening socket accepts connections while a number names it or
\* the accept thread is blocked in accept() on it.
ListenAlive(tab, a) == (\E n \in Fds : tab[n] = Listen) \/ a = "blocked"

\* Closing the last reference of the listening socket resets the
\* connections still in its backlog.
Backlog(tab, a) == IF ListenAlive(tab, a) THEN backlog ELSE {}

\* ::close(n) on the table; -1 (or any closed number) is EBADF.
Close(tab, n) == IF n \in Fds THEN [tab EXCEPT ![n] = NoFile] ELSE tab

IsForeign(tab, n) == n \in Fds /\ tab[n] \in Others

Registered == {clientFds[i] : i \in 1 .. Len(clientFds)} \ {-1}

-----------------------------------------------------------------------------

Init ==
  /\ isServer \in BOOLEAN
  /\ running = FALSE
  /\ listenFd = -1 /\ serverFd = -1 /\ clientFds = <<>>
  /\ fdTable = [n \in Fds |-> NoFile]
  /\ ctl = "new" /\ acc = "none"
  /\ rcv = [p \in Peers |-> "none"]
  /\ rcvFd = [p \in Peers |-> -1]
  /\ rcvOn = [p \in Peers |-> None]
  /\ backlog = {}
  /\ peer = [p \in Peers |-> "idle"]
  /\ unread = [p \in Peers |-> 0] /\ sent = 0
  /\ pub = "idle" /\ published = 0
  /\ got = [p \in Peers |-> {}]
  /\ pubTo = [k \in 1 .. MaxPublish |-> {}]
  /\ foreign = FALSE
  /\ killed = FALSE

-----------------------------------------------------------------------------
(* start, server role: socket, bind, listen, then the accept thread.  bind  *)
(* or listen may fail (the port is taken): close_socket and running_ is    *)
(* false again.  With no free number socket() fails (EMFILE).              *)
StartServer ==
  /\ ctl = "new" /\ isServer
  /\ ctl' = "up"
  /\ IF FreeFds(fdTable) = {}
     THEN UNCHANGED <<running, listenFd, fdTable, acc>>
     ELSE LET n == Lowest(fdTable) IN
          \/ /\ running' = TRUE /\ listenFd' = n
             /\ fdTable' = [fdTable EXCEPT ![n] = Listen]
             /\ acc' = "loop"
          \/ /\ UNCHANGED <<running, listenFd, fdTable, acc>>
  /\ UNCHANGED <<isServer, serverFd, clientFds, rcv, rcvFd, rcvOn, backlog,
                 peer, unread, sent, pub, published, got, pubTo, foreign, killed>>

(* start, client role: socket, connect to ServerPeer, then one receive     *)
(* thread on server_fd_.  connect may be refused: close_socket.            *)
StartClient ==
  /\ ctl = "new" /\ ~isServer
  /\ ctl' = "up"
  /\ IF FreeFds(fdTable) = {}
     THEN UNCHANGED <<running, serverFd, fdTable, rcv, rcvFd, peer>>
     ELSE LET n == Lowest(fdTable) IN
          \/ /\ peer[ServerPeer] = "idle"
             /\ running' = TRUE /\ serverFd' = n
             /\ fdTable' = [fdTable EXCEPT ![n] = ServerPeer]
             /\ peer' = [peer EXCEPT ![ServerPeer] = "open"]
             /\ rcv' = [rcv EXCEPT ![ServerPeer] = "loop"]
             /\ rcvFd' = [rcvFd EXCEPT ![ServerPeer] = n]
          \/ /\ UNCHANGED <<running, serverFd, fdTable, rcv, rcvFd, peer>>
  /\ UNCHANGED <<isServer, listenFd, clientFds, acc, rcvOn, backlog,
                 unread, sent, pub, published, got, pubTo, foreign, killed>>

(* stop: running_.exchange(false); a second call, or a call after a start  *)
(* that failed, returns at once.                                           *)
StopBegin ==
  /\ ctl = "up"
  /\ running' = FALSE
  /\ ctl' = IF running THEN "closing" ELSE "down"
  /\ UNCHANGED <<isServer, listenFd, serverFd, clientFds, fdTable, acc, rcv,
                 rcvFd, rcvOn, backlog, peer, unread, sent, pub, published,
                 got, pubTo, foreign, killed>>

(* stop: close_socket(listen_fd_), close_socket(server_fd_).  In the       *)
(* client role server_fd_ may already have been closed by the receive     *)
(* thread, which closes its own copy and leaves server_fd_ as it was.     *)
StopCloseListen ==
  /\ ctl = "closing"
  /\ LET tab == Close(Close(fdTable, listenFd), serverFd) IN
     /\ fdTable' = tab
     /\ backlog' = Backlog(tab, acc)
     /\ foreign' = (foreign \/ IsForeign(fdTable, listenFd)
                            \/ IsForeign(fdTable, serverFd))
  /\ listenFd' = -1 /\ serverFd' = -1
  /\ ctl' = "clients"
  /\ UNCHANGED <<isServer, running, clientFds, acc, rcv, rcvFd, rcvOn, peer,
                 unread, sent, pub, published, got, pubTo, killed>>
\* Mutant of StopCloseClients: the loop writes one entry past the end.
StopCloseClientsPastEnd ==
  /\ ctl = "clients"
  /\ fdTable' = [n \in Fds |-> IF n \in Registered THEN NoFile
                                ELSE fdTable[n]]
  /\ foreign' = (foreign \/ \E n \in Registered : IsForeign(fdTable, n))
  /\ clientFds' = [i \in 1 .. Len(clientFds) + 1 |-> -1]
  /\ ctl' = "join"
  /\ UNCHANGED <<isServer, running, listenFd, serverFd, acc, rcv, rcvFd,
                 rcvOn, backlog, peer, unread, sent, pub, published, got,
                 pubTo, killed>>

(* stop: under socket_mutex_, close_socket on every entry of client_fds_,  *)
(* which sets the entry to -1 and leaves it in the vector.                 *)
StopCloseClients ==
  /\ ctl = "clients"
  /\ fdTable' = [n \in Fds |-> IF n \in Registered THEN NoFile
                                ELSE fdTable[n]]
  /\ foreign' = (foreign \/ \E n \in Registered : IsForeign(fdTable, n))
  /\ clientFds' = [i \in 1 .. Len(clientFds) |-> -1]
  /\ ctl' = "join"
  /\ UNCHANGED <<isServer, running, listenFd, serverFd, acc, rcv, rcvFd,
                 rcvOn, backlog, peer, unread, sent, pub, published, got,
                 pubTo, killed>>

(* stop: accept_thread_.join(), then the join of every receive thread and *)
(* client_threads_.clear().  Nothing stop does is seen between the joins.  *)
StopJoin ==
  /\ ctl = "join"
  /\ acc \in {"none", "done"}
  /\ \A p \in Peers : rcv[p] \in {"none", "done"}
  /\ ctl' = "down"
  /\ UNCHANGED <<isServer, running, listenFd, serverFd, clientFds, fdTable,
                 acc, rcv, rcvFd, rcvOn, backlog, peer, unread, sent, pub,
                 published, got, pubTo, foreign, killed>>

-----------------------------------------------------------------------------
(* run_accept_loop: test running_, then accept() on listen_fd_.  On a      *)
(* number that does not name the listening socket accept() fails at once  *)
(* and the loop continues; otherwise the thread blocks in accept().       *)
(* listen_fd_ is read without socket_mutex_ while stop writes it; either  *)
(* value read leads to one of these two outcomes.                          *)
AcceptLoop ==
  /\ acc = "loop"
  /\ acc' = IF ~running THEN "done"
            ELSE IF listenFd \in Fds /\ fdTable[listenFd] = Listen
                 THEN "blocked" ELSE "loop"
  /\ UNCHANGED <<isServer, running, listenFd, serverFd, clientFds, fdTable,
                 ctl, rcv, rcvFd, rcvOn, backlog, peer, unread, sent, pub,
                 published, got, pubTo, foreign, killed>>

(* accept() returns a connection q of the backlog on the lowest free       *)
(* number (EMFILE when none is free: the loop continues).  Under           *)
(* socket_mutex_ the number is closed when client_fds_ is at max_clients,  *)
(* otherwise pushed; then a receive thread is started for it.              *)
AcceptReturn ==
  /\ acc = "blocked"
  /\ \E q \in backlog :
     IF FreeFds(fdTable) = {}
     THEN UNCHANGED <<fdTable, clientFds, rcv, rcvFd, backlog>>
     ELSE LET n   == Lowest(fdTable)
              tab == [fdTable EXCEPT ![n] = q]
          IN IF Len(clientFds) >= MaxClients
             THEN /\ fdTable' = Close(tab, n)
                  /\ UNCHANGED <<clientFds, rcv, rcvFd>>
                  /\ backlog' = Backlog(Close(tab, n), "loop") \ {q}
             ELSE /\ fdTable' = tab
                  /\ clientFds' = Append(clientFds, n)
                  /\ rcv' = [rcv EXCEPT ![q] = "loop"]
                  /\ rcvFd' = [rcvFd EXCEPT ![q] = n]
                  /\ backlog' = Backlog(tab, "loop") \ {q}
  /\ acc' = "loop"
  /\ UNCHANGED <<isServer, running, listenFd, serverFd, ctl, rcvOn, peer,
                 unread, sent, pub, published, got, pubTo, foreign, killed>>

-----------------------------------------------------------------------------
(* run_receive_loop(socket_fd): test running_, then recv_frame on          *)
(* socket_fd.  recv() on a number that does not name a connection fails   *)
(* at once (EBADF, ENOTCONN, or, on another part's socket, its bytes are  *)
(* taken: a foreign use); otherwise the thread blocks holding that        *)
(* connection, which may not be its own once the number was reused.       *)
RecvLoop(p) ==
  /\ rcv[p] = "loop"
  /\ LET n == rcvFd[p]
         f == IF n \in Fds THEN fdTable[n] ELSE NoFile
     IN IF running /\ f \in Peers
        THEN rcv' = [rcv EXCEPT ![p] = "blocked"]
             /\ rcvOn' = [rcvOn EXCEPT ![p] = f]
             /\ UNCHANGED foreign
        ELSE rcv' = [rcv EXCEPT ![p] = IF isServer THEN "remove" ELSE "close"]
             /\ foreign' = (foreign \/ (running /\ f \in Others))
             /\ UNCHANGED rcvOn
  /\ UNCHANGED <<isServer, running, listenFd, serverFd, clientFds, fdTable,
                 ctl, acc, rcvFd, backlog, peer, unread, sent, pub, published,
                 got, pubTo, killed>>
\* recv_all on connection q: the bytes of a frame the peer sent, or failure
\* (recv() returns 0) once the peer has closed and nothing is left to read;
\* otherwise recv() blocks.
RecvAll(q) ==
  IF unread[q] > 0 THEN "frame"
  ELSE IF peer[q] = "closed" THEN "eof" ELSE "block"

\* Mutant of RecvReturn: on the peer's close the thread skips
\* remove_client_fd and goes straight to close_socket.
RecvReturnNoRemove(p) ==
  /\ rcv[p] = "blocked"
  /\ LET q == rcvOn[p] IN
     \/ /\ RecvAll(q) = "frame"
        /\ unread' = [unread EXCEPT ![q] = @ - 1]
        /\ rcv' = [rcv EXCEPT ![p] = "loop"]
     \/ /\ RecvAll(q) = "eof"
        /\ rcv' = [rcv EXCEPT ![p] = "close"]
        /\ UNCHANGED unread
  /\ rcvOn' = [rcvOn EXCEPT ![p] = None]
  /\ UNCHANGED <<isServer, running, listenFd, serverFd, clientFds, fdTable,
                 ctl, acc, rcvFd, backlog, peer, sent, pub, published, got,
                 pubTo, foreign, killed>>

(* recv_frame returns a frame, which goes to handler_, and the loop goes   *)
(* on; or it fails on the peer's orderly close (recv() returns 0) and the *)
(* loop ends.                                                              *)
RecvReturn(p) ==
  /\ rcv[p] = "blocked"
  /\ LET q == rcvOn[p] IN
     \/ /\ RecvAll(q) = "frame"
        /\ unread' = [unread EXCEPT ![q] = @ - 1]
        /\ rcv' = [rcv EXCEPT ![p] = "loop"]
     \/ /\ RecvAll(q) = "eof"
        /\ rcv' = [rcv EXCEPT ![p] = IF isServer THEN "remove" ELSE "close"]
        /\ UNCHANGED unread
  /\ rcvOn' = [rcvOn EXCEPT ![p] = None]
  /\ UNCHANGED <<isServer, running, listenFd, serverFd, clientFds, fdTable,
                 ctl, acc, rcvFd, backlog, peer, sent, pub, published, got,
                 pubTo, foreign, killed>>

(* Server role: remove_client_fd(socket_fd) under socket_mutex_ erases     *)
(* every entry equal to socket_fd.                                         *)
RecvRemove(p) ==
  /\ rcv[p] = "remove"
  /\ clientFds' = SelectSeq(clientFds, LAMBDA x : x # rcvFd[p])
  /\ rcv' = [rcv EXCEPT ![p] = "close"]
  /\ UNCHANGED <<isServer, running, listenFd, serverFd, fdTable, ctl, acc,
                 rcvFd, rcvOn, backlog, peer, unread, sent, pub, published,
                 got, pubTo, foreign, killed>>
\* Mutant of RecvClose: the thread ends without closing its number.
RecvCloseKeep(p) ==
  /\ rcv[p] = "close"
  /\ rcv' = [rcv EXCEPT ![p] = "done"]
  /\ UNCHANGED <<isServer, running, listenFd, serverFd, clientFds, fdTable,
                 ctl, acc, rcvFd, rcvOn, backlog, peer, unread, sent, pub,
                 published, got, pubTo, foreign, killed>>

(* close_socket(socket_fd) on the thread's own copy of the number, which   *)
(* stop may already have closed, and which may since name another file.   *)
RecvClose(p) ==
  /\ rcv[p] = "close"
  /\ fdTable' = Close(fdTable, rcvFd[p])
  /\ foreign' = (foreign \/ IsForeign(fdTable, rcvFd[p]))
  /\ backlog' = Backlog(fdTable', acc)
  /\ rcv' = [rcv EXCEPT ![p] = "done"]
  /\ rcvFd' = [rcvFd EXCEPT ![p] = -1]
  /\ UNCHANGED <<isServer, running, listenFd, serverFd, clientFds, ctl, acc,
                 rcvOn, peer, unread, sent, pub, published, got, pubTo, killed>>

\* The peers the transport is connected to, by spec 4.3: a receive thread
\* of its own reads the connection and the peer has not closed it.
Connected == {q \in Peers : rcv[q] \in {"loop", "blocked"} /\ peer[q] = "open"}

-----------------------------------------------------------------------------
(* publish: the running_ check.                                            *)
PublishStart ==
  /\ pub = "idle" /\ running /\ published < MaxPublish
  /\ pub' = "send"
  /\ published' = published + 1
  /\ UNCHANGED <<isServer, running, listenFd, serverFd, clientFds, fdTable,
                 ctl, acc, rcv, rcvFd, rcvOn, backlog, peer, unread, sent,
                 got, pubTo, foreign, killed>>

\* send_all on number n: ::send until every byte is taken.  It succeeds on a
\* connection whose peer has not closed, and fails (result <= 0: EBADF,
\* ENOTCONN, ECONNRESET) otherwise; bytes a closed peer's kernel still
\* takes are lost with it.
SendAll(n) == n \in Fds /\ fdTable[n] \in Peers /\ peer[fdTable[n]] = "open"

\* ::send(fd, ..., 0) on a connection whose peer has closed, once the
\* peer's reset is back: EPIPE and SIGPIPE, whose default action ends the
\* process before send returns.
Broken(n) == n \in Fds /\ fdTable[n] \in Peers /\ peer[fdTable[n]] = "closed"

\* send_frame: the length prefix, then the bytes, each through send_all;
\* the frame reaches the peer of the connection n names when they succeed.
Reaches(n) == IF SendAll(n) THEN {fdTable[n]} ELSE {}

\* The loop of publish, server role: ok = send_frame(fd, bytes) && ok on
\* every entry of client_fds_, so every entry is sent to.
BroadcastTo(fds) == UNION {Reaches(fds[i]) : i \in 1 .. Len(fds)}

\* The end of the process: the kernel closes every descriptor (resetting
\* the listening socket's backlog) and the blocked calls die with their
\* threads; no thread of the process takes another step.
Exit ==
  /\ killed' = TRUE /\ running' = FALSE
  /\ fdTable' = [n \in Fds |-> NoFile]
  /\ acc' = IF acc = "blocked" THEN "done" ELSE acc
  /\ rcvOn' = [p \in Peers |-> None]
  /\ backlog' = {}

(* publish, server role: the broadcast under socket_mutex_; client role:   *)
(* send_frame on server_fd_ unless it is -1.  A number naming another     *)
(* part's socket sends the frame there.                                   *)
PublishSend ==
  /\ pub = "send"
  /\ LET k   == published
         fds == IF isServer THEN clientFds
                ELSE IF serverFd < 0 THEN <<>> ELSE <<serverFd>>
         \* the send that raises SIGPIPE, if one does (Len(fds) + 1: none)
     IN \E j \in {i \in 1 .. Len(fds) : Broken(fds[i])} \cup {Len(fds) + 1} :
        LET to == BroadcastTo(SubSeq(fds, 1, j - 1)) IN
        /\ got' = [p \in Peers |-> IF p \in to THEN got[p] \cup {k}
                                   ELSE got[p]]
        /\ pubTo' = [pubTo EXCEPT ![k] = IF running THEN Connected ELSE {}]
        /\ foreign' = (foreign \/ \E i \in 1 .. j - 1 :
                                    IsForeign(fdTable, fds[i]))
        /\ IF j <= Len(fds) THEN Exit
           ELSE UNCHANGED <<running, fdTable, acc, rcvOn, backlog, killed>>
  /\ pub' = "idle"
  /\ UNCHANGED <<isServer, listenFd, serverFd, clientFds, ctl, rcv, rcvFd,
                 peer, unread, sent, published>>

-----------------------------------------------------------------------------
(* The environment: peers connect, send frames and close; other parts of   *)
(* the process open sockets (each once: a later close of theirs frees a    *)
(* number as our own closes do, and adds nothing).  The kernel completes a connection *)
(* into the backlog while the listening socket is alive.                  *)
PeerConnect(p) ==
  /\ isServer /\ peer[p] = "idle" /\ ListenAlive(fdTable, acc)
  /\ peer' = [peer EXCEPT ![p] = "open"]
  /\ backlog' = backlog \cup {p}
  /\ UNCHANGED <<isServer, running, listenFd, serverFd, clientFds, fdTable,
                 ctl, acc, rcv, rcvFd, rcvOn, unread, sent, pub, published,
                 got, pubTo, foreign, killed>>

PeerSend(p) ==
  /\ peer[p] = "open" /\ sent < MaxPeerFrames
  /\ sent' = sent + 1
  /\ unread' = [unread EXCEPT ![p] = IF Alive(p) THEN @ + 1 ELSE @]
  /\ UNCHANGED <<isServer, running, listenFd, serverFd, clientFds, fdTable,
                 ctl, acc, rcv, rcvFd, rcvOn, backlog, peer, pub, published,
                 got, pubTo, foreign, killed>>

PeerClose(p) ==
  /\ peer[p] = "open"
  /\ peer' = [peer EXCEPT ![p] = "closed"]
  /\ UNCHANGED <<isServer, running, listenFd, serverFd, clientFds, fdTable,
                 ctl, acc, rcv, rcvFd, rcvOn, backlog, unread, sent, pub,
                 published, got, pubTo, foreign, killed>>

OtherOpen(o) ==
  /\ FreeFds(fdTable) # {}
  /\ \A n \in Fds : fdTable[n] # o
  /\ fdTable' = [fdTable EXCEPT ![Lowest(fdTable)] = o]
  /\ UNCHANGED <<isServer, running, listenFd, serverFd, clientFds, ctl, acc,
                 rcv, rcvFd, rcvOn, backlog, peer, unread, sent, pub,
                 published, got, pubTo, foreign, killed>>

-----------------------------------------------------------------------------

Thread(p) == RecvLoop(p) \/ RecvReturn(p) \/ RecvRemove(p) \/ RecvClose(p)

Process ==
  \/ StartServer \/ StartClient
  \/ StopBegin \/ StopCloseListen \/ StopCloseClients
  \/ StopJoin
  \/ AcceptLoop \/ AcceptReturn
  \/ \E p \in Peers : Thread(p)
  \/ PublishStart \/ PublishSend
  \/ \E o \in Others : OtherOpen(o)

\* Only the peers act once the process has been killed.
Next ==
  \/ ~killed /\ Process
  \/ \E p \in Peers : PeerConnect(p) \/ PeerSend(p) \/ PeerClose(p)

(* Threads that can run eventually do: the accept and receive threads,     *)
(* stop once called, and a publish once past its running_ check.  Peers,   *)
(* other parts of the process and the callers of start/stop/publish are   *)
(* not obliged to act.  A killed process has no threads left.            *)
Fairness ==
  /\ WF_vars(~killed /\ AcceptLoop) /\ WF_vars(~killed /\ AcceptReturn)
  /\ \A p \in Peers : WF_vars(~killed /\ Thread(p))
  /\ WF_vars(~killed /\ StopCloseListen)
  /\ WF_vars(~killed /\ StopCloseClients)
  /\ WF_vars(~killed /\ StopJoin)
  /\ WF_vars(~killed /\ PublishSend)

Spec == Init /\ [][Next]_vars /\ Fairness

-----------------------------------------------------------------------------

PCs == {"new", "up", "closing", "clients", "join", "down"}

TypeOK ==
  /\ isServer \in BOOLEAN /\ running \in BOOLEAN
  /\ listenFd \in Fds \cup {-1} /\ serverFd \in Fds \cup {-1}
  /\ clientFds \in Seq(Fds \cup {-1}) /\ Len(clientFds) <= MaxClients
  /\ fdTable \in [Fds -> Files \cup {NoFile}]
  /\ ctl \in PCs /\ acc \in {"none", "loop", "blocked", "done"}
  /\ rcv \in [Peers -> {"none", "loop", "blocked", "remove", "close", "done"}]
  /\ rcvFd \in [Peers -> Fds \cup {-1}]
  /\ rcvOn \in [Peers -> Peers \cup {None}]
  /\ backlog \subseteq Peers
  /\ peer \in [Peers -> {"idle", "open", "closed"}]
  /\ unread \in [Peers -> 0 .. MaxPeerFrames]
  /\ sent \in 0 .. MaxPeerFrames
  /\ pub \in {"idle", "send"} /\ published \in 0 .. MaxPublish
  /\ got \in [Peers -> SUBSET (1 .. MaxPublish)]
  /\ pubTo \in [1 .. MaxPublish -> SUBSET Peers]
  /\ foreign \in BOOLEAN /\ killed \in BOOLEAN

(* Safety, the broadcast set (accept loop, remove_client_fd, close_socket): *)
(* while a server runs, client_fds_ holds each number once, and exactly    *)
(* the numbers of the receive threads that have not yet removed theirs,    *)
(* each still naming that thread's own connection.  It depends on the     *)
(* receive thread removing its number before closing it, and on accept    *)
(* pushing the number in the same locked step that checks max_clients.    *)
ClientFdsMatchThreads ==
  isServer /\ running =>
    LET live == {p \in Peers : rcv[p] \in {"loop", "blocked", "remove"}} IN
    /\ Len(SelectSeq(clientFds, LAMBDA x : x # -1)) = Cardinality(Registered)
    /\ Registered = {rcvFd[p] : p \in live}
    /\ \A p \in live : fdTable[rcvFd[p]] = p

(* Safety, continue-on-error (spec 4.3, publish): a publish made while the *)
(* transport runs reaches every peer it is connected to, whatever sends   *)
(* to other peers failed; in the client role that is its server.  The    *)
(* loop of publish calls send_frame on every entry, but a send to a peer  *)
(* that has closed can raise SIGPIPE (send_all, flags 0) and end it.      *)
ContinueOnError ==
  \A k \in 1 .. MaxPublish : \A p \in pubTo[k] : k \in got[p]

(* Liveness, connection release (run_receive_loop, accept loop, stop): a   *)
(* peer's close is eventually followed by the transport's end of that      *)
(* connection being closed: no number, blocked recv() or backlog entry    *)
(* keeps it open.                                                          *)
ClosedPeerReleased ==
  \A p \in Peers : peer[p] = "closed" ~> ~Alive(p)

(* Liveness, stop (spec 5, cancellation): once stop has cleared running_,  *)
(* it returns: every thread it joins ends.                                 *)
StopTerminates == ctl = "closing" ~> ctl = "down"

(* Safety, descriptor ownership (close_socket, send_frame): the transport  *)
(* never closes or sends on a number that names a socket another part of  *)
(* the process opened.                                                    *)
NoForeignFdUse == ~foreign

====

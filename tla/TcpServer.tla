----------------------------- MODULE TcpServer -----------------------------
(***************************************************************************)
(* osat::server::TcpServer (osat_server/src/ip/Tcp.h): the accepter        *)
(* thread, one reader thread per client, and the thread that calls         *)
(* spinOnce. They share the client map (_mtx_cl), the inbound queue        *)
(* (_mtx_data_in_queue), the queue of stopped clients (_mtx_stopped_cl)    *)
(* and the accepter's own mutex (_mtx_accept).                             *)
(*                                                                         *)
(* A step runs from one point where another thread can see the difference  *)
(* to the next. The peers and the kernel's backlog are the environment.    *)
(* Not modelled: the wording of log lines, a full send buffer that blocks  *)
(* boost::asio::write, and a connection that reuses the ip and port of one *)
(* still in _clients (each member of Endpoints connects once).             *)
(***************************************************************************)
EXTENDS Naturals, Sequences, FiniteSets

CONSTANTS
  Endpoints,      \* ClientEndpoint values: ip and port of a peer's socket
  None,           \* no endpoint
  MaxNumClients,  \* _max_num_clients
  LineLen,        \* bytes per line, the last one is "\n"
  MaxBytes,       \* bound: bytes a peer writes on one connection
  Replies,        \* how many write_to calls the read callback may make
  Aborts          \* whether peers may reset a connection

ASSUME TcpServerAssumption ==
  /\ IsFiniteSet(Endpoints) /\ None \notin Endpoints
  /\ MaxNumClients \in Nat \ {0}
  /\ LineLen \in Nat \ {0}
  /\ MaxBytes \in Nat
  /\ Replies \subseteq Nat
  /\ Aborts \in BOOLEAN

VARIABLES
  up,         \* FALSE once an uncaught exception called std::terminate
  peer,       \* peer[e]: "idle", "open", "closed" (FIN) or "aborted" (RST)
  sent,       \* sent[e]: bytes the peer of e has written
  got,        \* got[e]: bytes its reader thread has taken from the socket
  reader,     \* reader[e]: "none", "run", "closing" (socket closed), "done"
  fresh,      \* accepter threads spawned that have not reached try_lock
  acc,        \* where the thread holding _mtx_accept is, "idle" if free
  accEp,      \* the client that thread owns in its local cl
  clients,    \* the keys of _clients
  current,    \* _current_num_clients
  clLeaked,   \* _mtx_cl was left locked by write_to
  dataQ,      \* _data_in_queue
  stopped,    \* _stoped_clients
  main,       \* where the thread calling spinOnce is
  msgEp,      \* the endpoint of the message the callback is serving
  left,       \* write_to calls the callback has still to make
  restart,    \* restart_acceptor
  calls       \* calls[e]: what the callback was called with, in order

peerVars == <<peer, sent>>
readVars == <<got, reader>>
accVars  == <<fresh, acc, accEp>>
listVars == <<clients, current, clLeaked>>
spinVars == <<main, msgEp, left, restart, calls>>
vars == <<up, peerVars, readVars, accVars, listVars, dataQ, stopped, spinVars>>

Channel == INSTANCE LineChannel

Piece == [first : 1 .. MaxBytes, last : 1 .. MaxBytes]
Message == [ep : Endpoints, piece : Piece]

PeerTypeOK ==
  /\ peer \in [Endpoints -> {"idle", "open", "closed", "aborted"}]
  /\ sent \in [Endpoints -> 0 .. MaxBytes]

ReadTypeOK ==
  /\ got \in [Endpoints -> 0 .. MaxBytes]
  /\ reader \in [Endpoints -> {"none", "run", "closing", "done"}]

AccTypeOK ==
  /\ fresh \in Nat
  /\ acc \in {"idle", "check", "accept", "insert", "unlock"}
  /\ accEp \in Endpoints \cup {None}
  /\ acc = "insert" <=> accEp # None

ListTypeOK ==
  /\ clients \in SUBSET Endpoints
  /\ current \in Nat
  /\ clLeaked \in BOOLEAN

QueueTypeOK ==
  /\ dataQ \in Seq(Message)
  /\ stopped \in Seq(Endpoints)
  /\ main = "erase" => stopped # <<>>

SpinTypeOK ==
  /\ main \in {"data", "write", "stop", "erase", "restart"}
  /\ msgEp \in Endpoints \cup {None}
  /\ left \in Nat
  /\ main = "write" => msgEp # None /\ left > 0
  /\ restart \in BOOLEAN
  /\ calls \in [Endpoints -> Seq(Piece)]

TypeOK ==
  /\ up \in BOOLEAN
  /\ PeerTypeOK /\ ReadTypeOK /\ AccTypeOK
  /\ ListTypeOK /\ QueueTypeOK /\ SpinTypeOK

Init ==
  /\ up = TRUE
  /\ peer = [e \in Endpoints |-> "idle"]
  /\ sent = [e \in Endpoints |-> 0]
  /\ got = [e \in Endpoints |-> 0]
  /\ reader = [e \in Endpoints |-> "none"]
  /\ fresh = 1                                \* start() was called once
  /\ acc = "idle" /\ accEp = None
  /\ clients = {} /\ current = 0 /\ clLeaked = FALSE
  /\ dataQ = <<>> /\ stopped = <<>>
  /\ main = "data" /\ msgEp = None /\ left = 0 /\ restart = FALSE
  /\ calls = [e \in Endpoints |-> <<>>]

-----------------------------------------------------------------------------
(* The peers. *)

Connect(e) ==
  /\ peer[e] = "idle"
  /\ peer' = [peer EXCEPT ![e] = "open"]
  /\ UNCHANGED <<sent, readVars, accVars, listVars, dataQ, stopped, spinVars>>

PeerSend(e) ==
  /\ peer[e] = "open" /\ sent[e] < MaxBytes
  /\ sent' = [sent EXCEPT ![e] = @ + 1]
  /\ UNCHANGED <<peer, readVars, accVars, listVars, dataQ, stopped, spinVars>>

PeerClose(e) ==
  /\ peer[e] = "open"
  /\ \E how \in {"closed"} \cup (IF Aborts THEN {"aborted"} ELSE {}) :
       peer' = [peer EXCEPT ![e] = how]
  /\ UNCHANGED <<sent, readVars, accVars, listVars, dataQ, stopped, spinVars>>

-----------------------------------------------------------------------------
(* The accepter threads. *)

TryLock ==
  /\ fresh > 0
  /\ fresh' = fresh - 1
  /\ acc' = IF acc = "idle" THEN "check" ELSE acc  \* else: already running
  /\ UNCHANGED <<accEp, peerVars, readVars, listVars, dataQ, stopped, spinVars>>

\* Seeded fault: <= for <.
SeededCheckRoom ==
  /\ acc = "check"
  /\ acc' = IF current <= MaxNumClients THEN "accept" ELSE "unlock"
  /\ UNCHANGED <<fresh, accEp, peerVars, readVars, listVars, dataQ, stopped, spinVars>>

CheckRoom ==
  /\ acc = "check"
  /\ acc' = IF current < MaxNumClients THEN "accept" ELSE "unlock"
  /\ UNCHANGED <<fresh, accEp, peerVars, readVars, listVars, dataQ, stopped, spinVars>>

\* accept, attach the callback and start the reader thread: the client is
\* not in _clients yet.
Accept(e) ==
  /\ acc = "accept"
  /\ peer[e] \in {"open", "closed"} /\ reader[e] = "none"
  /\ reader' = [reader EXCEPT ![e] = "run"]
  /\ accEp' = e /\ acc' = "insert"
  /\ UNCHANGED <<fresh, got, peerVars, listVars, dataQ, stopped, spinVars>>

\* Seeded fault: the last free place is not given away.
SeededInsert ==
  /\ acc = "insert" /\ ~clLeaked
  /\ clients' = IF current + 1 < MaxNumClients THEN clients \cup {accEp} ELSE clients
  /\ current' = Cardinality(clients')
  /\ acc' = "check" /\ accEp' = None
  /\ UNCHANGED <<fresh, clLeaked, peerVars, readVars, dataQ, stopped, spinVars>>

Insert ==
  /\ acc = "insert" /\ ~clLeaked
  /\ clients' = clients \cup {accEp}
  /\ current' = Cardinality(clients')
  /\ acc' = "check" /\ accEp' = None
  /\ UNCHANGED <<fresh, clLeaked, peerVars, readVars, dataQ, stopped, spinVars>>

Unlock ==
  /\ acc = "unlock" /\ acc' = "idle"
  /\ UNCHANGED <<fresh, accEp, peerVars, readVars, listVars, dataQ, stopped, spinVars>>

-----------------------------------------------------------------------------
(* The reader thread of a client. *)

\* read_until returns what has arrived once it holds a line end; everything
\* in the buffer becomes one message.
Read(e) ==
  /\ reader[e] = "run"
  /\ \E last \in got[e] + 1 .. sent[e] :
       /\ Channel!HoldsLineEnd(got[e] + 1, last)
       /\ dataQ' = Append(dataQ, [ep |-> e,
                                  piece |-> [first |-> got[e] + 1, last |-> last]])
       /\ got' = [got EXCEPT ![e] = last]
  /\ UNCHANGED <<reader, peerVars, accVars, listVars, stopped, spinVars>>

\* Seeded fault: the close callback runs before stop().
SeededReadErrorCallbackFirst(e) ==
  /\ reader[e] = "run" /\ main # "erase"
  /\ \/ peer[e] = "closed" /\ ~Channel!HoldsLineEnd(got[e] + 1, sent[e])
     \/ peer[e] = "aborted"
  /\ reader' = [reader EXCEPT ![e] = "closing"]
  /\ stopped' = Append(stopped, e)
  /\ UNCHANGED <<got, peerVars, accVars, listVars, dataQ, spinVars>>

\* Seeded fault: the peer's close is acted on before what it sent is read.
SeededReadErrorAtClose(e) ==
  /\ reader[e] = "run" /\ peer[e] # "open"
  /\ reader' = [reader EXCEPT ![e] = "closing"]
  /\ UNCHANGED <<got, peerVars, accVars, listVars, dataQ, stopped, spinVars>>

\* End of file, or a reset: the thread closes the socket.
ReadError(e) ==
  /\ reader[e] = "run"
  /\ \/ peer[e] = "closed" /\ ~Channel!HoldsLineEnd(got[e] + 1, sent[e])
     \/ peer[e] = "aborted"
  /\ reader' = [reader EXCEPT ![e] = "closing"]
  /\ UNCHANGED <<got, peerVars, accVars, listVars, dataQ, stopped, spinVars>>

\* client_close_callback waits for _mtx_stopped_cl, which spinOnce keeps
\* while it erases; then the thread ends.
CloseCallback(e) ==
  /\ reader[e] = "closing" /\ main # "erase"
  /\ stopped' = Append(stopped, e)
  /\ reader' = [reader EXCEPT ![e] = "done"]
  /\ UNCHANGED <<got, peerVars, accVars, listVars, dataQ, spinVars>>

-----------------------------------------------------------------------------
(* The thread that calls spinOnce, again and again. *)

\* Seeded fault: the newest message first.
SeededPopData ==
  /\ main = "data" /\ dataQ # <<>>
  /\ dataQ' = SubSeq(dataQ, 1, Len(dataQ) - 1)
  /\ LET m == dataQ[Len(dataQ)] IN
       /\ calls' = [calls EXCEPT ![m.ep] = Append(@, m.piece)]
       /\ left' \in Replies
       /\ msgEp' = IF left' = 0 THEN None ELSE m.ep
  /\ main' = IF left' = 0 THEN "data" ELSE "write"
  /\ UNCHANGED <<restart, peerVars, readVars, accVars, listVars, stopped>>

PopData ==
  /\ main = "data" /\ dataQ # <<>>
  /\ dataQ' = Tail(dataQ)
  /\ LET m == Head(dataQ) IN
       /\ calls' = [calls EXCEPT ![m.ep] = Append(@, m.piece)]
       /\ left' \in Replies
       /\ msgEp' = IF left' = 0 THEN None ELSE m.ep
  /\ main' = IF left' = 0 THEN "data" ELSE "write"
  /\ UNCHANGED <<restart, peerVars, readVars, accVars, listVars, stopped>>

DataEmpty ==
  /\ main = "data" /\ dataQ = <<>>
  /\ main' = "stop"
  /\ UNCHANGED <<msgEp, left, restart, calls, peerVars, readVars, accVars,
                 listVars, dataQ, stopped>>

\* write_to returned to the callback.
Written ==
  /\ left' = left - 1
  /\ main' = IF left' = 0 THEN "data" ELSE "write"
  /\ msgEp' = IF left' = 0 THEN None ELSE msgEp
  /\ UNCHANGED <<restart, calls, peerVars, readVars, accVars, clients, current,
                 dataQ, stopped>>

WriteTo ==
  /\ main = "write" /\ ~clLeaked
  /\ msgEp \in clients /\ reader[msgEp] = "run" /\ peer[msgEp] # "aborted"
  /\ Written /\ UNCHANGED clLeaked

\* _clients.at throws out_of_range, the handler logs and returns: _mtx_cl
\* stays locked.
WriteToMissing ==
  /\ main = "write" /\ ~clLeaked
  /\ msgEp \notin clients
  /\ Written /\ clLeaked' = TRUE

StopEmpty ==
  /\ main = "stop" /\ stopped = <<>>
  /\ main' = "data"
  /\ UNCHANGED <<msgEp, left, restart, calls, peerVars, readVars, accVars,
                 listVars, dataQ, stopped>>

\* From here to the end of Erase the thread holds _mtx_stopped_cl.
StopCheck ==
  /\ main = "stop" /\ stopped # <<>>
  /\ restart' = (current >= MaxNumClients)
  /\ main' = "erase"
  /\ UNCHANGED <<msgEp, left, calls, peerVars, readVars, accVars, listVars,
                 dataQ, stopped>>

\* Seeded fault: counts down instead of taking the size of the map.
SeededEraseCountsDown ==
  /\ main = "erase" /\ ~clLeaked
  /\ clients' = clients \ {Head(stopped)}
  /\ current' = current - 1
  /\ stopped' = Tail(stopped)
  /\ main' = IF restart THEN "restart" ELSE "stop"
  /\ UNCHANGED <<msgEp, left, restart, calls, clLeaked, peerVars, readVars,
                 accVars, dataQ>>

\* Seeded fault: the pop is missing.
SeededEraseNoPop ==
  /\ main = "erase" /\ ~clLeaked
  /\ clients' = clients \ {Head(stopped)}
  /\ current' = Cardinality(clients')
  /\ main' = IF restart THEN "restart" ELSE "stop"
  /\ UNCHANGED <<msgEp, left, restart, calls, clLeaked, peerVars, readVars,
                 accVars, dataQ, stopped>>

\* Seeded fault: back for front.
SeededEraseLast ==
  /\ main = "erase" /\ ~clLeaked
  /\ clients' = clients \ {stopped[Len(stopped)]}
  /\ current' = Cardinality(clients')
  /\ stopped' = Tail(stopped)
  /\ main' = IF restart THEN "restart" ELSE "stop"
  /\ UNCHANGED <<msgEp, left, restart, calls, clLeaked, peerVars, readVars,
                 accVars, dataQ>>

Erase ==
  /\ main = "erase" /\ ~clLeaked
  /\ clients' = clients \ {Head(stopped)}
  /\ current' = Cardinality(clients')
  /\ stopped' = Tail(stopped)
  /\ main' = IF restart THEN "restart" ELSE "stop"
  /\ UNCHANGED <<msgEp, left, restart, calls, clLeaked, peerVars, readVars,
                 accVars, dataQ>>

Restart ==
  /\ main = "restart"
  /\ fresh' = fresh + 1
  /\ main' = "stop"
  /\ UNCHANGED <<acc, accEp, msgEp, left, restart, calls, peerVars, readVars,
                 listVars, dataQ, stopped>>

-----------------------------------------------------------------------------
(* Exceptions nothing catches: std::terminate ends the process. *)

\* remote_endpoint() of a connection that was reset while in the backlog.
AcceptThrows ==
  /\ acc = "accept"
  /\ \E e \in Endpoints : peer[e] = "aborted" /\ reader[e] = "none"

\* Seeded fault: write_to does not catch out_of_range.
SeededWriteThrows ==
  /\ main = "write" /\ ~clLeaked
  /\ msgEp \notin clients \/ reader[msgEp] # "run" \/ peer[msgEp] # "open"

\* boost::asio::write on a socket the reader has closed or the peer has left.
WriteThrows ==
  /\ main = "write" /\ ~clLeaked
  /\ msgEp \in clients /\ (reader[msgEp] # "run" \/ peer[msgEp] # "open")

Terminate ==
  /\ AcceptThrows \/ WriteThrows
  /\ up' = FALSE
  /\ UNCHANGED <<peerVars, readVars, accVars, listVars, dataQ, stopped, spinVars>>

Accepter == TryLock \/ CheckRoom \/ (\E e \in Endpoints : Accept(e)) \/ Insert \/ Unlock
Reader(e) == Read(e) \/ ReadError(e) \/ CloseCallback(e)
SpinOnce == \/ PopData \/ DataEmpty \/ WriteTo \/ WriteToMissing
            \/ StopEmpty \/ StopCheck \/ Erase \/ Restart
Peer(e) == Connect(e) \/ PeerSend(e) \/ PeerClose(e)

Next ==
  /\ up
  /\ \/ /\ \/ Accepter
           \/ SpinOnce
           \/ \E e \in Endpoints : Reader(e) \/ Peer(e)
        /\ UNCHANGED up
     \/ Terminate

Spec == Init /\ [][Next]_vars

(***************************************************************************)
(* The scheduler runs every thread that can run, and a peer closes in the  *)
(* end what it opened. Nothing makes a peer connect or send.               *)
(***************************************************************************)
Fairness ==
  /\ WF_vars(up /\ Accepter /\ UNCHANGED up)
  /\ WF_vars(up /\ SpinOnce /\ UNCHANGED up)
  /\ \A e \in Endpoints : WF_vars(up /\ Reader(e) /\ UNCHANGED up)
  /\ \A e \in Endpoints : WF_vars(up /\ PeerClose(e) /\ UNCHANGED up)

FairSpec == Spec /\ Fairness

-----------------------------------------------------------------------------
(* Safety. *)

\* The server never holds more clients than it was built for, however the
\* accepter's check, its late insert and spinOnce's erase interleave
\* (_max_num_clients, Tcp.h:295).
CapacityBound == Cardinality(clients) <= MaxNumClients

\* A reader thread never outlives the TcpServerClient it runs on: while it
\* can still touch the object, the object is owned by _clients or by the
\* accepter's local cl (Tcp.h:235 destroys it, Tcp.h:306 starts the thread
\* before Tcp.h:308 hands it over).
ReaderObjectAlive ==
  \A e \in Endpoints :
    reader[e] \in {"run", "closing"} => e \in clients \/ (acc = "insert" /\ accEp = e)

\* Every byte reaches the callback once and in order, whichever thread is
\* late: the threads implement the channel the callback is written for.
InOrder == Channel!Spec

\* An answer misses its client only in the two races the mutexes leave open:
\* the command was served before the accepter's insert, or after the erase
\* of a client whose reader has ended (Tcp.h:271 against Tcp.h:308 and :235).
AnswerMissesOnlyInRace ==
  (msgEp # None /\ msgEp \notin clients) =>
    (acc = "insert" /\ accEp = msgEp) \/ reader[msgEp] = "done"

\* An uncaught exception needs a peer that has left: no interleaving of the
\* server's own threads ends the process while every peer stays connected.
CrashNeedsLeaver ==
  ~up => \E e \in Endpoints : peer[e] \in {"closed", "aborted"}

\* A client whose reader has ended, and that no entry of the stopped queue
\* names any more, keeps its place for ever.
Dead(e) == e \in clients /\ reader[e] = "done" /\ \A i \in 1 .. Len(stopped) : stopped[i] # e

\* Only the accepter's late insert leaves such a client in the map, after the
\* reader it started first has come and gone (Tcp.h:306 before Tcp.h:308):
\* however readers leave and spinOnce pops and erases, a client that was in
\* the map when its reader ended is taken out.
DeadOnlyByLateInsert ==
  [][\A e \in Endpoints : Dead(e)' => Dead(e) \/ (acc = "insert" /\ accEp = e)]_vars

(* Liveness. *)

\* A whole line that was sent on an accepted connection reaches the callback
\* even when the peer closes at once, the client is being erased, or the
\* accepter never runs again (Tcp.h:202 drains before it erases, and pieces
\* queued after the erase are still popped).
LinesDelivered ==
  \A e \in Endpoints, n \in 1 .. MaxBytes :
    (reader[e] # "none" /\ n <= sent[e] /\ n % LineLen = 0)
      ~> (Channel!Upto(e) >= n)

\* A reader whose peer has closed always ends and its client is taken out of
\* the stopped queue: no thread waits for ever on another's mutex (the
\* close callback takes _mtx_stopped_cl while spinOnce nests _mtx_cl in it).
StoppedHandled ==
  \A e \in Endpoints :
    (reader[e] = "run") ~> (reader[e] = "done" /\ \A i \in 1 .. Len(stopped) : stopped[i] # e)

-----------------------------------------------------------------------------
(* What comments of the code say, and the code does not do. *)

\* Tcp.h:240 "start accepting again": when spinOnce has erased a client of a
\* full server and calls start(), an accepter accepts again, or the server
\* is full again.
AcceptsAgain ==
  (main = "restart") ~> (acc = "accept" \/ Cardinality(clients) = MaxNumClients)

\* Tcp.h:276 "not available ... do nothing": a write_to that finds no client
\* leaves the server as it was, its mutex free for the next call.
MissingWriteDoesNothing == ~clLeaked
=============================================================================

-------------------------- MODULE TcpServerProofs --------------------------
(***************************************************************************)
(* Proofs about TcpServer, for any set of endpoints, any capacity, any     *)
(* line length and any callback.                                           *)
(***************************************************************************)
EXTENDS TcpServer, FiniteSetTheorems, SequenceTheorems, TLAPS

\* The client map has a size: there are finitely many endpoints.
LEMMA ClientsFinite ==
  ASSUME NEW S \in SUBSET Endpoints
  PROVE  IsFiniteSet(S) /\ Cardinality(S) \in Nat
  BY TcpServerAssumption, FS_Subset, FS_CardinalityType

\* A part of the state that a step leaves alone stays well typed.
LEMMA TypeFrame ==
  ASSUME TypeOK
  PROVE  /\ UNCHANGED up => up' \in BOOLEAN
         /\ UNCHANGED peerVars => PeerTypeOK'
         /\ UNCHANGED readVars => ReadTypeOK'
         /\ UNCHANGED accVars => AccTypeOK'
         /\ UNCHANGED listVars => ListTypeOK'
         /\ UNCHANGED <<dataQ, stopped, main>> => QueueTypeOK'
         /\ UNCHANGED spinVars => SpinTypeOK'
<1> USE DEF TypeOK
<1>1. UNCHANGED up => up' \in BOOLEAN  OBVIOUS
<1>2. UNCHANGED peerVars => PeerTypeOK'  BY DEF peerVars, PeerTypeOK
<1>3. UNCHANGED readVars => ReadTypeOK'  BY DEF readVars, ReadTypeOK
<1>4. UNCHANGED accVars => AccTypeOK'  BY DEF accVars, AccTypeOK
<1>5. UNCHANGED listVars => ListTypeOK'  BY DEF listVars, ListTypeOK
<1>6. UNCHANGED <<dataQ, stopped, main>> => QueueTypeOK'  BY DEF QueueTypeOK
<1>7. UNCHANGED spinVars => SpinTypeOK'  BY DEF spinVars, SpinTypeOK
<1> QED  BY <1>1, <1>2, <1>3, <1>4, <1>5, <1>6, <1>7

LEMMA TypeInit == Init => TypeOK
<1> SUFFICES ASSUME Init PROVE TypeOK
  OBVIOUS
<1> USE TcpServerAssumption DEF Init
<1>1. up \in BOOLEAN  OBVIOUS
<1>2. PeerTypeOK /\ ReadTypeOK  BY DEF PeerTypeOK, ReadTypeOK
<1>3. AccTypeOK /\ ListTypeOK  BY DEF AccTypeOK, ListTypeOK
<1>4. QueueTypeOK  BY DEF QueueTypeOK
<1>5. SpinTypeOK
  <2>1. restart \in BOOLEAN  OBVIOUS
  <2>2. calls \in [Endpoints -> Seq(Piece)]  BY EmptySeq
  <2> QED  BY <2>1, <2>2 DEF SpinTypeOK
<1> QED  BY <1>1, <1>2, <1>3, <1>4, <1>5 DEF TypeOK

LEMMA TypePeer ==
  ASSUME TypeOK, NEW e \in Endpoints, Peer(e), UNCHANGED up
  PROVE  TypeOK'
<1>1. UNCHANGED <<readVars, accVars, listVars, dataQ, stopped, spinVars, main>>
  BY DEF Peer, Connect, PeerSend, PeerClose, spinVars
<1>2. PeerTypeOK'
  <2> USE TcpServerAssumption DEF TypeOK, PeerTypeOK
  <2>1. CASE Connect(e)  BY <2>1 DEF Connect
  <2>2. CASE PeerSend(e)  BY <2>2 DEF PeerSend
  <2>3. CASE PeerClose(e)
    <3>1. PICK how \in {"closed", "aborted"} : peer' = [peer EXCEPT ![e] = how]
      BY <2>3 DEF PeerClose
    <3> QED  BY <2>3, <3>1 DEF PeerClose
  <2> QED  BY <2>1, <2>2, <2>3 DEF Peer
<1> QED  BY <1>1, <1>2, TypeFrame DEF TypeOK

LEMMA TypeAccepter ==
  ASSUME TypeOK, Accepter, UNCHANGED up
  PROVE  TypeOK'
<1>1. UNCHANGED <<peerVars, dataQ, stopped, spinVars, main>>
  BY DEF Accepter, TryLock, CheckRoom, Accept, Insert, Unlock, spinVars
<1>2. ReadTypeOK'
  <2>1. ASSUME NEW e \in Endpoints, Accept(e) PROVE ReadTypeOK'
    BY <2>1 DEF Accept, TypeOK, ReadTypeOK
  <2> QED  BY <2>1, TypeFrame DEF Accepter, TryLock, CheckRoom, Insert, Unlock
<1>3. AccTypeOK'
  <2> USE TcpServerAssumption DEF TypeOK, AccTypeOK
  <2>1. CASE TryLock  BY <2>1 DEF TryLock
  <2>2. CASE CheckRoom  BY <2>2 DEF CheckRoom
  <2>3. ASSUME NEW e \in Endpoints, Accept(e) PROVE AccTypeOK'
    BY <2>3 DEF Accept
  <2>4. CASE Insert  BY <2>4 DEF Insert
  <2>5. CASE Unlock  BY <2>5 DEF Unlock
  <2> QED  BY <2>1, <2>2, <2>3, <2>4, <2>5 DEF Accepter
<1>4. ListTypeOK'
  <2>1. CASE Insert
    <3>1. clients' \in SUBSET Endpoints
      BY <2>1 DEF Insert, TypeOK, ListTypeOK, AccTypeOK
    <3> QED  BY <2>1, <3>1, ClientsFinite DEF Insert, TypeOK, ListTypeOK
  <2> QED  BY <2>1, TypeFrame DEF Accepter, TryLock, CheckRoom, Accept, Unlock
<1> QED  BY <1>1, <1>2, <1>3, <1>4, TypeFrame DEF TypeOK

LEMMA TypeReader ==
  ASSUME TypeOK, NEW e \in Endpoints, Reader(e), UNCHANGED up
  PROVE  TypeOK'
<1>1. UNCHANGED <<peerVars, accVars, listVars, spinVars, main>>
  BY DEF Reader, Read, ReadError, CloseCallback, spinVars
<1>2. ReadTypeOK' /\ QueueTypeOK'
  <2>1. CASE Read(e)
    <3>1. PICK last \in got[e] + 1 .. sent[e] :
            /\ dataQ' = Append(dataQ, [ep |-> e,
                          piece |-> [first |-> got[e] + 1, last |-> last]])
            /\ got' = [got EXCEPT ![e] = last]
      BY <2>1 DEF Read
    <3>2. got[e] \in Nat /\ last \in 1 .. MaxBytes /\ got[e] + 1 \in 1 .. MaxBytes
      BY <3>1, TcpServerAssumption DEF TypeOK, PeerTypeOK, ReadTypeOK
    <3>3. dataQ' \in Seq(Message)
      BY <3>1, <3>2, AppendProperties DEF Message, Piece, TypeOK, QueueTypeOK
    <3>4. UNCHANGED <<reader, stopped, main>>  BY <1>1, <2>1 DEF Read
    <3> QED  BY <3>1, <3>2, <3>3, <3>4 DEF TypeOK, ReadTypeOK, QueueTypeOK
  <2>2. CASE ReadError(e)
    BY <1>1, <2>2 DEF ReadError, TypeOK, ReadTypeOK, QueueTypeOK
  <2>3. CASE CloseCallback(e)
    <3>1. ReadTypeOK'  BY <2>3 DEF CloseCallback, TypeOK, ReadTypeOK
    <3>2. stopped' \in Seq(Endpoints) /\ stopped' # <<>>
      BY <2>3, AppendProperties DEF CloseCallback, TypeOK, QueueTypeOK
    <3> QED  BY <2>3, <3>1, <3>2 DEF CloseCallback, TypeOK, QueueTypeOK
  <2> QED  BY <2>1, <2>2, <2>3 DEF Reader
<1> QED  BY <1>1, <1>2, TypeFrame DEF TypeOK

LEMMA TypeSpinOnce ==
  ASSUME TypeOK, SpinOnce, UNCHANGED up
  PROVE  TypeOK'
<1>1. UNCHANGED <<peerVars, readVars>>
  BY DEF SpinOnce, PopData, DataEmpty, WriteTo, WriteToMissing, Written,
         StopEmpty, StopCheck, Erase, Restart
<1>2. CASE PopData
  <2>1. Head(dataQ) \in Message /\ dataQ' \in Seq(Message) /\ left' \in Nat
    BY <1>2, HeadTailProperties, TcpServerAssumption
    DEF PopData, TypeOK, QueueTypeOK
  <2>2. Head(dataQ).ep \in Endpoints /\ Head(dataQ).piece \in Piece
    BY <2>1 DEF Message
  <2>3. calls' \in [Endpoints -> Seq(Piece)]
    BY <1>2, <2>2 DEF PopData, TypeOK, SpinTypeOK
  <2>4. SpinTypeOK'
    BY <1>2, <2>1, <2>2, <2>3, TcpServerAssumption DEF PopData, TypeOK, SpinTypeOK
  <2>5. QueueTypeOK'
    BY <1>2, <2>1 DEF PopData, TypeOK, QueueTypeOK
  <2> QED  BY <1>1, <1>2, <2>4, <2>5, TypeFrame DEF PopData, TypeOK
<1>3. CASE DataEmpty \/ StopEmpty \/ Restart
  <2>1. AccTypeOK'
    BY <1>3 DEF DataEmpty, StopEmpty, Restart, TypeOK, AccTypeOK, accVars
  <2>2. QueueTypeOK'
    BY <1>3 DEF DataEmpty, StopEmpty, Restart, TypeOK, QueueTypeOK
  <2>3. SpinTypeOK'
    BY <1>3 DEF DataEmpty, StopEmpty, Restart, TypeOK, SpinTypeOK
  <2>4. UNCHANGED listVars  BY <1>3 DEF DataEmpty, StopEmpty, Restart
  <2> QED  BY <1>1, <2>1, <2>2, <2>3, <2>4, TypeFrame DEF TypeOK
<1>4. CASE WriteTo \/ WriteToMissing
  <2>1. UNCHANGED accVars /\ ListTypeOK'
    BY <1>4 DEF WriteTo, WriteToMissing, Written, TypeOK, ListTypeOK
  <2>2. QueueTypeOK'
    BY <1>4 DEF WriteTo, WriteToMissing, Written, TypeOK, QueueTypeOK
  <2>3. SpinTypeOK'
    BY <1>4 DEF WriteTo, WriteToMissing, Written, TypeOK, SpinTypeOK
  <2> QED  BY <1>1, <2>1, <2>2, <2>3, TypeFrame DEF TypeOK
<1>5. CASE StopCheck
  <2>1. restart' \in BOOLEAN
    <3>1. restart' = (current >= MaxNumClients)  BY <1>5, Zenon DEF StopCheck
    <3>2. (current >= MaxNumClients) \in BOOLEAN
      BY TcpServerAssumption DEF TypeOK, ListTypeOK
    <3> QED  BY <3>1, <3>2, Zenon
  <2>2. SpinTypeOK'  BY <1>5, <2>1 DEF StopCheck, TypeOK, SpinTypeOK
  <2>3. QueueTypeOK'  BY <1>5 DEF StopCheck, TypeOK, QueueTypeOK
  <2> QED  BY <1>1, <1>5, <2>2, <2>3, TypeFrame DEF StopCheck, TypeOK
<1>6. CASE Erase
  <2>1. stopped' \in Seq(Endpoints)
    BY <1>6, HeadTailProperties DEF Erase, TypeOK, QueueTypeOK
  <2>2. clients' \in SUBSET Endpoints  BY <1>6 DEF Erase, TypeOK, ListTypeOK
  <2>3. ListTypeOK'
    BY <1>6, <2>2, ClientsFinite DEF Erase, TypeOK, ListTypeOK
  <2>4. QueueTypeOK' /\ SpinTypeOK'
    BY <1>6, <2>1 DEF Erase, TypeOK, QueueTypeOK, SpinTypeOK
  <2> QED  BY <1>1, <1>6, <2>3, <2>4, TypeFrame DEF Erase, TypeOK
<1> QED  BY <1>2, <1>3, <1>4, <1>5, <1>6 DEF SpinOnce

\* The state is well typed after every step of every thread and peer, an
\* uncaught exception included.
THEOREM TypeCorrect == Spec => []TypeOK
<1>1. TypeOK /\ [Next]_vars => TypeOK'
  <2> SUFFICES ASSUME TypeOK, [Next]_vars PROVE TypeOK'
    OBVIOUS
  <2>1. CASE Terminate
    <3>1. UNCHANGED <<peerVars, readVars, accVars, listVars, dataQ, stopped,
                      spinVars, main>>
      BY <2>1 DEF Terminate, spinVars
    <3>2. up' \in BOOLEAN  BY <2>1 DEF Terminate
    <3> QED  BY <3>1, <3>2, TypeFrame DEF TypeOK
  <2>2. CASE UNCHANGED vars
    <3>1. UNCHANGED <<up, peerVars, readVars, accVars, listVars, dataQ, stopped,
                      spinVars, main>>
      BY <2>2 DEF vars, spinVars
    <3> QED  BY <3>1, TypeFrame DEF TypeOK
  <2> QED  BY <2>1, <2>2, TypePeer, TypeAccepter, TypeReader, TypeSpinOnce DEF Next
<1> QED  BY <1>1, TypeInit, PTL DEF Spec

-----------------------------------------------------------------------------
(***************************************************************************)
(* Capacity. The accepter checks current and inserts much later, with      *)
(* _mtx_cl free in between, so the bound is not inductive: what carries it *)
(* is that the room found by the check is still there, since only the one  *)
(* thread that holds _mtx_accept ever adds a client.                       *)
(***************************************************************************)
RoomKept == acc \in {"accept", "insert"} => current < MaxNumClients

CapacityInv == /\ current = Cardinality(clients)
               /\ current <= MaxNumClients
               /\ RoomKept

LEMMA CapacityStep ==
  ASSUME TypeOK, CapacityInv, [Next]_vars
  PROVE  CapacityInv'
<1> USE TcpServerAssumption DEF CapacityInv, RoomKept, ListTypeOK
<1>1. CASE CheckRoom
  BY <1>1 DEF CheckRoom, listVars, TypeOK
<1>2. CASE Insert
  <2>1. Cardinality(clients') <= current + 1
    BY <1>2, FS_AddElement, ClientsFinite DEF Insert, TypeOK
  <2>2. current' = Cardinality(clients') /\ Cardinality(clients') \in Nat
    BY <1>2, ClientsFinite DEF Insert, TypeOK, AccTypeOK
  <2> QED  BY <1>2, <2>1, <2>2 DEF Insert, TypeOK
<1>3. CASE Erase
  <2>1. Cardinality(clients') <= current
    BY <1>3, FS_RemoveElement, ClientsFinite DEF Erase, TypeOK
  <2>2. current' = Cardinality(clients') /\ Cardinality(clients') \in Nat
    BY <1>3, ClientsFinite DEF Erase, TypeOK
  <2> QED  BY <1>3, <2>1, <2>2 DEF Erase, accVars, TypeOK
<1>4. ASSUME UNCHANGED <<clients, current>>, UNCHANGED acc \/ acc' \notin {"accept", "insert"}
      PROVE  CapacityInv'
  BY <1>4
<1>5. ASSUME NEW e \in Endpoints, Accept(e) PROVE CapacityInv'
  BY <1>5 DEF Accept, listVars
<1>6. CASE TryLock \/ Unlock
  BY <1>4, <1>6 DEF TryLock, Unlock, listVars
<1>7. CASE SpinOnce /\ ~Erase
  BY <1>4, <1>7 DEF SpinOnce, PopData, DataEmpty, WriteTo, WriteToMissing, Written,
                    StopEmpty, StopCheck, Restart, listVars, accVars
<1>8. ASSUME NEW e \in Endpoints, Reader(e) \/ Peer(e) PROVE CapacityInv'
  BY <1>4, <1>8 DEF Reader, Read, ReadError, CloseCallback, Peer, Connect, PeerSend,
                    PeerClose, listVars, accVars
<1>9. CASE Terminate \/ UNCHANGED vars
  BY <1>4, <1>9 DEF Terminate, vars, listVars, accVars
<1> QED  BY <1>1, <1>2, <1>3, <1>5, <1>6, <1>7, <1>8, <1>9 DEF Next, Accepter

\* A server never holds more clients than _max_num_clients.
THEOREM CapacityHolds == Spec => []CapacityBound
<1>1. Init => CapacityInv
  BY FS_EmptySet, TcpServerAssumption DEF Init, CapacityInv, RoomKept
<1>2. CapacityInv => CapacityBound
  BY DEF CapacityInv, CapacityBound
<1> QED  BY <1>1, <1>2, TypeCorrect, CapacityStep, PTL DEF Spec

-----------------------------------------------------------------------------
(***************************************************************************)
(* Life time of a client object. That a reader's object is owned is not    *)
(* inductive either: spinOnce destroys whatever the stopped queue names,   *)
(* so everything in that queue must be a client whose reader has ended.    *)
(***************************************************************************)
StoppedAreDone == \A i \in 1 .. Len(stopped) : reader[stopped[i]] = "done"

AliveInv == ReaderObjectAlive /\ StoppedAreDone

LEMMA AliveStep ==
  ASSUME TypeOK, AliveInv, [Next]_vars
  PROVE  AliveInv'
<1> USE DEF AliveInv, TypeOK, ReadTypeOK, AccTypeOK, ListTypeOK, QueueTypeOK
<1>1. ASSUME NEW e \in Endpoints, Accept(e) PROVE AliveInv'
  <2>1. reader' = [reader EXCEPT ![e] = "run"] /\ reader[e] = "none"
        /\ acc' = "insert" /\ accEp' = e /\ UNCHANGED <<clients, stopped>>
    BY <1>1 DEF Accept, listVars
  <2>2. ReaderObjectAlive'
    BY <1>1, <2>1 DEF Accept, ReaderObjectAlive
  <2>3. StoppedAreDone'
    BY <2>1, ElementOfSeq DEF StoppedAreDone
  <2> QED  BY <2>2, <2>3
<1>2. CASE Insert
  BY <1>2 DEF Insert, ReaderObjectAlive, StoppedAreDone, readVars
<1>3. CASE TryLock \/ CheckRoom \/ Unlock
  BY <1>3 DEF TryLock, CheckRoom, Unlock, ReaderObjectAlive, StoppedAreDone,
              readVars, listVars
<1>4. ASSUME NEW e \in Endpoints, Read(e) PROVE AliveInv'
  BY <1>4 DEF Read, accVars, listVars, ReaderObjectAlive, StoppedAreDone
<1>5. ASSUME NEW e \in Endpoints, ReadError(e) PROVE AliveInv'
  <2>1. reader' = [reader EXCEPT ![e] = "closing"] /\ reader[e] = "run"
        /\ UNCHANGED <<accVars, clients, stopped>>
    BY <1>5 DEF ReadError, listVars
  <2>2. ReaderObjectAlive'
    BY <2>1 DEF accVars, ReaderObjectAlive
  <2>3. StoppedAreDone'
    BY <2>1, ElementOfSeq DEF StoppedAreDone
  <2> QED  BY <2>2, <2>3
<1>6. ASSUME NEW e \in Endpoints, CloseCallback(e) PROVE AliveInv'
  <2>1. reader' = [reader EXCEPT ![e] = "done"] /\ stopped' = Append(stopped, e)
        /\ UNCHANGED <<accVars, clients>>
    BY <1>6 DEF CloseCallback, listVars
  <2>2. ReaderObjectAlive'
    BY <2>1 DEF accVars, ReaderObjectAlive
  <2>3. StoppedAreDone'
    <3>1. /\ Len(stopped') = Len(stopped) + 1
          /\ stopped'[Len(stopped) + 1] = e
          /\ \A i \in 1 .. Len(stopped) : stopped'[i] = stopped[i]
      BY <2>1, AppendProperties
    <3>2. Len(stopped) \in Nat /\ \A i \in 1 .. Len(stopped) : stopped[i] \in Endpoints
      BY LenProperties, ElementOfSeq
    <3> QED  BY <2>1, <3>1, <3>2 DEF StoppedAreDone
  <2> QED  BY <2>2, <2>3
<1>7. CASE Erase
  <2>1. /\ clients' = clients \ {Head(stopped)} /\ stopped' = Tail(stopped)
        /\ UNCHANGED <<reader, acc, accEp>> /\ stopped # <<>>
    BY <1>7 DEF Erase, readVars, accVars
  <2>2. /\ Len(Tail(stopped)) = Len(stopped) - 1 /\ Len(stopped) \in Nat \ {0}
        /\ \A i \in 1 .. Len(Tail(stopped)) : Tail(stopped)[i] = stopped[i + 1]
        /\ Head(stopped) = stopped[1]
    BY <2>1, HeadTailProperties, EmptySeq
  <2>3. reader[Head(stopped)] = "done"
    BY <2>2 DEF StoppedAreDone
  <2>4. ReaderObjectAlive'
    BY <2>1, <2>3 DEF ReaderObjectAlive
  <2>5. StoppedAreDone'
    BY <2>1, <2>2 DEF StoppedAreDone
  <2> QED  BY <2>4, <2>5
<1>8. CASE SpinOnce /\ ~Erase
  BY <1>8 DEF SpinOnce, PopData, DataEmpty, WriteTo, WriteToMissing, Written,
              StopEmpty, StopCheck, Restart, readVars, accVars, listVars,
              ReaderObjectAlive, StoppedAreDone
<1>9. ASSUME \/ \E e \in Endpoints : Peer(e)
             \/ Terminate
             \/ UNCHANGED vars
      PROVE  AliveInv'
  BY <1>9 DEF Peer, Connect, PeerSend, PeerClose, Terminate, vars, readVars,
              accVars, listVars, ReaderObjectAlive, StoppedAreDone
<1> QED  BY <1>1, <1>2, <1>3, <1>4, <1>5, <1>6, <1>7, <1>8, <1>9
         DEF Next, Accepter, Reader

LEMMA AliveAlways == Spec => []AliveInv
<1>1. Init => AliveInv
  BY DEF Init, AliveInv, ReaderObjectAlive, StoppedAreDone
<1> QED  BY <1>1, TypeCorrect, AliveStep, PTL DEF Spec

\* No reader thread ever runs on a client object that was destroyed.
THEOREM ReadersAreSafe == Spec => []ReaderObjectAlive
  BY AliveAlways, PTL DEF AliveInv

-----------------------------------------------------------------------------
(***************************************************************************)
(* Answers and exceptions. Whoever a queued or served message came from    *)
(* has had a reader thread, so it is owned or has ended; and a reader ends *)
(* only because its peer has left.                                         *)
(***************************************************************************)
Started(e) == reader[e] # "none"

SeenInv ==
  /\ \A i \in 1 .. Len(dataQ) : Started(dataQ[i].ep)
  /\ msgEp # None => Started(msgEp)

LeftInv ==
  \A e \in Endpoints :
    /\ reader[e] \in {"closing", "done"} => peer[e] \in {"closed", "aborted"}
    /\ Started(e) => peer[e] # "idle"

\* A reader that was started stays started.
LEMMA StartedStays ==
  ASSUME TypeOK, [Next]_vars
  PROVE  \A e \in Endpoints : Started(e) => Started(e)'
<1> USE DEF Started, TypeOK, ReadTypeOK
<1>1. ASSUME NEW e \in Endpoints, Accept(e) \/ Reader(e)
      PROVE  \A d \in Endpoints : Started(d) => Started(d)'
  BY <1>1 DEF Accept, Reader, Read, ReadError, CloseCallback
<1>2. CASE UNCHANGED reader
  BY <1>2
<1> QED
  BY <1>1, <1>2
  DEF Next, Accepter, TryLock, CheckRoom, Insert, Unlock, SpinOnce, PopData, DataEmpty,
      WriteTo, WriteToMissing, Written, StopEmpty, StopCheck, Erase, Restart, Peer,
      Connect, PeerSend, PeerClose, Terminate, vars, readVars

LEMMA SeenStep ==
  ASSUME TypeOK, SeenInv, [Next]_vars
  PROVE  SeenInv'
<1>1. \A e \in Endpoints : Started(e) => Started(e)'
  BY StartedStays
<1>2. \A i \in 1 .. Len(dataQ) : dataQ[i].ep \in Endpoints
  <2>1. dataQ \in Seq(Message)
    BY DEF TypeOK, QueueTypeOK
  <2>2. \A i \in 1 .. Len(dataQ) : dataQ[i] \in Message
    BY <2>1, ElementOfSeq
  <2> QED  BY <2>2 DEF Message
<1>3. msgEp \in Endpoints \cup {None}
  BY DEF TypeOK, SpinTypeOK
<1>4. ASSUME UNCHANGED dataQ, msgEp' \in {msgEp, None} PROVE SeenInv'
  BY <1>1, <1>2, <1>3, <1>4 DEF SeenInv, Started
<1>5. CASE PopData
  <2>1. /\ dataQ' = Tail(dataQ) /\ dataQ # <<>> /\ msgEp' \in {None, Head(dataQ).ep}
    BY <1>5 DEF PopData
  <2>2. /\ Len(Tail(dataQ)) = Len(dataQ) - 1 /\ Len(dataQ) \in Nat \ {0}
        /\ \A i \in 1 .. Len(Tail(dataQ)) : Tail(dataQ)[i] = dataQ[i + 1]
        /\ Head(dataQ) = dataQ[1]
    BY <2>1, HeadTailProperties, EmptySeq DEF TypeOK, QueueTypeOK
  <2> QED  BY <1>1, <1>2, <2>1, <2>2 DEF SeenInv
<1>6. ASSUME NEW e \in Endpoints, Read(e) PROVE SeenInv'
  <2>1. PICK m \in Message : m.ep = e /\ dataQ' = Append(dataQ, m)
    <3>1. PICK last \in got[e] + 1 .. sent[e] :
            dataQ' = Append(dataQ, [ep |-> e, piece |-> [first |-> got[e] + 1, last |-> last]])
      BY <1>6 DEF Read
    <3>2. got[e] + 1 \in 1 .. MaxBytes /\ last \in 1 .. MaxBytes
      BY <3>1, TcpServerAssumption DEF TypeOK, PeerTypeOK, ReadTypeOK
    <3> QED  BY <3>1, <3>2 DEF Message, Piece
  <2>2. /\ Len(dataQ') = Len(dataQ) + 1 /\ Len(dataQ) \in Nat
        /\ dataQ'[Len(dataQ) + 1] = m
        /\ \A i \in 1 .. Len(dataQ) : dataQ'[i] = dataQ[i]
    BY <2>1, AppendProperties, LenProperties DEF TypeOK, QueueTypeOK
  <2>3. Started(e)' /\ UNCHANGED msgEp
    BY <1>6 DEF Read, Started, spinVars
  <2> QED  BY <1>1, <1>2, <1>3, <2>1, <2>2, <2>3 DEF SeenInv
<1> QED
  BY <1>4, <1>5, <1>6
  DEF Next, Accepter, TryLock, CheckRoom, Accept, Insert, Unlock, Reader, ReadError,
      CloseCallback, SpinOnce, DataEmpty, WriteTo, WriteToMissing, Written, StopEmpty,
      StopCheck, Erase, Restart, Peer, Connect, PeerSend, PeerClose, Terminate, vars,
      spinVars

\* An answer misses its client only while the accepter has not inserted it
\* or after its reader has ended.
THEOREM AnswerMisses == Spec => []AnswerMissesOnlyInRace
<1>1. Init => SeenInv
  BY DEF Init, SeenInv
<1>2. TypeOK /\ AliveInv /\ SeenInv => AnswerMissesOnlyInRace
  BY DEF TypeOK, ReadTypeOK, SpinTypeOK, AliveInv, ReaderObjectAlive, SeenInv, Started,
         AnswerMissesOnlyInRace
<1> QED  BY <1>1, <1>2, TypeCorrect, AliveAlways, SeenStep, PTL DEF Spec

LEMMA LeftStep ==
  ASSUME TypeOK, LeftInv, [Next]_vars
  PROVE  LeftInv'
<1> USE DEF LeftInv, Started, TypeOK, ReadTypeOK, PeerTypeOK
<1>1. ASSUME NEW e \in Endpoints, Accept(e) \/ Reader(e) PROVE LeftInv'
  BY <1>1 DEF Accept, Reader, Read, ReadError, CloseCallback, peerVars
<1>2. ASSUME NEW e \in Endpoints, Connect(e) \/ PeerSend(e) PROVE LeftInv'
  BY <1>2 DEF Connect, PeerSend, readVars
<1>3. ASSUME NEW e \in Endpoints, PeerClose(e) PROVE LeftInv'
  <2>1. PICK how \in {"closed", "aborted"} : peer' = [peer EXCEPT ![e] = how]
    BY <1>3 DEF PeerClose
  <2> QED  BY <1>3, <2>1 DEF PeerClose, readVars
<1>4. CASE UNCHANGED <<reader, peer>>
  BY <1>4
<1> QED
  BY <1>1, <1>2, <1>3, <1>4
  DEF Next, Accepter, TryLock, CheckRoom, Insert, Unlock, SpinOnce, PopData, DataEmpty,
      WriteTo, WriteToMissing, Written, StopEmpty, StopCheck, Erase, Restart, Peer,
      Terminate, vars, readVars, peerVars

LEMMA CrashStep ==
  ASSUME TypeOK, SeenInv, LeftInv, CrashNeedsLeaver, [Next]_vars
  PROVE  CrashNeedsLeaver'
<1>1. CASE UNCHANGED vars
  BY <1>1 DEF vars, peerVars, CrashNeedsLeaver
<1>2. CASE Terminate
  <2>1. UNCHANGED peer  BY <1>2 DEF Terminate, peerVars
  <2>2. CASE AcceptThrows
    BY <2>1, <2>2 DEF AcceptThrows, CrashNeedsLeaver
  <2>3. CASE WriteThrows
    BY <2>1, <2>3
    DEF WriteThrows, SeenInv, LeftInv, Started, CrashNeedsLeaver, TypeOK, ReadTypeOK,
        PeerTypeOK, ListTypeOK, SpinTypeOK
  <2> QED  BY <1>2, <2>2, <2>3 DEF Terminate
<1>3. CASE up' = TRUE
  BY <1>3 DEF CrashNeedsLeaver
<1> QED  BY <1>1, <1>2, <1>3 DEF Next, TypeOK

\* The process dies of an uncaught exception only if some peer has left.
THEOREM CrashHasLeaver == Spec => []CrashNeedsLeaver
<1>1. Init => SeenInv /\ LeftInv /\ CrashNeedsLeaver
  BY DEF Init, SeenInv, LeftInv, Started, CrashNeedsLeaver
<1> QED  BY <1>1, TypeCorrect, SeenStep, LeftStep, CrashStep, PTL DEF Spec

-----------------------------------------------------------------------------
\* What a step must do to leave a dead client: let its reader end, add it to
\* the map, or take its last entry from the stopped queue.
LEMMA DeadStep ==
  ASSUME TypeOK, [Next]_vars, NEW e \in Endpoints, Dead(e)', ~Dead(e)
  PROVE  acc = "insert" /\ accEp = e
<1> USE DEF TypeOK, ReadTypeOK, AccTypeOK, ListTypeOK, QueueTypeOK, Dead
<1>1. CASE UNCHANGED <<clients, reader, stopped>>
  BY <1>1
<1>2. ASSUME NEW f \in Endpoints, CloseCallback(f) PROVE FALSE
  <2>1. stopped' = Append(stopped, f) /\ clients' = clients
        /\ reader' = [reader EXCEPT ![f] = "done"]
    BY <1>2 DEF CloseCallback, listVars
  <2>2. stopped'[Len(stopped) + 1] = f /\ Len(stopped) + 1 \in 1 .. Len(stopped')
    BY <2>1
  <2>3. e # f
    BY <2>2
  <2>4. \A i \in 1 .. Len(stopped) : i \in 1 .. Len(stopped') /\ stopped'[i] = stopped[i]
    BY <2>1
  <2> QED  BY <2>1, <2>3, <2>4
<1>3. CASE Erase
  <2>1. clients' = clients \ {Head(stopped)} /\ stopped' = Tail(stopped) /\ reader' = reader
        /\ stopped # <<>>
    BY <1>3 DEF Erase, readVars
  <2>2. PICK i \in 1 .. Len(stopped) : stopped[i] = e
    BY <2>1
  <2>3. i # 1
    BY <2>1, <2>2
  <2>4. i - 1 \in 1 .. Len(stopped') /\ stopped'[i - 1] = stopped[i]
    BY <2>1, <2>3
  <2> QED  BY <2>2, <2>4
<1>4. CASE Insert
  BY <1>4 DEF Insert, readVars
<1>5. ASSUME NEW f \in Endpoints, Accept(f) \/ Read(f) \/ ReadError(f) PROVE FALSE
  <2>1. clients' = clients /\ stopped' = stopped
    BY <1>5 DEF Accept, Read, ReadError, listVars
  <2>2. reader'[e] = "done" => reader[e] = "done"
    BY <1>5 DEF Accept, Read, ReadError
  <2> QED  BY <2>1, <2>2
<1>6. ASSUME NEW f \in Endpoints, Peer(f) PROVE FALSE
  BY <1>6, <1>1 DEF Peer, Connect, PeerSend, PeerClose, readVars, listVars
<1>7. CASE TryLock \/ CheckRoom \/ Unlock
  BY <1>7, <1>1 DEF TryLock, CheckRoom, Unlock, readVars, listVars
<1>8. CASE PopData \/ DataEmpty \/ WriteTo \/ WriteToMissing \/ StopEmpty \/ StopCheck \/ Restart
  BY <1>8, <1>1 DEF PopData, DataEmpty, WriteTo, WriteToMissing, Written, StopEmpty,
                    StopCheck, Restart, readVars, listVars
<1>9. CASE Terminate \/ UNCHANGED vars
  BY <1>9, <1>1 DEF Terminate, vars, readVars, listVars
<1> QED  BY <1>2, <1>3, <1>4, <1>5, <1>6, <1>7, <1>8, <1>9
         DEF Next, Accepter, Reader, SpinOnce

\* Nothing but the accepter's late insert leaves a dead client in its place,
\* for any number of peers and accepter threads (Tcp.h:306 before :308).
THEOREM DeadByLateInsert == Spec => DeadOnlyByLateInsert
<1>1. TypeOK /\ [Next]_vars =>
        [\A e \in Endpoints : Dead(e)' => Dead(e) \/ (acc = "insert" /\ accEp = e)]_vars
  BY DeadStep
<1> QED  BY <1>1, TypeCorrect, PTL DEF Spec, DeadOnlyByLateInsert

-----------------------------------------------------------------------------
(***************************************************************************)
(* The channel. What the callback has seen of a connection, the pieces of  *)
(* it in the queue, and what its reader has taken from the socket join     *)
(* without a gap: SeenBefore(e, i, b) says that b is the last byte of e    *)
(* the callback will have seen when the messages before position i are     *)
(* served.                                                                 *)
(***************************************************************************)
NoneOf(e, from, to) == \A k \in from .. to : dataQ[k].ep # e

SeenBefore(e, i, b) ==
  \/ b = Channel!Upto(e) /\ NoneOf(e, 1, i - 1)
  \/ \E j \in 1 .. i - 1 :
       dataQ[j].ep = e /\ dataQ[j].piece.last = b /\ NoneOf(e, j + 1, i - 1)

PieceFits(i) ==
  LET e == dataQ[i].ep  p == dataQ[i].piece
  IN  /\ SeenBefore(e, i, p.first - 1)
      /\ p.first <= p.last /\ p.last <= sent[e]
      /\ Channel!HoldsLineEnd(p.first, p.last)

OrderInv ==
  /\ \A i \in 1 .. Len(dataQ) : PieceFits(i)
  /\ \A e \in Endpoints : SeenBefore(e, Len(dataQ) + 1, got[e]) /\ got[e] <= sent[e]

\* What the invariant says where nothing is added to the queue or taken.
LEMMA OrderFrame ==
  ASSUME TypeOK, OrderInv, UNCHANGED <<dataQ, calls, got>>, TypeOK',
         \A e \in Endpoints : sent[e] <= sent'[e]
  PROVE  OrderInv'
<1>t. /\ MaxBytes \in Nat /\ dataQ \in Seq(Message)
      /\ got \in [Endpoints -> 0 .. MaxBytes]
      /\ sent \in [Endpoints -> 0 .. MaxBytes] /\ sent' \in [Endpoints -> 0 .. MaxBytes]
  BY TcpServerAssumption DEF TypeOK, PeerTypeOK, ReadTypeOK, QueueTypeOK
<1>2. ASSUME NEW i \in 1 .. Len(dataQ) PROVE PieceFits(i)'
  <2>m. dataQ[i] \in Message
    BY <1>t, ElementOfSeq
  <2>1. PICK e \in Endpoints, p \in Piece : dataQ[i].ep = e /\ dataQ[i].piece = p
    BY <2>m DEF Message
  <2>2. PieceFits(i)
    BY DEF OrderInv
  <2>3. p.last \in Nat /\ sent[e] \in Nat /\ sent'[e] \in Nat /\ p.last <= sent[e]
    BY <1>t, <2>1, <2>2 DEF Piece, PieceFits
  <2>4. p.last <= sent'[e]
    BY <2>3
  <2>5. SeenBefore(e, i, p.first - 1)'
    BY <2>1, <2>2 DEF PieceFits, SeenBefore, NoneOf, Channel!Upto
  <2> QED  BY <2>1, <2>2, <2>4, <2>5 DEF PieceFits, SeenBefore, Channel!HoldsLineEnd
<1>3. ASSUME NEW e \in Endpoints
      PROVE  SeenBefore(e, Len(dataQ) + 1, got[e])' /\ got'[e] <= sent'[e]
  <2>1. got[e] <= sent[e] /\ sent[e] <= sent'[e] /\ got[e] \in Nat /\ sent[e] \in Nat
        /\ sent'[e] \in Nat
    BY <1>t DEF OrderInv
  <2>2. PICK g, n : g = got[e] /\ n = Len(dataQ)
    OBVIOUS
  <2>3. SeenBefore(e, n + 1, g)
    BY <2>2 DEF OrderInv
  <2>4. SeenBefore(e, n + 1, g)'
    BY <2>3 DEF SeenBefore, NoneOf, Channel!Upto
  <2> QED  BY <2>1, <2>2, <2>4 DEF SeenBefore
<1> QED  BY <1>2, <1>3 DEF OrderInv

\* What a reader queues starts where its last piece ended.
LEMMA OrderRead ==
  ASSUME TypeOK, TypeOK', OrderInv, NEW e \in Endpoints, Read(e)
  PROVE  OrderInv'
<1>t. /\ MaxBytes \in Nat
      /\ got \in [Endpoints -> 0 .. MaxBytes] /\ sent \in [Endpoints -> 0 .. MaxBytes]
      /\ dataQ \in Seq(Message) /\ dataQ' \in Seq(Message)
  BY TcpServerAssumption DEF TypeOK, PeerTypeOK, ReadTypeOK, QueueTypeOK
<1>1. PICK last \in got[e] + 1 .. sent[e] :
        /\ Channel!HoldsLineEnd(got[e] + 1, last)
        /\ dataQ' = Append(dataQ, [ep |-> e, piece |-> [first |-> got[e] + 1, last |-> last]])
        /\ got' = [got EXCEPT ![e] = last]
  BY DEF Read
<1>2. UNCHANGED <<calls, sent>>
  BY DEF Read, peerVars, spinVars
<1>n. PICK n \in Nat : n = Len(dataQ)
  BY <1>t, LenProperties
<1>g. PICK g \in Nat : g = got[e]
  BY <1>t
<1>3. Len(dataQ') = n + 1 /\ \A i \in 1 .. n : dataQ'[i] = dataQ[i]
  BY <1>1, <1>n, <1>t
<1>p. /\ dataQ'[n + 1].ep = e /\ dataQ'[n + 1].piece.first = g + 1
      /\ dataQ'[n + 1].piece.last = last
  BY <1>1, <1>n, <1>g, <1>t
<1>4. sent[e] \in Nat /\ last \in Nat /\ g + 1 <= last /\ last <= sent[e]
  BY <1>1, <1>g, <1>t
<1>5. ASSUME NEW d, NEW i \in 1 .. n + 1, NEW b, SeenBefore(d, i, b)
      PROVE  SeenBefore(d, i, b)'
  <2>1. CASE b = Channel!Upto(d) /\ NoneOf(d, 1, i - 1)
    <3>1. NoneOf(d, 1, i - 1)'
      <4> SUFFICES ASSUME NEW k \in 1 .. i - 1 PROVE dataQ'[k].ep # d
        BY DEF NoneOf
      <4>1. k \in 1 .. n
        BY <1>n
      <4> QED  BY <1>3, <2>1, <4>1 DEF NoneOf
    <3> QED  BY <1>2, <2>1, <3>1 DEF SeenBefore, Channel!Upto
  <2>2. ASSUME NEW j \in 1 .. i - 1, dataQ[j].ep = d, dataQ[j].piece.last = b,
               NoneOf(d, j + 1, i - 1)
        PROVE  SeenBefore(d, i, b)'
    <3>1. j \in 1 .. n /\ \A k \in j + 1 .. i - 1 : k \in 1 .. n
      BY <1>n
    <3>2. dataQ'[j] = dataQ[j] /\ NoneOf(d, j + 1, i - 1)'
      BY <1>3, <2>2, <3>1 DEF NoneOf
    <3> QED  BY <2>2, <3>2 DEF SeenBefore
  <2> QED  BY <1>5, <2>1, <2>2 DEF SeenBefore
<1>6. ASSUME NEW i \in 1 .. n + 1 PROVE PieceFits(i)'
  <2>1. CASE i \in 1 .. n
    <3>1. PieceFits(i) /\ dataQ'[i] = dataQ[i]
      BY <1>3, <1>n, <2>1 DEF OrderInv
    <3>2. PICK d, b : d = dataQ[i].ep /\ b = dataQ[i].piece.first - 1
      OBVIOUS
    <3>3. SeenBefore(d, i, b)'
      BY <1>5, <3>1, <3>2 DEF PieceFits
    <3>4. SeenBefore(dataQ[i].ep, i, dataQ[i].piece.first - 1)'
      BY <3>1, <3>2, <3>3 DEF SeenBefore
    <3> QED  BY <1>2, <3>1, <3>4 DEF PieceFits, Channel!HoldsLineEnd
  <2>2. CASE i = n + 1
    <3>1. SeenBefore(e, n + 1, g)
      BY <1>n, <1>g DEF OrderInv
    <3>2. SeenBefore(e, n + 1, g)'
      BY <1>5, <3>1
    <3>3. SeenBefore(dataQ[n + 1].ep, n + 1, dataQ[n + 1].piece.first - 1)'
      BY <1>p, <3>2 DEF SeenBefore
    <3>4. Channel!HoldsLineEnd(dataQ[n + 1].piece.first, dataQ[n + 1].piece.last)'
      BY <1>1, <1>g, <1>p DEF Channel!HoldsLineEnd
    <3> QED  BY <1>2, <1>p, <1>4, <2>2, <3>3, <3>4 DEF PieceFits
  <2> QED  BY <1>3, <2>1, <2>2
<1>7. ASSUME NEW d \in Endpoints
      PROVE  SeenBefore(d, n + 2, got[d])' /\ got'[d] <= sent'[d]
  <2>1. PICK h \in Nat : h = got'[d]
    BY <1>1, <1>4, <1>t
  <2>2. CASE d = e
    <3>1. h = last
      BY <1>1, <1>t, <2>1, <2>2
    <3>2. n + 1 \in 1 .. n + 2 - 1 /\ \A k \in n + 1 + 1 .. n + 2 - 1 : FALSE
      OBVIOUS
    <3>3. NoneOf(d, n + 1 + 1, n + 2 - 1)'
      BY <3>2 DEF NoneOf
    <3>p. dataQ'[n + 1].ep = d /\ dataQ'[n + 1].piece.last = h
      BY <1>p, <2>2, <3>1, Zenon
    <3>4. SeenBefore(d, n + 2, h)'
      BY <3>2, <3>3, <3>p DEF SeenBefore
    <3>5. SeenBefore(d, n + 2, got[d])'
      BY <2>1, <3>4, Zenon DEF SeenBefore
    <3>6. got'[d] <= sent'[d]
      BY <1>2, <1>4, <2>1, <2>2, <3>1
    <3> QED  BY <3>5, <3>6
  <2>3. CASE d # e
    <3>1. h = got[d] /\ SeenBefore(d, n + 1, h) /\ h <= sent[d]
      BY <1>1, <1>n, <1>t, <2>1, <2>3 DEF OrderInv
    <3>2. dataQ'[n + 1].ep # d /\ n + 1 \in 1 .. n + 1
      BY <1>p, <2>3
    <3>3. SeenBefore(d, n + 1, h)'
      BY <1>5, <3>1, <3>2
    <3>4. \A j : NoneOf(d, j, n)' => NoneOf(d, j, n + 1)'
      BY <3>2 DEF NoneOf
    <3>5. SeenBefore(d, n + 2, h)'
      BY <3>3, <3>4 DEF SeenBefore
    <3> QED  BY <1>2, <2>1, <3>1, <3>5 DEF SeenBefore
  <2> QED  BY <2>2, <2>3
<1> QED  BY <1>3, <1>6, <1>7 DEF OrderInv

\* The callback is handed the piece that follows what it has seen.
LEMMA PopDelivers ==
  ASSUME TypeOK, OrderInv, PopData,
         NEW e, NEW p, dataQ[1].ep = e, dataQ[1].piece = p
  PROVE  /\ e \in Endpoints /\ p.first = Channel!Upto(e) + 1
         /\ p = [first |-> Channel!Upto(e) + 1, last |-> p.last]
         /\ p.last \in Channel!Upto(e) + 1 .. sent[e]
         /\ calls' = [calls EXCEPT ![e] = Append(@, p)]
         /\ Channel!Upto(e)' = p.last
<1> USE DEF TypeOK, PeerTypeOK, QueueTypeOK, SpinTypeOK
<1>1. dataQ # <<>> /\ Head(dataQ) = dataQ[1] /\ Len(dataQ) \in Nat \ {0}
  BY EmptySeq DEF PopData
<1>2. dataQ[1] \in Message
  BY <1>1, ElementOfSeq
<1>3. e \in Endpoints /\ p \in Piece /\ p.first \in Nat /\ p.last \in Nat
  <2>1. dataQ[1].ep \in Endpoints /\ dataQ[1].piece \in Piece
    BY <1>2 DEF Message
  <2>2. \A q \in Piece : q.first \in Nat /\ q.last \in Nat
    BY DEF Piece
  <2> QED  BY <2>1, <2>2, Zenon
<1>4. calls' = [calls EXCEPT ![e] = Append(@, p)]
  BY <1>1 DEF PopData
<1>5. PieceFits(1)
  BY <1>1 DEF OrderInv
<1>6. p.first - 1 = Channel!Upto(e)
  BY <1>5 DEF PieceFits, SeenBefore
<1>7. p.first = Channel!Upto(e) + 1
  BY <1>3, <1>6
<1>8. p.first <= p.last /\ p.last <= sent[e] /\ sent[e] \in Nat
  BY <1>3, <1>5 DEF PieceFits
<1>9. Channel!Upto(e)' = p.last
  <2>1. calls[e] \in Seq(Piece) /\ calls'[e] = Append(calls[e], p)
    BY <1>3, <1>4
  <2>2. Len(calls'[e]) = Len(calls[e]) + 1 /\ calls'[e][Len(calls[e]) + 1] = p
        /\ calls'[e] # <<>>
    <3> HIDE DEF TypeOK, PeerTypeOK, QueueTypeOK, SpinTypeOK
    <3> QED  BY <1>3, <2>1, AppendProperties
  <2> QED  BY <2>2 DEF Channel!Upto
<1>10. p = [first |-> p.first, last |-> p.last]
  BY <1>3 DEF Piece
<1> QED  BY <1>3, <1>4, <1>7, <1>8, <1>9, <1>10

\* Serving the first piece moves its bytes to what the callback has seen.
LEMMA OrderPop ==
  ASSUME TypeOK, OrderInv, PopData
  PROVE  OrderInv'
<1>t. dataQ \in Seq(Message)
  BY DEF TypeOK, QueueTypeOK
<1>n. PICK n : n = Len(dataQ)
  OBVIOUS
<1>e. PICK e, p : dataQ[1].ep = e /\ dataQ[1].piece = p
  OBVIOUS
<1>1. dataQ # <<>> /\ dataQ' = Tail(dataQ) /\ UNCHANGED <<got, sent>>
  BY DEF PopData, peerVars, readVars
<1>2. n \in Nat \ {0} /\ Len(dataQ') = n - 1
      /\ \A i \in 1 .. n - 1 : dataQ'[i] = dataQ[i + 1]
  BY <1>t, <1>1, <1>n, HeadTailProperties, EmptySeq
<1>3. e \in Endpoints /\ calls' = [calls EXCEPT ![e] = Append(@, p)] /\ Channel!Upto(e)' = p.last
  BY <1>e, PopDelivers
<1>4. \A d \in Endpoints : d # e => Channel!Upto(d)' = Channel!Upto(d)
  BY <1>3 DEF TypeOK, SpinTypeOK, Channel!Upto
<1>5. ASSUME NEW d \in Endpoints, NEW i \in 1 .. n, NEW b, SeenBefore(d, i + 1, b)
      PROVE  SeenBefore(d, i, b)'
  <2>1. CASE b = Channel!Upto(d) /\ NoneOf(d, 1, i)
    <3>1. d # e
      BY <1>2, <1>e, <2>1 DEF NoneOf
    <3>2. NoneOf(d, 1, i - 1)'
      <4> SUFFICES ASSUME NEW k \in 1 .. i - 1 PROVE dataQ'[k].ep # d
        BY DEF NoneOf
      <4>1. k + 1 \in 1 .. i /\ k \in 1 .. n - 1
        BY <1>2
      <4>2. dataQ'[k] = dataQ[k + 1]
        BY <1>2, <4>1
      <4> QED  BY <2>1, <4>1, <4>2, Zenon DEF NoneOf
    <3> QED  BY <1>4, <2>1, <3>1, <3>2 DEF SeenBefore
  <2>2. ASSUME NEW j \in 1 .. i, dataQ[j].ep = d, dataQ[j].piece.last = b, NoneOf(d, j + 1, i)
        PROVE  SeenBefore(d, i, b)'
    <3>1. CASE j = 1
      <4>1. Channel!Upto(d)' = b
        BY <1>e, <1>3, <2>2, <3>1
      <4>2. NoneOf(d, 1, i - 1)'
        <5> SUFFICES ASSUME NEW k \in 1 .. i - 1 PROVE dataQ'[k].ep # d
          BY DEF NoneOf
        <5>1. k + 1 \in j + 1 .. i /\ k \in 1 .. n - 1
          BY <1>2, <3>1
        <5> QED  BY <1>2, <2>2, <5>1 DEF NoneOf
      <4> QED  BY <4>1, <4>2 DEF SeenBefore
    <3>2. CASE j # 1
      <4>1. j - 1 \in 1 .. i - 1 /\ dataQ'[j - 1] = dataQ[j]
        <5>1. j - 1 \in 1 .. i - 1 /\ j - 1 \in 1 .. n - 1 /\ j - 1 + 1 = j
          BY <1>2, <3>2
        <5>2. dataQ'[j - 1] = dataQ[j - 1 + 1]
          BY <1>2, <5>1
        <5> QED  BY <5>1, <5>2
      <4>2. NoneOf(d, j - 1 + 1, i - 1)'
        <5> SUFFICES ASSUME NEW k \in j .. i - 1 PROVE dataQ'[k].ep # d
          BY <1>2 DEF NoneOf
        <5>1. k + 1 \in j + 1 .. i /\ k \in 1 .. n - 1
          BY <1>2
        <5> QED  BY <1>2, <2>2, <5>1 DEF NoneOf
      <4> QED  BY <2>2, <4>1, <4>2 DEF SeenBefore
    <3> QED  BY <3>1, <3>2
  <2>3. i + 1 - 1 = i
    BY <1>2
  <2> QED  BY <1>5, <2>1, <2>2, <2>3 DEF SeenBefore
<1>6. ASSUME NEW i \in 1 .. n - 1 PROVE PieceFits(i)'
  <2>1. i + 1 \in 1 .. n /\ i \in 1 .. n /\ dataQ'[i] = dataQ[i + 1]
    BY <1>2
  <2>2. dataQ[i + 1] \in Message
    BY <1>t, <1>n, <2>1, ElementOfSeq
  <2>3. PieceFits(i + 1)
    BY <1>n, <2>1 DEF OrderInv
  <2>4. PICK d, b : d \in Endpoints /\ d = dataQ[i + 1].ep /\ b = dataQ[i + 1].piece.first - 1
    BY <2>2 DEF Message
  <2>5. SeenBefore(d, i, b)'
    BY <1>5, <2>1, <2>3, <2>4 DEF PieceFits
  <2>6. SeenBefore(dataQ[i].ep, i, dataQ[i].piece.first - 1)'
    BY <2>1, <2>4, <2>5 DEF SeenBefore
  <2> QED  BY <1>1, <2>1, <2>3, <2>6 DEF PieceFits, Channel!HoldsLineEnd
<1>7. ASSUME NEW d \in Endpoints
      PROVE  SeenBefore(d, n, got[d])' /\ got'[d] <= sent'[d]
  <2>1. PICK h : h = got[d]
    OBVIOUS
  <2>2. SeenBefore(d, n + 1, h) /\ h <= sent[d]
    BY <1>n, <2>1 DEF OrderInv
  <2>3. SeenBefore(d, n, h)'
    BY <1>2, <1>5, <2>2
  <2> QED  BY <1>1, <2>1, <2>2, <2>3 DEF SeenBefore
<1> QED  BY <1>2, <1>6, <1>7 DEF OrderInv

\* Only readers and PopData touch the queue; the rest is OrderFrame.
LEMMA OrderStep ==
  ASSUME TypeOK, OrderInv, [Next]_vars, TypeOK'
  PROVE  OrderInv'
<1>1. ASSUME UNCHANGED <<dataQ, calls, got, sent>> PROVE OrderInv'
  <2>1. \A e \in Endpoints : sent[e] <= sent'[e]
    BY <1>1 DEF TypeOK, PeerTypeOK
  <2> QED  BY <1>1, <2>1, OrderFrame
<1>2. ASSUME NEW e \in Endpoints, Peer(e) PROVE OrderInv'
  <2>1. UNCHANGED <<dataQ, calls, got>>
    BY <1>2 DEF Peer, Connect, PeerSend, PeerClose, readVars, spinVars
  <2>2. \A d \in Endpoints : sent[d] <= sent'[d]
    BY <1>2 DEF Peer, Connect, PeerSend, PeerClose, TypeOK, PeerTypeOK
  <2> QED  BY <2>1, <2>2, OrderFrame
<1>3. CASE Accepter
  BY <1>1, <1>3 DEF Accepter, TryLock, CheckRoom, Accept, Insert, Unlock, peerVars, readVars, spinVars
<1>4. ASSUME NEW e \in Endpoints, Reader(e) PROVE OrderInv'
  BY <1>1, <1>4, OrderRead DEF Reader, ReadError, CloseCallback, peerVars, spinVars
<1>5. CASE SpinOnce
  BY <1>1, <1>5, OrderPop
  DEF SpinOnce, DataEmpty, WriteTo, WriteToMissing, Written, StopEmpty, StopCheck, Erase,
      Restart, peerVars, readVars
<1>6. CASE Terminate \/ UNCHANGED vars
  BY <1>1, <1>6 DEF Terminate, vars, peerVars, readVars, spinVars
<1> QED  BY <1>2, <1>3, <1>4, <1>5, <1>6 DEF Next

\* Whatever the threads do, what the callback sees is the channel: the bytes
\* of each connection once and in order, in pieces that hold a line end
\* (Tcp.h:125 and :202), for any number of connections and any line length.
THEOREM ChannelIsImplemented == Spec => InOrder
<1>1. Init => Channel!Init
  BY DEF Init, Channel!Init
<1>2. Init => OrderInv
  <2> SUFFICES ASSUME Init PROVE OrderInv
    OBVIOUS
  <2>1. Len(dataQ) = 0 /\ \A e \in Endpoints : got[e] = 0 /\ sent[e] = 0 /\ Channel!Upto(e) = 0
    BY DEF Init, Channel!Upto
  <2> QED  BY <2>1 DEF OrderInv, SeenBefore, NoneOf
<1>3. TypeOK /\ OrderInv /\ [Next]_vars => [Channel!Next]_<<sent, calls>>
  <2> SUFFICES ASSUME TypeOK, OrderInv, [Next]_vars, ~UNCHANGED <<sent, calls>>
               PROVE  Channel!Next
    OBVIOUS
  <2>1. ASSUME NEW e \in Endpoints, PeerSend(e) PROVE Channel!Next
    BY <2>1 DEF PeerSend, spinVars, Channel!Next, Channel!Send
  <2>2. CASE PopData
    <3>e. PICK e, p : dataQ[1].ep = e /\ dataQ[1].piece = p
      OBVIOUS
    <3>1. /\ e \in Endpoints /\ p.first = Channel!Upto(e) + 1
          /\ p = [first |-> Channel!Upto(e) + 1, last |-> p.last]
          /\ p.last \in Channel!Upto(e) + 1 .. sent[e]
          /\ calls' = [calls EXCEPT ![e] = Append(@, p)]
      BY <3>e, <2>2, PopDelivers
    <3>2. Channel!HoldsLineEnd(p.first, p.last)
      <4>1. 1 \in 1 .. Len(dataQ)
        BY <2>2, EmptySeq DEF PopData, TypeOK, QueueTypeOK
      <4> QED  BY <3>e, <4>1 DEF OrderInv, PieceFits
    <3>3. sent' = sent
      BY <2>2 DEF PopData, peerVars
    <3>4. Channel!Deliver(e)
      BY <3>1, <3>2, <3>3 DEF Channel!Deliver
    <3> QED  BY <3>1, <3>4 DEF Channel!Next
  <2>3. CASE ~PopData /\ ~\E e \in Endpoints : PeerSend(e)
    BY <2>3
    DEF Next, Accepter, TryLock, CheckRoom, Accept, Insert, Unlock, Reader, Read, ReadError,
        CloseCallback, SpinOnce, DataEmpty, WriteTo, WriteToMissing, Written, StopEmpty,
        StopCheck, Erase, Restart, Peer, Connect, PeerClose, Terminate, vars, peerVars, spinVars
  <2> QED  BY <2>1, <2>2, <2>3
<1>4. Spec => []OrderInv
  <2>1. TypeOK /\ OrderInv /\ [Next]_vars /\ TypeOK' => OrderInv'
    BY OrderStep
  <2> QED  BY <1>2, <2>1, TypeCorrect, PTL DEF Spec
<1> QED  BY <1>1, <1>3, <1>4, TypeCorrect, PTL DEF Spec, InOrder, Channel!Spec
=============================================================================

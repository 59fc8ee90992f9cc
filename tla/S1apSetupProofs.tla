-------------------------- MODULE S1apSetupProofs --------------------------
(***************************************************************************)
(* Proofs about S1apSetup for every capacity of the task queue.            *)
(***************************************************************************)
EXTENDS S1apSetup, TLAPS

(***************************************************************************)
(* The inductive invariant.  The three safety properties need each other,  *)
(* and two facts of their own: an on-going procedure is never connected    *)
(* (its timeout would close the socket under mme_connected), and only a    *)
(* running component holds a socket.                                       *)
(***************************************************************************)
OngoingNotConnected == conn.proc = "on_going" => ~conn.mme_connected

SocketIsRunning == conn.socket => conn.running

IInv ==
  /\ TypeOK
  /\ OngoingIsTimed
  /\ IdleIsClosed
  /\ ConnectedHasSocket
  /\ OngoingNotConnected
  /\ SocketIsRunning

\* The part of IInv that speaks of the connection alone, as a predicate on
\* a connection record, so that it can be stated of the results of Launch.
Sound(c) ==
  /\ c \in Connection
  /\ (c.proc = "on_going") = c.s1setup_timeout
  /\ c.proc = "idle" /\ ~c.mme_connected => ~c.socket
  /\ c.mme_connected => c.socket /\ c.running
  /\ c.proc = "on_going" => ~c.mme_connected
  /\ c.socket => c.running

\* IInv is Sound(conn) and the types of the other two variables.
LEMMA IInvIsSound ==
  IInv <=> /\ Sound(conn)
           /\ peer \in Peer
           /\ rxQueue \in Seq(Packet)
           /\ Len(rxQueue) <= MaxQueue
  BY DEF IInv, TypeOK, OngoingIsTimed, IdleIsClosed, ConnectedHasSocket,
         OngoingNotConnected, SocketIsRunning, Sound

(***************************************************************************)
(* Every outcome of proc_t::launch from a sound connection is sound: the   *)
(* procedure is refused, ends at once, or goes on with its timeout set.    *)
(***************************************************************************)
LEMMA LaunchIsSound ==
  ASSUME NEW c, Sound(c), NEW d \in Launch(c)
  PROVE  Sound(d)
  <1>1. CASE c.proc = "on_going"
    BY <1>1 DEF Launch, Sound
  <1>2. CASE c.proc # "on_going"
    <2>1. c \in Connection /\ c.proc = "idle" /\ c.s1setup_timeout = FALSE
      BY <1>2 DEF Sound, Connection
    <2>2. CASE ~c.running
      BY <1>2, <2>1, <2>2 DEF Launch, StartMmeConnection, SocketReset, Sound, Connection
    <2>3. CASE c.running /\ c.mme_connected
      BY <1>2, <2>1, <2>3 DEF Launch, StartMmeConnection, SocketReset, Sound, Connection
    <2>4. CASE c.running /\ ~c.mme_connected
      <3>1. c.socket = FALSE
        BY <2>1, <2>4 DEF Sound, Connection
      <3>2. \/ d = [SocketReset(c) EXCEPT !.mme_connect_timer = TRUE]
            \/ d = [SocketReset(c) EXCEPT !.running = FALSE]
            \/ d = [c EXCEPT !.socket = TRUE, !.s1setup_timeout = TRUE, !.proc = "on_going"]
        BY <1>2, <2>4, <3>1 DEF Launch, StartMmeConnection
      <3>3. QED
        BY <2>1, <2>4, <3>1, <3>2 DEF SocketReset, Sound, Connection
    <2>5. QED
      BY <2>1, <2>2, <2>3, <2>4 DEF Connection
  <1>3. QED
    BY <1>1, <1>2

\* The event that ends the procedure leaves a sound connection.
LEMMA FailedTriggerIsSound ==
  ASSUME NEW c, Sound(c), c.s1setup_timeout
  PROVE  Sound(Trigger([c EXCEPT !.s1setup_timeout = FALSE], FALSE))
  <1>1. c \in Connection /\ c.proc = "on_going" /\ c.mme_connected = FALSE
    BY DEF Sound, Connection
  <1>2. QED
    BY <1>1 DEF Sound, Connection, Trigger, SocketReset

\* handle_s1setupresponse on an open socket leaves a sound connection.
LEMMA ResponseIsSound ==
  ASSUME NEW c, Sound(c), c.socket
  PROVE  Sound(Trigger([c EXCEPT !.mme_connected = TRUE], TRUE))
  <1>1. c \in Connection /\ c.running
    BY DEF Sound, Connection
  <1>2. CASE c.proc = "idle"
    BY <1>1, <1>2 DEF Sound, Connection, Trigger
  <1>3. CASE c.proc = "on_going"
    BY <1>1, <1>3 DEF Sound, Connection, Trigger
  <1>4. QED
    BY <1>1, <1>2, <1>3 DEF Connection

\* Closing the socket and clearing mme_connected keeps the connection sound.
LEMMA LostIsSound ==
  ASSUME NEW c, Sound(c), NEW d, d = c \/ d = SocketReset(c), ~d.socket
  PROVE  Sound([d EXCEPT !.mme_connected = FALSE])
  BY DEF Sound, Connection, SocketReset

\* The peer's state stays in its set.
LEMMA PeerAfterType ==
  ASSUME peer \in Peer, NEW c
  PROVE  PeerAfter(c) \in Peer
  BY DEF PeerAfter, Peer

\* The object that s1ap::s1ap builds satisfies the invariant.
LEMMA InitIInv == Init => IInv
  <1> SUFFICES ASSUME Init PROVE IInv
    OBVIOUS
  <1>1. Sound(conn)
    BY DEF Init, Sound, Connection
  <1>2. peer \in Peer
    BY DEF Init, Peer
  <1>3. rxQueue \in Seq(Packet) /\ Len(rxQueue) = 0
    BY DEF Init
  <1>4. Len(rxQueue) <= MaxQueue
    BY <1>3, MaxQueueAssumption
  <1>5. QED
    BY <1>1, <1>2, <1>3, <1>4, IInvIsSound

(***************************************************************************)
(* Every step of the stack thread, the timers and the socket thread keeps  *)
(* the inductive invariant.                                                *)
(***************************************************************************)
LEMMA NextIInv == IInv /\ [Next]_vars => IInv'
  <1> SUFFICES ASSUME IInv, [Next]_vars
               PROVE  /\ Sound(conn')
                      /\ peer' \in Peer
                      /\ rxQueue' \in Seq(Packet)
                      /\ Len(rxQueue') <= MaxQueue
    BY DEF IInv, TypeOK, OngoingIsTimed, IdleIsClosed, ConnectedHasSocket,
           OngoingNotConnected, SocketIsRunning, Sound
  <1>0. /\ Sound(conn)
        /\ peer \in Peer
        /\ rxQueue \in Seq(Packet)
        /\ Len(rxQueue) <= MaxQueue
    BY IInvIsSound
  <1>1. CASE S1apInit
    <2>1. Sound([conn EXCEPT !.started = TRUE, !.running = TRUE])
      BY <1>0 DEF Sound, Connection
    <2>2. Sound(conn')
      BY <1>1, <2>1, LaunchIsSound DEF S1apInit
    <2>3. QED
      BY <1>0, <1>1, <2>2, PeerAfterType DEF S1apInit
  <1>2. CASE ConnectTimerExpires
    <2>1. Sound([conn EXCEPT !.mme_connect_timer = FALSE])
      BY <1>0 DEF Sound, Connection
    <2>2. Sound(conn')
      BY <1>2, <2>1, LaunchIsSound DEF ConnectTimerExpires
    <2>3. QED
      BY <1>0, <1>2, <2>2, PeerAfterType DEF ConnectTimerExpires
  <1>3. CASE SetupTimeoutExpires
    <2>1. Sound(conn')
      BY <1>0, <1>3, FailedTriggerIsSound DEF SetupTimeoutExpires
    <2>2. QED
      BY <1>0, <1>3, <2>1, PeerAfterType DEF SetupTimeoutExpires
  <1>4. CASE HandleMmeRxMsg
    <2> DEFINE p == Head(rxQueue)
               c == AfterNotification(p)
    <2>1. c = conn \/ c = SocketReset(conn)
      BY DEF AfterNotification
    <2>2. c.socket => c = conn
      BY <1>0, <2>1 DEF Sound, Connection, SocketReset
    <2>3. ASSUME ~c.socket, conn' \in Launch([c EXCEPT !.mme_connected = FALSE])
          PROVE  Sound(conn')
      <3>1. Sound([c EXCEPT !.mme_connected = FALSE])
        BY <1>0, <2>1, <2>3, LostIsSound
      <3>2. QED
        BY <2>3, <3>1, LaunchIsSound
    <2>4. ASSUME c.socket, conn' = Trigger([c EXCEPT !.mme_connected = TRUE], TRUE)
          PROVE  Sound(conn')
      <3>1. c = conn /\ conn.socket
        BY <2>2, <2>4
      <3>2. QED
        BY <1>0, <2>4, <3>1, ResponseIsSound
    <2>5. ASSUME c.socket, conn' = c
          PROVE  Sound(conn')
      BY <1>0, <2>2, <2>5
    <2>6. Sound(conn')
      BY <1>4, <2>3, <2>4, <2>5 DEF HandleMmeRxMsg
    <2>7. rxQueue' \in Seq(Packet) /\ Len(rxQueue') <= MaxQueue
      BY <1>0, <1>4, MaxQueueAssumption DEF HandleMmeRxMsg
    <2>8. peer' \in Peer
      BY <1>0, <1>4, PeerAfterType DEF HandleMmeRxMsg
    <2>9. QED
      BY <2>6, <2>7, <2>8
  <1>5. ASSUME NEW p \in Packet, ReadSocket(p)
        PROVE  /\ Sound(conn')
               /\ peer' \in Peer
               /\ rxQueue' \in Seq(Packet)
               /\ Len(rxQueue') <= MaxQueue
    BY <1>0, <1>5, MaxQueueAssumption DEF ReadSocket, Peer
  <1>6. CASE UNCHANGED vars
    BY <1>0, <1>6 DEF vars
  <1>7. QED
    BY <1>1, <1>2, <1>3, <1>4, <1>5, <1>6 DEF Next

\* IInv holds throughout every behaviour.
THEOREM Invariance == Spec => []IInv
  BY InitIInv, NextIInv, PTL DEF Spec

(***************************************************************************)
(* The connection record keeps its types and the task queue its capacity.  *)
(***************************************************************************)
THEOREM TypeCorrect == Spec => []TypeOK
  BY Invariance, PTL DEF IInv

(***************************************************************************)
(* An on-going S1 setup is always bounded by its timeout, so no lost       *)
(* answer can leave proc_t::launch refusing for ever.                      *)
(***************************************************************************)
THEOREM OngoingTimed == Spec => []OngoingIsTimed
  BY Invariance, PTL DEF IInv

(***************************************************************************)
(* No attempt starts over a socket an earlier attempt left open.           *)
(***************************************************************************)
THEOREM IdleClosed == Spec => []IdleIsClosed
  BY Invariance, PTL DEF IInv

(***************************************************************************)
(* mme_connected is never true without an open socket, whatever stale      *)
(* packets the stack thread handled.                                       *)
(***************************************************************************)
THEOREM ConnectedSocket == Spec => []ConnectedHasSocket
  BY Invariance, PTL DEF IInv

=============================================================================

----------------------------- MODULE S1apSetup -----------------------------
(***************************************************************************)
(* The eNodeB's connection to the MME: class s1ap of                       *)
(* sonica_enb/stack/upper/s1ap.cc, its resumable procedure s1setup_proc,   *)
(* its two timers and the queue through which the socket thread hands      *)
(* received packets to the stack thread.                                   *)
(*                                                                         *)
(* Everything that changes the connection state runs on the stack thread   *)
(* (timer callbacks and packet handlers are tasks of that thread), so a    *)
(* handler is one atomic action.  The socket thread only reads the open    *)
(* socket and appends to rxQueue; a packet it queued may be handled after  *)
(* the socket it came from was closed and replaced, and the handler does   *)
(* not look at where a packet came from: that is what makes the component  *)
(* hard.  The MME and the network are the environment.                     *)
(***************************************************************************)
EXTENDS Naturals, Sequences

CONSTANT MaxQueue   \* capacity of the task queue (8192 in the code)

ASSUME MaxQueueAssumption == MaxQueue \in Nat

VARIABLES
  conn,      \* the members of class s1ap that describe the connection
  peer,      \* the MME's end of the open socket
  rxQueue    \* pending_tasks[mme_queue_id]: packets for the stack thread

vars == <<conn, peer, rxQueue>>

(***************************************************************************)
(* socket is s1ap_socket.is_init(), the timers' fields are is_running(),   *)
(* proc is the proc_state of s1setup_proc; started tells that s1ap::init   *)
(* was called.                                                             *)
(***************************************************************************)
Connection ==
  [started : BOOLEAN, running : BOOLEAN, mme_connected : BOOLEAN,
   proc : {"idle", "on_going"}, socket : BOOLEAN,
   mme_connect_timer : BOOLEAN, s1setup_timeout : BOOLEAN]

(***************************************************************************)
(* The peer owes an answer to S1SetupRequest ("asked"), has answered       *)
(* ("answered"), or has shut the association down ("shut": the socket      *)
(* thread stopped watching it); "none" when no socket is open.             *)
(***************************************************************************)
Peer == {"none", "asked", "answered", "shut"}

(***************************************************************************)
(* What the socket thread can hand over: the two answers to                *)
(* S1SetupRequest, any other S1AP message (none touches the connection),   *)
(* an empty read and the SCTP shutdown notification.                       *)
(***************************************************************************)
Packet == {"s1_setup_resp", "s1_setup_fail", "other", "empty", "shutdown"}

(***************************************************************************)
(* The members of class s1ap keep their types and the task queue its       *)
(* capacity (multiqueue_handler::push waits while the queue is full).      *)
(***************************************************************************)
TypeOK ==
  /\ conn \in Connection
  /\ peer \in Peer
  /\ rxQueue \in Seq(Packet)
  /\ Len(rxQueue) <= MaxQueue

-----------------------------------------------------------------------------

\* s1ap_socket.reset()
SocketReset(c) == [c EXCEPT !.socket = FALSE]

\* Mutant: s1setup_timeout is not started.
StartMmeConnectionUntimed(c) ==
  IF ~c.running \/ c.mme_connected \/ c.socket THEN {c}
  ELSE {[c EXCEPT !.mme_connect_timer = TRUE],
        [c EXCEPT !.socket = TRUE, !.proc = "on_going"]}

(***************************************************************************)
(* proc_t::launch of s1setup_proc: s1_setup_proc_t::init,                  *)
(* start_mme_connection, and `then', which closes the socket when the      *)
(* outcome is an error.  connect_mme fails when the network says so or     *)
(* when a socket is still open (socket_handler_t::open_socket); a failing  *)
(* setup_s1 stops the component.                                           *)
(***************************************************************************)
StartMmeConnection(c) ==
  LET connectFails == [SocketReset(c) EXCEPT !.mme_connect_timer = TRUE]
      sendFails    == [SocketReset(c) EXCEPT !.running = FALSE]
      requestSent  == [c EXCEPT !.socket = TRUE, !.s1setup_timeout = TRUE,
                                !.proc = "on_going"]
  IN IF ~c.running THEN {SocketReset(c)}
     ELSE IF c.mme_connected THEN {c}
     ELSE IF c.socket THEN {connectFails}
     ELSE {connectFails, sendFails, requestSent}

Launch(c) == IF c.proc = "on_going" THEN {c} ELSE StartMmeConnection(c)

\* Mutant: `then' leaves the socket open after a failure.
TriggerKeepsSocket(c, success) ==
  IF c.proc = "idle" THEN c ELSE [c EXCEPT !.s1setup_timeout = FALSE, !.proc = "idle"]

(***************************************************************************)
(* proc_t::trigger(s1setupresult): react and `then'; an idle procedure     *)
(* ignores the event.                                                      *)
(***************************************************************************)
Trigger(c, success) ==
  LET done == [c EXCEPT !.s1setup_timeout = FALSE, !.proc = "idle"]
  IN IF c.proc = "idle" THEN c
     ELSE IF success THEN done ELSE SocketReset(done)

\* A fresh socket faces a peer that owes an answer; a closed one faces nobody.
PeerAfter(c) ==
  IF conn.proc = "idle" /\ c.proc = "on_going" THEN "asked"
  ELSE IF c.socket THEN peer ELSE "none"

-----------------------------------------------------------------------------

\* The object as s1ap::s1ap leaves it.
Init ==
  /\ conn = [started |-> FALSE, running |-> FALSE, mme_connected |-> FALSE,
             proc |-> "idle", socket |-> FALSE,
             mme_connect_timer |-> FALSE, s1setup_timeout |-> FALSE]
  /\ peer = "none"
  /\ rxQueue = <<>>

\* s1ap::init
S1apInit ==
  /\ ~conn.started
  /\ conn' \in Launch([conn EXCEPT !.started = TRUE, !.running = TRUE])
  /\ peer' = PeerAfter(conn')
  /\ UNCHANGED rxQueue

\* mme_connect_timer fires on the stack thread: mme_connect_run
ConnectTimerExpires ==
  /\ conn.mme_connect_timer
  /\ conn' \in Launch([conn EXCEPT !.mme_connect_timer = FALSE])
  /\ peer' = PeerAfter(conn')
  /\ UNCHANGED rxQueue

\* s1setup_timeout fires on the stack thread
SetupTimeoutExpires ==
  /\ conn.s1setup_timeout
  /\ conn' = Trigger([conn EXCEPT !.s1setup_timeout = FALSE], FALSE)
  /\ peer' = PeerAfter(conn')
  /\ UNCHANGED rxQueue

\* Mutant: losing the socket does not clear mme_connected.
HandleMmeRxMsgStaysConnected ==
  /\ rxQueue # <<>>
  /\ rxQueue' = Tail(rxQueue)
  /\ \/ /\ Head(rxQueue) \in {"shutdown", "empty"} \/ ~conn.socket
        /\ conn' \in Launch(SocketReset(conn))
     \/ /\ Head(rxQueue) = "s1_setup_resp" /\ conn.socket
        /\ conn' = Trigger([conn EXCEPT !.mme_connected = TRUE], TRUE)
  /\ peer' = PeerAfter(conn')

(***************************************************************************)
(* handle_mme_rx_msg for the packet at the head of the queue.  A packet    *)
(* that closes the socket, or that finds it closed, restarts the           *)
(* connection procedure and is dropped.                                    *)
(***************************************************************************)
AfterNotification(p) ==
  IF p \in {"shutdown", "empty"} THEN SocketReset(conn) ELSE conn

HandleMmeRxMsg ==
  /\ rxQueue # <<>>
  /\ rxQueue' = Tail(rxQueue)
  /\ LET p == Head(rxQueue)
         c == AfterNotification(p)
     IN \/ /\ ~c.socket
           /\ conn' \in Launch([c EXCEPT !.mme_connected = FALSE])
        \/ /\ c.socket
           /\ p = "s1_setup_resp"
           /\ conn' = Trigger([c EXCEPT !.mme_connected = TRUE], TRUE)
        \/ /\ c.socket
           /\ p # "s1_setup_resp"      \* s1_setup_fail is only logged
           /\ conn' = c
  /\ peer' = PeerAfter(conn')

\* Mutant: the task is pushed even when the queue is full.
ReadSocketUnbounded(p) ==
  /\ conn.socket
  /\ peer # "shut"
  /\ rxQueue' = Append(rxQueue, p)
  /\ UNCHANGED <<conn, peer>>

(***************************************************************************)
(* The socket thread (sctp_recvmsg_pdu_task) reads a packet from the open  *)
(* socket and queues it; after the shutdown notification it stops          *)
(* watching the socket.                                                    *)
(***************************************************************************)
ReadSocket(p) ==
  /\ conn.socket
  /\ peer # "shut"
  /\ p \in {"s1_setup_resp", "s1_setup_fail"} => peer = "asked"
  /\ Len(rxQueue) < MaxQueue
  /\ rxQueue' = Append(rxQueue, p)
  /\ peer' = IF p = "shutdown" THEN "shut"
             ELSE IF p \in {"s1_setup_resp", "s1_setup_fail"} THEN "answered"
             ELSE peer
  /\ UNCHANGED conn

Next ==
  \/ S1apInit
  \/ ConnectTimerExpires
  \/ SetupTimeoutExpires
  \/ HandleMmeRxMsg
  \/ \E p \in Packet : ReadSocket(p)

(***************************************************************************)
(* The stack thread steps the timers every TTI and empties its queues:     *)
(* weak fairness of the timer and packet tasks.  Nothing is assumed of     *)
(* the network, nor of the socket thread.                                  *)
(***************************************************************************)
Fairness ==
  /\ WF_vars(ConnectTimerExpires)
  /\ WF_vars(SetupTimeoutExpires)
  /\ WF_vars(HandleMmeRxMsg)

Spec == Init /\ [][Next]_vars /\ Fairness

-----------------------------------------------------------------------------

(***************************************************************************)
(* An on-going S1 setup always has its timeout running (start_mme_         *)
(* connection, react): otherwise a lost answer would leave the procedure   *)
(* busy, and proc_t::launch would refuse every later attempt.              *)
(***************************************************************************)
OngoingIsTimed == (conn.proc = "on_going") = conn.s1setup_timeout

(***************************************************************************)
(* The procedure is never started over an open socket: connect_mme opens   *)
(* a second socket and socket_handler_t refuses, so a socket left open by  *)
(* an ended attempt would make every later attempt fail.                   *)
(***************************************************************************)
IdleIsClosed ==
  conn.proc = "idle" /\ ~conn.mme_connected => ~conn.socket

(***************************************************************************)
(* mme_connected, which every UE-associated sender tests before it uses    *)
(* the socket (send_initialuemessage and the others), is never true with   *)
(* the socket closed, whatever stale packets were handled in between.      *)
(***************************************************************************)
ConnectedHasSocket == conn.mme_connected => conn.socket /\ conn.running

(***************************************************************************)
(* Every S1 setup attempt ends, answered or not.                           *)
(***************************************************************************)
SetupEnds == conn.proc = "on_going" ~> conn.proc = "idle"

(***************************************************************************)
(* handle_mme_rx_msg: "Restart MME connection procedure if we lost         *)
(* connection".  Once it was connected, a running eNodeB without a         *)
(* connection is then always trying, or about to: procedure on going,      *)
(* reconnection timer running, or a packet waiting whose handler restarts  *)
(* the procedure.                                                          *)
(***************************************************************************)
Restarting ==
  conn.running /\ ~conn.mme_connected =>
     conn.proc = "on_going" \/ conn.mme_connect_timer \/ rxQueue # <<>>

LostConnectionIsRestarted == [](conn.mme_connected => []Restarting)

=============================================================================

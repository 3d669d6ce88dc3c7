----------------------------- MODULE Lifecycle ------------------------------
(***************************************************************************)
(* RSPClient: connect, disconnect, shutdownServer and onConnectionClosed,  *)
(* with the sockets they create.  connect may be called again while the    *)
(* socket of an earlier call is still connecting, be its promise pending   *)
(* or rejected by its timer; the handler of the earlier one then works on  *)
(* this.socket, by now the socket of the later.                            *)
(* Attempt a creates socket a, and its connect handler connection a.       *)
(***************************************************************************)
EXTENDS Integers

CONSTANT Attempts      \* how many times the user calls connect

ASSUME AttemptsAssumption == Attempts \in Nat

Ids     == 1 .. Attempts
Nothing == 0           \* an undefined field of the client

VARIABLES
  outcome,     \* outcome[a]: the promise of connect
  timer,       \* timer[a]: the setTimeout of connect
  sock,        \* sock[a]: the state of the socket
  conn,        \* conn[a]: the state of the MessageConnection
  reads,       \* reads[a]: the socket under connection a
  socket,      \* this.socket
  connection,  \* this.connection
  listener,    \* the user's listener of 'connectionClosed' is registered
  crashed,     \* an exception nobody caught has ended the process
  overtaken    \* history: attempts whose socket was still connecting when
               \* connect was called again

vars == <<outcome, timer, sock, conn, reads, socket, connection, listener,
          crashed, overtaken>>

Outcomes    == {"uncalled", "pending", "connected", "timeout"}
TimerStates == {"unset", "armed", "cleared", "fired"}
(* closing: ended by the peer, an error or destroy; 'close' not emitted yet *)
SockStates  == {"none", "connecting", "open", "closing", "closed"}
ConnStates  == {"none", "listening", "closed", "disposed"}

TypeOK ==
  /\ outcome \in [Ids -> Outcomes]
  /\ timer \in [Ids -> TimerStates]
  /\ sock \in [Ids -> SockStates]
  /\ conn \in [Ids -> ConnStates]
  /\ reads \in [Ids -> Ids \cup {Nothing}]
  /\ socket \in Ids \cup {Nothing}
  /\ connection \in Ids \cup {Nothing}
  /\ listener \in BOOLEAN
  /\ crashed \in BOOLEAN
  /\ overtaken \subseteq Ids

Init ==
  /\ outcome = [a \in Ids |-> "uncalled"]
  /\ timer = [a \in Ids |-> "unset"]
  /\ sock = [a \in Ids |-> "none"]
  /\ conn = [a \in Ids |-> "none"]
  /\ reads = [a \in Ids |-> Nothing]
  /\ socket = Nothing
  /\ connection = Nothing
  /\ listener = FALSE
  /\ crashed = FALSE
  /\ overtaken = {}
-----------------------------------------------------------------------------
(* The user's code.  Calls to connect are numbered in order; nothing makes *)
(* the user wait for the promise of one before the next.                   *)

(* Attempts whose sockets are connecting: a further call overtakes them.   *)
Connecting == {b \in Ids : sock[b] = "connecting"}

Connect_Eager(a) ==      \* the connection made before the socket connects
  /\ ~crashed
  /\ outcome[a] = "uncalled"
  /\ \A b \in Ids : b < a => outcome[b] # "uncalled"
  /\ outcome' = [outcome EXCEPT ![a] = "pending"]
  /\ timer'   = [timer EXCEPT ![a] = "armed"]
  /\ sock'    = [sock EXCEPT ![a] = "connecting"]
  /\ conn'    = [conn EXCEPT ![a] = "listening"]
  /\ reads'   = [reads EXCEPT ![a] = a]
  /\ socket'  = a /\ connection' = a
  /\ overtaken' = overtaken \cup Connecting
  /\ UNCHANGED <<listener, crashed>>
Connect(a) ==
  /\ ~crashed
  /\ outcome[a] = "uncalled"
  /\ \A b \in Ids : b < a => outcome[b] # "uncalled"
  /\ outcome' = [outcome EXCEPT ![a] = "pending"]
  /\ timer'   = [timer EXCEPT ![a] = "armed"]
  /\ sock'    = [sock EXCEPT ![a] = "connecting"]
  /\ socket'  = a
  /\ overtaken' = overtaken \cup Connecting
  /\ UNCHANGED <<conn, reads, connection, listener, crashed>>

OnConnectionClosed ==
  /\ ~crashed /\ ~listener
  /\ listener' = TRUE
  /\ UNCHANGED <<outcome, timer, sock, conn, reads, socket, connection, crashed, overtaken>>

RemoveOnConnectionClosed ==
  /\ ~crashed /\ listener
  /\ listener' = FALSE
  /\ UNCHANGED <<outcome, timer, sock, conn, reads, socket, connection, crashed, overtaken>>

(* disconnect throws, and does nothing else, if this.connection is         *)
(* undefined.  this.socket need not be the socket under this.connection.   *)
Live(s) == sock[s] \in {"connecting", "open"}

Disconnect ==
  /\ ~crashed
  /\ connection # Nothing
  /\ listener' = FALSE
  /\ conn'     = [conn EXCEPT ![connection] = "disposed"]
  /\ sock'     = [sock EXCEPT ![socket] = IF Live(socket) THEN "closing" ELSE @]
  /\ UNCHANGED <<outcome, timer, reads, socket, connection, crashed, overtaken>>

(* shutdownServer: on a closed or disposed connection sendNotification     *)
(* throws, and disconnect is not reached.                                  *)
ShutdownServer ==
  /\ connection # Nothing
  /\ conn[connection] = "listening"
  /\ Disconnect
-----------------------------------------------------------------------------
(* Turns of the event loop.                                                *)

(* resolve and reject: only the first of them counts. *)
Settle_TimerState(a, o) ==
  [outcome EXCEPT ![a] = IF @ = "pending" THEN timer[a] ELSE @]
Settle_IfLive(a, o) ==
  [outcome EXCEPT ![a] = IF @ = "pending" /\ Live(a) THEN o ELSE @]
Settle(a, o) == [outcome EXCEPT ![a] = IF @ = "pending" THEN o ELSE @]

(* The socket the connect handler of attempt a hands to the reader and the *)
(* writer: this.socket, whichever attempt that belongs to.                 *)
ReadSocket_Reuse(a) == IF connection = Nothing THEN socket ELSE reads[connection]
ReadSocket_Own(a) == a
ReadSocket(a) == socket

(* The connect handler of attempt a. *)
SocketConnects(a) ==
  /\ ~crashed
  /\ sock[a] = "connecting"
  /\ sock'       = [sock EXCEPT ![a] = "open"]
  /\ conn'       = [conn EXCEPT ![a] = "listening"]
  /\ reads'      = [reads EXCEPT ![a] = ReadSocket(a)]
  /\ connection' = a
  /\ timer'      = [timer EXCEPT ![a] = IF @ = "armed" THEN "cleared" ELSE @]
  /\ outcome'    = Settle(a, "connected")
  /\ UNCHANGED <<socket, listener, crashed, overtaken>>

TimerFires(a) ==
  /\ ~crashed
  /\ timer[a] = "armed"
  /\ timer'   = [timer EXCEPT ![a] = "fired"]
  /\ outcome' = Settle(a, "timeout")
  /\ UNCHANGED <<sock, conn, reads, socket, connection, listener, crashed, overtaken>>

(* The client puts no 'error' listener on a socket: only the reader and    *)
(* writer of a connection do.  Without one the error is an exception.      *)
HasErrorListener(a) == \E b \in Ids : reads[b] = a

SocketFails(a) ==
  /\ ~crashed
  /\ Live(a)
  /\ sock'    = [sock EXCEPT ![a] = "closing"]
  /\ crashed' = ~HasErrorListener(a)
  /\ UNCHANGED <<outcome, timer, conn, reads, socket, connection, listener, overtaken>>

PeerCloses(a) ==
  /\ ~crashed
  /\ sock[a] = "open"
  /\ sock' = [sock EXCEPT ![a] = "closing"]
  /\ UNCHANGED <<outcome, timer, conn, reads, socket, connection, listener, crashed, overtaken>>

(* 'close' of socket a: 'connectionClosed' is emitted, then the connections *)
(* that read a close.                                                      *)
SocketClosed(a) ==
  /\ ~crashed
  /\ sock[a] = "closing"
  /\ sock' = [sock EXCEPT ![a] = "closed"]
  /\ conn' = [b \in Ids |-> IF reads[b] = a /\ conn[b] = "listening"
                            THEN "closed" ELSE conn[b]]
  /\ UNCHANGED <<outcome, timer, reads, socket, connection, listener, crashed, overtaken>>
-----------------------------------------------------------------------------
Next ==
  \/ \E a \in Ids : \/ Connect(a)      \/ SocketConnects(a) \/ TimerFires(a)
                    \/ SocketFails(a)  \/ PeerCloses(a)     \/ SocketClosed(a)
  \/ OnConnectionClosed \/ RemoveOnConnectionClosed
  \/ Disconnect \/ ShutdownServer

(* Timers fire and a closing socket emits 'close'; nothing else is sure. *)
Fairness ==
  \A a \in Ids : WF_vars(TimerFires(a)) /\ WF_vars(SocketClosed(a))

Spec     == Init /\ [][Next]_vars
FairSpec == Spec /\ Fairness
-----------------------------------------------------------------------------
(* Properties.                                                             *)

(* Once the latest connect has resolved, the client's connection reads the *)
(* client's socket, and still does after older attempts connect late: what *)
(* disconnect disposes and what it destroys then belong together.          *)
ConnectionReadsSocket ==
  socket # Nothing /\ outcome[socket] = "connected" => reads[connection] = socket

(* The handler of an older attempt never brings back an older socket than  *)
(* its own.                                                                *)
NeverOlderSocket ==
  \A a \in Ids : reads[a] # Nothing => reads[a] >= a

(* A connect has connected although its socket was still connecting when   *)
(* connect was called again.                                               *)
OvertakenConnect == \E a \in overtaken : conn[a] # "none"

(* What shutdownServer writes is not waiting in a socket that is still     *)
(* connecting when disconnect destroys it: a connection that takes         *)
(* messages has a socket that has connected, unless a further call had     *)
(* replaced its own socket before that one connected.                      *)
ShutdownIsWritten ==
  \A a \in Ids : conn[a] = "listening" =>
    a \in overtaken \/ sock[reads[a]] \in {"open", "closing"}

(* The process survives every error of a socket whose connect resolved and *)
(* that is still the client's: its connection listens for errors.          *)
ConnectedSurvivesErrors ==
  [][crashed' /\ ~crashed =>
       \E a \in Ids : /\ sock[a] # "closing" /\ sock'[a] = "closing"
                      /\ ~(a = socket /\ outcome[a] = "connected")]_vars

(* disconnect leaves nothing of what it disposes: the connection disposed   *)
(* while the latest connect stands resolved has no live socket afterwards, *)
(* however many connects came before and however late.                     *)
DisposesWithSocket ==
  [][\A a \in Ids :
       conn[a] # "disposed" /\ conn'[a] = "disposed" /\ outcome[socket] = "connected"
       => ~Live(reads[a])']_vars

(* Every connect settles, unless an uncaught error ends the process first. *)
ConnectSettles ==
  \A a \in Ids : outcome[a] = "pending" ~> outcome[a] # "pending" \/ crashed

(* What the test "disconnect should dispose an existing connection and the *)
(* underlying websocket" says: no disposed connection has a live socket.   *)
DisposedWithSocket ==
  \A a \in Ids : conn[a] = "disposed" => ~Live(reads[a])
=============================================================================

-------------------------- MODULE LifecycleProofs --------------------------
(* Theorems about Lifecycle, for any number of calls to connect.           *)
EXTENDS Lifecycle, TLAPS

(* The inductive invariant.  Calls are made in order, so this.socket is    *)
(* the socket of the last; a socket exists once its call was made,         *)
(* connects at most once, and is overtaken if it still has to when it is   *)
(* no longer the client's; and every connection has a socket.              *)
CalledInOrder ==
  \A a, b \in Ids : b < a /\ outcome[a] # "uncalled" => outcome[b] # "uncalled"

SocketOfLastCall ==
  /\ \A a \in Ids : outcome[a] # "uncalled" => a <= socket
  /\ socket # Nothing => outcome[socket] # "uncalled"

SocketsOfCalls ==
  \A a \in Ids : /\ sock[a] = "none" <=> outcome[a] = "uncalled"
                 /\ sock[a] = "connecting" => outcome[a] \in {"pending", "timeout"}

OvertakenUnlessLast ==
  \A a \in Ids : sock[a] = "connecting" => a = socket \/ a \in overtaken

ConnectionsHaveSockets ==
  /\ \A a \in Ids : /\ conn[a] # "none" => reads[a] # Nothing
                    /\ outcome[a] = "connected" => connection # Nothing
  /\ connection # Nothing => socket # Nothing /\ conn[connection] # "none"

Inv ==
  /\ TypeOK
  /\ CalledInOrder /\ SocketOfLastCall /\ SocketsOfCalls
  /\ OvertakenUnlessLast /\ ConnectionsHaveSockets
  /\ ConnectionReadsSocket /\ NeverOlderSocket /\ ShutdownIsWritten

-----------------------------------------------------------------------------
LEMMA InitInv == Init => Inv
BY AttemptsAssumption
   DEF Init, Inv, TypeOK, Outcomes, TimerStates, SockStates, ConnStates, Ids,
       Nothing, CalledInOrder, SocketOfLastCall, SocketsOfCalls,
       OvertakenUnlessLast, ConnectionsHaveSockets, ConnectionReadsSocket,
       NeverOlderSocket, ShutdownIsWritten

LEMMA NextTypeOK == Inv /\ [Next]_vars => TypeOK'
<1> SUFFICES ASSUME Inv, [Next]_vars PROVE TypeOK'
  OBVIOUS
<1> USE DEF TypeOK, Outcomes, TimerStates, SockStates, ConnStates
<1>1. TypeOK /\ (connection # Nothing => socket # Nothing)
  BY DEF Inv, ConnectionsHaveSockets
<1>2. ASSUME NEW a \in Ids, Connect(a) PROVE TypeOK'
  BY <1>1, <1>2 DEF Connect, Connecting
<1>3. ASSUME NEW a \in Ids, SocketConnects(a) PROVE TypeOK'
  BY <1>1, <1>3 DEF SocketConnects, ReadSocket, Settle
<1>4. ASSUME NEW a \in Ids, TimerFires(a) PROVE TypeOK'
  BY <1>1, <1>4 DEF TimerFires, Settle
<1>5. ASSUME NEW a \in Ids, SocketFails(a) \/ PeerCloses(a) \/ SocketClosed(a)
      PROVE  TypeOK'
  BY <1>1, <1>5 DEF SocketFails, PeerCloses, SocketClosed, HasErrorListener
<1>6. CASE OnConnectionClosed \/ RemoveOnConnectionClosed
  BY <1>1, <1>6 DEF OnConnectionClosed, RemoveOnConnectionClosed
<1>7. CASE Disconnect
  <2>1. socket \in Ids
    BY <1>1, <1>7 DEF Disconnect
  <2> QED
    BY <1>1, <1>7, <2>1 DEF Disconnect
<1>8. CASE UNCHANGED vars
  BY <1>1, <1>8 DEF vars
<1> QED
  BY <1>2, <1>3, <1>4, <1>5, <1>6, <1>7, <1>8 DEF Next, ShutdownServer

(* What Inv says beyond types. *)
Rest ==
  /\ CalledInOrder /\ SocketOfLastCall /\ SocketsOfCalls
  /\ OvertakenUnlessLast /\ ConnectionsHaveSockets
  /\ ConnectionReadsSocket /\ NeverOlderSocket /\ ShutdownIsWritten

LEMMA ConnectRest ==
  ASSUME Inv, TypeOK', NEW a \in Ids, Connect(a)
  PROVE  Rest'
<1> USE DEF Ids, Nothing
<1>1. TypeOK /\ Rest /\ Attempts \in Nat
  BY AttemptsAssumption DEF Inv, Rest
<1>2. CalledInOrder'
  BY <1>1 DEF Rest, TypeOK, Connect, CalledInOrder
<1>3. SocketOfLastCall'
  BY <1>1 DEF Rest, TypeOK, Connect, CalledInOrder, SocketOfLastCall
<1>4. SocketsOfCalls' /\ OvertakenUnlessLast'
  BY <1>1 DEF Rest, TypeOK, Connect, Connecting, SocketsOfCalls, OvertakenUnlessLast
<1>5. ConnectionsHaveSockets'
  BY <1>1 DEF Rest, TypeOK, Connect, ConnectionsHaveSockets
<1>6. ConnectionReadsSocket' /\ NeverOlderSocket'
  BY <1>1 DEF Rest, TypeOK, Connect, ConnectionReadsSocket, NeverOlderSocket
<1>7. ShutdownIsWritten'
  <2>1. sock[a] = "none" /\ overtaken \subseteq overtaken'
    BY <1>1 DEF Rest, SocketsOfCalls, Connect
  <2> QED
    BY <1>1, <2>1 DEF Rest, TypeOK, Connect, ShutdownIsWritten
<1> QED
  BY <1>2, <1>3, <1>4, <1>5, <1>6, <1>7 DEF Rest

LEMMA SocketConnectsRest ==
  ASSUME Inv, TypeOK', NEW a \in Ids, SocketConnects(a)
  PROVE  Rest'
<1> USE DEF Ids, Nothing
<1>1. TypeOK /\ Rest /\ Attempts \in Nat
  BY AttemptsAssumption DEF Inv, Rest
<1>2. /\ outcome[a] \in {"pending", "timeout"}
      /\ a <= socket /\ socket \in Ids
  BY <1>1 DEF Rest, TypeOK, SocketConnects, SocketsOfCalls, SocketOfLastCall
<1>3. /\ reads' = [reads EXCEPT ![a] = socket] /\ connection' = a
      /\ socket' = socket /\ overtaken' = overtaken
      /\ outcome' = [outcome EXCEPT ![a] =
                       IF @ = "pending" THEN "connected" ELSE @]
  BY DEF SocketConnects, ReadSocket, Settle
<1>4. CalledInOrder' /\ SocketOfLastCall'
  BY <1>1, <1>2, <1>3 DEF Rest, TypeOK, CalledInOrder, SocketOfLastCall
<1>5. SocketsOfCalls' /\ OvertakenUnlessLast' /\ ConnectionsHaveSockets'
  BY <1>1, <1>2, <1>3 DEF Rest, TypeOK, SocketsOfCalls, SocketConnects,
     OvertakenUnlessLast, ConnectionsHaveSockets
<1>6. ConnectionReadsSocket' /\ NeverOlderSocket'
  BY <1>1, <1>2, <1>3 DEF Rest, TypeOK, SocketConnects, ConnectionReadsSocket,
     NeverOlderSocket
<1>7. ShutdownIsWritten'
  <2>1. socket = a \/ a \in overtaken
    BY <1>1 DEF Rest, SocketConnects, OvertakenUnlessLast
  <2> QED
    BY <1>1, <1>3, <2>1 DEF Rest, TypeOK, SocketConnects, ShutdownIsWritten
<1> QED
  BY <1>4, <1>5, <1>6, <1>7 DEF Rest

LEMMA TimerFiresRest ==
  ASSUME Inv, TypeOK', NEW a \in Ids, TimerFires(a)
  PROVE  Rest'
<1> USE DEF Ids, Nothing
<1>1. TypeOK /\ Rest /\ Attempts \in Nat
  BY AttemptsAssumption DEF Inv, Rest
<1>2. /\ outcome' = [outcome EXCEPT ![a] = IF @ = "pending" THEN "timeout" ELSE @]
      /\ UNCHANGED <<sock, conn, reads, socket, connection, overtaken>>
  BY DEF TimerFires, Settle
<1>3. CalledInOrder' /\ SocketOfLastCall' /\ SocketsOfCalls' /\ OvertakenUnlessLast'
  BY <1>1, <1>2 DEF Rest, TypeOK, CalledInOrder, SocketOfLastCall, SocketsOfCalls,
     OvertakenUnlessLast
<1>4. ConnectionsHaveSockets' /\ ConnectionReadsSocket' /\ NeverOlderSocket'
  BY <1>1, <1>2 DEF Rest, TypeOK, ConnectionsHaveSockets, ConnectionReadsSocket,
     NeverOlderSocket
<1>5. ShutdownIsWritten'
  BY <1>1, <1>2 DEF Rest, TypeOK, ShutdownIsWritten
<1> QED
  BY <1>3, <1>4, <1>5 DEF Rest

(* Steps that only end sockets and connections. *)
LEMMA EndingRest ==
  ASSUME Inv, TypeOK',
         \/ \E a \in Ids : SocketFails(a) \/ PeerCloses(a) \/ SocketClosed(a)
         \/ Disconnect
  PROVE  Rest'
<1> USE DEF Ids, Nothing
<1>1. TypeOK /\ Rest /\ Attempts \in Nat
  BY AttemptsAssumption DEF Inv, Rest
<1>2. /\ UNCHANGED <<outcome, reads, socket, connection, overtaken>>
      /\ \A a \in Ids : /\ sock'[a] = sock[a] \/ (sock[a] \notin {"none", "closed"}
                                                  /\ sock'[a] \in {"closing", "closed"})
                        /\ conn'[a] = conn[a] \/ (conn[a] = "listening" /\ conn'[a] = "closed")
                             \/ (a = connection /\ conn'[a] = "disposed")
      /\ \A a \in Ids : conn'[a] = "listening" /\ sock'[reads[a]] = "closed" =>
                          sock[reads[a]] = "closed"
  BY <1>1 DEF Rest, TypeOK, SocketFails, PeerCloses, SocketClosed, Disconnect, Live,
     ConnectionsHaveSockets
<1>3. /\ CalledInOrder' /\ SocketOfLastCall'
      /\ SocketsOfCalls' /\ OvertakenUnlessLast'
  <2>1. CalledInOrder' /\ SocketOfLastCall'
    BY <1>1, <1>2 DEF Rest, CalledInOrder, SocketOfLastCall
  <2>2. SocketsOfCalls'
    BY <1>1, <1>2 DEF Rest, SocketsOfCalls
  <2>3. OvertakenUnlessLast'
    BY <1>1, <1>2 DEF Rest, OvertakenUnlessLast
  <2> QED
    BY <2>1, <2>2, <2>3
<1>4. ConnectionsHaveSockets'
  BY <1>1, <1>2 DEF Rest, TypeOK, ConnectionsHaveSockets
<1>5. ConnectionReadsSocket' /\ NeverOlderSocket'
  BY <1>1, <1>2 DEF Rest, ConnectionReadsSocket, NeverOlderSocket
<1>6. ShutdownIsWritten'
  <2>1. ASSUME NEW a \in Ids, conn'[a] = "listening", a \notin overtaken
        PROVE  sock'[reads[a]] \in {"open", "closing"}
    <3>1. conn[a] = "listening"
      BY <1>2, <2>1
    <3>2. reads[a] \in Ids /\ sock[reads[a]] \in {"open", "closing"}
      BY <1>1, <2>1, <3>1 DEF Rest, TypeOK, ConnectionsHaveSockets, ShutdownIsWritten
    <3> QED
      BY <1>2, <2>1, <3>2
  <2> QED
    BY <1>2, <2>1 DEF ShutdownIsWritten
<1> QED
  BY <1>3, <1>4, <1>5, <1>6 DEF Rest

LEMMA NextInv == Inv /\ [Next]_vars => Inv'
<1> SUFFICES ASSUME Inv, [Next]_vars PROVE Inv'
  OBVIOUS
<1>1. TypeOK'
  BY NextTypeOK
<1>2. ASSUME OnConnectionClosed \/ RemoveOnConnectionClosed \/ UNCHANGED vars
      PROVE  Rest'
  <2>1. UNCHANGED <<outcome, sock, conn, reads, socket, connection, overtaken>>
    BY <1>2 DEF OnConnectionClosed, RemoveOnConnectionClosed, vars
  <2>2. CalledInOrder' /\ SocketOfLastCall' /\ SocketsOfCalls' /\ OvertakenUnlessLast'
    BY <2>1 DEF Inv, CalledInOrder, SocketOfLastCall, SocketsOfCalls, OvertakenUnlessLast
  <2>3. ConnectionsHaveSockets' /\ ConnectionReadsSocket' /\ NeverOlderSocket'
    BY <2>1 DEF Inv, ConnectionsHaveSockets, ConnectionReadsSocket, NeverOlderSocket
  <2>4. ShutdownIsWritten'
    BY <2>1 DEF Inv, ShutdownIsWritten
  <2> QED
    BY <2>2, <2>3, <2>4 DEF Rest
<1>3. Rest'
  <2>1. ASSUME NEW a \in Ids, Connect(a) PROVE Rest'
    BY <1>1, <2>1, ConnectRest
  <2>2. ASSUME NEW a \in Ids, SocketConnects(a) PROVE Rest'
    BY <1>1, <2>2, SocketConnectsRest
  <2>3. ASSUME NEW a \in Ids, TimerFires(a) PROVE Rest'
    BY <1>1, <2>3, TimerFiresRest
  <2>4. ASSUME \/ \E a \in Ids : SocketFails(a) \/ PeerCloses(a) \/ SocketClosed(a)
               \/ Disconnect
        PROVE  Rest'
    BY <1>1, <2>4, EndingRest
  <2> QED
    BY <1>2, <2>1, <2>2, <2>3, <2>4 DEF Next, ShutdownServer
<1> QED
  BY <1>1, <1>3 DEF Rest, Inv

(* The inductive invariant holds in every behaviour. *)
THEOREM Invariance == Spec => []Inv
BY InitInv, NextInv, PTL DEF Spec

(* Every variable keeps its type. *)
THEOREM TypeCorrect == Spec => []TypeOK
<1>1. Inv => TypeOK
  BY DEF Inv
<1> QED
  BY <1>1, Invariance, PTL

(* Once the latest connect has resolved, the client's connection reads the *)
(* client's socket, whatever older attempts do.                            *)
THEOREM PairedAfterConnect == Spec => []ConnectionReadsSocket
<1>1. Inv => ConnectionReadsSocket
  BY DEF Inv
<1> QED
  BY <1>1, Invariance, PTL

(* No connect handler, however late, brings back a socket older than its own. *)
THEOREM SocketsNeverOlder == Spec => []NeverOlderSocket
<1>1. Inv => NeverOlderSocket
  BY DEF Inv
<1> QED
  BY <1>1, Invariance, PTL

(* shutdownServer never leaves its notification in a socket that is still  *)
(* connecting, unless it writes to the connection of an overtaken connect. *)
THEOREM ShutdownWritten == Spec => []ShutdownIsWritten
<1>1. Inv => ShutdownIsWritten
  BY DEF Inv
<1> QED
  BY <1>1, Invariance, PTL

(* The process survives the errors of a socket whose connect resolved and  *)
(* that is still the client's: its connection listens for errors.          *)
THEOREM SurvivesErrors == Spec => ConnectedSurvivesErrors
<1> DEFINE Step ==
      crashed' /\ ~crashed =>
        \E a \in Ids : /\ sock[a] # "closing" /\ sock'[a] = "closing"
                       /\ ~(a = socket /\ outcome[a] = "connected")
<1>1. ASSUME Inv, [Next]_vars PROVE Step
  <2> SUFFICES ASSUME crashed', ~crashed PROVE Step
    OBVIOUS
  <2>1. PICK a \in Ids : SocketFails(a)
    BY <1>1 DEF Next, vars, Connect, SocketConnects, TimerFires, PeerCloses,
       SocketClosed, OnConnectionClosed, RemoveOnConnectionClosed, Disconnect,
       ShutdownServer
  <2>2. sock[a] # "closing" /\ sock'[a] = "closing"
    BY <1>1, <2>1 DEF SocketFails, Live, Inv, TypeOK
  <2>3. ~(a = socket /\ outcome[a] = "connected")
    <3> SUFFICES ASSUME a = socket, outcome[a] = "connected" PROVE FALSE
      OBVIOUS
    <3>1. a # Nothing
      BY DEF Ids, Nothing
    <3>2. connection \in Ids /\ reads[connection] = a
      BY <1>1, <3>1 DEF Inv, TypeOK, ConnectionsHaveSockets, ConnectionReadsSocket
    <3> QED
      BY <2>1, <3>2 DEF SocketFails, HasErrorListener
  <2> QED
    BY <2>2, <2>3
<1>2. Inv /\ [Next]_vars => [Step]_vars
  BY <1>1
<1> QED
  BY <1>2, Invariance, PTL DEF Spec, ConnectedSurvivesErrors

(* disconnect, while the latest connect stands resolved, ends the socket   *)
(* under the connection it disposes: the two belong together by then.      *)
THEOREM DisposedTogether == Spec => DisposesWithSocket
<1> DEFINE Step ==
      \A a \in Ids :
        conn[a] # "disposed" /\ conn'[a] = "disposed" /\ outcome[socket] = "connected"
        => ~Live(reads[a])'
<1>1. ASSUME Inv, [Next]_vars PROVE Step
  <2> SUFFICES ASSUME NEW a \in Ids, conn[a] # "disposed", conn'[a] = "disposed",
                      outcome[socket] = "connected"
               PROVE  ~Live(reads[a])'
    OBVIOUS
  <2>1. Disconnect /\ a = connection
    BY <1>1 DEF Inv, TypeOK, Next, vars, Connect, SocketConnects, TimerFires,
       SocketFails, PeerCloses, SocketClosed, OnConnectionClosed,
       RemoveOnConnectionClosed, Disconnect, ShutdownServer
  <2>2. socket \in Ids /\ reads[a] = socket
    BY <1>1, <2>1 DEF Inv, TypeOK, ConnectionsHaveSockets, ConnectionReadsSocket, Disconnect
  <2>3. reads' = reads /\ sock'[socket] \notin {"connecting", "open"}
    BY <1>1, <2>1, <2>2 DEF Inv, TypeOK, Disconnect, Live
  <2> QED
    BY <2>2, <2>3 DEF Live
<1>2. Inv /\ [Next]_vars => [Step]_vars
  BY <1>1
<1> QED
  BY <1>2, Invariance, PTL DEF Spec, DisposesWithSocket
=============================================================================

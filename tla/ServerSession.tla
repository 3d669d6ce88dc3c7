---------------------------- MODULE ServerSession ----------------------------
(***************************************************************************)
(* The calls of SyncRequests in front of an RSP server: a model of servers *)
(* that are created, started, stopped and deleted by this client and by    *)
(* others, and a connection that carries answers and notifications in the  *)
(* order they were written.  It asks what a resolved promise says about    *)
(* the server, which is not all the same: the notification that resolves   *)
(* it may be older than the request, and the request may be refused.       *)
(*                                                                         *)
(* The RSP server is not part of the client.  It keeps the order of run    *)
(* states that the documentation of Messages describes, answers in any     *)
(* order, with an error if it likes, and serves other clients meanwhile.   *)
(***************************************************************************)
EXTENDS SyncRequests

(* What the server does for each request: it accepts it in one state of    *)
(* the server adapter, moves it to another, and has done what was asked    *)
(* when it gets to a third.                                                *)
Effect ==
  [ createServerFromBean |-> [from |-> "absent",  to |-> "stopped",  goal |-> "stopped"],
    startServerSync      |-> [from |-> "stopped", to |-> "starting", goal |-> "started"],
    stopServerSync       |-> [from |-> "started", to |-> "stopping", goal |-> "stopped"],
    deleteServerSync     |-> [from |-> "stopped", to |-> "absent",   goal |-> "absent"] ]

ASSUME SessionApis       == \A op \in Ops : Api[op] \in DOMAIN Effect
ASSUME SessionConnection == \E c \in Conns : Conns = {c}

Servers == {Subject[op] : op \in Ops}
TheConn == CHOOSE c \in Conns : TRUE

VARIABLES
  run,        \* run[s]: state of server adapter s
  asked,      \* requests written by the client and not handled yet, in order
  owed,       \* requests accepted and not answered yet
  pipe,       \* messages written by the server and not handled yet, in order
  sent,       \* history: number of notifications written
  acceptedAt, \* history: acceptedAt[op]: serial of the notification with
              \* which the server accepted the request of op, 0 if it has not
  fulfilled   \* history: accepted calls whose goal was then reached

serverVars  == <<run, asked, owed, pipe, sent, acceptedAt, fulfilled>>
sessionVars == <<vars, serverVars>>

RunStates == {"absent", "stopped", "starting", "started", "stopping"}

Answer(op) == [kind |-> "answer", op |-> op]

(* The notification of a change of server s. *)
NoteOf(s, from, to) ==
  LET event == IF to = "absent"        THEN "serverRemoved"
               ELSE IF from = "absent" THEN "serverAdded"
               ELSE "serverStateChanged"
  IN  [event   |-> event,
       subject |-> s,
       state   |-> IF event = "serverStateChanged" /\ to \in States
                   THEN to ELSE "other"]

ASSUME SessionNotes ==
  \A s \in Servers, from, to \in RunStates : NoteOf(s, from, to) \in Wire

Messages == {Answer(op) : op \in Ops} \cup [kind : {"note"}, note : Wire]

SessionTypeOK ==
  /\ TypeOK
  /\ run \in [Servers -> RunStates]
  /\ asked \in Seq(Ops)
  /\ owed \subseteq Ops
  /\ pipe \in Seq(Messages)
  /\ sent \in 0 .. MaxEvents
  /\ acceptedAt \in [Ops -> 0 .. MaxEvents]
  /\ fulfilled \subseteq Ops

SessionInit ==
  /\ Init
  /\ run \in [Servers -> RunStates]
  /\ asked = <<>>
  /\ owed = {}
  /\ pipe = <<>>
  /\ sent = 0
  /\ acceptedAt = [op \in Ops |-> 0]
  /\ fulfilled = {}
-----------------------------------------------------------------------------
(* The client.  What it sends arrives; what it reads it handles in order.  *)

SessionCall(op, c) ==
  /\ Call(op, c)
  /\ asked' = IF connState[c] = "open" THEN Append(asked, op) ELSE asked
  /\ UNCHANGED <<run, owed, pipe, sent, acceptedAt, fulfilled>>

(* A refusal is an answer like another: the promise of sendRequest resolves *)
(* with a Status that no completion callback looks at.  An answer may also *)
(* be an error of JSON-RPC, which nothing handles.                         *)
Receive ==
  /\ pipe # <<>>
  /\ LET m == Head(pipe)
     IN  \/ m.kind = "note"   /\ Deliver(TheConn, m.note)
         \/ m.kind = "answer" /\ AnswerRequest(m.op)
  /\ pipe' = Tail(pipe)
  /\ UNCHANGED <<run, asked, owed, sent, acceptedAt, fulfilled>>

ClientTurn ==
  /\ \/ \E op \in Ops : RunCompletion(op) \/ TimerFires(op)
     \/ Connect(TheConn) \/ RemoteClose(TheConn) \/ Disconnect
  /\ UNCHANGED serverVars
-----------------------------------------------------------------------------
(* The RSP server. *)

(* Messages to the client get lost with the connection. *)
Write(msgs) == pipe' = IF connState[TheConn] = "open" THEN pipe \o msgs ELSE pipe

Note(s, to) == <<[kind |-> "note", note |-> NoteOf(s, run[s], to)]>>

(* Server s changes state; accepted are the calls accepted by then. *)
Moves(s, to, accepted) ==
  /\ sent < MaxEvents
  /\ run'  = [run EXCEPT ![s] = to]
  /\ sent' = IF connState[TheConn] = "open" THEN sent + 1 ELSE sent
  /\ fulfilled' = fulfilled \cup
       {op \in accepted : Subject[op] = s /\ Effect[Api[op]].goal = to}

Accepted == {op \in Ops : acceptedAt[op] # 0}

(* The answer to an accepted request may go out before the notification it *)
(* causes, or after it.                                                    *)
ServerAccepts(op) ==
  LET s == Subject[op]
      e == Effect[Api[op]]
  IN  /\ run[s] = e.from
      /\ Moves(s, e.to, Accepted \cup {op})
      /\ acceptedAt' = [acceptedAt EXCEPT ![op] = sent + 1]
      /\ \/ Write(Note(s, e.to)) /\ owed' = owed \cup {op}
         \/ Write(<<Answer(op)>> \o Note(s, e.to)) /\ UNCHANGED owed

ServerRefuses(op) ==
  /\ run[Subject[op]] # Effect[Api[op]].from
  /\ Write(<<Answer(op)>>)
  /\ UNCHANGED <<run, owed, sent, acceptedAt, fulfilled>>

ServerHandles ==
  /\ asked # <<>>
  /\ asked' = Tail(asked)
  /\ ServerAccepts(Head(asked)) \/ ServerRefuses(Head(asked))
  /\ UNCHANGED vars

ServerAnswers(op) ==
  /\ op \in owed
  /\ owed' = owed \ {op}
  /\ Write(<<Answer(op)>>)
  /\ UNCHANGED <<vars, run, asked, sent, acceptedAt, fulfilled>>

(* A start may fail; a stop ends. *)
ServerEvolves(s) ==
  /\ \E to \in {"started", "stopped"} :
       /\ run[s] = "starting" \/ (run[s] = "stopping" /\ to = "stopped")
       /\ Moves(s, to, Accepted) /\ Write(Note(s, to))
  /\ UNCHANGED <<vars, asked, owed, acceptedAt>>

(* Another client of the RSP server creates, starts, stops or deletes s. *)
OtherClient(s) ==
  /\ \E api \in DOMAIN Effect :
       /\ run[s] = Effect[api].from
       /\ Moves(s, Effect[api].to, Accepted) /\ Write(Note(s, Effect[api].to))
  /\ UNCHANGED <<vars, asked, owed, acceptedAt>>
-----------------------------------------------------------------------------
SessionNext ==
  \/ \E op \in Ops, c \in Conns : SessionCall(op, c)
  \/ Receive \/ ClientTurn
  \/ ServerHandles
  \/ \E op \in Ops : ServerAnswers(op)
  \/ \E s \in Servers : ServerEvolves(s) \/ OtherClient(s)

SessionSpec == SessionInit /\ [][SessionNext]_sessionVars

(* The server and the network go on while they can; microtasks run.  The   *)
(* timers of the calls are left out: no call is settled by its timer.      *)
SessionFairness ==
  /\ WF_sessionVars(ServerHandles) /\ WF_sessionVars(Receive)
  /\ \A op \in Ops : /\ WF_sessionVars(ServerAnswers(op))
                     /\ WF_sessionVars(RunCompletion(op) /\ UNCHANGED serverVars)

FairSessionSpec == SessionSpec /\ SessionFairness
-----------------------------------------------------------------------------
(* Properties.                                                             *)

(* No lost wake-up: when a server has done what a call asked for, all it   *)
(* wrote has been handled and no callback is pending, the call is settled. *)
(* The handler is on the emitter before the request leaves, and whichever  *)
(* of answer and notification comes first waits for the other.  Only an    *)
(* answer that is an error leaves the call to its timer.                   *)
NoLostWakeup ==
  \A op \in fulfilled :
    connState[TheConn] = "open" /\ pipe = <<>> /\ op \notin owed /\ NoMicrotask
    => promise[op] # "pending" \/ stage[op] = "error"

(* Nobody waits for what was said already: once every request is answered, *)
(* all that was written is handled and no callback is pending, the event   *)
(* of a call still pending has not come since the call was made.  Of       *)
(* refused requests too, whose answers the completion callbacks ignore;    *)
(* but not of those answered with an error, which wait for their timer.    *)
PendingIsUnmet ==
  /\ connState[TheConn] = "open"
  /\ asked = <<>> /\ owed = {} /\ pipe = <<>> /\ NoMicrotask
  => \A op \in Ops : promise[op] = "pending" /\ stage[op] # "error" =>
       \A i \in since[op] + 1 .. Len(log) : ~Accepts(op, log[i])

(* A call whose request was accepted and fulfilled is settled even if its  *)
(* timer never fires, as long as the connection stays open, unless the     *)
(* server answered with an error all the same.                             *)
FulfilledSettles ==
  \A op \in Ops :
    op \in fulfilled ~> \/ promise[op] # "pending" \/ stage[op] = "error"
                        \/ connState[TheConn] # "open"

(* What a resolved promise is worth: as long as the client hears nothing   *)
(* more of the server, on the open connection and under way on it, the     *)
(* server is where the call wanted it, be it by this call or by another    *)
(* client: the event resolved with was the last word on the server.        *)
ResolvedTellsState ==
  \A op \in Ops :
    /\ promise[op] = "resolved" /\ connState[TheConn] = "open"
    /\ \A i \in matched[op] + 1 .. Len(log) : log[i].subject # Subject[op]
    /\ \A m \in ToSet(pipe) : m.kind = "note" => m.note.subject # Subject[op]
    => run[Subject[op]] = Effect[Api[op]].goal

(* What USAGE says of startServerSync, that it resolves to "the event of   *)
(* server starting up": the event followed the server's acceptance of the  *)
(* request, and is not left over from an earlier run.                      *)
StartedByThisCall ==
  \A op \in Ops :
    Api[op] = "startServerSync" /\ promise[op] = "resolved" /\ acceptedAt[op] # 0
    => matched[op] >= acceptedAt[op]
=============================================================================

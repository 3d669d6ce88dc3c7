------------------------- MODULE ServerSessionProofs -------------------------
(* Theorems about ServerSession, for any calls that start, stop, create or *)
(* delete servers.                                                         *)
EXTENDS ServerSession, SyncCleanupProofs

Open == connState[TheConn] = "open"

(* The inductive invariant.  Nothing is called or written before the       *)
(* connection is opened, and the server handles requests of calls made.    *)
NothingUnopened ==
  connState[TheConn] = "unopened" =>
    asked = <<>> /\ \A op \in Ops : promise[op] = "uncalled"

RequestsOfCalls ==
  /\ \A op \in ToSet(asked) \cup Accepted : promise[op] # "uncalled"
  /\ fulfilled \subseteq Accepted

(* What was accepted has been done, or is about to be, unless a start      *)
(* failed: then a later one may do it.                                     *)
DoneOrComing ==
  \A op \in Accepted \ fulfilled :
    \/ Api[op] = "startServerSync"
    \/ Api[op] = "stopServerSync" /\ run[Subject[op]] = "stopping"

(* While the connection is open, every call made waits with its handler on *)
(* the emitter until it captures an event; its answer is owed, under way   *)
(* or handled, and so is the notification that its goal is reached.        *)
Waits(op) ==
  promise[op] # "uncalled" =>
    stage[op] \in {"sent", "ok", "error"} /\ (matched[op] # 0 \/ Registered(op))

AnswerComes(op) == op \in owed \/ Answer(op) \in ToSet(pipe) \/ stage[op] \in {"ok", "error"}

NoteComes(op) ==
  \/ matched[op] # 0
  \/ \E m \in ToSet(pipe) : m.kind = "note" /\ Accepts(op, m.note)

NothingLost ==
  Open => /\ \A op \in Ops : Waits(op)
          /\ \A op \in Accepted : AnswerComes(op)
          /\ \A op \in fulfilled : NoteComes(op)

SessionInv ==
  /\ StrongInv /\ SessionTypeOK
  /\ NothingUnopened /\ RequestsOfCalls /\ DoneOrComing /\ NothingLost
-----------------------------------------------------------------------------
(* What the server does for the requests of the calls. *)

LEMMA TheConnection == TheConn \in Conns /\ Conns = {TheConn}
BY SessionConnection DEF TheConn

LEMMA Effects ==
  /\ DOMAIN Effect = {"createServerFromBean", "startServerSync", "stopServerSync",
                      "deleteServerSync"}
  /\ \A api \in DOMAIN Effect :
       /\ Effect[api].from \in {"absent", "stopped", "started"}
       /\ Effect[api].to \in RunStates /\ Effect[api].to # "started"
       /\ Effect[api].to = "stopped" <=> Effect[api].from = "absent"
  /\ Effect["createServerFromBean"].from = "absent"
  /\ Effect["createServerFromBean"].to = "stopped"
  /\ Effect["createServerFromBean"].goal = "stopped"
  /\ Effect["startServerSync"].goal = "started"
  /\ Effect["stopServerSync"].to = "stopping"
  /\ Effect["stopServerSync"].goal = "stopped"
  /\ Effect["deleteServerSync"].to = "absent"
  /\ Effect["deleteServerSync"].goal = "absent"
BY DEF Effect, RunStates

LEMMA CallsOfSessions ==
  ASSUME NEW op \in Ops
  PROVE  /\ Api[op] \in {"createServerFromBean", "startServerSync", "stopServerSync",
                         "deleteServerSync"}
         /\ Api[op] \in DOMAIN Effect /\ Api[op] \notin TwoStep
         /\ Subject[op] \in Servers
BY SessionApis, Effects DEF TwoStep, Servers

(* A call that waits for s to reach a state accepts the notification of    *)
(* that, if only a create begins with an absent server.                    *)
LEMMA GoalNoteAccepted ==
  ASSUME NEW op \in Ops, NEW from \in RunStates,
         Api[op] = "createServerFromBean" => from = "absent",
         Api[op] \in {"startServerSync", "stopServerSync"} => from # "absent"
  PROVE  Accepts(op, NoteOf(Subject[op], from, Effect[Api[op]].goal))
<1>1. CASE Api[op] = "createServerFromBean"
  BY <1>1, Effects DEF Accepts, EventOf, Awaits, NoteOf
<1>2. CASE Api[op] = "startServerSync"
  BY <1>2, Effects DEF Accepts, EventOf, Awaits, NoteOf, States
<1>3. CASE Api[op] = "stopServerSync"
  BY <1>3, Effects DEF Accepts, EventOf, Awaits, NoteOf, States
<1>4. CASE Api[op] = "deleteServerSync"
  BY <1>4, Effects DEF Accepts, EventOf, Awaits, NoteOf
<1> QED
  BY <1>1, <1>2, <1>3, <1>4, CallsOfSessions
-----------------------------------------------------------------------------
(* Sequences of messages.                                                  *)

LEMMA HeadAndTail ==
  ASSUME NEW S, NEW q \in Seq(S), q # <<>>
  PROVE  /\ Head(q) \in S /\ Tail(q) \in Seq(S)
         /\ Head(q) \in ToSet(q) /\ ToSet(Tail(q)) \subseteq ToSet(q)
         /\ \A m \in ToSet(q) : m = Head(q) \/ m \in ToSet(Tail(q))
<1>1. /\ Head(q) \in S /\ Tail(q) \in Seq(S) /\ Len(q) \in Nat \ {0}
      /\ Len(Tail(q)) = Len(q) - 1 /\ \A i \in 1 .. Len(q) - 1 : Tail(q)[i] = q[i + 1]
      /\ Head(q) = q[1]
  BY HeadTailProperties, EmptySeq
<1>2. DOMAIN q = 1 .. Len(q) /\ DOMAIN Tail(q) = 1 .. Len(q) - 1
  BY <1>1
<1>3. \A m \in ToSet(Tail(q)) : m \in ToSet(q)
  <2>1. \A i \in 1 .. Len(q) - 1 : i + 1 \in 1 .. Len(q)
    BY <1>1
  <2> QED
    BY <1>1, <1>2, <2>1 DEF ToSet
<1>4. ASSUME NEW m \in ToSet(q), m # Head(q) PROVE m \in ToSet(Tail(q))
  <2>1. PICK i \in 1 .. Len(q) : q[i] = m
    BY <1>2 DEF ToSet
  <2>2. i - 1 \in 1 .. Len(q) - 1 /\ Tail(q)[i - 1] = m
    BY <1>1, <1>4, <2>1
  <2> QED
    BY <1>2, <2>2 DEF ToSet
<1>5. Head(q) \in ToSet(q)
  BY <1>1, <1>2 DEF ToSet
<1> QED
  BY <1>1, <1>3, <1>4, <1>5

LEMMA Appended ==
  ASSUME NEW S, NEW q \in Seq(S), NEW m \in S
  PROVE  Append(q, m) \in Seq(S) /\ ToSet(Append(q, m)) = ToSet(q) \cup {m}
<1>1. /\ Append(q, m) \in Seq(S) /\ Len(Append(q, m)) = Len(q) + 1 /\ Len(q) \in Nat
      /\ \A i \in 1 .. Len(q) : Append(q, m)[i] = q[i]
      /\ Append(q, m)[Len(q) + 1] = m
  BY AppendProperties
<1> QED
  BY <1>1 DEF ToSet

LEMMA AskedOps == SessionTypeOK => ToSet(asked) \subseteq Ops
BY DEF SessionTypeOK, ToSet

LEMMA Written ==
  ASSUME SessionTypeOK, NEW msgs \in Seq(Messages), Write(msgs)
  PROVE  /\ pipe' \in Seq(Messages)
         /\ Open => \A m \in ToSet(pipe) \cup ToSet(msgs) : m \in ToSet(pipe')
<1>1. pipe \in Seq(Messages)
  BY DEF SessionTypeOK
<1>2. pipe \o msgs \in Seq(Messages) /\ Range(pipe \o msgs) = Range(pipe) \cup Range(msgs)
  BY <1>1, ConcatProperties, RangeConcatenation
<1>3. \A s : Range(s) = ToSet(s)
  BY DEF Range, ToSet
<1> QED
  BY <1>1, <1>2, <1>3 DEF Write, Open

LEMMA NoteMessage ==
  ASSUME SessionTypeOK, NEW s \in Servers, NEW to \in RunStates
  PROVE  LET m == [kind |-> "note", note |-> NoteOf(s, run[s], to)]
         IN  Note(s, to) \in Seq(Messages) /\ m \in ToSet(Note(s, to))
<1>1. NoteOf(s, run[s], to) \in Wire
  BY SessionNotes DEF SessionTypeOK
<1>2. [kind |-> "note", note |-> NoteOf(s, run[s], to)] \in Messages
  BY <1>1 DEF Messages
<1> QED
  BY <1>2 DEF Note, ToSet

LEMMA AnswerMessage ==
  ASSUME NEW op \in Ops
  PROVE  <<Answer(op)>> \in Seq(Messages) /\ Answer(op) \in ToSet(<<Answer(op)>>)
BY DEF Answer, Messages, ToSet
-----------------------------------------------------------------------------
(* Every step of a session is a step of its calls, or leaves them alone.   *)

LEMMA StepOfCalls ==
  ASSUME SessionTypeOK, [SessionNext]_sessionVars
  PROVE  [Next]_vars
<1>1. ASSUME NEW op \in Ops, NEW c \in Conns, SessionCall(op, c) PROVE [Next]_vars
  BY <1>1 DEF SessionCall, Next
<1>2. CASE Receive
  <2>1. Head(pipe) \in Messages
    BY <1>2, HeadAndTail DEF Receive, SessionTypeOK
  <2>2. CASE Head(pipe).kind = "note" /\ Deliver(TheConn, Head(pipe).note)
    <3>1. Head(pipe).note \in Wire
      BY <2>1, <2>2 DEF Messages, Answer
    <3> QED
      BY <2>2, <3>1, TheConnection DEF Next
  <2>3. CASE Head(pipe).kind = "answer" /\ AnswerRequest(Head(pipe).op)
    <3>1. Head(pipe).op \in Ops
      BY <2>1, <2>3 DEF Messages, Answer
    <3> QED
      BY <2>3, <3>1 DEF Next
  <2> QED
    BY <1>2, <2>2, <2>3 DEF Receive
<1>3. CASE ClientTurn
  BY <1>3, TheConnection DEF ClientTurn, Next
<1>4. CASE ServerHandles
  BY <1>4 DEF ServerHandles
<1>5. ASSUME NEW op \in Ops, ServerAnswers(op) PROVE [Next]_vars
  BY <1>5 DEF ServerAnswers, vars, callVars, connVars, histVars
<1>6. ASSUME NEW s \in Servers, ServerEvolves(s) \/ OtherClient(s) PROVE [Next]_vars
  BY <1>6 DEF ServerEvolves, OtherClient, vars, callVars, connVars, histVars
<1>7. CASE UNCHANGED sessionVars
  BY <1>7 DEF sessionVars
<1> QED
  BY <1>1, <1>2, <1>3, <1>4, <1>5, <1>6, <1>7 DEF SessionNext
-----------------------------------------------------------------------------
(* The client's steps.  Session is what is to show of the state after each *)
(* of them, besides StrongInv.                                             *)

Session ==
  /\ SessionTypeOK
  /\ NothingUnopened /\ RequestsOfCalls /\ DoneOrComing /\ NothingLost

LEMMA CallSession ==
  ASSUME SessionInv, TypeOK', NEW op \in Ops, NEW c \in Conns, SessionCall(op, c)
  PROVE  Session'
<1> USE DEF callVars, connVars, histVars
<1>1. /\ SessionTypeOK /\ TypeOK /\ NothingUnopened /\ RequestsOfCalls /\ DoneOrComing
      /\ NothingLost /\ UncalledIsClean /\ c = TheConn
  BY TheConnection DEF SessionInv, StrongInv, Inv, SessionTypeOK
<1>2. /\ promise[op] = "uncalled" /\ promise'[op] # "uncalled"
      /\ \A o \in Ops : o # op => promise'[o] = promise[o] /\ stage'[o] = stage[o]
      /\ connState' = connState /\ connState[TheConn] # "unopened" /\ matched' = matched
      /\ Open => stage'[op] = "sent"
  BY <1>1, CallsOfSessions DEF SessionCall, Call, TypeOK, Open
<1>3. \A o \in Ops : o = op \/ Registered(o) => Registered(o)'
  <2> DEFINE e == EventOf(op)
  <2>1. e \in Events /\ listeners[e] \in Seq(Ops \cup Users)
    BY <1>1, EventsType DEF TypeOK
  <2>2. ToSet(PrependListener(listeners[e], op)) = ToSet(listeners[e]) \cup {op}
    BY <2>1, PrependListenerProperties
  <2>3. listeners' = [listeners EXCEPT ![e] = PrependListener(listeners[e], op)]
    BY DEF SessionCall, Call
  <2> HIDE DEF e
  <2> QED
    BY <1>1, <2>1, <2>2, <2>3 DEF Registered, TypeOK
<1>4. UNCHANGED <<run, owed, pipe, sent, acceptedAt, fulfilled>>
  BY DEF SessionCall
<1>5. asked' \in Seq(Ops) /\ ToSet(asked') \subseteq ToSet(asked) \cup {op}
  BY <1>1, Appended DEF SessionCall, SessionTypeOK
<1>6. SessionTypeOK'
  BY <1>1, <1>4, <1>5 DEF SessionTypeOK
<1>7. NothingUnopened' /\ RequestsOfCalls' /\ DoneOrComing'
  <2>1. \A o \in ToSet(asked') : promise'[o] # "uncalled"
    BY <1>1, <1>2, <1>5, AskedOps DEF RequestsOfCalls
  <2>2. Accepted' = Accepted /\ \A o \in Accepted : promise'[o] # "uncalled"
    BY <1>1, <1>2, <1>4 DEF RequestsOfCalls, Accepted
  <2>3. RequestsOfCalls'
    BY <1>1, <1>4, <2>1, <2>2 DEF RequestsOfCalls
  <2> QED
    BY <1>1, <1>2, <1>4, <2>2, <2>3 DEF NothingUnopened, DoneOrComing
<1>8. NothingLost'
  <2> SUFFICES ASSUME Open PROVE NothingLost'
    BY <1>2 DEF NothingLost, Open
  <2>1. \A o \in Ops : Waits(o)'
    BY <1>1, <1>2, <1>3 DEF NothingLost, Waits
  <2>2. \A o \in Accepted : o # op
    BY <1>1, <1>2 DEF RequestsOfCalls, Accepted
  <2>3. \A o \in Accepted : AnswerComes(o)'
    BY <1>1, <1>2, <1>4, <2>2 DEF NothingLost, AnswerComes, Accepted
  <2>4. \A o \in fulfilled : NoteComes(o)'
    BY <1>1, <1>2, <1>4 DEF NothingLost, NoteComes
  <2> QED
    BY <1>4, <2>1, <2>3, <2>4 DEF NothingLost, Accepted
<1> QED
  BY <1>6, <1>7, <1>8 DEF Session

(* A notification handled in an open connection reaches the handler of     *)
(* every call: none of them throws, as each has its response.              *)
LEMMA NoneThrows ==
  ASSUME SessionInv, Open, NEW e \in Events, NEW note
  PROVE  \A l \in ToSet(listeners[e]) : ~Throws(l, note)
BY DEF SessionInv, StrongInv, Inv, NothingLost, UncalledIsClean, Waits, Registered,
       Throws, Unassigned

LEMMA NoteSession ==
  ASSUME SessionInv, TypeOK', pipe # <<>>, Head(pipe).kind = "note",
         Deliver(TheConn, Head(pipe).note), pipe' = Tail(pipe),
         UNCHANGED <<run, asked, owed, sent, acceptedAt, fulfilled>>
  PROVE  Session'
<1> USE DEF callVars, connVars, histVars
<1> DEFINE note == Head(pipe).note
<1>1. /\ SessionTypeOK /\ TypeOK /\ NothingUnopened /\ RequestsOfCalls /\ DoneOrComing
      /\ NothingLost /\ UncalledIsClean /\ HandlersOnOwnEvent
  BY DEF SessionInv, StrongInv, Inv, SessionTypeOK
<1>2. pipe \in Seq(Messages)
  BY <1>1 DEF SessionTypeOK
<1>3. /\ Head(pipe) \in Messages /\ pipe' \in Seq(Messages)
      /\ \A m \in ToSet(pipe) : m = Head(pipe) \/ m \in ToSet(pipe')
  BY <1>2, HeadAndTail
<1>4. note \in Wire /\ note.event \in Events
  BY <1>3, WireAssumption DEF Messages, Answer, IsNote
<1>5. UNCHANGED <<promise, stage, listeners, connState>>
  BY DEF Deliver
<1>6. \A o \in Ops : Waits(o) => Waits(o)'
  <2>1. \A o \in Ops : matched[o] # 0 => matched'[o] # 0
    BY <1>1 DEF Deliver, Captures
  <2> QED
    BY <1>5, <2>1 DEF Waits, Registered
<1>7. ASSUME NEW o \in Ops, Open, promise[o] # "uncalled", Accepts(o, note)
      PROVE  matched'[o] # 0
  <2>1. CASE matched[o] # 0
    BY <1>1, <2>1 DEF Deliver, Captures
  <2>2. CASE matched[o] = 0
    <3>1. stage[o] \in {"sent", "ok", "error"} /\ Registered(o)
      BY <1>1, <1>7, <2>2 DEF NothingLost, Waits
    <3>2. o \in ToSet(listeners[note.event])
      BY <1>1, <1>7, <3>1 DEF Registered, HandlersOnOwnEvent, Accepts
    <3>3. listeners[note.event] \in Seq(Ops \cup Users)
      BY <1>1, <1>4 DEF TypeOK
    <3>4. o \in Called(listeners[note.event], note)
      BY <1>4, <1>7, <3>2, <3>3, AllCalled, NoneThrows
    <3>5. o \in Captures(note)
      BY <1>7, <2>2, <3>1, <3>4 DEF Captures, Unassigned
    <3> QED
      BY <1>1, <3>5 DEF Deliver, TypeOK
  <2> QED
    BY <2>1, <2>2
<1>8. SessionTypeOK'
  BY <1>1, <1>3 DEF SessionTypeOK
<1>9. NothingUnopened' /\ RequestsOfCalls' /\ DoneOrComing'
  BY <1>1, <1>5 DEF NothingUnopened, RequestsOfCalls, DoneOrComing, Accepted
<1>10. NothingLost'
  <2> SUFFICES ASSUME Open PROVE NothingLost'
    BY <1>5 DEF NothingLost, Open
  <2>1. \A o \in Ops : Waits(o)'
    BY <1>1, <1>6 DEF NothingLost
  <2>2. \A o \in Accepted : AnswerComes(o)'
    <3>1. \A o \in Ops : Answer(o) # Head(pipe)
      BY DEF Answer
    <3> QED
      BY <1>1, <1>3, <1>5, <3>1 DEF NothingLost, AnswerComes, Accepted
  <2>3. ASSUME NEW o \in fulfilled PROVE NoteComes(o)'
    <3>1. o \in Ops /\ promise[o] # "uncalled" /\ NoteComes(o)
      BY <1>1 DEF NothingLost, RequestsOfCalls, Accepted
    <3>2. matched[o] # 0 => matched'[o] # 0
      BY <1>1, <3>1 DEF Deliver, Captures
    <3> QED
      BY <1>3, <1>7, <3>1, <3>2 DEF NoteComes, Accepts
  <2> QED
    BY <2>1, <2>2, <2>3 DEF NothingLost, Accepted
<1> QED
  BY <1>8, <1>9, <1>10 DEF Session

LEMMA AnswerSession ==
  ASSUME SessionInv, TypeOK', pipe # <<>>, Head(pipe).kind = "answer",
         AnswerRequest(Head(pipe).op), pipe' = Tail(pipe),
         UNCHANGED <<run, asked, owed, sent, acceptedAt, fulfilled>>
  PROVE  Session'
<1> USE DEF callVars, connVars, histVars
<1>1. /\ SessionTypeOK /\ TypeOK /\ NothingUnopened /\ RequestsOfCalls /\ DoneOrComing
      /\ NothingLost
  BY DEF SessionInv, StrongInv, Inv, SessionTypeOK
<1>2. pipe \in Seq(Messages)
  BY <1>1 DEF SessionTypeOK
<1>3. /\ Head(pipe) \in Messages /\ pipe' \in Seq(Messages)
      /\ \A m \in ToSet(pipe) : m = Head(pipe) \/ m \in ToSet(pipe')
  BY <1>2, HeadAndTail
<1>4. PICK op \in Ops : Head(pipe) = Answer(op)
  BY <1>3 DEF Messages
<1>5. /\ UNCHANGED <<promise, matched, listeners, connState>>
      /\ stage'[op] \in {"ok", "error"}
      /\ \A o \in Ops : o # op => stage'[o] = stage[o]
  BY <1>1, <1>4 DEF AnswerRequest, Answer, TypeOK
<1>6. SessionTypeOK'
  BY <1>1, <1>3 DEF SessionTypeOK
<1>7. NothingUnopened' /\ RequestsOfCalls' /\ DoneOrComing'
  BY <1>1, <1>5 DEF NothingUnopened, RequestsOfCalls, DoneOrComing, Accepted
<1>8. NothingLost'
  <2> SUFFICES ASSUME Open PROVE NothingLost'
    BY <1>5 DEF NothingLost, Open
  <2>1. \A o \in Ops : Waits(o)'
    BY <1>1, <1>5 DEF NothingLost, Waits, Registered
  <2>2. \A o \in Accepted : AnswerComes(o)'
    <3>1. \A o \in Ops : o # op => Answer(o) # Head(pipe)
      BY <1>4 DEF Answer
    <3> QED
      BY <1>1, <1>3, <1>5, <3>1 DEF NothingLost, AnswerComes, Accepted
  <2>3. \A o \in fulfilled : NoteComes(o)'
    BY <1>1, <1>3, <1>4, <1>5 DEF NothingLost, NoteComes, Answer, Accepts
  <2> QED
    BY <2>1, <2>2, <2>3 DEF NothingLost, Accepted
<1> QED
  BY <1>6, <1>7, <1>8 DEF Session

(* The completion of a call and its timer settle it, and disturb no other. *)
LEMMA SettleSession ==
  ASSUME SessionInv, TypeOK', NEW op \in Ops, RunCompletion(op) \/ TimerFires(op),
         UNCHANGED serverVars
  PROVE  Session'
<1> USE DEF callVars, connVars, histVars
<1>1. /\ SessionTypeOK /\ TypeOK /\ NothingUnopened /\ RequestsOfCalls /\ DoneOrComing
      /\ NothingLost /\ CompletionsServed
  BY DEF SessionInv, StrongInv, Inv, SessionTypeOK
<1>2. /\ UNCHANGED <<stage, matched, connState>>
      /\ \A o \in Ops : promise'[o] = "uncalled" <=> promise[o] = "uncalled"
  BY <1>1 DEF RunCompletion, TimerFires, Settle, TypeOK
<1>3. UNCHANGED <<run, asked, owed, pipe, sent, acceptedAt, fulfilled>>
  BY DEF serverVars
<1>4. \A o \in Ops : matched[o] = 0 /\ Registered(o) => Registered(o)'
  <2>1. CASE listeners' = listeners
    BY <2>1 DEF Registered
  <2>2. CASE /\ RunCompletion(op)
             /\ listeners' = [listeners EXCEPT ![EventOf(op)] = RemoveListener(@, op)]
    <3>1. matched[op] # 0
      BY <1>1, <2>2 DEF RunCompletion, CompletionsServed, Served
    <3>2. \A e \in Events, o \in Ops : o # op /\ o \in ToSet(listeners[e])
            => o \in ToSet(RemoveListener(listeners[e], op))
      BY <1>1, OthersStay DEF TypeOK
    <3>3. EventOf(op) \in Events
      BY EventsType
    <3> QED
      BY <1>1, <2>2, <3>1, <3>2, <3>3 DEF Registered, TypeOK
  <2> QED
    BY <2>1, <2>2 DEF RunCompletion, TimerFires
<1>5. SessionTypeOK'
  BY <1>1, <1>3 DEF SessionTypeOK
<1>6. NothingUnopened' /\ RequestsOfCalls' /\ DoneOrComing'
  <2>1. Accepted' = Accepted /\ Accepted \subseteq Ops
    BY <1>3 DEF Accepted
  <2>2. RequestsOfCalls'
    BY <1>1, <1>2, <1>3, <2>1, AskedOps DEF RequestsOfCalls
  <2> QED
    BY <1>1, <1>2, <1>3, <2>1, <2>2 DEF NothingUnopened, DoneOrComing
<1>7. NothingLost'
  <2> SUFFICES ASSUME Open PROVE NothingLost'
    BY <1>2 DEF NothingLost, Open
  <2>1. \A o \in Ops : Waits(o)'
    BY <1>1, <1>2, <1>4 DEF NothingLost, Waits
  <2>2. /\ \A o \in Accepted : AnswerComes(o)'
        /\ \A o \in fulfilled : NoteComes(o)'
    BY <1>1, <1>2, <1>3 DEF NothingLost, AnswerComes, NoteComes, Accepted
  <2> QED
    BY <1>3, <2>1, <2>2 DEF NothingLost, Accepted
<1> QED
  BY <1>5, <1>6, <1>7 DEF Session

(* A connection opens before any call, and never opens again. *)
LEMMA ConnectionSession ==
  ASSUME SessionInv, TypeOK', UNCHANGED serverVars,
         Connect(TheConn) \/ RemoteClose(TheConn) \/ Disconnect
  PROVE  Session'
<1> USE DEF callVars, connVars, histVars
<1>1. /\ SessionTypeOK /\ TypeOK /\ NothingUnopened /\ RequestsOfCalls /\ DoneOrComing
      /\ NothingLost
  BY DEF SessionInv, StrongInv, Inv, SessionTypeOK
<1>2. UNCHANGED <<run, asked, owed, pipe, sent, acceptedAt, fulfilled, promise>>
  BY DEF serverVars, Connect, RemoteClose, Disconnect
<1>3. SessionTypeOK'
  BY <1>1, <1>2 DEF SessionTypeOK
<1>4. RequestsOfCalls' /\ DoneOrComing'
  BY <1>1, <1>2 DEF RequestsOfCalls, DoneOrComing, Accepted
<1>5. connState'[TheConn] # "unopened"
  BY <1>1, TheConnection DEF Connect, RemoteClose, Disconnect, TypeOK
<1>6. NothingLost'
  <2>1. CASE Connect(TheConn)
    <3>1. \A o \in Ops : promise[o] = "uncalled"
      BY <1>1, <2>1 DEF Connect, NothingUnopened
    <3>2. Accepted = {} /\ fulfilled = {}
      BY <1>1, <3>1 DEF RequestsOfCalls, Accepted
    <3> QED
      BY <1>2, <3>1, <3>2 DEF NothingLost, Accepted, Waits
  <2>2. CASE RemoteClose(TheConn) \/ Disconnect
    <3>1. ~Open'
      BY <1>1, <2>2, TheConnection DEF RemoteClose, Disconnect, TypeOK, Open
    <3> QED
      BY <3>1 DEF NothingLost
  <2> QED
    BY <2>1, <2>2
<1> QED
  BY <1>3, <1>4, <1>5, <1>6 DEF Session, NothingUnopened
-----------------------------------------------------------------------------
(* The server's steps.                                                     *)

(* A change of state of a server fulfils only calls that accept its        *)
(* notification: what it does at once, it does when it accepts a request,  *)
(* and it stops being "stopping" only when it has stopped.                 *)
LEMMA MovesFulfil ==
  ASSUME SessionInv, NEW s \in Servers, NEW to \in RunStates, NEW acc \in SUBSET Ops,
         Moves(s, to, acc), Accepted' = acc,
         \/ /\ acc = Accepted /\ to \in {"started", "stopped"}
            /\ run[s] = "starting" \/ (run[s] = "stopping" /\ to = "stopped")
         \/ \E api \in DOMAIN Effect :
              /\ run[s] = Effect[api].from /\ to = Effect[api].to
              /\ \/ acc = Accepted
                 \/ \E op \in Ops : /\ acc = Accepted \cup {op}
                                    /\ Api[op] = api /\ Subject[op] = s
  PROVE  /\ DoneOrComing'
         /\ fulfilled \subseteq fulfilled' /\ fulfilled' \subseteq acc
         /\ \A o \in fulfilled' \ fulfilled : Accepts(o, NoteOf(s, run[s], to))
<1>1. SessionTypeOK /\ DoneOrComing /\ RequestsOfCalls /\ Accepted \subseteq acc
  BY DEF SessionInv
<1>2. /\ fulfilled' = fulfilled \cup {o \in acc : Subject[o] = s /\ Effect[Api[o]].goal = to}
      /\ run' = [run EXCEPT ![s] = to] /\ run \in [Servers -> RunStates]
  BY <1>1 DEF Moves, SessionTypeOK
<1>3. fulfilled \subseteq fulfilled' /\ fulfilled' \subseteq acc
  BY <1>1, <1>2 DEF RequestsOfCalls
<1>4. ASSUME NEW o \in acc \ fulfilled', Api[o] # "startServerSync"
      PROVE  Api[o] = "stopServerSync" /\ run'[Subject[o]] = "stopping"
  <2>1. o \in Ops /\ Subject[o] \in Servers /\ (Subject[o] = s => Effect[Api[o]].goal # to)
    BY <1>2, <1>4, CallsOfSessions
  <2>2. CASE o \in Accepted
    <3>1. Api[o] = "stopServerSync" /\ run[Subject[o]] = "stopping"
      BY <1>1, <1>2, <1>4, <2>2 DEF DoneOrComing
    <3>2. Subject[o] # s
      BY <2>1, <3>1, Effects
    <3> QED
      BY <1>2, <2>1, <3>1, <3>2
  <2>3. CASE o \notin Accepted
    <3>1. Subject[o] = s /\ to = Effect[Api[o]].to
      BY <1>4, <2>3
    <3> QED
      BY <1>2, <1>4, <2>1, <3>1, CallsOfSessions, Effects
  <2> QED
    BY <2>2, <2>3
<1>5. ASSUME NEW o \in fulfilled' \ fulfilled PROVE Accepts(o, NoteOf(s, run[s], to))
  <2>1. /\ o \in acc /\ Subject[o] = s /\ Effect[Api[o]].goal = to
        /\ o \in Ops /\ run[s] \in RunStates
    BY <1>2, <1>5
  <2>2. Api[o] = "createServerFromBean" => run[s] = "absent"
    <3> SUFFICES ASSUME Api[o] = "createServerFromBean" PROVE run[s] = "absent"
      OBVIOUS
    <3>1. o \notin Accepted
      BY <1>1, <1>5 DEF DoneOrComing
    <3> QED
      BY <2>1, <3>1, Effects
  <2>3. Api[o] \in {"startServerSync", "stopServerSync"} => run[s] # "absent"
    <3> SUFFICES ASSUME Api[o] \in {"startServerSync", "stopServerSync"},
                        run[s] = "absent"
                 PROVE  FALSE
      OBVIOUS
    <3>1. \E api \in DOMAIN Effect : run[s] = Effect[api].from /\ to = Effect[api].to
      OBVIOUS
    <3>2. Api[o] = "stopServerSync"
      BY <2>1, <3>1, Effects
    <3>3. o \notin Accepted
      BY <1>1, <1>5, <2>1, <3>2 DEF DoneOrComing
    <3> QED
      BY <2>1, <3>2, <3>3, Effects
  <2> QED
    BY <2>1, <2>2, <2>3, GoalNoteAccepted
<1> QED
  BY <1>3, <1>4, <1>5 DEF DoneOrComing

(* What the server writes, owes and has done after a step. *)
LEMMA ServerKeeps ==
  ASSUME SessionInv, UNCHANGED vars, NEW msgs \in Seq(Messages), Write(msgs),
         asked' \in Seq(Ops), ToSet(asked') \subseteq ToSet(asked),
         asked' = asked \/ asked # <<>>,
         Accepted \subseteq Accepted',
         \A o \in Accepted' \ Accepted :
           o \in ToSet(asked) /\ (o \in owed' \/ Answer(o) \in ToSet(msgs)),
         \A o \in owed : o \in owed' \/ Answer(o) \in ToSet(msgs),
         fulfilled \subseteq fulfilled', fulfilled' \subseteq Accepted',
         \A o \in fulfilled' \ fulfilled :
           \E m \in ToSet(msgs) : m.kind = "note" /\ Accepts(o, m.note)
  PROVE  NothingUnopened' /\ RequestsOfCalls' /\ NothingLost'
<1>1. SessionTypeOK /\ NothingUnopened /\ RequestsOfCalls /\ NothingLost
  BY DEF SessionInv
<1>2. UNCHANGED <<promise, stage, matched, listeners, connState>>
  BY DEF vars, callVars, connVars, histVars
<1>3. NothingUnopened' /\ RequestsOfCalls'
  BY <1>1, <1>2 DEF NothingUnopened, RequestsOfCalls
<1>4. NothingLost'
  <2> SUFFICES ASSUME Open PROVE NothingLost'
    BY <1>2 DEF NothingLost, Open
  <2>1. \A m \in ToSet(pipe) \cup ToSet(msgs) : m \in ToSet(pipe')
    BY <1>1, Written
  <2>2. \A o \in Ops : Waits(o)'
    BY <1>1, <1>2 DEF NothingLost, Waits, Registered
  <2>3. \A o \in Accepted' : AnswerComes(o)'
    BY <1>1, <1>2, <2>1 DEF NothingLost, AnswerComes
  <2>4. \A o \in fulfilled' : NoteComes(o)'
    BY <1>1, <1>2, <2>1 DEF NothingLost, NoteComes, Accepts
  <2> QED
    BY <2>2, <2>3, <2>4 DEF NothingLost
<1> QED
  BY <1>3, <1>4

LEMMA MovesType ==
  ASSUME SessionTypeOK, NEW s, NEW to \in RunStates, NEW acc \in SUBSET Ops,
         Moves(s, to, acc)
  PROVE  /\ run' \in [Servers -> RunStates] /\ sent' \in 0 .. MaxEvents
         /\ fulfilled' \subseteq Ops /\ sent + 1 \in 1 .. MaxEvents
<1>1. /\ run \in [Servers -> RunStates] /\ sent \in 0 .. MaxEvents /\ fulfilled \subseteq Ops
      /\ run' = [run EXCEPT ![s] = to] /\ sent < MaxEvents
      /\ sent' = IF connState[TheConn] = "open" THEN sent + 1 ELSE sent
  BY DEF SessionTypeOK, Moves
<1>2. run' \in [Servers -> RunStates]
  BY <1>1
<1>3. sent' \in 0 .. MaxEvents /\ sent + 1 \in 1 .. MaxEvents
  BY <1>1, BoundAssumption
<1>4. fulfilled' \subseteq Ops
  BY <1>1 DEF Moves
<1> QED
  BY <1>2, <1>3, <1>4

LEMMA AcceptsSession ==
  ASSUME SessionInv, TypeOK', asked # <<>>, asked' = Tail(asked),
         ServerAccepts(Head(asked)), UNCHANGED vars
  PROVE  Session'
<1> DEFINE op   == Head(asked)
           s    == Subject[op]
           e    == Effect[Api[op]]
           acc  == Accepted \cup {op}
           note == [kind |-> "note", note |-> NoteOf(s, run[s], e.to)]
<1>1. SessionTypeOK
  BY DEF SessionInv
<1>2. /\ op \in Ops /\ op \in ToSet(asked)
      /\ asked' \in Seq(Ops) /\ ToSet(asked') \subseteq ToSet(asked)
  BY <1>1, HeadAndTail DEF SessionTypeOK
<1>3. s \in Servers /\ Api[op] \in DOMAIN Effect /\ e.to \in RunStates /\ acc \in SUBSET Ops
  BY <1>2, CallsOfSessions, Effects DEF Accepted
<1>4. run[s] = e.from /\ Moves(s, e.to, acc)
  BY DEF ServerAccepts
<1>5. /\ run' \in [Servers -> RunStates] /\ sent' \in 0 .. MaxEvents
      /\ fulfilled' \subseteq Ops /\ sent + 1 \in 1 .. MaxEvents
  BY <1>1, <1>3, <1>4, MovesType
<1>6. acceptedAt' = [acceptedAt EXCEPT ![op] = sent + 1]
  BY DEF ServerAccepts
<1>7. acceptedAt' \in [Ops -> 0 .. MaxEvents] /\ Accepted' = acc
  BY <1>1, <1>2, <1>5, <1>6 DEF SessionTypeOK, Accepted
<1>8. Note(s, e.to) \in Seq(Messages) /\ note \in ToSet(Note(s, e.to))
  BY <1>1, <1>3, NoteMessage
<1>9. PICK msgs \in Seq(Messages) :
        /\ Write(msgs) /\ note \in ToSet(msgs)
        /\ \/ owed' = owed \cup {op}
           \/ owed' = owed /\ Answer(op) \in ToSet(msgs)
  <2>1. CASE Write(Note(s, e.to)) /\ owed' = owed \cup {op}
    BY <1>8, <2>1
  <2>2. CASE Write(<<Answer(op)>> \o Note(s, e.to)) /\ UNCHANGED owed
    <3>1. <<Answer(op)>> \in Seq(Messages) /\ Answer(op) \in ToSet(<<Answer(op)>>)
      BY <1>2, AnswerMessage
    <3>2. /\ <<Answer(op)>> \o Note(s, e.to) \in Seq(Messages)
          /\ Range(<<Answer(op)>> \o Note(s, e.to))
               = Range(<<Answer(op)>>) \cup Range(Note(s, e.to))
      BY <1>8, <3>1, ConcatProperties, RangeConcatenation
    <3>3. \A q : Range(q) = ToSet(q)
      BY DEF Range, ToSet
    <3> QED
      BY <1>8, <2>2, <3>1, <3>2, <3>3
  <2> QED
    BY <2>1, <2>2 DEF ServerAccepts
<1> HIDE DEF op, s, e, acc, note
<1>10. /\ DoneOrComing' /\ fulfilled \subseteq fulfilled' /\ fulfilled' \subseteq acc
       /\ \A o \in fulfilled' \ fulfilled : Accepts(o, NoteOf(s, run[s], e.to))
  <2>1. \E api \in DOMAIN Effect :
          /\ run[s] = Effect[api].from /\ e.to = Effect[api].to
          /\ \/ acc = Accepted
             \/ \E o \in Ops : acc = Accepted \cup {o} /\ Api[o] = api /\ Subject[o] = s
    BY <1>2, <1>3, <1>4 DEF e, s, acc
  <2> QED
    BY <1>3, <1>4, <1>7, <2>1, MovesFulfil
<1>11. \A o \in fulfilled' \ fulfilled :
         \E m \in ToSet(msgs) : m.kind = "note" /\ Accepts(o, m.note)
  BY <1>9, <1>10 DEF note
<1>12. NothingUnopened' /\ RequestsOfCalls' /\ NothingLost'
  <2>1. \A o \in Accepted' \ Accepted :
          o \in ToSet(asked) /\ (o \in owed' \/ Answer(o) \in ToSet(msgs))
    BY <1>2, <1>7, <1>9 DEF acc
  <2> QED
    BY <1>2, <1>7, <1>9, <1>10, <1>11, <2>1, ServerKeeps DEF acc
<1>13. SessionTypeOK'
  <2>1. owed' \subseteq Ops /\ pipe' \in Seq(Messages)
    BY <1>1, <1>2, <1>9, Written DEF SessionTypeOK
  <2> QED
    BY <1>2, <1>5, <1>7, <2>1 DEF SessionTypeOK
<1> QED
  BY <1>10, <1>12, <1>13 DEF Session

LEMMA RefusesSession ==
  ASSUME SessionInv, TypeOK', asked # <<>>, asked' = Tail(asked),
         ServerRefuses(Head(asked)), UNCHANGED vars
  PROVE  Session'
<1>1. SessionTypeOK /\ DoneOrComing /\ RequestsOfCalls
  BY DEF SessionInv
<1>2. /\ Head(asked) \in Ops /\ asked' \in Seq(Ops) /\ ToSet(asked') \subseteq ToSet(asked)
  BY <1>1, HeadAndTail DEF SessionTypeOK
<1>3. UNCHANGED <<run, owed, sent, acceptedAt, fulfilled>> /\ Accepted' = Accepted
  BY DEF ServerRefuses, Accepted
<1>4. PICK msgs \in Seq(Messages) : Write(msgs)
  BY <1>2, AnswerMessage DEF ServerRefuses
<1>5. NothingUnopened' /\ RequestsOfCalls' /\ NothingLost'
  BY <1>1, <1>2, <1>3, <1>4, ServerKeeps DEF RequestsOfCalls
<1>6. SessionTypeOK'
  BY <1>1, <1>2, <1>3, <1>4, Written DEF SessionTypeOK
<1> QED
  BY <1>1, <1>3, <1>5, <1>6 DEF Session, DoneOrComing

LEMMA AnswersSession ==
  ASSUME SessionInv, TypeOK', NEW op \in Ops, ServerAnswers(op)
  PROVE  Session'
<1>1. SessionTypeOK /\ DoneOrComing /\ RequestsOfCalls
  BY DEF SessionInv
<1>2. UNCHANGED <<run, asked, sent, acceptedAt, fulfilled>> /\ Accepted' = Accepted
  BY DEF ServerAnswers, Accepted
<1>3. UNCHANGED vars
  BY DEF ServerAnswers, vars, callVars, connVars, histVars
<1>4. PICK msgs \in Seq(Messages) : Write(msgs) /\ Answer(op) \in ToSet(msgs)
  BY AnswerMessage DEF ServerAnswers
<1>5. asked \in Seq(Ops) /\ owed' = owed \ {op}
  BY <1>1 DEF SessionTypeOK, ServerAnswers
<1>6. NothingUnopened' /\ RequestsOfCalls' /\ NothingLost'
  BY <1>1, <1>2, <1>3, <1>4, <1>5, ServerKeeps DEF RequestsOfCalls
<1>7. SessionTypeOK'
  BY <1>1, <1>2, <1>4, <1>5, Written DEF SessionTypeOK
<1> QED
  BY <1>1, <1>2, <1>6, <1>7 DEF Session, DoneOrComing

LEMMA EvolvesSession ==
  ASSUME SessionInv, TypeOK', NEW s \in Servers, ServerEvolves(s) \/ OtherClient(s)
  PROVE  Session'
<1>1. SessionTypeOK /\ RequestsOfCalls
  BY DEF SessionInv
<1>2. UNCHANGED <<asked, owed, acceptedAt>> /\ Accepted' = Accepted /\ Accepted \in SUBSET Ops
  BY DEF ServerEvolves, OtherClient, Accepted
<1>3. UNCHANGED vars
  BY DEF ServerEvolves, OtherClient, vars, callVars, connVars, histVars
<1>4. PICK to \in RunStates :
        /\ Moves(s, to, Accepted) /\ Write(Note(s, to))
        /\ \/ /\ to \in {"started", "stopped"}
              /\ run[s] = "starting" \/ (run[s] = "stopping" /\ to = "stopped")
           \/ \E api \in DOMAIN Effect : run[s] = Effect[api].from /\ to = Effect[api].to
  <2>1. CASE ServerEvolves(s)
    BY <2>1 DEF ServerEvolves, RunStates
  <2>2. CASE OtherClient(s)
    BY <2>2, Effects DEF OtherClient
  <2> QED
    BY <2>1, <2>2
<1> DEFINE note == [kind |-> "note", note |-> NoteOf(s, run[s], to)]
<1>5. Note(s, to) \in Seq(Messages) /\ note \in ToSet(Note(s, to))
  BY <1>1, NoteMessage
<1>6. /\ DoneOrComing' /\ fulfilled \subseteq fulfilled' /\ fulfilled' \subseteq Accepted
      /\ \A o \in fulfilled' \ fulfilled : Accepts(o, NoteOf(s, run[s], to))
  BY <1>2, <1>4, MovesFulfil
<1>7. \A o \in fulfilled' \ fulfilled :
        \E m \in ToSet(Note(s, to)) : m.kind = "note" /\ Accepts(o, m.note)
  BY <1>5, <1>6
<1>8. NothingUnopened' /\ RequestsOfCalls' /\ NothingLost'
  <2>1. asked' \in Seq(Ops)
    BY <1>1, <1>2 DEF SessionTypeOK
  <2> HIDE DEF note
  <2> QED
    BY <1>2, <1>3, <1>4, <1>5, <1>6, <1>7, <2>1, ServerKeeps
<1>9. SessionTypeOK'
  <2>1. pipe' \in Seq(Messages)
    BY <1>1, <1>4, <1>5, Written
  <2>2. /\ run' \in [Servers -> RunStates] /\ sent' \in 0 .. MaxEvents
        /\ fulfilled' \subseteq Ops
    BY <1>1, <1>2, <1>4, MovesType
  <2> QED
    BY <1>1, <1>2, <2>1, <2>2 DEF SessionTypeOK
<1> QED
  BY <1>6, <1>8, <1>9 DEF Session
-----------------------------------------------------------------------------
(* The theorems.                                                           *)

LEMMA InitSession == SessionInit => SessionInv
<1> SUFFICES ASSUME SessionInit PROVE SessionInv
  OBVIOUS
<1>1. StrongInv
  BY InitStrong DEF SessionInit
<1>2. connState[TheConn] = "unopened" /\ \A op \in Ops : promise[op] = "uncalled"
  BY TheConnection DEF SessionInit, Init
<1>3. Accepted = {} /\ asked = <<>> /\ fulfilled = {}
  BY DEF SessionInit, Accepted
<1>4. SessionTypeOK
  BY <1>1, EmptySeq, BoundAssumption DEF SessionInit, SessionTypeOK, StrongInv, Inv
<1>5. ToSet(asked) = {}
  BY <1>3, EmptySeq DEF ToSet
<1> QED
  BY <1>1, <1>2, <1>3, <1>4, <1>5
  DEF SessionInv, NothingUnopened, RequestsOfCalls, DoneOrComing, NothingLost, Open

LEMMA NextSession == SessionInv /\ [SessionNext]_sessionVars => SessionInv'
<1> SUFFICES ASSUME SessionInv, [SessionNext]_sessionVars PROVE SessionInv'
  OBVIOUS
<1>1. StrongInv' /\ TypeOK'
  BY StepOfCalls, NextStrong DEF SessionInv, StrongInv, Inv
<1>2. ASSUME NEW op \in Ops, NEW c \in Conns, SessionCall(op, c) PROVE Session'
  BY <1>1, <1>2, CallSession
<1>3. ASSUME Receive PROVE Session'
  <2>1. /\ pipe # <<>> /\ pipe' = Tail(pipe)
        /\ UNCHANGED <<run, asked, owed, sent, acceptedAt, fulfilled>>
        /\ \/ Head(pipe).kind = "note" /\ Deliver(TheConn, Head(pipe).note)
           \/ Head(pipe).kind = "answer" /\ AnswerRequest(Head(pipe).op)
    BY <1>3 DEF Receive
  <2> QED
    BY <1>1, <2>1, NoteSession, AnswerSession
<1>4. ASSUME ClientTurn PROVE Session'
  BY <1>1, <1>4, SettleSession, ConnectionSession DEF ClientTurn
<1>5. ASSUME ServerHandles PROVE Session'
  BY <1>1, <1>5, AcceptsSession, RefusesSession DEF ServerHandles
<1>6. ASSUME NEW op \in Ops, ServerAnswers(op) PROVE Session'
  BY <1>1, <1>6, AnswersSession
<1>7. ASSUME NEW s \in Servers, ServerEvolves(s) \/ OtherClient(s) PROVE Session'
  BY <1>1, <1>7, EvolvesSession
<1>8. ASSUME UNCHANGED sessionVars PROVE Session'
  BY <1>1, <1>8
  DEF SessionInv, Session, SessionTypeOK, NothingUnopened, RequestsOfCalls, DoneOrComing,
      NothingLost, Waits, AnswerComes, NoteComes, Accepted, Open, Registered, Accepts,
      sessionVars, vars, callVars, connVars, histVars, serverVars
<1> QED
  BY <1>1, <1>2, <1>3, <1>4, <1>5, <1>6, <1>7, <1>8 DEF SessionNext, Session, SessionInv

(* Every state of a session satisfies its inductive invariant: the calls   *)
(* keep theirs although a server answers them, and nothing they wait for   *)
(* gets lost while the connection is open.                                 *)
THEOREM SessionInvariance == SessionSpec => []SessionInv
BY InitSession, NextSession, PTL DEF SessionSpec

(* A session only ever takes steps of the calls' own specification, which  *)
(* is why whatever is proved of SyncRequests holds in it.                  *)
THEOREM SessionIsSyncRequests == SessionSpec => Spec
<1>1. SessionInit => Init
  BY DEF SessionInit
<1>2. SessionInv /\ [SessionNext]_sessionVars => [Next]_vars
  BY StepOfCalls DEF SessionInv
<1> QED
  BY <1>1, <1>2, SessionInvariance, PTL DEF SessionSpec, Spec

(* Every variable of a session keeps its type. *)
THEOREM SessionTypeCorrect == SessionSpec => []SessionTypeOK
<1>1. SessionInv => SessionTypeOK
  BY DEF SessionInv
<1> QED
  BY <1>1, SessionInvariance, PTL

(* No wake-up is lost: a call whose goal its server has reached is settled *)
(* once all that the server wrote is handled, in whatever order answer and *)
(* notification were written and whoever moved the server, unless the      *)
(* answer is an error.                                                     *)
THEOREM WakeupsArrive == SessionSpec => []NoLostWakeup
<1>1. SessionInv => NoLostWakeup
  <2> SUFFICES ASSUME SessionInv, NEW op \in fulfilled, Open, pipe = <<>>,
                      op \notin owed, NoMicrotask, stage[op] # "error"
               PROVE  promise[op] # "pending"
    BY DEF NoLostWakeup, Open
  <2>1. op \in Ops /\ AnswerComes(op) /\ NoteComes(op) /\ CleanInv(op)
    BY DEF SessionInv, NothingLost, RequestsOfCalls, Accepted, StrongInv
  <2>2. ToSet(pipe) = {}
    BY EmptySeq DEF ToSet
  <2> QED
    BY <2>1, <2>2 DEF AnswerComes, NoteComes, CleanInv, Served, NoMicrotask
<1> QED
  BY <1>1, SessionInvariance, PTL
-----------------------------------------------------------------------------
(* What the client was told of a server.  While the connection is open,    *)
(* the last notification about a server, under way or else handled, tells  *)
(* the state the server is in: nothing overtakes on the connection.        *)

About(m, s) == m.kind = "note" /\ m.note.subject = s

Tells(note, state) ==
  /\ note.event = "serverRemoved" => state = "absent"
  /\ note.event = "serverAdded" => state = "stopped"
  /\ note.event = "serverStateChanged" /\ note.state # "other" => state = note.state

Silent(q, s) == \A i \in 1 .. Len(q) : ~About(q[i], s)

LastWordComes(s) ==
  \A i \in 1 .. Len(pipe) :
    About(pipe[i], s) /\ (\A j \in i + 1 .. Len(pipe) : ~About(pipe[j], s))
    => Tells(pipe[i].note, run[s])

LastWordHeard(s) ==
  Silent(pipe, s) =>
    \A i \in 1 .. Len(log) :
      log[i].subject = s /\ (\A j \in i + 1 .. Len(log) : log[j].subject # s)
      => Tells(log[i], run[s])

ViewInv ==
  /\ connState[TheConn] = "unopened" => pipe = <<>> /\ log = <<>>
  /\ Open => \A s \in Servers : LastWordComes(s) /\ LastWordHeard(s)

(* A legal change of a server's state is told by its notification. *)
LEMMA NoteTells ==
  ASSUME NEW s, NEW from \in RunStates, NEW to \in RunStates,
         from = "absent" => to = "stopped"
  PROVE  Tells(NoteOf(s, from, to), to) /\ NoteOf(s, from, to).subject = s
BY DEF Tells, NoteOf, RunStates, States

LEMMA HandledView ==
  ASSUME SessionInv, ViewInv, pipe # <<>>, pipe' = Tail(pipe), connState' = connState,
         run' = run,
         \/ log' = log /\ Head(pipe).kind = "answer"
         \/ log' = Append(log, Head(pipe).note) /\ Head(pipe).kind = "note"
  PROVE  ViewInv'
<1>1. /\ pipe \in Seq(Messages) /\ log \in Seq(Wire)
      /\ Head(pipe).kind = "note" => Head(pipe).note \in Wire
  <2>1. pipe \in Seq(Messages) /\ log \in Seq(Wire)
    BY DEF SessionInv, SessionTypeOK, TypeOK
  <2>2. Head(pipe) \in Messages
    BY <2>1, HeadAndTail
  <2> QED
    BY <2>1, <2>2 DEF Messages, Answer
<1>2. /\ Len(pipe) \in Nat /\ Len(pipe) > 0 /\ Head(pipe) = pipe[1]
      /\ Len(pipe') = Len(pipe) - 1
      /\ \A i \in 1 .. Len(pipe) - 1 : pipe'[i] = pipe[i + 1]
  BY <1>1, HeadTailProperties, EmptySeq
<1>3. ASSUME NEW s \in Servers, Open PROVE LastWordComes(s)'
  <2> SUFFICES ASSUME NEW i \in 1 .. Len(pipe) - 1, About(pipe'[i], s),
                      \A j \in i + 1 .. Len(pipe) - 1 : ~About(pipe'[j], s)
               PROVE  Tells(pipe'[i].note, run[s])
    BY <1>2 DEF LastWordComes, About
  <2>1. \A j \in i + 2 .. Len(pipe) : ~About(pipe[j], s)
    <3>1. \A j \in i + 2 .. Len(pipe) :
            j - 1 \in i + 1 .. Len(pipe) - 1 /\ pipe'[j - 1] = pipe[j]
      BY <1>2
    <3> QED
      BY <3>1
  <2>2. i + 1 \in 1 .. Len(pipe) /\ pipe'[i] = pipe[i + 1] /\ (i + 1) + 1 = i + 2
    BY <1>2
  <2> QED
    BY <1>3, <2>1, <2>2 DEF ViewInv, LastWordComes
<1>4. ASSUME NEW s \in Servers, Open PROVE LastWordHeard(s)'
  <2> SUFFICES ASSUME Silent(pipe, s)', NEW i \in 1 .. Len(log'),
                      log'[i].subject = s,
                      \A j \in i + 1 .. Len(log') : log'[j].subject # s
               PROVE  Tells(log'[i], run[s])
    BY DEF LastWordHeard
  <2>1. \A j \in 2 .. Len(pipe) : ~About(pipe[j], s)
    <3>1. \A j \in 2 .. Len(pipe) : j - 1 \in 1 .. Len(pipe) - 1 /\ pipe'[j - 1] = pipe[j]
      BY <1>2
    <3> QED
      BY <1>2, <3>1 DEF Silent, About
  <2>2. LastWordComes(s) /\ LastWordHeard(s)
    BY <1>3, <1>4 DEF ViewInv
  <2>3. CASE log' = log /\ Head(pipe).kind = "answer"
    <3>1. Silent(pipe, s)
      BY <1>2, <2>1, <2>3 DEF Silent, About
    <3> QED
      BY <2>2, <2>3, <3>1 DEF LastWordHeard
  <2>4. CASE log' = Append(log, Head(pipe).note) /\ Head(pipe).kind = "note"
    <3>1. /\ Len(log) \in Nat /\ Len(log') = Len(log) + 1
          /\ \A j \in 1 .. Len(log) : log'[j] = log[j]
          /\ log'[Len(log) + 1] = Head(pipe).note
      BY <1>1, <2>4, AppendProperties
    <3>2. CASE i = Len(log) + 1
      <4>1. About(pipe[1], s) /\ 1 \in 1 .. Len(pipe) /\ 1 + 1 = 2
        BY <1>2, <2>4, <3>1, <3>2 DEF About
      <4> QED
        BY <1>2, <2>1, <2>2, <3>1, <3>2, <4>1 DEF LastWordComes
    <3>3. CASE i \in 1 .. Len(log)
      <4>1. Head(pipe).note.subject # s
        BY <3>1, <3>3
      <4>2. Silent(pipe, s)
        BY <1>2, <2>1, <4>1 DEF Silent, About
      <4>3. log[i].subject = s /\ \A j \in i + 1 .. Len(log) : log[j].subject # s
        BY <3>1, <3>3
      <4> QED
        BY <2>2, <3>1, <3>3, <4>2, <4>3 DEF LastWordHeard
    <3> QED
      BY <3>1, <3>2, <3>3
  <2> QED
    BY <2>3, <2>4
<1>5. connState[TheConn] # "unopened"
  BY DEF ViewInv
<1> QED
  BY <1>3, <1>4, <1>5 DEF ViewInv, Open

(* What the server writes says nothing of a server that keeps its state,   *)
(* and ends with the new state of one that does not.                       *)
LEMMA WrittenView ==
  ASSUME SessionInv, ViewInv, UNCHANGED vars, NEW msgs \in Seq(Messages), Write(msgs),
         \A s \in Servers :
           \/ run'[s] = run[s] /\ Silent(msgs, s)
           \/ /\ Len(msgs) # 0 /\ About(msgs[Len(msgs)], s)
              /\ Tells(msgs[Len(msgs)].note, run'[s])
  PROVE  ViewInv'
<1>1. UNCHANGED <<connState, log>>
  BY DEF vars, connVars, histVars
<1>2. CASE ~Open
  BY <1>1, <1>2 DEF ViewInv, Open, Write
<1>3. CASE Open
  <2>1. pipe \in Seq(Messages) /\ pipe' = pipe \o msgs
    BY <1>3 DEF SessionInv, SessionTypeOK, Write, Open
  <2>2. /\ Len(pipe) \in Nat /\ Len(msgs) \in Nat /\ Len(pipe') = Len(pipe) + Len(msgs)
        /\ \A i \in 1 .. Len(pipe) : pipe'[i] = pipe[i]
        /\ \A i \in 1 .. Len(msgs) : pipe'[Len(pipe) + i] = msgs[i]
    <3>1. /\ Len(pipe') = Len(pipe) + Len(msgs)
          /\ \A i \in 1 .. Len(pipe) + Len(msgs) :
               pipe'[i] = IF i <= Len(pipe) THEN pipe[i] ELSE msgs[i - Len(pipe)]
      BY <2>1, ConcatProperties
    <3> QED
      BY <2>1, <3>1
  <2>3. ASSUME NEW s \in Servers PROVE LastWordComes(s)' /\ LastWordHeard(s)'
    <3>1. LastWordComes(s) /\ LastWordHeard(s)
      BY <1>3 DEF ViewInv
    <3>2. CASE run'[s] = run[s] /\ Silent(msgs, s)
      <4>1. \A i \in Len(pipe) + 1 .. Len(pipe') : ~About(pipe'[i], s)
        <5>1. \A i \in Len(pipe) + 1 .. Len(pipe') :
                /\ i - Len(pipe) \in 1 .. Len(msgs)
                /\ pipe'[i] = msgs[i - Len(pipe)]
          BY <2>2
        <5> QED
          BY <3>2, <5>1 DEF Silent
      <4>2. LastWordComes(s)'
        <5> SUFFICES ASSUME NEW i \in 1 .. Len(pipe'), About(pipe'[i], s),
                            \A j \in i + 1 .. Len(pipe') : ~About(pipe'[j], s)
                     PROVE  Tells(pipe'[i].note, run'[s])
          BY DEF LastWordComes, About
        <5>1. i \in 1 .. Len(pipe) /\ pipe'[i] = pipe[i]
          BY <2>2, <4>1
        <5>2. \A j \in i + 1 .. Len(pipe) : ~About(pipe[j], s)
          BY <2>2
        <5> QED
          BY <3>1, <3>2, <5>1, <5>2 DEF LastWordComes
      <4>3. LastWordHeard(s)'
        <5>1. Silent(pipe, s)' => Silent(pipe, s)
          BY <2>2 DEF Silent, About
        <5> QED
          BY <1>1, <3>1, <3>2, <5>1 DEF LastWordHeard
      <4> QED
        BY <4>2, <4>3
    <3>3. CASE /\ Len(msgs) # 0 /\ About(msgs[Len(msgs)], s)
               /\ Tells(msgs[Len(msgs)].note, run'[s])
      <4>1. Len(pipe') \in 1 .. Len(pipe') /\ pipe'[Len(pipe')] = msgs[Len(msgs)]
        BY <2>2, <3>3
      <4>2. LastWordComes(s)'
        <5> SUFFICES ASSUME NEW i \in 1 .. Len(pipe'), About(pipe'[i], s),
                            \A j \in i + 1 .. Len(pipe') : ~About(pipe'[j], s)
                     PROVE  Tells(pipe'[i].note, run'[s])
          BY DEF LastWordComes, About
        <5>1. i = Len(pipe')
          BY <3>3, <4>1
        <5> QED
          BY <3>3, <4>1, <5>1
      <4>3. ~Silent(pipe, s)'
        BY <3>3, <4>1 DEF Silent, About
      <4> QED
        BY <4>2, <4>3 DEF LastWordHeard
    <3> QED
      BY <3>2, <3>3
  <2> QED
    BY <1>1, <1>3, <2>3 DEF ViewInv, Open
<1> QED
  BY <1>2, <1>3

LEMMA AnswerIsSilent ==
  ASSUME NEW op \in Ops, NEW s
  PROVE  Silent(<<Answer(op)>>, s)
BY DEF Silent, About, Answer

(* Server t moves to state `to`; with the note, an answer may go out. *)
LEMMA MovesView ==
  ASSUME SessionInv, ViewInv, UNCHANGED vars, NEW t \in Servers, NEW to \in RunStates,
         run' = [run EXCEPT ![t] = to], run[t] = "absent" => to = "stopped",
         \/ Write(Note(t, to))
         \/ \E op \in Ops : Write(<<Answer(op)>> \o Note(t, to))
  PROVE  ViewInv'
<1> DEFINE note == NoteOf(t, run[t], to)
           msg  == [kind |-> "note", note |-> note]
<1>1. SessionTypeOK /\ run \in [Servers -> RunStates] /\ run[t] \in RunStates
  BY DEF SessionInv, SessionTypeOK
<1>2. Tells(note, to) /\ note.subject = t
  BY <1>1, NoteTells
<1>3. msg \in Messages /\ Note(t, to) = <<msg>>
  BY <1>1, SessionNotes DEF Messages, Note
<1>4. PICK msgs \in Seq(Messages) :
        /\ Write(msgs) /\ Len(msgs) # 0 /\ msgs[Len(msgs)] = msg
        /\ \A i \in 1 .. Len(msgs) : msgs[i] = msg \/ \E op \in Ops : msgs[i] = Answer(op)
  <2> HIDE DEF msg
  <2>1. <<msg>> \in Seq(Messages) /\ Len(<<msg>>) = 1 /\ <<msg>>[1] = msg
    BY <1>3
  <2>2. CASE Write(Note(t, to))
    <3>1. Write(<<msg>>) /\ \A i \in 1 .. Len(<<msg>>) : <<msg>>[i] = msg
      BY <1>3, <2>1, <2>2
    <3> USE <2>1
    <3> WITNESS <<msg>> \in Seq(Messages)
    <3> QED
      BY <3>1
  <2>3. CASE \E op \in Ops : Write(<<Answer(op)>> \o Note(t, to))
    <3>1. PICK op \in Ops : Write(<<Answer(op)>> \o <<msg>>)
      BY <1>3, <2>3
    <3> DEFINE q == <<Answer(op)>> \o <<msg>>
    <3>2. <<Answer(op)>> \in Seq(Messages) /\ Len(<<Answer(op)>>) = 1
          /\ <<Answer(op)>>[1] = Answer(op)
      BY AnswerMessage
    <3>3. /\ q \in Seq(Messages) /\ Len(q) = 2
          /\ \A i \in 1 .. 2 : q[i] = IF i <= 1 THEN <<Answer(op)>>[i] ELSE <<msg>>[i - 1]
      BY <2>1, <3>2, ConcatProperties
    <3>4. q[2] = msg /\ \A i \in 1 .. 2 : q[i] = msg \/ q[i] = Answer(op)
      BY <2>1, <3>2, <3>3
    <3>5. Write(q)
      BY <3>1
    <3> HIDE DEF q
    <3> QED
      BY <3>3, <3>4, <3>5
  <2> QED
    BY <2>2, <2>3
<1>5. ASSUME NEW s \in Servers
      PROVE  \/ run'[s] = run[s] /\ Silent(msgs, s)
             \/ /\ Len(msgs) # 0 /\ About(msgs[Len(msgs)], s)
                /\ Tells(msgs[Len(msgs)].note, run'[s])
  <2>1. CASE s = t
    BY <1>1, <1>2, <1>4, <2>1 DEF About
  <2>2. CASE s # t
    <3>1. Silent(msgs, s)
      <4>1. ~About(msg, s) /\ \A op \in Ops : ~About(Answer(op), s)
        BY <1>2, <2>2 DEF About, Answer
      <4> HIDE DEF msg
      <4> QED
        BY <1>4, <4>1 DEF Silent
    <3> QED
      BY <1>1, <2>2, <3>1
  <2> QED
    BY <2>1, <2>2
<1> QED
  BY <1>4, <1>5, WrittenView

LEMMA ServerView ==
  ASSUME SessionInv, ViewInv,
         \/ ServerHandles \/ \E op \in Ops : ServerAnswers(op)
         \/ \E s \in Servers : ServerEvolves(s) \/ OtherClient(s)
  PROVE  ViewInv'
<1>1. SessionTypeOK
  BY DEF SessionInv
<1>2. ASSUME NEW op \in Ops, Write(<<Answer(op)>>), UNCHANGED <<vars, run>>
      PROVE  ViewInv'
  <2>1. <<Answer(op)>> \in Seq(Messages)
    BY AnswerMessage
  <2> QED
    BY <1>2, <2>1, AnswerIsSilent, WrittenView
<1>3. CASE ServerHandles
  <2>1. Head(asked) \in Ops
    BY <1>1, <1>3, HeadAndTail DEF ServerHandles, SessionTypeOK
  <2> DEFINE op == Head(asked)
             t  == Subject[op]
             to == Effect[Api[op]].to
  <2>2. CASE ServerAccepts(op)
    <3>1. /\ t \in Servers /\ to \in RunStates
          /\ run[t] = "absent" => to = "stopped"
      BY <2>1, <2>2, CallsOfSessions, Effects DEF ServerAccepts
    <3>2. /\ run' = [run EXCEPT ![t] = to] /\ UNCHANGED vars
          /\ Write(Note(t, to)) \/ Write(<<Answer(op)>> \o Note(t, to))
      BY <1>3, <2>2 DEF ServerHandles, ServerAccepts, Moves
    <3> HIDE DEF op, t, to
    <3>3. op \in Ops
      BY <2>1 DEF op
    <3> QED
      BY <3>1, <3>2, <3>3, MovesView
  <2>3. CASE ServerRefuses(op)
    BY <1>2, <1>3, <2>1, <2>3 DEF ServerHandles, ServerRefuses
  <2> QED
    BY <1>3, <2>2, <2>3 DEF ServerHandles
<1>4. ASSUME NEW op \in Ops, ServerAnswers(op) PROVE ViewInv'
  BY <1>2, <1>4 DEF ServerAnswers
<1>5. ASSUME NEW s \in Servers, ServerEvolves(s) PROVE ViewInv'
  <2>1. PICK to \in RunStates :
          /\ run[s] # "absent" /\ run' = [run EXCEPT ![s] = to] /\ Write(Note(s, to))
    BY <1>5 DEF ServerEvolves, Moves, RunStates
  <2> QED
    BY <1>5, <2>1, MovesView DEF ServerEvolves
<1>6. ASSUME NEW s \in Servers, OtherClient(s) PROVE ViewInv'
  <2>1. PICK to \in RunStates :
          /\ run[s] = "absent" => to = "stopped"
          /\ run' = [run EXCEPT ![s] = to] /\ Write(Note(s, to))
    BY <1>6, Effects DEF OtherClient, Moves
  <2> QED
    BY <1>6, <2>1, MovesView DEF OtherClient
<1> QED
  BY <1>3, <1>4, <1>5, <1>6

LEMMA InitView == SessionInit => ViewInv
BY TheConnection DEF SessionInit, Init, ViewInv, Open

LEMMA NextView == SessionInv /\ ViewInv /\ [SessionNext]_sessionVars => ViewInv'
<1> SUFFICES ASSUME SessionInv, ViewInv, [SessionNext]_sessionVars PROVE ViewInv'
  OBVIOUS
<1>1. ASSUME UNCHANGED <<run, pipe, log, connState>> PROVE ViewInv'
  BY <1>1 DEF ViewInv, Open, LastWordComes, LastWordHeard, Silent, About
<1>2. ASSUME NEW op \in Ops, NEW c \in Conns, SessionCall(op, c) PROVE ViewInv'
  BY <1>1, <1>2 DEF SessionCall, Call, connVars
<1>3. ASSUME Receive PROVE ViewInv'
  <2>1. /\ pipe # <<>> /\ pipe' = Tail(pipe) /\ run' = run /\ connState' = connState
        /\ \/ log' = log /\ Head(pipe).kind = "answer"
           \/ log' = Append(log, Head(pipe).note) /\ Head(pipe).kind = "note"
    BY <1>3 DEF Receive, Deliver, AnswerRequest, connVars, histVars
  <2> QED
    BY <2>1, HandledView
<1>4. ASSUME ClientTurn PROVE ViewInv'
  <2>1. UNCHANGED <<run, pipe>>
    BY <1>4 DEF ClientTurn, serverVars
  <2>2. ASSUME NEW op \in Ops, RunCompletion(op) \/ TimerFires(op) PROVE ViewInv'
    BY <1>1, <2>1, <2>2 DEF RunCompletion, TimerFires, connVars, histVars
  <2>3. TypeOK
    BY DEF SessionInv, SessionTypeOK
  <2>4. CASE Connect(TheConn)
    <3>1. pipe = <<>> /\ log = <<>> /\ log' = log /\ connState'[TheConn] = "open"
      BY <2>3, <2>4, TheConnection DEF Connect, ViewInv, histVars, TypeOK
    <3> QED
      BY <2>1, <3>1 DEF ViewInv, LastWordComes, LastWordHeard
  <2>5. CASE RemoteClose(TheConn) \/ Disconnect
    <3>1. connState'[TheConn] \in {"closed", "disposed"}
      BY <2>3, <2>5, TheConnection DEF RemoteClose, Disconnect, TypeOK
    <3> QED
      BY <3>1 DEF ViewInv, Open
  <2> QED
    BY <1>4, <2>2, <2>4, <2>5 DEF ClientTurn
<1>5. ASSUME UNCHANGED sessionVars PROVE ViewInv'
  BY <1>1, <1>5 DEF sessionVars, vars, connVars, histVars, serverVars
<1> QED
  BY <1>2, <1>3, <1>4, <1>5, ServerView DEF SessionNext

(* In every behaviour the client's view of a server is right once it has   *)
(* heard all that the server wrote.                                        *)
THEOREM ViewInvariance == SessionSpec => []ViewInv
BY InitView, NextView, SessionInvariance, PTL DEF SessionSpec

(* A resolved promise tells the state of its server, whoever brought it    *)
(* there, until the client hears more of the server or loses it.           *)
THEOREM ResolutionTellsState == SessionSpec => []ResolvedTellsState
<1>1. SessionInv /\ ViewInv => ResolvedTellsState
  <2> SUFFICES ASSUME SessionInv, ViewInv, NEW op \in Ops,
                      promise[op] = "resolved", Open,
                      \A i \in matched[op] + 1 .. Len(log) : log[i].subject # Subject[op],
                      \A m \in ToSet(pipe) : m.kind = "note" => m.note.subject # Subject[op]
               PROVE  run[Subject[op]] = Effect[Api[op]].goal
    BY DEF ResolvedTellsState, Open
  <2>1. /\ matched[op] \in 1 .. Len(log) /\ Accepts(op, log[matched[op]])
        /\ log \in Seq(Wire) /\ pipe \in Seq(Messages)
    BY DEF SessionInv, StrongInv, Inv, CompletionsServed, CaptureFits, Served, TypeOK,
       SessionTypeOK
  <2>2. Silent(pipe, Subject[op])
    BY <2>1 DEF Silent, About, ToSet
  <2>3. log[matched[op]].subject = Subject[op] /\ Subject[op] \in Servers
    BY <2>1, CallsOfSessions DEF Accepts
  <2>4. Tells(log[matched[op]], run[Subject[op]])
    BY <2>1, <2>2, <2>3 DEF ViewInv, LastWordHeard
  <2> QED
    BY <2>1, <2>4, CallsOfSessions, Effects DEF Tells, Accepts, EventOf, Awaits
<1> QED
  BY <1>1, SessionInvariance, ViewInvariance, PTL

-----------------------------------------------------------------------------
(* Where a request is: while the connection is open, that of every call is *)
(* in one of the places that an answer comes from, refused requests too.   *)

RequestInPlace(op) == promise[op] # "uncalled" => op \in ToSet(asked) \/ AnswerComes(op)

PlacesInv == Open => \A op \in Ops : RequestInPlace(op)

(* A request moves on only to be owed or to have its answer written. *)
LEMMA ServerPlaces ==
  ASSUME SessionInv, PlacesInv, UNCHANGED vars, NEW msgs \in Seq(Messages), Write(msgs),
         \A op \in ToSet(asked) : op \in ToSet(asked') \/ AnswerComes(op)'
                                  \/ Answer(op) \in ToSet(msgs),
         \A op \in owed : op \in owed' \/ Answer(op) \in ToSet(msgs)
  PROVE  PlacesInv'
<1> SUFFICES ASSUME Open, NEW op \in Ops, promise[op] # "uncalled"
             PROVE  op \in ToSet(asked') \/ AnswerComes(op)'
  BY DEF PlacesInv, RequestInPlace, Open, vars, callVars, connVars
<1>1. stage' = stage /\ SessionTypeOK
  BY DEF vars, callVars, SessionInv
<1>2. \A m \in ToSet(pipe) \cup ToSet(msgs) : m \in ToSet(pipe')
  BY <1>1, Written
<1>3. op \in ToSet(asked) \/ AnswerComes(op)
  BY DEF PlacesInv, RequestInPlace
<1> QED
  BY <1>1, <1>2, <1>3 DEF AnswerComes

LEMMA CallPlaces ==
  ASSUME SessionInv, PlacesInv, NEW op \in Ops, NEW c \in Conns, SessionCall(op, c)
  PROVE  PlacesInv'
<1> SUFFICES ASSUME Open, NEW o \in Ops, promise'[o] # "uncalled"
             PROVE  o \in ToSet(asked') \/ AnswerComes(o)'
  BY DEF PlacesInv, RequestInPlace, Open, SessionCall, Call, connVars
<1>1. TypeOK /\ asked \in Seq(Ops) /\ c = TheConn
  BY TheConnection DEF SessionInv, SessionTypeOK
<1>2. asked' = Append(asked, op) /\ UNCHANGED <<owed, pipe>>
  BY <1>1 DEF SessionCall, Open
<1>3. ToSet(asked') = ToSet(asked) \cup {op}
  BY <1>1, <1>2, Appended
<1>4. o # op => promise'[o] = promise[o] /\ stage'[o] = stage[o]
  BY <1>1 DEF SessionCall, Call, TypeOK
<1>5. o # op => o \in ToSet(asked) \/ AnswerComes(o)
  BY <1>4 DEF PlacesInv, RequestInPlace
<1> QED
  BY <1>2, <1>3, <1>4, <1>5 DEF AnswerComes

LEMMA ReceivePlaces ==
  ASSUME SessionInv, PlacesInv, Receive
  PROVE  PlacesInv'
<1>1. /\ TypeOK /\ pipe \in Seq(Messages) /\ pipe # <<>> /\ pipe' = Tail(pipe)
      /\ UNCHANGED <<asked, owed, promise, connState>>
  BY DEF SessionInv, SessionTypeOK, Receive, Deliver, AnswerRequest, connVars
<1>2. /\ Head(pipe) \in Messages
      /\ \A m \in ToSet(pipe) : m = Head(pipe) \/ m \in ToSet(pipe')
  BY <1>1, HeadAndTail
<1>3. ASSUME NEW op \in Ops, AnswerComes(op) PROVE AnswerComes(op)'
  <2>1. CASE Head(pipe).kind = "note" /\ Deliver(TheConn, Head(pipe).note)
    <3>1. Answer(op) # Head(pipe) /\ stage' = stage
      BY <2>1 DEF Answer, Deliver
    <3> QED
      BY <1>1, <1>2, <1>3, <3>1 DEF AnswerComes
  <2>2. CASE Head(pipe).kind = "answer" /\ AnswerRequest(Head(pipe).op)
    <3>1. PICK o \in Ops : Head(pipe) = Answer(o)
      BY <1>2, <2>2 DEF Messages
    <3>2. stage'[o] \in {"ok", "error"} /\ (op # o => stage'[op] = stage[op] /\ Answer(op) # Answer(o))
      BY <1>1, <2>2, <3>1 DEF Answer, AnswerRequest, TypeOK
    <3> QED
      BY <1>1, <1>2, <1>3, <3>1, <3>2 DEF AnswerComes
  <2> QED
    BY <2>1, <2>2 DEF Receive
<1> QED
  BY <1>1, <1>3 DEF PlacesInv, RequestInPlace, Open

LEMMA ClientPlaces ==
  ASSUME SessionInv, PlacesInv, ClientTurn
  PROVE  PlacesInv'
<1>1. TypeOK /\ NothingUnopened /\ UNCHANGED <<asked, owed, pipe>>
  BY DEF SessionInv, SessionTypeOK, ClientTurn, serverVars
<1>2. ASSUME NEW op \in Ops, RunCompletion(op) \/ TimerFires(op) PROVE PlacesInv'
  <2>1. /\ UNCHANGED <<stage, connState>>
        /\ \A o \in Ops : promise'[o] = "uncalled" <=> promise[o] = "uncalled"
    <3>1. CompletionsServed /\ UncalledIsClean
      BY DEF SessionInv, StrongInv, Inv
    <3> QED
      BY <1>1, <1>2, <3>1 DEF RunCompletion, TimerFires, Settle, TypeOK, connVars
  <2> QED
    BY <1>1, <2>1 DEF PlacesInv, RequestInPlace, AnswerComes, Open
<1>3. CASE Connect(TheConn)
  BY <1>1, <1>3 DEF Connect, NothingUnopened, PlacesInv, RequestInPlace, callVars
<1>4. CASE RemoteClose(TheConn) \/ Disconnect
  BY <1>1, <1>4, TheConnection DEF RemoteClose, Disconnect, TypeOK, PlacesInv, Open
<1> QED
  BY <1>2, <1>3, <1>4 DEF ClientTurn

LEMMA ServerStepPlaces ==
  ASSUME SessionInv, PlacesInv,
         \/ ServerHandles
         \/ \E op \in Ops : ServerAnswers(op)
         \/ \E s \in Servers : ServerEvolves(s) \/ OtherClient(s)
  PROVE  PlacesInv'
<1>1. SessionTypeOK /\ asked \in Seq(Ops)
  BY DEF SessionInv, SessionTypeOK
<1>2. CASE ServerHandles
  <2>1. /\ UNCHANGED vars /\ Head(asked) \in Ops
        /\ \A o \in ToSet(asked) : o = Head(asked) \/ o \in ToSet(asked')
    BY <1>1, <1>2, HeadAndTail DEF ServerHandles
  <2>2. CASE ServerAccepts(Head(asked))
    <3> DEFINE op == Head(asked)
               note == Note(Subject[op], Effect[Api[op]].to)
    <3>1. note \in Seq(Messages)
      BY <1>1, <2>1, CallsOfSessions, Effects, NoteMessage
    <3>2. <<Answer(op)>> \in Seq(Messages) /\ Answer(op) \in ToSet(<<Answer(op)>>)
      BY <2>1, AnswerMessage
    <3>3. /\ <<Answer(op)>> \o note \in Seq(Messages)
          /\ Answer(op) \in ToSet(<<Answer(op)>> \o note)
      <4>1. /\ <<Answer(op)>> \o note \in Seq(Messages)
            /\ Range(<<Answer(op)>> \o note) = Range(<<Answer(op)>>) \cup Range(note)
        BY <3>1, <3>2, ConcatProperties, RangeConcatenation
      <4>2. \A q : Range(q) = ToSet(q)
        BY DEF Range, ToSet
      <4> QED
        BY <3>2, <4>1, <4>2
    <3>4. \/ Write(note) /\ owed' = owed \cup {op}
          \/ Write(<<Answer(op)>> \o note) /\ owed' = owed
      BY <2>2 DEF ServerAccepts
    <3> HIDE DEF op, note
    <3>5. \A o \in ToSet(asked) : o = op \/ o \in ToSet(asked')
      BY <2>1 DEF op
    <3> QED
      BY <2>1, <3>1, <3>3, <3>4, <3>5, ServerPlaces DEF AnswerComes
  <2>3. CASE ServerRefuses(Head(asked))
    <3>1. /\ <<Answer(Head(asked))>> \in Seq(Messages)
          /\ Answer(Head(asked)) \in ToSet(<<Answer(Head(asked))>>)
      BY <2>1, AnswerMessage
    <3>2. Write(<<Answer(Head(asked))>>) /\ owed' = owed
      BY <2>3 DEF ServerRefuses
    <3> QED
      BY <2>1, <3>1, <3>2, ServerPlaces
  <2> QED
    BY <1>2, <2>2, <2>3 DEF ServerHandles
<1>3. ASSUME NEW op \in Ops, ServerAnswers(op) PROVE PlacesInv'
  <2>1. /\ UNCHANGED vars /\ asked' = asked /\ owed' = owed \ {op}
        /\ Write(<<Answer(op)>>)
    BY <1>3 DEF ServerAnswers, vars, callVars, connVars, histVars
  <2> QED
    BY <2>1, AnswerMessage, ServerPlaces
<1>4. ASSUME NEW s \in Servers, ServerEvolves(s) \/ OtherClient(s) PROVE PlacesInv'
  <2>1. UNCHANGED vars /\ asked' = asked /\ owed' = owed
    BY <1>4 DEF ServerEvolves, OtherClient, vars, callVars, connVars, histVars
  <2>2. PICK to \in RunStates : Write(Note(s, to))
    BY <1>4, Effects DEF ServerEvolves, OtherClient, RunStates
  <2>3. Note(s, to) \in Seq(Messages)
    BY <1>1, NoteMessage
  <2> QED
    BY <2>1, <2>2, <2>3, ServerPlaces
<1> QED
  BY <1>2, <1>3, <1>4

(* In every behaviour each request of an open connection waits with the    *)
(* server, is owed an answer, or has its answer under way or handled.      *)
THEOREM PlacesInvariance == SessionSpec => []PlacesInv
<1>1. SessionInit => PlacesInv
  BY TheConnection DEF SessionInit, Init, PlacesInv, Open
<1>2. SessionInv /\ PlacesInv /\ [SessionNext]_sessionVars => PlacesInv'
  <2>1. UNCHANGED sessionVars /\ PlacesInv => PlacesInv'
    BY DEF PlacesInv, RequestInPlace, AnswerComes, Open, sessionVars, vars, callVars,
       connVars, serverVars
  <2> QED
    BY <2>1, CallPlaces, ReceivePlaces, ClientPlaces, ServerStepPlaces DEF SessionNext
<1> QED
  BY <1>1, <1>2, SessionInvariance, PTL DEF SessionSpec

(* Nobody waits for what was said already: the event of a call that is     *)
(* still pending in a quiet session, without an error for an answer, has   *)
(* not come since the call.  No emission is aborted while the connection   *)
(* is open, so the handler, still registered, has missed nothing.          *)
THEOREM NobodyWaitsInVain == SessionSpec => []PendingIsUnmet
<1>1. SessionInv /\ PlacesInv => PendingIsUnmet
  <2> SUFFICES ASSUME SessionInv, PlacesInv, Open, asked = <<>>, owed = {}, pipe = <<>>,
                      NoMicrotask, NEW op \in Ops, promise[op] = "pending",
                      stage[op] # "error", NEW i \in since[op] + 1 .. Len(log), Accepts(op, log[i])
               PROVE  FALSE
    BY DEF PendingIsUnmet, Open
  <2>1. /\ Waits(op) /\ CleanInv(op) /\ RequestInPlace(op) /\ AbortInv /\ NothingMissed
        /\ \A o \in Ops : Waits(o)
    BY DEF SessionInv, StrongInv, Inv, NothingLost, PlacesInv
  <2>2. ToSet(asked) = {} /\ ToSet(pipe) = {}
    BY EmptySeq DEF ToSet
  <2>3. stage[op] = "ok"
    BY <2>1, <2>2 DEF RequestInPlace, AnswerComes
  <2>4. matched[op] = 0 /\ Registered(op)
    BY <2>1, <2>3 DEF CleanInv, Served, NoMicrotask, Waits
  <2>5. i \in aborted
    BY <2>1, <2>4 DEF NothingMissed
  <2> QED
    BY <2>1, <2>5, CallsOfSessions DEF AbortInv, Waits
<1> QED
  BY <1>1, SessionInvariance, PlacesInvariance, PTL

(* The calls keep in front of the server what they promise anywhere: they  *)
(* implement AwaitedEvent, clean up, beat their timers once served, and    *)
(* leave each other's listeners alone.                                     *)
THEOREM SessionKeepsPromises ==
  SessionSpec =>
    /\ ImplementsAwaitedEvent
    /\ [](ResolvedJustified /\ FirstMatchWins /\ ServedIsCleanedUp /\ PendingIsArmed)
    /\ ServedBeatsTimeout /\ DisposedNeverServed /\ ListenersLeaveAlone
BY SessionIsSyncRequests, Refinement, ResolutionIsJustified, FirstAcceptableCaptured,
   CleanedUp, PendingCallsAreArmed, NoTimeoutOnceServed, DisposedStaysUnserved,
   ListenersLeaveOneByOne, PTL
=============================================================================

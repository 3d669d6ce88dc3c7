---------------------------- MODULE SyncRequests ----------------------------
(***************************************************************************)
(* The calls that send a request and then wait for an event: the five      *)
(* methods of OutgoingSynchronous and the two promise methods of           *)
(* ServerCreation (createServerFromBean, createServerFromPath).  They meet *)
(* in one EventEmitter, shared with the listeners of the user and with     *)
(* every connection the client ever opened, and they race with the answer  *)
(* of their request, with the notifications of the server, with their own  *)
(* timer and with the loss or disposal of the connection.                  *)
(*                                                                         *)
(* Each action is one turn of the JavaScript event loop, or one microtask. *)
(* A turn of the environment (message, timer, close) starts only when no   *)
(* microtask is pending; code of the user may run in a microtask too, so   *)
(* its calls are not guarded in that way.                                  *)
(***************************************************************************)
EXTENDS Integers, SequencesExt

CONSTANTS
  Ops,        \* the calls; each is made at most once
  Api,        \* Api[op]: the method that op is a call of
  Subject,    \* Subject[op]: the server id or the path the call is about
  Users,      \* listeners the user registers through Incoming
  UserEvent,  \* UserEvent[u]: the event u listens to
  Conns,      \* the connections the client may open, one after the other
  NoConn,     \* stands for an undefined connection
  Wire,       \* the notifications the server may send
  MaxEvents   \* bound on the number of notifications delivered

(* The event each method waits for. *)
Awaits ==
  [ addDiscoveryPathSync    |-> "discoveryPathAdded",
    removeDiscoveryPathSync |-> "discoveryPathRemoved",
    startServerSync         |-> "serverStateChanged",
    stopServerSync          |-> "serverStateChanged",
    deleteServerSync        |-> "serverRemoved",
    createServerFromBean    |-> "serverAdded",
    createServerFromPath    |-> "serverAdded" ]

Apis   == DOMAIN Awaits

(* The events Incoming emits, one for each notification of the server. *)
Events == {"messageBox", "discoveryPathAdded", "discoveryPathRemoved",
           "serverAdded", "serverRemoved", "serverAttributesChanged",
           "serverStateChanged", "serverProcessCreated",
           "serverProcessTerminated", "serverProcessOutputAppended",
           "jobAdded", "jobRemoved", "jobChanged"}
States == {"started", "stopped", "other"}

(* A notification names its event, the server or path it is about and, for *)
(* serverStateChanged, a run state.                                        *)
IsNote(note) == note.event \in Events /\ note.state \in States

ASSUME ApiAssumption       == Api \in [Ops -> Apis] /\ DOMAIN Subject = Ops
ASSUME ListenersDistinct   == Ops \cap Users = {}
ASSUME NoConnAssumption    == NoConn \notin Conns
ASSUME UserEventAssumption == UserEvent \in [Users -> Events]
ASSUME WireAssumption      == \A note \in Wire : IsNote(note)
ASSUME BoundAssumption     == MaxEvents \in Nat

(* Methods whose handler removes itself from the emitter on completion.    *)
(* The others go through Common.sendRequestSync, whose completion passes   *)
(* `listener` to removeListener although `handler` was registered.         *)
SelfRemoving_ButStop ==
  {"startServerSync", "createServerFromBean", "createServerFromPath"}
SelfRemoving ==
  {"startServerSync", "stopServerSync", "createServerFromBean",
   "createServerFromPath"}

(* Methods whose promise executor is an async function: an exception there *)
(* rejects the executor's own promise, which nobody holds.                 *)
AsyncExecutor == {"createServerFromBean", "createServerFromPath"}

(* Methods that send another request first and await its answer. *)
TwoStep == {"createServerFromPath"}

VARIABLES
  promise,    \* promise[op]: the promise handed to the caller
  timer,      \* timer[op]: the setTimeout of the call
  stage,      \* stage[op]: how far the request of the call has got
  chan,       \* chan[op]: the connection the call uses
  matched,    \* matched[op]: serial of the event captured by resolve, 0 if none
  ready,      \* calls whose completion callback is a pending microtask
  listeners,  \* listeners[e]: the emitter's listeners of event e, in order
  connState,  \* connState[c]
  current,    \* this.connection of the client
  log,        \* history: the notifications emitted, in order
  aborted,    \* history: serials of the emissions that ended in an exception
  since,      \* history: since[l]: length of log when l was registered
  heard       \* history: heard[u]: serials of the events u was called with

callVars == <<promise, timer, stage, chan, matched, ready>>
connVars == <<connState, current>>
histVars == <<log, aborted, since, heard>>
vars     == <<callVars, listeners, connVars, histVars>>

PromiseStates == {"uncalled", "pending", "resolved", "timeout", "connError"}
TimerStates   == {"unset", "armed", "cleared", "fired"}
(* finding, found: FindServerBeans sent, its answer in a microtask.  sent,  *)
(* ok, error: the request proper.  failed: it will never be sent.          *)
Stages        == {"idle", "finding", "found", "failed", "sent", "ok", "error"}
ConnStates    == {"unopened", "open", "closed", "disposed"}

TypeOK ==
  /\ promise   \in [Ops -> PromiseStates]
  /\ timer     \in [Ops -> TimerStates]
  /\ stage     \in [Ops -> Stages]
  /\ chan      \in [Ops -> Conns \cup {NoConn}]
  /\ matched   \in [Ops -> 0 .. Len(log)]
  /\ ready     \subseteq Ops
  /\ listeners \in [Events -> Seq(Ops \cup Users)]
  /\ connState \in [Conns -> ConnStates]
  /\ current   \in Conns \cup {NoConn}
  /\ log       \in Seq(Wire)
  /\ Len(log)  \in 0 .. MaxEvents
  /\ aborted   \subseteq 1 .. Len(log)
  /\ since     \in [Ops \cup Users -> 0 .. Len(log)]
  /\ heard     \in [Users -> SUBSET (1 .. Len(log))]

Init ==
  /\ promise   = [op \in Ops |-> "uncalled"]
  /\ timer     = [op \in Ops |-> "unset"]
  /\ stage     = [op \in Ops |-> "idle"]
  /\ chan      = [op \in Ops |-> NoConn]
  /\ matched   = [op \in Ops |-> 0]
  /\ ready     = {}
  /\ listeners = [e \in Events |-> <<>>]
  /\ connState = [c \in Conns |-> "unopened"]
  /\ current   = NoConn
  /\ log       = <<>>
  /\ aborted   = {}
  /\ since     = [l \in Ops \cup Users |-> 0]
  /\ heard     = [u \in Users |-> {}]
-----------------------------------------------------------------------------
(* The emitter, and what the handler of a call does with an event.         *)

EventOf(op) == Awaits[Api[op]]

Registered(l) == \E e \in Events : l \in ToSet(listeners[e])

(* prependListener(l) *)
PrependListener_AtEnd(q, l) == Append(q, l)
PrependListener(q, l) == Cons(l, q)

RemoveListener_All(q, l) == <<>>     \* removeAllListeners(eventId)
(* removeListener(l): the last occurrence of l goes. *)
RemoveListener(q, l) ==
  IF l \in ToSet(q)
  THEN RemoveAt(q, CHOOSE i \in DOMAIN q :
                     q[i] = l /\ \A j \in DOMAIN q : q[j] = l => j <= i)
  ELSE q

(* The same without the run state. *)
Accepts_AnyState(op, note) ==
  note.event = EventOf(op) /\ note.subject = Subject[op]
(* The condition of the handler of op, met by the parameters of a note. *)
Accepts(op, note) ==
  /\ note.event = EventOf(op)
  /\ note.subject = Subject[op]
  /\ Api[op] = "startServerSync" => note.state = "started"
  /\ Api[op] = "stopServerSync"  => note.state = "stopped"

(* The variable `response` (`result`) of the call has no value yet. *)
Unassigned_UntilAnswer(op) == stage[op] \notin {"ok", "error"}
Unassigned(op) == stage[op] \in {"idle", "finding", "found", "failed"}

(* Calling then on an unassigned response is a TypeError. *)
Throws(l, note) == l \in Ops /\ Accepts(l, note) /\ Unassigned(l)

(* emit calls the listeners in order and ends at the first that throws. *)
Called(q, note) ==
  {q[i] : i \in {i \in DOMAIN q : \A j \in 1 .. (i - 1) : ~Throws(q[j], note)}}

(* The calls whose handler captures a note: the first event it accepts is  *)
(* the one its promise may resolve with, as callbacks for later ones run   *)
(* after it and change nothing.                                            *)
Captures_Last(note) ==
  {op \in Ops : /\ op \in Called(listeners[note.event], note)
                /\ Accepts(op, note) /\ ~Unassigned(op)}
Captures_Any(note) ==
  {op \in Ops : /\ op \in Called(listeners[note.event], note)
                /\ ~Unassigned(op) /\ matched[op] = 0}
Captures(note) ==
  {op \in Ops : /\ op \in Called(listeners[note.event], note)
                /\ Accepts(op, note) /\ ~Unassigned(op)
                /\ matched[op] = 0}

(* Promises and microtasks. *)

(* resolve and reject: only the first of them counts. *)
Settle_TimerState(op, outcome) ==
  [promise EXCEPT ![op] = IF @ = "pending" THEN timer[op] ELSE @]
Settle_Again(op, outcome) == [promise EXCEPT ![op] = outcome]
Settle_IfRegistered(op, outcome) ==
  [promise EXCEPT ![op] = IF @ = "pending" /\ Registered(op) THEN outcome ELSE @]
Settle(op, outcome) ==
  [promise EXCEPT ![op] = IF @ = "pending" THEN outcome ELSE @]

(* A callback passed to response.then before the answer becomes a          *)
(* microtask with it, unless the answer is an error.                       *)
AfterAnswer_Forgotten(op, answer) == ready
AfterAnswer_Always(op, answer) ==
  IF matched[op] # 0 THEN ready \cup {op} ELSE ready
AfterAnswer(op, answer) ==
  IF answer = "ok" /\ matched[op] # 0 THEN ready \cup {op} ELSE ready

NoMicrotask == ready = {} /\ \A op \in Ops : stage[op] # "found"
-----------------------------------------------------------------------------
(* The user's code.                                                        *)

(* The executor of the promise: arm the timer, put the handler in front of *)
(* the event's listeners, send.  c is the connection of the handler object *)
(* the user holds: not always the current one, and not always open.        *)
Call(op, c) ==
  /\ promise[op] = "uncalled"
  /\ connState[c] # "unopened"
  /\ timer'     = [timer EXCEPT ![op] = "armed"]
  /\ listeners' = [listeners EXCEPT ![EventOf(op)] = PrependListener(@, op)]
  /\ chan'      = [chan EXCEPT ![op] = c]
  /\ since'     = [since EXCEPT ![op] = Len(log)]
  /\ \/ /\ connState[c] = "open"
        /\ promise' = [promise EXCEPT ![op] = "pending"]
        /\ stage'   = [stage EXCEPT ![op] =
                         IF Api[op] \in TwoStep THEN "finding" ELSE "sent"]
     \/ /\ connState[c] # "open"          \* sendRequest throws
        /\ promise' = [promise EXCEPT ![op] =
                         IF Api[op] \in AsyncExecutor THEN "pending"
                                                      ELSE "connError"]
        /\ stage'   = [stage EXCEPT ![op] = "failed"]
  /\ UNCHANGED <<matched, ready, connVars, log, aborted, heard>>

(* onServerAdded(listener), ... of Incoming *)
Subscribe(u) ==
  /\ ~Registered(u)
  /\ listeners' = [listeners EXCEPT ![UserEvent[u]] = Append(@, u)]
  /\ since'     = [since EXCEPT ![u] = Len(log)]
  /\ UNCHANGED <<callVars, connVars, log, aborted, heard>>

(* removeOnServerAdded(listener), ... of Incoming *)
Unsubscribe(u) ==
  /\ Registered(u)
  /\ listeners' = [listeners EXCEPT ![UserEvent[u]] = RemoveListener(@, u)]
  /\ UNCHANGED <<callVars, connVars, histVars>>

(* RSPClient.connect, once the socket is connected: the emitter and the    *)
(* connections opened before are left as they are.                         *)
Connect(c) ==
  /\ connState[c] = "unopened"
  /\ connState' = [connState EXCEPT ![c] = "open"]
  /\ current'   = c
  /\ UNCHANGED <<callVars, listeners, histVars>>

(* removeAllListeners *)
AllRemoved_None == listeners
AllRemoved == [e \in Events |-> <<>>]

(* What disposing the connection does to a request waiting on it. *)
Rejected(s) == CASE s = "sent"    -> "error"
                 [] s = "finding" -> "failed"
                 [] OTHER         -> s

(* RSPClient.disconnect: removeAllListeners, then dispose. *)
Disconnect ==
  /\ current # NoConn
  /\ listeners' = AllRemoved
  /\ connState' = [connState EXCEPT ![current] = "disposed"]
  /\ stage'     = [op \in Ops |->
                     IF chan[op] = current THEN Rejected(stage[op])
                                           ELSE stage[op]]
  /\ UNCHANGED <<promise, timer, chan, matched, ready, current, histVars>>
-----------------------------------------------------------------------------
(* Turns of the event loop.  Messages read before the peer closed are      *)
(* still handled afterwards; after dispose they are dropped.               *)

Readable(c) == connState[c] \in {"open", "closed"}

(* The answer of FindServerBeans: some beans, or an error or an empty list *)
(* (whose serverBeans[0].location throws in the async executor).           *)
AnswerBeans(op) ==
  /\ NoMicrotask
  /\ stage[op] = "finding" /\ Readable(chan[op])
  /\ \E s \in {"found", "failed"} : stage' = [stage EXCEPT ![op] = s]
  /\ UNCHANGED <<promise, timer, chan, matched, ready, listeners, connVars, histVars>>

(* The continuation after the await: send CreateServer. *)
SendCreate(op) ==
  /\ stage[op] = "found"
  /\ stage' = [stage EXCEPT ![op] =
                 IF connState[chan[op]] = "open" THEN "sent" ELSE "failed"]
  /\ UNCHANGED <<promise, timer, chan, matched, ready, listeners, connVars, histVars>>

(* The answer of the request. *)
AnswerRequest(op) ==
  /\ NoMicrotask
  /\ stage[op] = "sent" /\ Readable(chan[op])
  /\ \E answer \in {"ok", "error"} :
       /\ stage' = [stage EXCEPT ![op] = answer]
       /\ ready' = AfterAnswer(op, answer)
  /\ UNCHANGED <<promise, timer, chan, matched, listeners, connVars, histVars>>

(* A notification arrives on c and is emitted. *)
Deliver(c, note) ==
  LET q       == listeners[note.event]
      serial  == Len(log) + 1
  IN
  /\ NoMicrotask
  /\ Readable(c) /\ Len(log) < MaxEvents
  /\ log'     = Append(log, note)
  /\ matched' = [op \in Ops |-> IF op \in Captures(note) THEN serial ELSE matched[op]]
  /\ ready'   = ready \cup {op \in Captures(note) : stage[op] = "ok"}
  /\ aborted' = IF \E l \in ToSet(q) : Throws(l, note)
                THEN aborted \cup {serial} ELSE aborted
  /\ heard'   = [u \in Users |-> IF u \in Called(q, note)
                                 THEN heard[u] \cup {serial} ELSE heard[u]]
  /\ UNCHANGED <<promise, timer, stage, chan, listeners, connVars, since>>

(* The callback passed to response.then: clearTimeout, removeListener and  *)
(* resolve, the last without effect on a promise that is settled already.  *)
RunCompletion(op) ==
  /\ op \in ready
  /\ ready'     = ready \ {op}
  /\ timer'     = [timer EXCEPT ![op] = IF @ = "armed" THEN "cleared" ELSE @]
  /\ listeners' = IF Api[op] \in SelfRemoving
                  THEN [listeners EXCEPT ![EventOf(op)] = RemoveListener(@, op)]
                  ELSE listeners
  /\ promise'   = Settle(op, "resolved")
  /\ UNCHANGED <<stage, chan, matched, connVars, histVars>>

(* The timer rejects the promise, unless it is settled already. *)
TimerFires(op) ==
  /\ NoMicrotask
  /\ timer[op] = "armed"
  /\ timer'   = [timer EXCEPT ![op] = "fired"]
  /\ promise' = Settle(op, "timeout")
  /\ UNCHANGED <<stage, chan, matched, ready, listeners, connVars, histVars>>

(* The peer closes: the connection object is closed, nothing is rejected. *)
RemoteClose(c) ==
  /\ NoMicrotask
  /\ connState[c] = "open"
  /\ connState' = [connState EXCEPT ![c] = "closed"]
  /\ UNCHANGED <<callVars, listeners, current, histVars>>
-----------------------------------------------------------------------------
Next ==
  \/ \E op \in Ops : \/ \E c \in Conns : Call(op, c)
                     \/ AnswerBeans(op)
                     \/ SendCreate(op)
                     \/ AnswerRequest(op)
                     \/ RunCompletion(op)
                     \/ TimerFires(op)
  \/ \E c \in Conns : \/ \E note \in Wire : Deliver(c, note)
                      \/ Connect(c)
                      \/ RemoteClose(c)
  \/ \E u \in Users : Subscribe(u) \/ Unsubscribe(u)
  \/ Disconnect

(* The loop runs every microtask and every timer; nothing is promised of   *)
(* the server, the network or the user.                                    *)
Fairness ==
  \A op \in Ops : /\ WF_vars(SendCreate(op))
                  /\ WF_vars(RunCompletion(op))
                  /\ WF_vars(TimerFires(op))

Spec     == Init /\ [][Next]_vars
FairSpec == Spec /\ Fairness
-----------------------------------------------------------------------------
(* Properties.                                                             *)

(* The completion callback of op has been scheduled or has run: its        *)
(* request was answered without error and an event it accepts was emitted. *)
Served(op) == stage[op] = "ok" /\ matched[op] # 0

(* A promise resolves only when its request succeeded, and then with an    *)
(* event that its listener condition accepts and that was emitted after    *)
(* the call: never with one of another server, path or state, and never    *)
(* with a notification left over from before the call.                     *)
ResolvedJustified ==
  \A op \in Ops : promise[op] = "resolved" =>
    /\ stage[op] = "ok"
    /\ matched[op] > since[op]
    /\ Accepts(op, log[matched[op]])

(* The event captured is the first acceptable one since the call, except   *)
(* for events whose emission an exception cut short (FindServerBeans still *)
(* outstanding, or a handler left behind by a request that was not sent).  *)
FirstMatchWins ==
  \A op \in Ops : matched[op] # 0 =>
    \A i \in since[op] + 1 .. matched[op] - 1 :
      Accepts(op, log[i]) => i \in aborted

(* Once served and done with its microtask, a call leaves nothing behind:  *)
(* its promise is settled, its timer is not armed, and the methods that    *)
(* carry their own listener have taken it off the emitter, even if the     *)
(* answer came only after the timeout.                                     *)
ServedIsCleanedUp ==
  \A op \in Ops : Served(op) /\ op \notin ready =>
    /\ promise[op] # "pending" /\ timer[op] # "armed"
    /\ Api[op] \notin {"addDiscoveryPathSync", "removeDiscoveryPathSync",
                       "deleteServerSync"} => ~Registered(op)

(* An emission ends in an exception only because of a call that accepts    *)
(* the event and whose request has not been sent at that moment: a         *)
(* createServerFromPath between its two requests, or a call whose          *)
(* sendRequest threw and whose handler nobody took off.  From the moment   *)
(* its request is sent, no call cuts an emission short, answered or not.   *)
AbortedByUnsentRequest ==
  [][\A i \in aborted' \ aborted : \E op \in Ops :
       /\ promise[op] # "uncalled" /\ since[op] < i /\ Accepts(op, log'[i])
       /\ \/ stage[op] = "finding" /\ Api[op] = "createServerFromPath"
          \/ stage[op] = "failed"]_vars

(* A registered listener of the user was called with exactly the events    *)
(* emitted since it was registered, except the aborted ones: handlers of   *)
(* calls are always in front of it, whatever the order of registration.    *)
UserHearsAllButAborted ==
  \A u \in Users : Registered(u) =>
    \A i \in since[u] + 1 .. Len(log) :
      log[i].event = UserEvent[u] => (i \in heard[u] <=> i \notin aborted)

(* A call that is served never ends in a timeout: the completion callback  *)
(* runs before any timer can fire.                                         *)
ServedBeatsTimeout ==
  [][\A op \in Ops : promise[op] = "pending" /\ promise'[op] = "timeout"
       => ~Served(op)]_vars

(* A pending promise always has an armed timer: also the one whose request *)
(* failed inside an async executor, whose handler disconnect took away, or *)
(* whose connection is gone.  Nothing else would ever settle those.        *)
PendingIsArmed == \A op \in Ops : promise[op] = "pending" => timer[op] = "armed"

(* Calls and users share the emitter and keep out of each other's way: a   *)
(* listener leaves alone, that of a call only once the call is served;     *)
(* except in disconnect, which takes all of them.                          *)
ListenersLeaveAlone ==
  [][\A l \in Ops \cup Users : Registered(l) /\ ~Registered(l)' =>
       \/ /\ l \in Ops => Served(l)
          /\ \A k \in (Ops \cup Users) \ {l} : Registered(k) => Registered(k)'
       \/ /\ \E c \in Conns : c = current /\ connState'[c] = "disposed"
          /\ \A k \in Ops \cup Users : ~Registered(k)']_vars

(* A call not yet served when its connection is disposed never is, so its  *)
(* promise never resolves, not even when the client reconnects and the     *)
(* event it waits for arrives on the new connection: disconnect took its   *)
(* handler away and rejected its request.                                  *)
DisposedNeverServed ==
  [][\A op \in Ops :
       promise[op] # "uncalled" /\ connState[chan[op]] = "disposed" /\ ~Served(op)
       => ~Served(op)']_vars

(* Seen through promise and log alone, the calls do what AwaitedEvent      *)
(* promises; with fairness, they also never wait for ever.                 *)
Outcome == INSTANCE AwaitedEvent WITH
  Calls      <- Ops,
  Wire       <- Wire,
  Satisfying <- [op \in Ops |-> {note \in Wire : Accepts(op, note)}],
  outcome    <- promise,
  events     <- log,
  since      <- [op \in Ops |-> since[op]]

ImplementsAwaitedEvent     == Outcome!Spec
ImplementsFairAwaitedEvent == Outcome!FairSpec

(* Every call settles, whatever the server, the network and the user do.   *)
EveryCallSettles ==
  \A op \in Ops : promise[op] = "pending" ~> promise[op] # "pending"

(* The inductive invariant behind ResolvedJustified, FirstMatchWins and the *)
(* refinement: a call not made yet owns nothing; a handler hangs on the    *)
(* event of its method only; what a handler captured fits it; completion   *)
(* callbacks and resolutions belong to served calls; and a handler still   *)
(* registered has let no event pass but aborted ones.                      *)
UncalledIsClean ==
  \A op \in Ops : promise[op] = "uncalled" =>
    stage[op] = "idle" /\ matched[op] = 0 /\ op \notin ready /\ ~Registered(op)

HandlersOnOwnEvent ==
  \A e \in Events, op \in Ops : op \in ToSet(listeners[e]) => e = EventOf(op)

CaptureFits ==
  \A op \in Ops : matched[op] # 0 =>
    /\ matched[op] > since[op] /\ Accepts(op, log[matched[op]])
    /\ stage[op] \in {"sent", "ok", "error"}

CompletionsServed ==
  \A op \in Ops : op \in ready \/ promise[op] = "resolved" => Served(op)

NothingMissed ==
  \A op \in Ops : matched[op] = 0 /\ Registered(op) =>
    \A i \in since[op] + 1 .. Len(log) : Accepts(op, log[i]) => i \in aborted

Inv ==
  /\ TypeOK /\ UncalledIsClean /\ HandlersOnOwnEvent /\ CaptureFits
  /\ CompletionsServed /\ NothingMissed /\ FirstMatchWins

(* What the test "should subscribe to the correct event and remove the     *)
(* listener after success" says of sendRequestSync: once the promise has   *)
(* resolved, the handler it registered is off the emitter.                 *)
HandlerRemovedOnSuccess ==
  \A op \in Ops : promise[op] = "resolved" => ~Registered(op)

(* What the docs of ServerCreation tell the user to rely on: a listener    *)
(* registered for 'serverAdded' sees every server that is added.           *)
UserHearsAll ==
  \A u \in Users : Registered(u) =>
    \A i \in since[u] + 1 .. Len(log) :
      log[i].event = UserEvent[u] => i \in heard[u]
=============================================================================

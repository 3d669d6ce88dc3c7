# Verification of rsp-client

TLA+ models of the client of the Runtime Server Protocol (`src/src/**`), the
TLC runs that check them and the theorems that TLAPS proves about them. Paths
below are relative to the repository; `util/` and `protocol/` are under
`src/`.

## The system

The client is a library in one JavaScript thread. It opens a socket to an RSP
server, puts a JSON-RPC connection on it, sends requests and notifications, and
re-emits the server's notifications through one `EventEmitter`. The emitter
belongs to the `RSPClient` object and outlives every connection.

| Component | State | Operations | What makes it correct |
|---|---|---|---|
| `RSPClient` (`client.ts`) | `socket`, `connection`, the emitter, the handler objects of the latest connection | `connect`, `disconnect`, `shutdownServer`, `onConnectionClosed`, getters | the connection in use reads the socket in use; a disconnect leaves nothing open; every connect settles |
| `Common` (`util/common.ts`) | per call: timer, response, handler | `sendSimpleRequest`, `sendRequestSync`, `sendSimpleNotification` | one outcome per call, justified by an answer, an event or a timer; nothing left behind |
| `OutgoingSynchronous` (`util/outgoingsync.ts`) | per call: timer, response, listener | add/remove discovery path, start, stop, delete | the same, and the right event: this server, this path, this state |
| `ServerCreation` (`util/serverCreation.ts`) | per call: timers, two requests, listener | create from bean or path, promise or async | the same across two requests |
| `Incoming` (`protocol/generated/incoming.ts`) | listeners of the emitter | `listen`, `on…`, `removeOn…`, `onPromptString` | each notification reaches the listeners once, in order |
| `Outgoing` (`protocol/generated/outgoing.ts`) | none | about 35 request methods, 2 notifications | as `sendSimpleRequest` |
| `Messages`, `Protocol`, `ServerState` | none | types and constants | – |
| `StatusSeverity` (`util/statusSeverity.ts`) | none | five bit tests | classifies as the protocol's severities say |

Components interact through calls (methods to `Common`), callbacks (timers,
answers, socket events), and above all through the shared emitter: handlers of
calls are *prepended*, listeners of the user are *appended*, an exception in one
listener ends the emission, `disconnect` clears the emitter for everybody, and
`connect` hands the same emitter to the next connection.

What is hard: an event may overtake the answer of its request, come before the
request is sent, or after the timeout; a request may fail to be sent after its
handler was registered; the connection may close or be disposed at any point,
also between an `await` and its continuation; a connect overtaken by a further
one, before or after it timed out, may still connect, and puts a second
connection on the socket of that later attempt; the server may move on its own
or for another client, so that a notification under way tells of an earlier run.
`PROJECT.json` lists these hazards at their lines.

## Modules

| Module | Models | Role |
|---|---|---|
| `SyncRequests` | `outgoingsync.ts`, the promise methods of `serverCreation.ts`, `Common.sendRequestSync`, the emitter, `Incoming` | the core: calls that wait for an event |
| `AwaitedEvent` | – | what such a call promises its caller; implemented by `SyncRequests` |
| `MCSyncRequests` | – | instances of `SyncRequests` |
| `SyncRequestsProofs`, `SyncCleanupProofs` | – | theorems about `SyncRequests` |
| `ServerSession` | the RSP server, as `messages.ts` documents its notifications, and its connection | extends `SyncRequests`: start, stop, create and delete in front of a server |
| `MCServerSession` | – | the instance of `ServerSession` |
| `ServerSessionProofs` | – | theorems about `ServerSession`, from those about `SyncRequests` |
| `SimpleRequests` | `Outgoing`, `Common.sendSimpleRequest`, the async methods of `serverCreation.ts` | calls that wait for an answer, on a clock |
| `BoundedCall` | – | what such a call promises its caller; implemented by `SimpleRequests` |
| `SimpleRequestsProofs` | – | theorems about `SimpleRequests` |
| `Lifecycle` | `client.ts` | sockets, connections and the fields of the client |
| `LifecycleProofs` | – | theorems about `Lifecycle` |
| `Routing` | `client.ts:54-72`, `Incoming`, `onPromptString` | extends `Lifecycle`: which connection handles which message |
| `RoutingProofs` | – | theorems about `Routing`, from those about `Lifecycle` |
| `StatusSeverity` | `statusSeverity.ts` | its tests, and theorems about them |

### Conventions

*Event loop.* An action is one turn of the loop or one microtask. A turn of the
environment (message, timer, close) requires that no microtask is pending
(`NoMicrotask`). Calls by the user have no such guard: the user's code may run
in a microtask (after an `await`) or inside a listener. A call made inside a
listener is the same as one right after the emission, because node emits over a
copy of the listeners and handlers of calls come before the user's.

*External code.* node's emitter, sockets and timers and vscode-jsonrpc 3.6.2 are
modelled from what the client uses of them: `sendRequest` and
`sendNotification` throw on a closed or disposed connection; `dispose` rejects
the responses outstanding; a close by the peer rejects nothing, and messages
already read are still handled; of `resolve` and `reject` only the first counts.

*History variables* (`log`, `aborted`, `since`, `heard`; `sent`, `acceptedAt`,
`fulfilled`; `overtaken`; `handledBy`, `refused`; and those named so in
`SimpleRequests`) record what happened for the properties; no guard but a bound
reads them.

*Definitions with a suffix* after an underscore (`Captures_Last`,
`Settle_Again`, …) are variants of the definition that follows them, each with
a plausible bug. They are used by no action: substituted for that definition,
they make a property fail, which shows that the property depends on the code.

### SyncRequests

A call is an element of `Ops` with a method (`Api`) and a subject (`Subject`).
All seven methods run the same four steps, and differ in three sets:
`AsyncExecutor` (an exception in the executor is swallowed, else it rejects),
`TwoStep` (FindServerBeans goes first) and `SelfRemoving` (completion takes the
handler off the emitter).

| State | Code |
|---|---|
| `promise`, `timer` | the promise returned, its `setTimeout` |
| `stage` | `response`/`result`: no value (`idle`, `finding`, `found`, `failed`), a pending promise (`sent`), a settled one (`ok`, `error`) |
| `chan` | the connection of the handler object the method was called on |
| `matched`, `ready` | the event captured by the callback passed to `then`, and whether that callback is a pending microtask |
| `listeners` | the emitter, one sequence for each event |
| `connState`, `current` | the connections and `this.connection` |

Actions: `Call`, `Subscribe`, `Unsubscribe`, `Connect`, `Disconnect` (user);
`AnswerBeans`, `SendCreate`, `AnswerRequest`, `Deliver`, `RunCompletion`,
`TimerFires`, `RemoteClose` (event loop). Only the first event a handler
captures is recorded: callbacks for later ones run after it, and their
`clearTimeout`, `removeListener` and `resolve` then change nothing.

What a call promises its caller is `AwaitedEvent` and the properties on
captured events; what calls owe each other is that they share an emitter without
disturbing each other (`ListenersLeaveAlone`), and that whatever goes wrong with
request, handler or connection leaves a timer to end the call (`PendingIsArmed`).

### ServerSession

The calls of `SyncRequests` on one connection, in front of a server that is not
part of this repository. `run[s]` is the state of server adapter `s`, `Effect`
what the server does for each method: the state in which it accepts the request,
the one it moves to at once, and the goal. `asked` and `pipe` are the two
directions of the connection, in order; `owed` are the requests accepted and not
answered yet. The server takes an adapter through its run states in their
documented order (`UNKNOWN` left out). Within that it may answer before or after
the notification it causes, refuse a request (the answer is then a Status that
no completion callback looks at), answer with an error, fail a start, and change
state for other clients at any time (`OtherClient`). Messages to the client get
lost with the connection.

An error answer rejects the promise of `sendRequest`, which has no rejection
handler (`util/outgoingsync.ts:79`, `util/common.ts:57`): a call so answered
waits for its timer even if its event has come. The properties below except such
calls, by `stage[op] = "error"`.

| Action | Stands for |
|---|---|
| `SessionCall`, `Receive` | `Call`, and `Deliver` or `AnswerRequest` with the next message of the pipe |
| `ClientTurn` | completions, timers, connect, close and disconnect of `SyncRequests` |
| `ServerHandles`, `ServerAnswers` | the server takes a request, or answers one it accepted |
| `ServerEvolves`, `OtherClient` | a start or stop ends; another client changes the server |

Two properties say that nobody waits for what was said already: a call the server
fulfilled (`NoLostWakeup`), and any call, also a refused one, whose event the
client has handled since (`PendingIsUnmet`).

A stale notification may resolve a call (`session_stale`), so what a resolution
is worth has to be said with care: as long as nothing more about the server is
heard or under way, it is in the state that the call asked for
(`ResolvedTellsState`), whoever brought it there.

createServerFromPath, the two discovery path methods and a second connection are
left to `SyncRequests`, which puts no order on messages at all.

### SimpleRequests

Each request has a timer with a due time on a discrete clock; time passes only
when nothing is due. `createServerFromPathAsync` makes a `Find` request with
half the timeout, then, from a microtask, a `Main` request with the whole. The
promise of the caller (`Outcome`) is a function of those of the two requests.
`BoundedCall` knows neither requests nor timers: a call has one outcome, resolves
in the same moment as its answer comes, and is settled before its budget is used
up. The refinement maps the two requests of createServerFromPathAsync to one
call whose budget is one and a half timeouts.

### Lifecycle

Attempt `a` to connect creates socket `a`; its connect handler creates
connection `a`, which reads *`this.socket`* of that moment (`reads`). Attempts
are numbered in the order of the calls; nothing makes the user wait for one
before the next (`USAGE.md:23` has a bare `client.connect();`). An attempt whose
socket is still connecting when `connect` is called again is `overtaken`, be its
promise pending or rejected by its timer: `this.socket` is no longer its own, and
if it connects after all, its connection reads the socket of a later attempt,
which may still be connecting. A socket error without a reader's `error` listener
ends the process (`crashed`). `shutdownServer` differs from `disconnect` in
throwing, without effect, on a connection that is not open.

The JSDoc of `disconnect` (`client.ts:88`) says that it throws if the connection
is already disposed. It throws only before the first connection (`client.ts:91`);
called again it clears the emitter and destroys `this.socket`, by then perhaps
that of a reconnect under way. `Disconnect` models what the code does.

### Routing

Traffic on the sockets and connections of `Lifecycle`. Each connection numbers
its requests from 0 (`nextId`, `id`), and every connection that listens on a
socket gets what arrives there in its `inbox`. An answer settles the request of
that number the connection is waiting for (`reply` says whose answer it was); a
notification is emitted; a prompt goes to the listener that `onPromptString` set
on *that connection* (`prompter`) or is refused. A connection disposed drops its
inbox. `ClientStep` is a step of `Lifecycle` as it is.

An overtaken attempt that connects (`OvertakenConnect`) puts a second connection
on a socket, which takes the answers of the first, repeats its notifications and
refuses its prompts. The client does nothing against that and says nothing about
it, so the properties except it and say that this is the *only* way for messages
to go astray. `StraysBesideOvertaken` does not except it: it says how far the
confusion goes, to requests of equal number and to messages on the one socket
the overtaken attempt landed on.

### StatusSeverity

The five tests on integers, `&` with a power of two as a bit of the two's
complement. There is no state and thus no run: what they tell is proved.

## Runs

Runs that pass:

| Run | Instance | Shows |
|---|---|---|
| `sync_create` | createServerFromPath and createServerFromBean of one server, one user listener, 3 events, fair | `FirstMatchWins`, `ServedIsCleanedUp`, `AbortedByUnsentRequest`, `UserHearsAllButAborted`, `PendingIsArmed`, `ListenersLeaveAlone`, `EveryCallSettles`, `ImplementsFairAwaitedEvent` |
| `sync_state` | two starts and a stop of one server, 4 kinds of notification, 2 events | `ResolvedJustified`, `ServedIsCleanedUp`, `ServedBeatsTimeout`, `ImplementsAwaitedEvent`, and the inductive invariant `Inv` |
| `sync_reconnect` | two calls through `sendRequestSync`, 2 connections, 2 events | `DisposedNeverServed`, and `ServedIsCleanedUp` and `AbortedByUnsentRequest` when requests fail to be sent |
| `session_run` | a creation and a start of one server, and other clients, 3 changes of state, fair | `NoLostWakeup`, `PendingIsUnmet`, `ResolvedTellsState`, `FulfilledSettles` |
| `lifecycle` | 3 attempts, which may overlap, fair | `ConnectionReadsSocket`, `NeverOlderSocket`, `ShutdownIsWritten`, `ConnectedSurvivesErrors`, `DisposesWithSocket`, `ConnectSettles` |
| `routing` | 2 attempts, 2 requests, one prompt | `OwnAnswerUnlessOvertaken`, `HandledOnceUnlessOvertaken`, `PromptHonouredUnlessOvertaken`, `StraysBesideOvertaken` |
| `simple` | a plain request and a createServerFromPathAsync, timeout 4, clock to 8, fair | `SettledInTime`, `LateBeansCreateNothing`, `EveryCallSettles`, `ImplementsFairBoundedCall` |

The refinements under fairness nearly imply `EveryCallSettles` of the same run,
which is kept as the plain statement of what fairness is for.

Runs that find a disagreement between the code and what it says of itself:

| Run | Shows |
|---|---|
| `sync_leak` | `sendRequestSync` registers `handler` and removes `listener`: the handler is never removed (`util/common.ts:59`) although a test is named after its removal |
| `sync_deaf` | a `serverAdded` that meets a createServerFromPath handler before its CreateServer request exists (or after the search failed) throws, and later listeners are not called (`util/serverCreation.ts:95`) |
| `session_stale` | startServerSync resolves with a STARTED notification the server wrote before it took the request (`util/outgoingsync.ts:78`), while `USAGE.md:133` speaks of the event of this server starting up |
| `lifecycle_leftover` | a disconnect during a second connect leaves the first socket open (`client.ts:97`) |
| `simple_error` | an error answer is reported as a timeout, after the whole timeout (`util/common.ts:28`) |

*Bounds.* `MaxEvents` bounds the notifications delivered (in `ServerSession`,
also those the server writes), `Conns` and `Attempts` the connections, each call
is made once, the clock stops at `MaxTime` (and no call is made that could
outlast it). Two events suffice for an event to be ignored, aborted or captured
before another, three for an aborted one between two accepted; two calls with
one event name for a handler behind a throwing one; two connections for a stale
handler object; three attempts for one that is overtaken and connects
between two others.
Three changes of state, from any initial one, let a call be accepted and
fulfilled and another client change the server before; the stale notification of
`session_stale` takes a fourth.
In `Routing` two attempts give two connections on one socket, two requests the
same number on both, and a prompt stands for every message handled twice: a
notification differs only in never being refused. Deadlock is not checked: every
instance stops when its calls are settled and its bounds reached.

*Fairness.* Weak fairness of timers, microtasks, the clock and the `close` event
of a closing socket: the event loop runs what is due. Nothing is assumed of the
server, the network or the user, so the liveness properties of `SyncRequests`,
`SimpleRequests` and `Lifecycle` say that timers alone settle every call. In
`SimpleRequests` a timer fires before the clock goes on; `SettledInTime` is thus
about when timers are due, not about a busy loop. `FulfilledSettles` asks the
converse, whether calls settle *without* their timers: `SessionFairness` assumes
that the server handles requests and answers those it accepted and that messages
arrive while the connection is open, and leaves the timers unfair. That is an
assumption about the server and the network, not something the client ensures.

## Proofs

Every safety property of the passing runs is proved too, for any values of the
constants: any sets of calls, users, connections, servers, requests and
notifications, any timeout and any bound on events and attempts. The theorems
rest on the named assumptions of the modules (each call has a method and a
subject, each user an event, calls and users are distinct, the session has one
connection and its notifications are in `Wire`, …), which TLC evaluates.

**SyncRequestsProofs**: `TypeCorrect`; `Invariance` (`Inv`), and from it
`ResolutionIsJustified` and `FirstAcceptableCaptured`; `Refinement`
(`ImplementsAwaitedEvent`). `FirstMatchWins` is not inductive: when a handler
captures an event, nothing it accepts may have passed before. `NothingMissed`
says so of registered handlers, which needs `HandlersOnOwnEvent` (an emission
reaches the handler) and the fact that an emission without exception reaches
every listener (`AllCalled`). `ResolvedJustified` needs `CaptureFits` and
`CompletionsServed`, and every part needs `UncalledIsClean` when a call starts.
The proof treats the parts as one statement about a single call (`OpInv`): a step
that leaves a call alone keeps it (`SameKeepsOpInv`), and each action has one
lemma for the call it concerns. Lemmas about `PrependListener` and
`RemoveListener` say that they add or remove nothing else; the last occurrence of
a listener exists because `<` is well-founded on the naturals
(`GreatestPosition`).

**SyncCleanupProofs**: `CleanedUp`, `AbortExplained`, `UsersHear`,
`NoTimeoutOnceServed`, `DisposedStaysUnserved`, `PendingCallsAreArmed`,
`ListenersLeaveOneByOne`, from `StrongInv`. That one
removal suffices to take a handler off needs that the emitter holds a listener
once (`Single`); that a user hears what no handler aborts needs that handlers of
calls come first (`Ordered`) and that `removeListener` keeps the order
(`RemovedPlace`, `RemoveKeeps`). `CleanInv` adds, for each call, what its request
can still become once its connection is disposed. `PendingIsArmed` is
inductive as it stands: the timer is armed before anything can fail, and is
cleared or fires only in the step that settles the promise. `AbortExplained`
(`AbortedByUnsentRequest`) is about the step that aborts an emission: the handler
that throws belongs to a call that was made, accepts the event, and is between
the two requests of createServerFromPath or failed to send one (`Thrower`). For
`ListenersLeaveAlone`, `RemovedAlone` says that removing a listener keeps every
other one, on every event.

**ServerSessionProofs**: `SessionIsSyncRequests` (a session takes steps of
`SyncRequests` only, so all of the above holds in it), `SessionTypeCorrect`, and
`WakeupsArrive` (`NoLostWakeup`) from `SessionInv`. Its core is `NothingLost`:
while the connection is open, every call made has its handler on the emitter
until it captures an event, the answer to one accepted is owed, under way or
handled, and the notification of a goal that was reached is under way or
captured. It is kept because no handler throws in an open connection
(`NoneThrows`: each has its response, as none of the session's methods is in two
steps) and because a change of state that fulfils a call is one whose
notification the call accepts (`MovesFulfil`). The latter needs `DoneOrComing`:
an accepted stop that is not fulfilled has its server still stopping, so that
nobody else can complete it with another notification.

`ResolutionTellsState` (`ResolvedTellsState`) needs a second invariant, `ViewInv`:
while the connection is open, the last notification about a server that is under
way tells its state (`LastWordComes`), and if none is under way, the last one
handled does (`LastWordHeard`). The connection keeps the order (`HandledView`)
and the server changes nothing without a notification that tells it (`NoteTells`),
so each of its steps keeps the invariant; a resolved promise has captured an
event it accepts, which by hypothesis is the last one handled.

`NobodyWaitsInVain` (`PendingIsUnmet`) needs a third, `PlacesInv`: each request
made in an open connection is asked, owed, or has its answer under way or
handled. In a quiet session all are answered; a call still pending has then
captured nothing, so its handler is registered (`NothingLost`) and has missed at
most aborted emissions (`NothingMissed`), of which an open session has none, as
`AbortInv` traces each to a call that has failed or is in two steps.

`SessionKeepsPromises` collects what `SessionIsSyncRequests` carries over from
`SyncRequests`, the refinement of `AwaitedEvent` included.

**LifecycleProofs**: `PairedAfterConnect`, `SocketsNeverOlder`,
`ShutdownWritten`, `SurvivesErrors`, from an invariant that relates promises,
sockets, connections and the fields of the client: calls are made in order
(`CalledInOrder`), so `socket` is that of the last; a socket still connecting is
`socket` or belongs to an overtaken attempt (`OvertakenUnlessLast`); and every
connection has a socket, at least as new as its own attempt.
`DisposedTogether` (`DisposesWithSocket`) is the part of the doc's claim about
`disconnect` that does hold: it follows from `ConnectionReadsSocket`, since
`connection` is the only one disposed and its socket is then `socket`.

**RoutingProofs**: `AnswersArrive`, `HandledOnce`, `PromptsHonoured`, from an
invariant on top of that of `Lifecycle`. Unless an overtaken attempt connects,
every connection that listens reads its own socket alone; its requests have
distinct numbers below `nextId` (`IdInv`); and what is in its inbox is the
answer to a request sent through it, or a message no other connection has
(`OwnInv`). `RoutingIsLifecycle` carries the theorems about `Lifecycle` over. In
every behaviour there is `SharedInv` in the place of `OwnInv`: a connection
never changes its socket, and reads another than its own only if its attempt was
overtaken (`SocketKept`); and requests, answers on their way and copies of a
message stay on one socket (`StaysOnSocket`). `StraysExplained`
(`StraysBesideOvertaken`) follows because of two connections on one socket the
older cannot have its own (`SharedIsBesideOvertaken`, by `NeverOlderSocket`).

**SimpleRequestsProofs**: `EndsInTime`, `TimedOutSearchCreatesNothing` and
`Refinement` (`ImplementsBoundedCall`), from an invariant that ties a request's
timer to its due time and the second request of a call to the success of the
first.

**StatusSeverity**: `TestsTellSeverity` (the tests passed add up to the severity
modulo 16, for every integer, so each tells its own flag whatever the others)
and `OkIsUnflagged` (within the protocol's range, ok is the same as no flag).

Model-checked only: liveness (`EveryCallSettles`, `ConnectSettles`,
`FulfilledSettles`) and the refinements under fairness
(`ImplementsFairAwaitedEvent`, `ImplementsFairBoundedCall`), which the prover
does not reach (of `EveryCallSettles` the safety half is proved,
`PendingCallsAreArmed`: what is left is that an armed timer fires); and the
disagreements, which are counterexamples.

## Not modelled

- `Protocol`, the publish states of `ServerState`, the request names of
  `Messages`, `ErrorMessages`: data without behaviour. Attributes of created
  servers (`server.home.dir`, …) are payload no property looks at.
- `Outgoing.shutdown`, `disconnectClient`, `sendSimpleNotification`: one send,
  no state of the client.
- Whose creation a call waits for: createServerFromBean resolves with any
  `serverAdded` of its id, also if its own request was refused, and nothing in
  the repository says otherwise. `ServerSession` has refusals and other clients,
  but no property asks for more than the code claims.
- The emission of `connectionClosed`: `Lifecycle` registers and removes the
  listener, but nothing says which closes it is told of. One registered between
  a disconnect and the `close` of its socket is told of that old close.
- Exceptions in listeners of the user: they end an emission like those of
  handlers, by the user's own doing.
- The entry point `main.ts`: re-exports.

## Plan

Done: `SyncRequests`, `AwaitedEvent`, `SimpleRequests`, `BoundedCall`,
`Lifecycle`, `ServerSession`, `Routing` and `StatusSeverity`, their runs, and
proofs of all their safety properties. Left:

1. `Routing` and `SyncRequests` composed: overtaken attempts in front of calls
   that wait for an event, which then hear each notification twice.
2. createServerFromPath in `ServerSession`: its handler throws until its second
   request is sent, so `NoLostWakeup` would need an exception for events that
   meet it before.
3. Listeners that the user registers more than once.
4. Proofs: what ties a pending connect to its armed timer and a pending request
   of `SimpleRequests` to its due time, as the safety halves of `ConnectSettles`
   and of `EveryCallSettles` there.

-------------------------- MODULE SyncCleanupProofs --------------------------
(* More theorems about SyncRequests, on what its calls leave behind and on *)
(* what the listeners of the user hear, for any calls, users, connections  *)
(* and notifications.                                                      *)
EXTENDS SyncRequestsProofs

(* The emitter holds a listener once, handlers of calls come before the    *)
(* listeners of the user, and those hang on the event they were set for.   *)
Single(q)  == \A i, j \in DOMAIN q : q[i] = q[j] => i = j
Ordered(q) == \A i, j \in DOMAIN q : i < j /\ q[j] \in Ops => q[i] \in Ops

EmitterInv ==
  /\ \A e \in Events : Single(listeners[e]) /\ Ordered(listeners[e])
  /\ \A e \in Events, u \in Users : u \in ToSet(listeners[e]) => e = UserEvent[u]

(* A call that is served is done with, or will be by its microtask; one    *)
(* whose connection is disposed waits for no answer, and for an event only *)
(* in vain.                                                                *)
CleanInv(op) ==
  /\ promise[op] # "uncalled" => stage[op] # "idle" /\ chan[op] \in Conns
  /\ stage[op] \in {"finding", "found"} => Api[op] \in TwoStep
  /\ Served(op) /\ op \notin ready =>
       /\ promise[op] # "pending" /\ timer[op] # "armed"
       /\ Api[op] \in SelfRemoving => ~Registered(op)
  /\ promise[op] # "uncalled" /\ connState[chan[op]] = "disposed" =>
       /\ stage[op] \notin {"finding", "sent"}
       /\ Served(op) \/ stage[op] = "failed" \/ ~Registered(op)

(* The exception that aborted an emission was thrown by a call made before, *)
(* which had captured no event by then.                                    *)
AbortInv ==
  \A i \in aborted : \E op \in Ops :
    /\ promise[op] # "uncalled" /\ since[op] < i /\ Accepts(op, log[i])
    /\ \/ stage[op] = "failed"
       \/ /\ Api[op] = "createServerFromPath"
          /\ matched[op] = 0 \/ i < matched[op]

StrongInv ==
  /\ Inv /\ EmitterInv /\ AbortInv /\ UserHearsAllButAborted
  /\ \A op \in Ops : CleanInv(op)
-----------------------------------------------------------------------------
(* The emitter's operations on a sequence of listeners.                    *)

(* What removeListener leaves is the sequence without one of its places.   *)
LEMMA RemovedPlace ==
  ASSUME NEW S, NEW q \in Seq(S), NEW l \in ToSet(q)
  PROVE  \E k \in 1 .. Len(q) :
           /\ q[k] = l
           /\ Len(RemoveListener(q, l)) = Len(q) - 1
           /\ \A i \in 1 .. Len(q) - 1 :
                RemoveListener(q, l)[i] = IF i < k THEN q[i] ELSE q[i + 1]
<1> DEFINE I == {i \in DOMAIN q : q[i] = l}
           IsLast(i) == q[i] = l /\ \A j \in DOMAIN q : q[j] = l => j <= i
           k == CHOOSE i \in DOMAIN q : IsLast(i)
<1>1. \E i \in DOMAIN q : IsLast(i)
  <2>1. I # {} /\ I \subseteq 1 .. Len(q) /\ Len(q) \in Nat
    BY DEF ToSet
  <2>2. \E i \in I : \A j \in I : j <= i
    BY <2>1, GreatestPosition
  <2> QED
    BY <2>2
<1>2. k \in 1 .. Len(q) /\ q[k] = l
  BY <1>1
<1>3. RemoveListener(q, l) = RemoveAt(q, k)
  BY DEF RemoveListener
<1> HIDE DEF k
<1> DEFINE left == SubSeq(q, 1, k - 1)
           right == SubSeq(q, k + 1, Len(q))
<1>4. /\ left \in Seq(S) /\ Len(left) = k - 1
      /\ \A i \in 1 .. k - 1 : left[i] = q[i]
  BY <1>2, SubSeqProperties
<1>5. /\ right \in Seq(S) /\ Len(right) = Len(q) - k
      /\ \A i \in 1 .. Len(q) - k : right[i] = q[k + i]
  <2>1. k + 1 \in Int /\ Len(q) \in Int /\ \A i \in k + 1 .. Len(q) : q[i] \in S
    BY <1>2
  <2>2. /\ right \in Seq(S)
        /\ Len(right) = IF k + 1 <= Len(q) THEN Len(q) - (k + 1) + 1 ELSE 0
        /\ \A i \in 1 .. Len(q) - (k + 1) + 1 : right[i] = q[k + 1 + i - 1]
    BY <2>1, SubSeqProperties
  <2> QED
    BY <1>2, <2>2
<1>6. RemoveAt(q, k) = left \o right
  BY DEF RemoveAt
<1> HIDE DEF left, right
<1>7. /\ Len(left \o right) = Len(q) - 1
      /\ \A i \in 1 .. Len(q) - 1 :
           (left \o right)[i] = IF i < k THEN q[i] ELSE q[i + 1]
  <2>1. /\ Len(left \o right) = Len(left) + Len(right)
        /\ \A i \in 1 .. Len(left) + Len(right) :
             (left \o right)[i] = IF i <= Len(left) THEN left[i] ELSE right[i - Len(left)]
    BY <1>4, <1>5, ConcatProperties
  <2> QED
    BY <1>2, <1>4, <1>5, <2>1
<1> QED
  BY <1>2, <1>3, <1>6, <1>7

LEMMA RemoveKeeps ==
  ASSUME NEW q \in Seq(Ops \cup Users), NEW l, Single(q), Ordered(q)
  PROVE  /\ Single(RemoveListener(q, l)) /\ Ordered(RemoveListener(q, l))
         /\ l \notin ToSet(RemoveListener(q, l))
<1>1. CASE l \notin ToSet(q)
  BY <1>1 DEF RemoveListener
<1>2. CASE l \in ToSet(q)
  <2> DEFINE p == RemoveListener(q, l)
  <2>1. PICK k \in 1 .. Len(q) :
           /\ q[k] = l
           /\ Len(p) = Len(q) - 1
           /\ \A i \in 1 .. Len(q) - 1 : p[i] = IF i < k THEN q[i] ELSE q[i + 1]
    BY <1>2, RemovedPlace
  <2>2. p \in Seq(Ops \cup Users)
    BY RemoveListenerProperties
  <2> HIDE DEF p
  <2>3. /\ Len(q) \in Nat /\ DOMAIN q = 1 .. Len(q) /\ DOMAIN p = 1 .. Len(q) - 1
    BY <2>1, <2>2
  <2>4. \A i \in DOMAIN p : \E i1 \in DOMAIN q :
          p[i] = q[i1] /\ i1 # k /\ i1 = IF i < k THEN i ELSE i + 1
    BY <2>1, <2>3
  <2>5. Single(p)
    BY <2>1, <2>3, <2>4 DEF Single
  <2>6. Ordered(p)
    BY <2>1, <2>3, <2>4 DEF Ordered
  <2>7. l \notin ToSet(p)
    BY <2>1, <2>4 DEF Single, ToSet
  <2> QED
    BY <2>5, <2>6, <2>7 DEF p
<1> QED
  BY <1>1, <1>2

(* removeListener leaves the other listeners. *)
LEMMA OthersStay ==
  ASSUME NEW S, NEW q \in Seq(S), NEW l, NEW m \in ToSet(q), m # l
  PROVE  m \in ToSet(RemoveListener(q, l))
<1>1. CASE l \notin ToSet(q)
  BY <1>1 DEF RemoveListener
<1>2. CASE l \in ToSet(q)
  <2> DEFINE p == RemoveListener(q, l)
  <2>1. PICK k \in 1 .. Len(q) :
           /\ q[k] = l
           /\ Len(p) = Len(q) - 1
           /\ \A i \in 1 .. Len(q) - 1 : p[i] = IF i < k THEN q[i] ELSE q[i + 1]
    BY <1>2, RemovedPlace
  <2>2. p \in Seq(S)
    BY RemoveListenerProperties
  <2> HIDE DEF p
  <2>3. Len(q) \in Nat /\ DOMAIN q = 1 .. Len(q) /\ DOMAIN p = 1 .. Len(q) - 1
    BY <2>1, <2>2
  <2>4. PICK i \in 1 .. Len(q) : q[i] = m
    BY <2>3 DEF ToSet
  <2>5. i # k
    BY <2>1, <2>4
  <2>6. CASE i < k
    <3>1. i \in 1 .. Len(q) - 1 /\ p[i] = m
      BY <2>1, <2>3, <2>4, <2>6
    <3> QED
      BY <2>3, <3>1 DEF ToSet, p
  <2>7. CASE i > k
    <3>1. i - 1 \in 1 .. Len(q) - 1 /\ p[i - 1] = m
      BY <2>1, <2>3, <2>4, <2>7
    <3> QED
      BY <2>3, <3>1 DEF ToSet, p
  <2> QED
    BY <2>3, <2>4, <2>5, <2>6, <2>7
<1> QED
  BY <1>1, <1>2

LEMMA PrependKeeps ==
  ASSUME NEW q \in Seq(Ops \cup Users), NEW op \in Ops, op \notin ToSet(q),
         Single(q), Ordered(q)
  PROVE  Single(PrependListener(q, op)) /\ Ordered(PrependListener(q, op))
<1> DEFINE p == PrependListener(q, op)
<1>1. p = <<op>> \o q
  BY DEF PrependListener, Cons
<1>2. /\ p \in Seq(Ops \cup Users) /\ Len(p) = Len(q) + 1
      /\ \A i \in 1 .. Len(q) + 1 : p[i] = IF i = 1 THEN op ELSE q[i - 1]
  <2>1. <<op>> \in Seq(Ops \cup Users) /\ Len(<<op>>) = 1 /\ <<op>>[1] = op
    OBVIOUS
  <2> QED
    BY <1>1, <2>1, ConcatProperties
<1> HIDE DEF p
<1>3. Single(p)
  BY <1>2 DEF Single, ToSet
<1>4. Ordered(p)
  BY <1>2 DEF Ordered
<1> QED
  BY <1>3, <1>4 DEF p

LEMMA AppendKeeps ==
  ASSUME NEW q \in Seq(Ops \cup Users), NEW u \in Users, u \notin ToSet(q),
         Single(q), Ordered(q)
  PROVE  /\ Single(Append(q, u)) /\ Ordered(Append(q, u))
         /\ ToSet(Append(q, u)) = ToSet(q) \cup {u}
<1> DEFINE p == Append(q, u)
<1>1. /\ Len(p) = Len(q) + 1 /\ DOMAIN p = 1 .. Len(q) + 1
      /\ \A i \in 1 .. Len(q) : p[i] = q[i]
      /\ p[Len(q) + 1] = u /\ Len(q) \in Nat /\ DOMAIN q = 1 .. Len(q)
  BY AppendProperties
<1> HIDE DEF p
<1>2. Single(p)
  BY <1>1 DEF Single, ToSet
<1>3. Ordered(p)
  BY <1>1, ListenersDistinct DEF Ordered
<1>4. ToSet(p) = ToSet(q) \cup {u}
  BY <1>1 DEF ToSet
<1> QED
  BY <1>2, <1>3, <1>4 DEF p

LEMMA EmptyKeeps == Single(<<>>) /\ Ordered(<<>>) /\ ToSet(<<>>) = {}
BY DEF Single, Ordered, ToSet
-----------------------------------------------------------------------------
(* The emitter.                                                            *)

(* One event gets or loses a listener. *)
LEMMA OneEvent ==
  ASSUME TypeOK, EmitterInv, NEW e \in Events, NEW q,
         listeners' = [listeners EXCEPT ![e] = q],
         Single(q), Ordered(q),
         \A u \in Users : u \in ToSet(q) => e = UserEvent[u]
  PROVE  EmitterInv'
BY DEF TypeOK, EmitterInv, Single, Ordered, ToSet

(* A listener is new only by the step that sets it, and the order stays.   *)
NewOnlyBy(l, set) == Registered(l)' => Registered(l) \/ set

LEMMA CallEmitter ==
  ASSUME StrongInv, NEW op \in Ops, NEW c \in Conns, Call(op, c)
  PROVE  /\ EmitterInv' /\ \A u \in Users : NewOnlyBy(u, FALSE)
         /\ \A o \in Ops : NewOnlyBy(o, o = op)
<1> DEFINE e == EventOf(op)
<1>1. TypeOK /\ EmitterInv /\ ~Registered(op) /\ e \in Events
  BY EventsType DEF StrongInv, Inv, UncalledIsClean, Call
<1>2. listeners' = [listeners EXCEPT ![e] = PrependListener(listeners[e], op)]
  BY DEF Call
<1>3. listeners[e] \in Seq(Ops \cup Users) /\ op \notin ToSet(listeners[e])
  BY <1>1 DEF TypeOK, Registered
<1>4. ToSet(PrependListener(listeners[e], op)) = ToSet(listeners[e]) \cup {op}
  BY <1>3, PrependListenerProperties
<1>5. /\ Single(PrependListener(listeners[e], op))
      /\ Ordered(PrependListener(listeners[e], op))
  BY <1>1, <1>3, PrependKeeps DEF EmitterInv
<1> HIDE DEF e
<1>6. EmitterInv'
  BY <1>1, <1>2, <1>4, <1>5, OneEvent, ListenersDistinct DEF EmitterInv
<1>7. \A d \in Events : \A l : l \in ToSet(listeners'[d]) => l \in ToSet(listeners[d]) \/ l = op
  BY <1>1, <1>2, <1>4 DEF TypeOK
<1> QED
  BY <1>6, <1>7, ListenersDistinct DEF NewOnlyBy, Registered

LEMMA RemoveEmitter ==
  ASSUME StrongInv, NEW e \in Events, NEW l,
         listeners' = [listeners EXCEPT ![e] = RemoveListener(listeners[e], l)]
  PROVE  /\ EmitterInv' /\ \A m \in Ops \cup Users : NewOnlyBy(m, FALSE)
         /\ l \notin ToSet(listeners'[e])
<1>1. TypeOK /\ EmitterInv /\ listeners[e] \in Seq(Ops \cup Users)
  BY DEF StrongInv, Inv, TypeOK
<1>2. ToSet(RemoveListener(listeners[e], l)) \subseteq ToSet(listeners[e])
  BY <1>1, RemoveListenerProperties
<1>3. /\ Single(RemoveListener(listeners[e], l)) /\ Ordered(RemoveListener(listeners[e], l))
      /\ l \notin ToSet(RemoveListener(listeners[e], l))
  BY <1>1, RemoveKeeps DEF EmitterInv
<1>4. EmitterInv'
  BY <1>1, <1>2, <1>3, OneEvent DEF EmitterInv
<1>5. \A d \in Events : \A m : m \in ToSet(listeners'[d]) => m \in ToSet(listeners[d])
  BY <1>1, <1>2 DEF TypeOK
<1> QED
  BY <1>1, <1>3, <1>4, <1>5 DEF NewOnlyBy, Registered, TypeOK

LEMMA SubscribeEmitter ==
  ASSUME StrongInv, NEW u \in Users, Subscribe(u)
  PROVE  EmitterInv' /\ \A m \in Ops \cup Users : NewOnlyBy(m, m = u)
<1> DEFINE e == UserEvent[u]
<1>1. TypeOK /\ EmitterInv /\ ~Registered(u) /\ e \in Events
  BY EventsType DEF StrongInv, Inv, Subscribe
<1>2. listeners' = [listeners EXCEPT ![e] = Append(listeners[e], u)]
  BY DEF Subscribe
<1>3. listeners[e] \in Seq(Ops \cup Users) /\ u \notin ToSet(listeners[e])
  BY <1>1 DEF TypeOK, Registered
<1>4. /\ Single(Append(listeners[e], u)) /\ Ordered(Append(listeners[e], u))
      /\ ToSet(Append(listeners[e], u)) = ToSet(listeners[e]) \cup {u}
  BY <1>1, <1>3, AppendKeeps DEF EmitterInv
<1>5. EmitterInv'
  BY <1>1, <1>2, <1>4, OneEvent DEF EmitterInv
<1>6. \A d \in Events : \A m : m \in ToSet(listeners'[d]) => m \in ToSet(listeners[d]) \/ m = u
  BY <1>1, <1>2, <1>4 DEF TypeOK
<1> QED
  BY <1>5, <1>6 DEF NewOnlyBy, Registered

LEMMA DisconnectEmitter ==
  ASSUME Disconnect
  PROVE  EmitterInv' /\ \A m : ~Registered(m)'
BY EmptyKeeps DEF Disconnect, AllRemoved, EmitterInv, Registered

LEMMA QuietEmitter ==
  ASSUME StrongInv, listeners' = listeners
  PROVE  EmitterInv' /\ \A m : NewOnlyBy(m, FALSE)
BY DEF StrongInv, EmitterInv, NewOnlyBy, Registered, Single, Ordered
-----------------------------------------------------------------------------
(* What the calls leave behind.                                            *)

(* A step that leaves op and its connection alone, except for its handler. *)
LEMMA CleanFrame ==
  ASSUME NEW op \in Ops, CleanInv(op), NewOnlyBy(op, FALSE),
         promise'[op] = promise[op], stage'[op] = stage[op],
         timer'[op] = timer[op], chan'[op] = chan[op],
         matched'[op] = matched[op], op \in ready' <=> op \in ready,
         promise[op] # "uncalled" /\ connState'[chan[op]] = "disposed"
           => connState[chan[op]] = "disposed"
  PROVE  CleanInv(op)'
BY DEF CleanInv, NewOnlyBy, Served

LEMMA CallClean ==
  ASSUME StrongInv, NEW op \in Ops, NEW c \in Conns, Call(op, c)
  PROVE  \A o \in Ops : CleanInv(o)'
<1> USE DEF TypeOK, callVars, connVars, histVars
<1>1. TypeOK /\ UncalledIsClean /\ \A o \in Ops : CleanInv(o)
  BY DEF StrongInv, Inv
<1>2. ASSUME NEW o \in Ops, o # op PROVE CleanInv(o)'
  <2>1. NewOnlyBy(o, FALSE)
    BY <1>2, CallEmitter DEF NewOnlyBy
  <2> QED
    BY <1>1, <1>2, <2>1, CleanFrame DEF Call
<1>3. CleanInv(op)'
  <2>1. /\ stage'[op] = IF connState[c] # "open" THEN "failed"
                        ELSE IF Api[op] \in TwoStep THEN "finding" ELSE "sent"
        /\ chan'[op] = c /\ connState' = connState
    BY <1>1 DEF Call
  <2> QED
    BY <2>1 DEF CleanInv, Served
<1> QED
  BY <1>2, <1>3

LEMMA AnswerClean ==
  ASSUME StrongInv, NEW op \in Ops,
         AnswerBeans(op) \/ SendCreate(op) \/ AnswerRequest(op) \/ TimerFires(op)
  PROVE  \A o \in Ops : CleanInv(o)'
<1> USE DEF TypeOK, callVars, connVars, histVars
<1>1. TypeOK /\ \A o \in Ops : CleanInv(o)
  BY DEF StrongInv, Inv
<1>2. listeners' = listeners /\ connState' = connState /\ chan' = chan /\ matched' = matched
  BY DEF AnswerBeans, SendCreate, AnswerRequest, TimerFires
<1>3. \A m : NewOnlyBy(m, FALSE)
  BY <1>2, QuietEmitter
<1>4. ASSUME NEW o \in Ops, o # op PROVE CleanInv(o)'
  BY <1>1, <1>2, <1>3, <1>4, CleanFrame
  DEF AnswerBeans, SendCreate, AnswerRequest, TimerFires, AfterAnswer, Settle
<1>5. CleanInv(op)'
  <2>1. CASE AnswerBeans(op)
    BY <1>1, <1>2, <1>3, <2>1 DEF AnswerBeans, CleanInv, Served, Readable, NewOnlyBy
  <2>2. CASE SendCreate(op)
    BY <1>1, <1>2, <1>3, <2>2 DEF SendCreate, CleanInv, Served, NewOnlyBy
  <2>3. CASE AnswerRequest(op)
    BY <1>1, <1>2, <1>3, <2>3
    DEF AnswerRequest, AfterAnswer, CleanInv, Served, Readable, NewOnlyBy
  <2>4. CASE TimerFires(op)
    BY <1>1, <1>2, <1>3, <2>4 DEF TimerFires, Settle, CleanInv, Served, NewOnlyBy
  <2> QED
    BY <2>1, <2>2, <2>3, <2>4
<1> QED
  BY <1>4, <1>5

(* The completion callback finds the handler of its call on its one event, *)
(* and there once, so that removing it once is enough.                     *)
LEMMA CompletionClean ==
  ASSUME StrongInv, NEW op \in Ops, RunCompletion(op)
  PROVE  EmitterInv' /\ (\A m \in Ops \cup Users : NewOnlyBy(m, FALSE))
         /\ \A o \in Ops : CleanInv(o)'
<1> USE DEF TypeOK, callVars, connVars, histVars
<1>1. TypeOK /\ HandlersOnOwnEvent /\ \A o \in Ops : CleanInv(o)
  BY DEF StrongInv, Inv
<1>2. EventOf(op) \in Events
  BY EventsType
<1>3. /\ EmitterInv' /\ \A m \in Ops \cup Users : NewOnlyBy(m, FALSE)
      /\ Api[op] \in SelfRemoving => op \notin ToSet(listeners'[EventOf(op)])
  BY <1>2, RemoveEmitter, QuietEmitter DEF RunCompletion
<1>4. ASSUME NEW o \in Ops, o # op PROVE CleanInv(o)'
  BY <1>1, <1>3, <1>4, CleanFrame DEF RunCompletion, Settle
<1>5. CleanInv(op)'
  <2>1. Api[op] \in SelfRemoving => ~Registered(op)'
    <3>1. \A e \in Events : op \in ToSet(listeners'[e]) => op \in ToSet(listeners[e]) \/ e = EventOf(op)
      BY <1>1, <1>2 DEF RunCompletion
    <3> QED
      BY <1>1, <1>3, <3>1 DEF Registered, HandlersOnOwnEvent
  <2>2. promise'[op] # "pending" /\ timer'[op] # "armed"
    BY <1>1 DEF RunCompletion, Settle
  <2>3. /\ stage' = stage /\ chan' = chan /\ connState' = connState /\ matched' = matched
        /\ promise'[op] = "uncalled" <=> promise[op] = "uncalled"
    BY <1>1 DEF RunCompletion, Settle
  <2> QED
    BY <1>1, <1>3, <2>1, <2>2, <2>3 DEF CleanInv, Served, NewOnlyBy
<1> QED
  BY <1>3, <1>4, <1>5

(* A handler that captures an event is registered and its request is out,  *)
(* which rules out that its connection was disposed.                       *)
LEMMA DeliverClean ==
  ASSUME StrongInv, NEW c \in Conns, NEW note \in Wire, Deliver(c, note)
  PROVE  \A o \in Ops : CleanInv(o)'
<1> USE DEF TypeOK, callVars, connVars, histVars
<1>1. TypeOK /\ \A o \in Ops : CleanInv(o)
  BY DEF StrongInv, Inv
<1>2. /\ UNCHANGED <<promise, timer, stage, chan, listeners, connState>>
      /\ \A m : NewOnlyBy(m, FALSE)
  BY QuietEmitter DEF Deliver
<1>3. ASSUME NEW o \in Ops, o \notin Captures(note) PROVE CleanInv(o)'
  BY <1>1, <1>2, <1>3, CleanFrame DEF Deliver
<1>4. ASSUME NEW o \in Ops, o \in Captures(note) PROVE CleanInv(o)'
  <2>1. Registered(o) /\ ~Unassigned(o) /\ matched[o] = 0
    BY <1>4, EventsType DEF Captures, Called, Registered, ToSet, Accepts
  <2>2. promise[o] # "uncalled" => connState[chan[o]] # "disposed"
    BY <1>1, <2>1 DEF CleanInv, Served, Unassigned
  <2>3. stage[o] = "ok" => o \in ready'
    BY <1>4 DEF Deliver
  <2> QED
    BY <1>1, <1>2, <2>2, <2>3 DEF CleanInv, Served
<1> QED
  BY <1>3, <1>4

LEMMA DisconnectClean ==
  ASSUME StrongInv, Disconnect
  PROVE  \A o \in Ops : CleanInv(o)'
<1> SUFFICES ASSUME NEW o \in Ops PROVE CleanInv(o)'
  OBVIOUS
<1>1. TypeOK /\ CleanInv(o) /\ ~Registered(o)'
  BY DisconnectEmitter DEF StrongInv, Inv
<1>2. /\ UNCHANGED <<promise, timer, chan, matched, ready>>
      /\ stage'[o] = IF chan[o] = current THEN Rejected(stage[o]) ELSE stage[o]
      /\ chan[o] \in Conns /\ chan[o] # current => connState'[chan[o]] = connState[chan[o]]
  BY <1>1 DEF Disconnect, TypeOK
<1>3. CASE chan[o] = current
  <2>1. stage[o] = "sent" => stage'[o] = "error"
    BY <1>2, <1>3 DEF Rejected
  <2>2. stage[o] = "finding" => stage'[o] = "failed"
    BY <1>2, <1>3 DEF Rejected
  <2>3. stage[o] \notin {"sent", "finding"} => stage'[o] = stage[o]
    BY <1>2, <1>3 DEF Rejected
  <2> QED
    BY <1>1, <1>2, <2>1, <2>2, <2>3 DEF CleanInv, Served
<1>4. CASE chan[o] # current
  BY <1>1, <1>2, <1>4 DEF CleanInv, Served
<1> QED
  BY <1>3, <1>4

LEMMA ElsewhereClean ==
  ASSUME StrongInv,
         \/ \E u \in Users : Subscribe(u) \/ Unsubscribe(u)
         \/ \E c \in Conns : Connect(c) \/ RemoteClose(c)
         \/ UNCHANGED vars
  PROVE  EmitterInv' /\ \A o \in Ops : CleanInv(o)'
<1> USE DEF vars, callVars, connVars, histVars
<1>1. TypeOK /\ \A o \in Ops : CleanInv(o)
  BY DEF StrongInv, Inv
<1>2. EmitterInv' /\ \A o \in Ops : NewOnlyBy(o, FALSE)
  <2>1. ASSUME NEW u \in Users, Subscribe(u)
        PROVE  EmitterInv' /\ \A o \in Ops : NewOnlyBy(o, FALSE)
    BY <2>1, SubscribeEmitter, ListenersDistinct DEF NewOnlyBy
  <2>2. ASSUME NEW u \in Users, Unsubscribe(u)
        PROVE  EmitterInv' /\ \A o \in Ops : NewOnlyBy(o, FALSE)
    BY <2>2, EventsType, RemoveEmitter DEF Unsubscribe
  <2> QED
    BY <2>1, <2>2, QuietEmitter DEF Connect, RemoteClose
<1>3. /\ UNCHANGED callVars
      /\ \A c \in Conns : connState'[c] = "disposed" => connState[c] = "disposed"
  BY <1>1 DEF Subscribe, Unsubscribe, Connect, RemoteClose, TypeOK
<1>4. ASSUME NEW o \in Ops PROVE CleanInv(o)'
  BY <1>1, <1>2, <1>3, CleanFrame DEF CleanInv
<1> QED
  BY <1>2, <1>4
-----------------------------------------------------------------------------
(* Emissions.                                                              *)

(* A step without an emission: calls keep what an exception needs of them, *)
(* and a user hears nothing that another one does not.                     *)
LEMMA QuietEmissions ==
  ASSUME StrongInv, log' = log, aborted' = aborted, heard' = heard, matched' = matched,
         \A op \in Ops : promise[op] # "uncalled" =>
           /\ promise'[op] # "uncalled" /\ since'[op] = since[op]
           /\ stage[op] = "failed" => stage'[op] = "failed",
         \A u \in Users : Registered(u)' =>
           \/ Registered(u) /\ since'[u] = since[u]
           \/ since'[u] = Len(log)
  PROVE  AbortInv' /\ UserHearsAllButAborted'
<1>1. AbortInv /\ UserHearsAllButAborted /\ TypeOK
  BY DEF StrongInv, Inv
<1>2. AbortInv'
  BY <1>1 DEF AbortInv, Accepts
<1>3. ASSUME NEW u \in Users, Registered(u)',
             NEW i \in since'[u] + 1 .. Len(log), log[i].event = UserEvent[u]
      PROVE  i \in heard[u] <=> i \notin aborted
  <2>1. Len(log) \in Nat
    BY <1>1 DEF TypeOK
  <2>2. Registered(u) /\ since'[u] = since[u]
    BY <1>3, <2>1
  <2> QED
    BY <1>1, <1>3, <2>2 DEF UserHearsAllButAborted
<1>4. UserHearsAllButAborted'
  BY <1>3 DEF UserHearsAllButAborted
<1> QED
  BY <1>2, <1>4

(* The call whose handler throws was made, its request was not sent, and   *)
(* it has captured nothing.                                                *)
LEMMA Thrower ==
  ASSUME StrongInv, NoMicrotask, NEW note \in Wire,
         NEW l \in ToSet(listeners[note.event]), Throws(l, note)
  PROVE  /\ l \in Ops /\ promise[l] # "uncalled" /\ Accepts(l, note) /\ matched[l] = 0
         /\ \/ stage[l] = "finding" /\ Api[l] = "createServerFromPath"
            \/ stage[l] = "failed"
<1>1. l \in Ops /\ Accepts(l, note) /\ Unassigned(l)
  BY DEF Throws
<1>2. Registered(l)
  BY <1>1, EventsType DEF Registered, Accepts
<1>3. promise[l] # "uncalled" /\ CleanInv(l)
  BY <1>1, <1>2 DEF StrongInv, Inv, UncalledIsClean
<1> QED
  BY <1>1, <1>3 DEF StrongInv, Inv, CaptureFits, CleanInv, Unassigned, TwoStep, NoMicrotask

(* A listener of the user is called unless some handler throws: they are   *)
(* all in front of it.                                                     *)
LEMMA HeardUnlessThrown ==
  ASSUME NEW q \in Seq(Ops \cup Users), Ordered(q), NEW note,
         NEW u \in Users, u \in ToSet(q)
  PROVE  u \in Called(q, note) <=> \A l \in ToSet(q) : ~Throws(l, note)
<1>1. ASSUME u \in Called(q, note), NEW l \in ToSet(q), Throws(l, note) PROVE FALSE
  <2>1. PICK i \in DOMAIN q : q[i] = u /\ \A j \in 1 .. i - 1 : ~Throws(q[j], note)
    BY <1>1 DEF Called
  <2>2. PICK j \in DOMAIN q : q[j] = l
    BY <1>1 DEF ToSet
  <2>3. l \in Ops /\ u \notin Ops
    BY <1>1, ListenersDistinct DEF Throws
  <2>4. ~(i < j) /\ i # j
    BY <2>1, <2>2, <2>3 DEF Ordered
  <2>5. j \in 1 .. i - 1
    BY <2>1, <2>2, <2>4
  <2> QED
    BY <1>1, <2>1, <2>2, <2>5
<1> QED
  BY <1>1, AllCalled

LEMMA DeliverEmission ==
  ASSUME StrongInv, NEW c \in Conns, NEW note \in Wire, Deliver(c, note)
  PROVE  AbortInv' /\ UserHearsAllButAborted'
<1> USE DEF callVars, connVars
<1> DEFINE serial == Len(log) + 1
           q == listeners[note.event]
<1>1. TypeOK /\ EmitterInv /\ AbortInv /\ UserHearsAllButAborted
  BY DEF StrongInv, Inv
<1>2. /\ log' = Append(log, note) /\ Len(log) \in Nat /\ Len(log') = serial
      /\ log'[serial] = note
      /\ \A i \in 1 .. Len(log) : log'[i] = log[i]
  BY <1>1, AppendProperties DEF Deliver, TypeOK
<1>3. /\ UNCHANGED <<promise, stage, since, listeners>>
      /\ aborted' = IF \E l \in ToSet(q) : Throws(l, note)
                    THEN aborted \cup {serial} ELSE aborted
      /\ \A u \in Users : heard'[u] = IF u \in Called(q, note)
                                      THEN heard[u] \cup {serial} ELSE heard[u]
  BY DEF Deliver
<1>4. /\ aborted \subseteq 1 .. Len(log)
      /\ \A u \in Users : heard[u] \subseteq 1 .. Len(log)
      /\ \A l \in Ops \cup Users : since[l] \in 0 .. Len(log)
  BY <1>1 DEF TypeOK
<1>5. ASSUME NEW i \in aborted'
      PROVE  \E op \in Ops :
               /\ promise'[op] # "uncalled" /\ since'[op] < i /\ Accepts(op, log'[i])
               /\ \/ stage'[op] = "failed"
                  \/ /\ Api[op] = "createServerFromPath"
                     /\ matched'[op] = 0 \/ i < matched'[op]
  <2>1. CASE i \in aborted
    <3>1. log'[i] = log[i] /\ i < serial
      BY <1>2, <1>4, <2>1
    <3>2. \A op \in Ops : matched'[op] \in {matched[op], serial}
      BY DEF Deliver
    <3> QED
      BY <1>1, <1>3, <2>1, <3>1, <3>2 DEF AbortInv
  <2>2. CASE i \notin aborted
    <3>1. i = serial /\ \E l \in ToSet(q) : Throws(l, note)
      BY <1>3, <1>5, <2>2
    <3>2. PICK l \in ToSet(q) : Throws(l, note)
      BY <3>1
    <3>3. /\ l \in Ops /\ promise[l] # "uncalled" /\ Accepts(l, note) /\ matched[l] = 0
          /\ stage[l] = "failed" \/ Api[l] = "createServerFromPath"
      BY <3>2, Thrower DEF Deliver
    <3>4. since[l] < serial
      BY <1>2, <1>4, <3>3
    <3>5. Unassigned(l)
      BY <3>2 DEF Throws
    <3>6. matched'[l] = 0
      BY <3>3, <3>5 DEF Deliver, Captures
    <3> QED
      BY <1>2, <1>3, <3>1, <3>3, <3>4, <3>6
  <2> QED
    BY <2>1, <2>2
<1>6. AbortInv'
  BY <1>5 DEF AbortInv, Accepts
<1>7. ASSUME NEW u \in Users, Registered(u)',
             NEW i \in since[u] + 1 .. serial, log'[i].event = UserEvent[u]
      PROVE  i \in heard'[u] <=> i \notin aborted'
  <2>1. Registered(u)
    BY <1>3, <1>7 DEF Registered
  <2>2. CASE i \in since[u] + 1 .. Len(log)
    <3>1. i \in 1 .. Len(log) /\ i # serial
      BY <1>2, <1>4, <2>2
    <3>2. i \in heard[u] <=> i \notin aborted
      BY <1>1, <1>2, <1>7, <2>1, <2>2, <3>1 DEF UserHearsAllButAborted
    <3> QED
      BY <1>3, <3>1, <3>2
  <2>3. CASE i = serial
    <3>1. note.event = UserEvent[u] /\ UserEvent[u] \in Events
      BY <1>2, <1>7, <2>3, EventsType
    <3>2. u \in ToSet(q) /\ q \in Seq(Ops \cup Users) /\ Ordered(q)
      BY <1>1, <2>1, <3>1 DEF Registered, EmitterInv, TypeOK
    <3>3. serial \notin heard[u] /\ serial \notin aborted
      BY <1>2, <1>4
    <3>4. u \in Called(q, note) <=> \A l \in ToSet(q) : ~Throws(l, note)
      BY <3>2, HeardUnlessThrown
    <3> QED
      BY <1>3, <2>3, <3>3, <3>4
  <2> QED
    BY <1>2, <1>4, <1>7, <2>2, <2>3
<1>8. UserHearsAllButAborted'
  BY <1>2, <1>3, <1>7 DEF UserHearsAllButAborted
<1> QED
  BY <1>6, <1>8
-----------------------------------------------------------------------------
LEMMA InitStrong == Init => StrongInv
<1> SUFFICES ASSUME Init PROVE StrongInv
  OBVIOUS
<1>1. Inv
  BY InitInv
<1>2. EmitterInv /\ \A l : ~Registered(l)
  BY EmptyKeeps DEF Init, EmitterInv, Registered
<1>3. AbortInv /\ UserHearsAllButAborted
  BY <1>2 DEF Init, AbortInv, UserHearsAllButAborted
<1>4. \A op \in Ops : CleanInv(op)
  BY DEF Init, CleanInv, Served
<1> QED
  BY <1>1, <1>2, <1>3, <1>4 DEF StrongInv

LEMMA NextStrong == StrongInv /\ [Next]_vars => StrongInv'
<1> SUFFICES ASSUME StrongInv, [Next]_vars PROVE StrongInv'
  OBVIOUS
<1> USE DEF callVars, connVars, histVars
<1>1. Inv' /\ TypeOK /\ UncalledIsClean
  BY NextInv DEF StrongInv, Inv
<1>2. ASSUME NEW op \in Ops, NEW c \in Conns, Call(op, c) PROVE StrongInv'
  <2>1. /\ promise[op] = "uncalled" /\ UNCHANGED <<log, aborted, heard, matched>>
        /\ \A l \in Ops \cup Users : l # op => since'[l] = since[l]
        /\ \A o \in Ops : o # op => promise'[o] = promise[o] /\ stage'[o] = stage[o]
    BY <1>1, <1>2 DEF Call, TypeOK
  <2>2. EmitterInv' /\ (\A u \in Users : NewOnlyBy(u, FALSE)) /\ \A o \in Ops : CleanInv(o)'
    BY <1>2, CallEmitter, CallClean
  <2>3. AbortInv' /\ UserHearsAllButAborted'
    BY <2>1, <2>2, QuietEmissions, ListenersDistinct DEF NewOnlyBy
  <2> QED
    BY <1>1, <2>2, <2>3 DEF StrongInv
<1>3. ASSUME NEW op \in Ops,
             \/ AnswerBeans(op) \/ SendCreate(op) \/ AnswerRequest(op)
             \/ TimerFires(op)
      PROVE  StrongInv'
  <2>1. /\ listeners' = listeners /\ matched' = matched /\ UNCHANGED histVars
        /\ \A o \in Ops : promise[o] # "uncalled" => promise'[o] # "uncalled"
        /\ \A o \in Ops : stage[o] = "failed" => stage'[o] = "failed"
    BY <1>1, <1>3 DEF AnswerBeans, SendCreate, AnswerRequest, TimerFires, Settle, TypeOK
  <2>2. EmitterInv' /\ (\A u \in Users : NewOnlyBy(u, FALSE)) /\ \A o \in Ops : CleanInv(o)'
    BY <1>3, <2>1, QuietEmitter, AnswerClean
  <2>3. AbortInv' /\ UserHearsAllButAborted'
    BY <2>1, <2>2, QuietEmissions DEF NewOnlyBy
  <2> QED
    BY <1>1, <2>2, <2>3 DEF StrongInv
<1>4. ASSUME NEW op \in Ops, RunCompletion(op) PROVE StrongInv'
  <2>1. /\ UNCHANGED histVars /\ stage' = stage /\ matched' = matched
        /\ \A o \in Ops : promise[o] # "uncalled" => promise'[o] # "uncalled"
    BY <1>1, <1>4 DEF RunCompletion, Settle, TypeOK
  <2>2. /\ EmitterInv' /\ \A m \in Ops \cup Users : NewOnlyBy(m, FALSE)
        /\ \A o \in Ops : CleanInv(o)'
    BY <1>4, CompletionClean
  <2>3. AbortInv' /\ UserHearsAllButAborted'
    BY <2>1, <2>2, QuietEmissions DEF NewOnlyBy
  <2> QED
    BY <1>1, <2>2, <2>3 DEF StrongInv
<1>5. ASSUME NEW c \in Conns, NEW note \in Wire, Deliver(c, note) PROVE StrongInv'
  <2>1. EmitterInv'
    BY <1>5, QuietEmitter DEF Deliver
  <2> QED
    BY <1>1, <1>5, <2>1, DeliverClean, DeliverEmission DEF StrongInv
<1>6. CASE Disconnect
  <2>1. /\ UNCHANGED histVars /\ promise' = promise /\ matched' = matched
        /\ \A o \in Ops : stage[o] = "failed" => stage'[o] = "failed"
    BY <1>1, <1>6 DEF Disconnect, Rejected, TypeOK
  <2>2. /\ EmitterInv' /\ (\A m : ~Registered(m)') /\ \A o \in Ops : CleanInv(o)'
    BY <1>6, DisconnectEmitter, DisconnectClean
  <2>3. AbortInv' /\ UserHearsAllButAborted'
    BY <2>1, <2>2, QuietEmissions
  <2> QED
    BY <1>1, <2>2, <2>3 DEF StrongInv
<1>7. CASE \/ \E u \in Users : Subscribe(u) \/ Unsubscribe(u)
           \/ \E c \in Conns : Connect(c) \/ RemoteClose(c)
           \/ UNCHANGED vars
  <2>1. EmitterInv' /\ \A o \in Ops : CleanInv(o)'
    BY <1>7, ElsewhereClean
  <2>2. /\ UNCHANGED <<log, aborted, heard, promise, stage, matched>>
        /\ \A o \in Ops : since'[o] = since[o]
    BY <1>1, <1>7, ListenersDistinct
    DEF Subscribe, Unsubscribe, Connect, RemoteClose, vars, TypeOK
  <2>3. ASSUME NEW u \in Users, Registered(u)'
        PROVE  (Registered(u) /\ since'[u] = since[u]) \/ since'[u] = Len(log)
    <3>1. ASSUME NEW w \in Users, Subscribe(w)
          PROVE  (Registered(u) /\ since'[u] = since[u]) \/ since'[u] = Len(log)
      BY <1>1, <2>3, <3>1, SubscribeEmitter DEF Subscribe, NewOnlyBy, TypeOK
    <3>2. ASSUME NEW w \in Users, Unsubscribe(w)
          PROVE  Registered(u) /\ since'[u] = since[u]
      <4>1. NewOnlyBy(u, FALSE) /\ since' = since
        BY <3>2, EventsType, RemoveEmitter DEF Unsubscribe
      <4> QED
        BY <2>3, <4>1 DEF NewOnlyBy
    <3>3. ASSUME listeners' = listeners, since' = since
          PROVE  Registered(u) /\ since'[u] = since[u]
      BY <2>3, <3>3 DEF Registered
    <3> QED
      BY <1>7, <3>1, <3>2, <3>3 DEF Connect, RemoteClose, vars
  <2>4. AbortInv' /\ UserHearsAllButAborted'
    BY <2>2, <2>3, QuietEmissions
  <2> QED
    BY <1>1, <2>1, <2>4 DEF StrongInv
<1> QED
  BY <1>2, <1>3, <1>4, <1>5, <1>6, <1>7 DEF Next

(* The stronger invariant holds in every behaviour. *)
THEOREM StrongInvariance == Spec => []StrongInv
BY InitStrong, NextStrong, PTL DEF Spec

(* A served call leaves no pending promise, no armed timer and, with the   *)
(* methods that carry their own listener, no handler behind.               *)
THEOREM CleanedUp == Spec => []ServedIsCleanedUp
<1>1. StrongInv => ServedIsCleanedUp
  <2> SUFFICES ASSUME StrongInv, NEW op \in Ops, Served(op), op \notin ready
               PROVE  /\ promise[op] # "pending" /\ timer[op] # "armed"
                      /\ Api[op] \notin {"addDiscoveryPathSync",
                             "removeDiscoveryPathSync", "deleteServerSync"} => ~Registered(op)
    BY DEF ServedIsCleanedUp
  <2>1. Api[op] \in Apis
    BY ApiAssumption
  <2> QED
    BY <2>1 DEF StrongInv, CleanInv, SelfRemoving, Apis, Awaits
<1> QED
  BY <1>1, StrongInvariance, PTL

(* Whenever an emission is aborted, a call accepts the event whose request *)
(* is not sent at that moment: a createServerFromPath awaiting its beans,  *)
(* or a call whose sendRequest threw.                                      *)
THEOREM AbortExplained == Spec => AbortedByUnsentRequest
<1> DEFINE Step ==
      \A i \in aborted' \ aborted : \E op \in Ops :
        /\ promise[op] # "uncalled" /\ since[op] < i /\ Accepts(op, log'[i])
        /\ \/ stage[op] = "finding" /\ Api[op] = "createServerFromPath"
           \/ stage[op] = "failed"
<1>1. ASSUME StrongInv, [Next]_vars, NEW i \in aborted' \ aborted
      PROVE  \E op \in Ops :
               /\ promise[op] # "uncalled" /\ since[op] < i /\ Accepts(op, log'[i])
               /\ \/ stage[op] = "finding" /\ Api[op] = "createServerFromPath"
                  \/ stage[op] = "failed"
  <2>1. PICK c \in Conns, note \in Wire : Deliver(c, note)
    BY <1>1 DEF Next, Call, AnswerBeans, SendCreate, AnswerRequest, RunCompletion,
       TimerFires, Connect, RemoteClose, Subscribe, Unsubscribe, Disconnect, vars, histVars
  <2>2. TypeOK
    BY <1>1 DEF StrongInv, Inv
  <2>3. /\ i = Len(log) + 1 /\ log' = Append(log, note) /\ NoMicrotask
        /\ \E l \in ToSet(listeners[note.event]) : Throws(l, note)
    BY <1>1, <2>1 DEF Deliver
  <2>4. log'[i] = note /\ \A l \in Ops : since[l] < i
    BY <2>2, <2>3, AppendProperties DEF TypeOK
  <2>5. PICK l \in ToSet(listeners[note.event]) : Throws(l, note)
    BY <2>3
  <2> QED
    BY <1>1, <2>3, <2>4, <2>5, Thrower
<1>2. StrongInv /\ [Next]_vars => [Step]_vars
  BY <1>1
<1> QED
  BY <1>2, StrongInvariance, PTL DEF Spec, AbortedByUnsentRequest

(* Listeners of the user hear everything but the aborted emissions. *)
THEOREM UsersHear == Spec => []UserHearsAllButAborted
<1>1. StrongInv => UserHearsAllButAborted
  BY DEF StrongInv
<1> QED
  BY <1>1, StrongInvariance, PTL

(* A served call never ends in a timeout. *)
THEOREM NoTimeoutOnceServed == Spec => ServedBeatsTimeout
<1>1. StrongInv /\ [Next]_vars =>
        [\A op \in Ops : promise[op] = "pending" /\ promise'[op] = "timeout"
           => ~Served(op)]_vars
  <2> SUFFICES ASSUME StrongInv, [Next]_vars, NEW op \in Ops,
                      promise[op] = "pending", promise'[op] = "timeout"
               PROVE  ~Served(op)
    OBVIOUS
  <2>1. TypeOK /\ CleanInv(op)
    BY DEF StrongInv, Inv
  <2>2. TimerFires(op)
    BY <2>1 DEF Next, Call, AnswerBeans, SendCreate, AnswerRequest, RunCompletion,
       TimerFires, Deliver, Connect, RemoteClose, Subscribe, Unsubscribe, Disconnect,
       Settle, TypeOK, vars, callVars
  <2> QED
    BY <2>1, <2>2 DEF TimerFires, NoMicrotask, CleanInv
<1> QED
  BY <1>1, StrongInvariance, PTL DEF Spec, ServedBeatsTimeout

(* A call not served when its connection is disposed is never served. *)
THEOREM DisposedStaysUnserved == Spec => DisposedNeverServed
<1>1. StrongInv /\ StrongInv' /\ [Next]_vars =>
        [\A op \in Ops :
           promise[op] # "uncalled" /\ connState[chan[op]] = "disposed" /\ ~Served(op)
           => ~Served(op)']_vars
  <2> SUFFICES ASSUME StrongInv, [Next]_vars, NEW op \in Ops,
                      promise[op] # "uncalled", connState[chan[op]] = "disposed",
                      ~Served(op)
               PROVE  ~Served(op)'
    OBVIOUS
  <2> USE DEF callVars, connVars, histVars
  <2>1. /\ TypeOK /\ stage[op] \notin {"finding", "sent"}
        /\ stage[op] = "failed" \/ ~Registered(op)
    BY DEF StrongInv, Inv, CleanInv
  <2>2. ASSUME NEW o \in Ops, \/ \E c \in Conns : Call(o, c)
                              \/ AnswerBeans(o) \/ SendCreate(o) \/ AnswerRequest(o)
                              \/ RunCompletion(o) \/ TimerFires(o)
        PROVE  ~Served(op)'
    BY <2>1, <2>2 DEF Call, AnswerBeans, SendCreate, AnswerRequest, RunCompletion,
       TimerFires, Served, TypeOK
  <2>3. ASSUME NEW c \in Conns, NEW note \in Wire, Deliver(c, note)
        PROVE  ~Served(op)'
    <3>1. op \notin Captures(note)
      <4>1. op \in Captures(note) => Registered(op) /\ stage[op] # "failed"
        BY EventsType DEF Captures, Called, Registered, ToSet, Accepts, Unassigned
      <4> QED
        BY <2>1, <4>1
    <3> QED
      BY <2>1, <2>3, <3>1 DEF Deliver, Served
  <2>4. CASE Disconnect
    <3>1. stage'[op] = "ok" => stage[op] = "ok"
      BY <2>1, <2>4 DEF Disconnect, Rejected, TypeOK
    <3> QED
      BY <2>4, <3>1 DEF Disconnect, Served
  <2>5. CASE \/ \E u \in Users : Subscribe(u) \/ Unsubscribe(u)
             \/ \E c \in Conns : Connect(c) \/ RemoteClose(c)
             \/ UNCHANGED vars
    BY <2>5 DEF Subscribe, Unsubscribe, Connect, RemoteClose, vars, Served
  <2> QED
    BY <2>2, <2>3, <2>4, <2>5 DEF Next
<1> QED
  BY <1>1, StrongInvariance, PTL DEF Spec, DisposedNeverServed

(* A pending promise has an armed timer, whatever became of its request,   *)
(* its handler and its connection.                                         *)
THEOREM PendingCallsAreArmed == Spec => []PendingIsArmed
<1>1. Init => PendingIsArmed
  BY DEF Init, PendingIsArmed
<1>2. TypeOK /\ PendingIsArmed /\ [Next]_vars => PendingIsArmed'
  <2> SUFFICES ASSUME TypeOK, PendingIsArmed, [Next]_vars PROVE PendingIsArmed'
    OBVIOUS
  <2>1. ASSUME NEW op \in Ops, NEW c \in Conns, Call(op, c) PROVE PendingIsArmed'
    BY <2>1 DEF Call, TypeOK, PendingIsArmed
  <2>2. ASSUME NEW op \in Ops, RunCompletion(op) \/ TimerFires(op) PROVE PendingIsArmed'
    BY <2>2 DEF RunCompletion, TimerFires, Settle, TypeOK, PendingIsArmed
  <2>3. UNCHANGED <<promise, timer>> => PendingIsArmed'
    BY DEF PendingIsArmed
  <2> QED
    BY <2>1, <2>2, <2>3 DEF Next, AnswerBeans, SendCreate, AnswerRequest, Deliver,
       Connect, RemoteClose, Subscribe, Unsubscribe, Disconnect, vars, callVars
<1> QED
  BY <1>1, <1>2, TypeCorrect, PTL DEF Spec

(* A removed listener is the only one that goes. *)
LEMMA RemovedAlone ==
  ASSUME TypeOK, NEW e \in Events, NEW l,
         listeners' = [listeners EXCEPT ![e] = RemoveListener(listeners[e], l)],
         NEW k, k # l, Registered(k)
  PROVE  Registered(k)'
<1>1. PICK d \in Events : k \in ToSet(listeners[d])
  BY DEF Registered
<1>2. CASE d = e
  <2>1. k \in ToSet(RemoveListener(listeners[e], l))
    BY <1>1, <1>2, OthersStay DEF TypeOK
  <2> QED
    BY <2>1 DEF Registered, TypeOK
<1>3. CASE d # e
  BY <1>1, <1>3 DEF Registered, TypeOK
<1> QED
  BY <1>2, <1>3

(* A listener leaves the emitter alone, the handler of a call only when it *)
(* is served; or all of them leave with disconnect.                        *)
THEOREM ListenersLeaveOneByOne == Spec => ListenersLeaveAlone
<1>1. StrongInv /\ [Next]_vars =>
        [\A l \in Ops \cup Users : Registered(l) /\ ~Registered(l)' =>
           \/ /\ l \in Ops => Served(l)
              /\ \A k \in (Ops \cup Users) \ {l} : Registered(k) => Registered(k)'
           \/ /\ \E c \in Conns : c = current /\ connState'[c] = "disposed"
              /\ \A k \in Ops \cup Users : ~Registered(k)']_vars
  <2> SUFFICES ASSUME StrongInv, [Next]_vars,
                      NEW l \in Ops \cup Users, Registered(l), ~Registered(l)'
               PROVE  \/ /\ l \in Ops => Served(l)
                         /\ \A k \in (Ops \cup Users) \ {l} :
                              Registered(k) => Registered(k)'
                      \/ /\ \E c \in Conns : c = current /\ connState'[c] = "disposed"
                         /\ \A k \in Ops \cup Users : ~Registered(k)'
    OBVIOUS
  <2> DEFINE LeavesAlone ==
               /\ l \in Ops => Served(l)
               /\ \A k \in (Ops \cup Users) \ {l} : Registered(k) => Registered(k)'
             Everybody ==
               /\ \E c \in Conns : c = current /\ connState'[c] = "disposed"
               /\ \A k \in Ops \cup Users : ~Registered(k)'
  <2>1. TypeOK /\ CompletionsServed
    BY DEF StrongInv, Inv
  <2>2. ASSUME NEW op \in Ops, NEW c \in Conns, Call(op, c) PROVE FALSE
    <3>1. EventOf(op) \in Events /\ listeners[EventOf(op)] \in Seq(Ops \cup Users)
      BY <2>1, EventsType DEF TypeOK
    <3>2. ToSet(listeners[EventOf(op)])
            \subseteq ToSet(PrependListener(listeners[EventOf(op)], op))
      BY <3>1, PrependListenerProperties
    <3> QED
      BY <2>1, <2>2, <3>1, <3>2 DEF Call, Registered, TypeOK
  <2>3. ASSUME NEW u \in Users, Subscribe(u) PROVE FALSE
    <3>1. /\ UserEvent[u] \in Events /\ listeners[UserEvent[u]] \in Seq(Ops \cup Users)
          /\ u \notin ToSet(listeners[UserEvent[u]])
      BY <2>1, <2>3, EventsType DEF TypeOK, Subscribe, Registered
    <3>2. ToSet(listeners[UserEvent[u]])
            \subseteq ToSet(Append(listeners[UserEvent[u]], u))
      BY <3>1, AppendKeeps DEF StrongInv, EmitterInv
    <3> QED
      BY <2>1, <2>3, <3>1, <3>2 DEF Subscribe, Registered, TypeOK
  <2>4. ASSUME NEW op \in Ops, RunCompletion(op) PROVE LeavesAlone
    <3>1. EventOf(op) \in Events /\ Served(op)
      BY <2>1, <2>4, EventsType DEF RunCompletion, CompletionsServed
    <3>2. listeners' # listeners
      BY DEF Registered
    <3>3. listeners' =
            [listeners EXCEPT ![EventOf(op)] = RemoveListener(listeners[EventOf(op)], op)]
      BY <2>4, <3>2 DEF RunCompletion
    <3>4. \A k : k # op /\ Registered(k) => Registered(k)'
      BY <2>1, <3>1, <3>3, RemovedAlone
    <3> QED
      BY <3>1, <3>4
  <2>5. ASSUME NEW u \in Users, Unsubscribe(u) PROVE LeavesAlone
    <3>1. UserEvent[u] \in Events
      BY EventsType
    <3>2. \A k : k # u /\ Registered(k) => Registered(k)'
      BY <2>1, <2>5, <3>1, RemovedAlone DEF Unsubscribe
    <3> QED
      BY <3>2, ListenersDistinct
  <2>6. ASSUME Disconnect PROVE Everybody
    <3>1. current \in Conns /\ connState'[current] = "disposed"
      BY <2>1, <2>6 DEF Disconnect, TypeOK
    <3> QED
      BY <2>6, <3>1, DisconnectEmitter
  <2>7. listeners' # listeners
    BY DEF Registered
  <2>8. LeavesAlone \/ Everybody
    BY <2>2, <2>3, <2>4, <2>5, <2>6, <2>7 DEF Next, AnswerBeans, SendCreate,
       AnswerRequest, TimerFires, Deliver, Connect, RemoteClose, vars
  <2> QED
    BY <2>8
<1> QED
  BY <1>1, StrongInvariance, PTL DEF Spec, ListenersLeaveAlone
=============================================================================

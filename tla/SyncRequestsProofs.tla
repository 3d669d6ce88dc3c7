------------------------- MODULE SyncRequestsProofs -------------------------
(* Theorems about SyncRequests, for any calls, users, connections and      *)
(* notifications.                                                          *)
EXTENDS SyncRequests, SequenceTheorems, WellFoundedInduction, TLAPS

(* A set of positions that is not empty has a greatest element: the least  *)
(* distance from the end, which exists as < is well-founded on Nat.        *)
LEMMA GreatestPosition ==
  ASSUME NEW n \in Nat, NEW I, I \subseteq 1 .. n, I # {}
  PROVE  \E i \in I : \A j \in I : j <= i
<1> DEFINE R == {p \in Nat \X Nat : p[1] < p[2]}
           J == {n - i : i \in I}
<1>1. J \subseteq Nat /\ J # {}
  <2>1. \A i \in I : i \in 1 .. n /\ n - i \in Nat
    OBVIOUS
  <2>2. PICK i \in I : TRUE
    OBVIOUS
  <2>3. n - i \in J
    BY <2>2
  <2> QED
    BY <2>1, <2>3
<1>2. IsWellFoundedOn(R, Nat)
  BY NatLessThanWellFounded DEF OpToRel
<1>3. PICK d \in J : \A e \in J : <<e, d>> \notin R
  BY <1>1, <1>2, WFMin
<1>4. \A e \in J : ~(e < d)
  BY <1>1, <1>3
<1>5. PICK i \in I : d = n - i
  OBVIOUS
<1>6. \A j \in I : n - j \in J
  OBVIOUS
<1>7. \A j \in I : j <= i
  BY <1>4, <1>5, <1>6
<1> QED
  BY <1>7

(* The emitter's operations keep a sequence of listeners, and add or       *)
(* remove nothing but the listener they are given.                         *)
LEMMA PrependListenerProperties ==
  ASSUME NEW S, NEW q \in Seq(S), NEW l \in S
  PROVE  /\ PrependListener(q, l) \in Seq(S)
         /\ ToSet(PrependListener(q, l)) = ToSet(q) \cup {l}
<1>1. <<l>> \in Seq(S) /\ Len(<<l>>) = 1 /\ <<l>>[1] = l
  OBVIOUS
<1>2. PrependListener(q, l) = <<l>> \o q
  BY DEF PrependListener, Cons
<1>3. Range(<<l>> \o q) = Range(<<l>>) \cup Range(q)
  BY <1>1, RangeConcatenation
<1>4. Range(<<l>>) = {l}
  BY <1>1 DEF Range
<1>5. \A s : Range(s) = ToSet(s)
  BY DEF Range, ToSet
<1> QED
  BY <1>1, <1>2, <1>3, <1>4, <1>5, ConcatProperties

LEMMA RemoveListenerProperties ==
  ASSUME NEW S, NEW q \in Seq(S), NEW l
  PROVE  /\ RemoveListener(q, l) \in Seq(S)
         /\ ToSet(RemoveListener(q, l)) \subseteq ToSet(q)
<1>1. CASE l \notin ToSet(q)
  BY <1>1 DEF RemoveListener
<1>2. ASSUME NEW k \in 1 .. Len(q)
      PROVE  /\ RemoveAt(q, k) \in Seq(S)
             /\ ToSet(RemoveAt(q, k)) \subseteq ToSet(q)
  <2> DEFINE left == SubSeq(q, 1, k - 1)
             right == SubSeq(q, k + 1, Len(q))
  <2>1. left \in Seq(S) /\ right \in Seq(S)
    BY SubSeqProperties
  <2>2. RemoveAt(q, k) = left \o right
    BY DEF RemoveAt
  <2>3. Range(left) \subseteq Range(q) /\ Range(right) \subseteq Range(q)
    BY SubSeqProperties DEF Range
  <2>4. Range(left \o right) = Range(left) \cup Range(right)
    BY <2>1, RangeConcatenation
  <2>5. \A s : Range(s) = ToSet(s)
    BY DEF Range, ToSet
  <2> QED
    BY <2>1, <2>2, <2>3, <2>4, <2>5, ConcatProperties
<1>3. CASE l \in ToSet(q)
  <2> DEFINE IsLast(i) == q[i] = l /\ \A j \in DOMAIN q : q[j] = l => j <= i
  <2>1. \E i \in DOMAIN q : IsLast(i)
    <3> DEFINE I == {i \in DOMAIN q : q[i] = l}
    <3>1. I # {} /\ I \subseteq 1 .. Len(q) /\ Len(q) \in Nat
      BY <1>3 DEF ToSet
    <3>2. \E i \in I : \A j \in I : j <= i
      BY <3>1, GreatestPosition
    <3> QED BY <3>2
  <2> QED
    BY <1>2, <1>3, <2>1 DEF RemoveListener
<1> QED
  BY <1>1, <1>3
-----------------------------------------------------------------------------
(* Each variable keeps its type.                                           *)

LEMMA EventsType ==
  /\ \A op \in Ops : EventOf(op) \in Events
  /\ \A u \in Users : UserEvent[u] \in Events
BY ApiAssumption, UserEventAssumption DEF EventOf, Events, Apis, Awaits

LEMMA InitTypeOK == Init => TypeOK
BY BoundAssumption, EmptySeq DEF Init, TypeOK, PromiseStates, TimerStates, Stages, ConnStates

LEMMA NextTypeOK == TypeOK /\ [Next]_vars => TypeOK'
<1> SUFFICES ASSUME TypeOK, [Next]_vars PROVE TypeOK'
  OBVIOUS
<1> USE DEF TypeOK, PromiseStates, TimerStates, Stages, ConnStates,
            callVars, connVars, histVars
<1>1. ASSUME NEW op \in Ops, NEW c \in Conns, Call(op, c) PROVE TypeOK'
  <2>1. listeners' \in [Events -> Seq(Ops \cup Users)]
    BY <1>1, EventsType, PrependListenerProperties DEF Call
  <2>2. /\ promise' \in [Ops -> PromiseStates] /\ stage' \in [Ops -> Stages]
        /\ timer' \in [Ops -> TimerStates]
    BY <1>1 DEF Call
  <2>3. since' \in [Ops \cup Users -> 0 .. Len(log)]
    BY <1>1 DEF Call
  <2>4. chan' \in [Ops -> Conns \cup {NoConn}]
    BY <1>1 DEF Call
  <2> QED
    BY <1>1, <2>1, <2>2, <2>3, <2>4 DEF Call
<1>2. ASSUME NEW op \in Ops, AnswerBeans(op) PROVE TypeOK'
  BY <1>2 DEF AnswerBeans
<1>3. ASSUME NEW op \in Ops, SendCreate(op) PROVE TypeOK'
  BY <1>3 DEF SendCreate
<1>4. ASSUME NEW op \in Ops, AnswerRequest(op) PROVE TypeOK'
  BY <1>4 DEF AnswerRequest, AfterAnswer
<1>5. ASSUME NEW op \in Ops, RunCompletion(op) PROVE TypeOK'
  <2>1. listeners' \in [Events -> Seq(Ops \cup Users)]
    BY <1>5, EventsType, RemoveListenerProperties DEF RunCompletion
  <2> QED
    BY <1>5, <2>1 DEF RunCompletion, Settle
<1>6. ASSUME NEW op \in Ops, TimerFires(op) PROVE TypeOK'
  BY <1>6 DEF TimerFires, Settle
<1>7. ASSUME NEW c \in Conns, NEW note \in Wire, Deliver(c, note) PROVE TypeOK'
  <2>1. /\ log' \in Seq(Wire)
        /\ Len(log') = Len(log) + 1 /\ Len(log') \in 0 .. MaxEvents
    BY <1>7, BoundAssumption DEF Deliver
  <2>2. Captures(note) \subseteq Ops
    BY DEF Captures
  <2>3. matched' \in [Ops -> 0 .. Len(log')]
    BY <1>7, <2>1, <2>2 DEF Deliver
  <2>4. ready' \subseteq Ops
    BY <1>7, <2>2 DEF Deliver
  <2>5. aborted' \subseteq 1 .. Len(log')
    <3>1. aborted \subseteq 1 .. Len(log') /\ Len(log) + 1 \in 1 .. Len(log')
      BY <2>1
    <3>2. aborted' \subseteq aborted \cup {Len(log) + 1}
      BY <1>7 DEF Deliver
    <3> QED
      BY <3>1, <3>2
  <2>6. since' \in [Ops \cup Users -> 0 .. Len(log')]
    BY <1>7, <2>1 DEF Deliver
  <2>7. heard' \in [Users -> SUBSET (1 .. Len(log'))]
    <3>1. \A u \in Users : heard[u] \subseteq 1 .. Len(log')
      BY <2>1
    <3>2. Len(log) + 1 \in 1 .. Len(log')
      BY <2>1
    <3> QED
      BY <1>7, <3>1, <3>2 DEF Deliver
  <2> QED
    BY <1>7, <2>1, <2>3, <2>4, <2>5, <2>6, <2>7 DEF Deliver
<1>8. ASSUME NEW c \in Conns, Connect(c) PROVE TypeOK'
  BY <1>8 DEF Connect
<1>9. ASSUME NEW c \in Conns, RemoteClose(c) PROVE TypeOK'
  BY <1>9 DEF RemoteClose
<1>10. ASSUME NEW u \in Users, Subscribe(u) PROVE TypeOK'
  BY <1>10, EventsType DEF Subscribe
<1>11. ASSUME NEW u \in Users, Unsubscribe(u) PROVE TypeOK'
  BY <1>11, EventsType, RemoveListenerProperties DEF Unsubscribe
<1>12. CASE Disconnect
  BY <1>12, EmptySeq DEF Disconnect, AllRemoved, Rejected
<1>13. CASE UNCHANGED vars
  BY <1>13 DEF vars
<1> QED
  BY <1>1, <1>2, <1>3, <1>4, <1>5, <1>6, <1>7, <1>8, <1>9, <1>10, <1>11,
     <1>12, <1>13 DEF Next

(* TypeOK holds in every state of every behaviour. *)
THEOREM TypeCorrect == Spec => []TypeOK
BY InitTypeOK, NextTypeOK, PTL DEF Spec
-----------------------------------------------------------------------------
(* The inductive invariant.                                                *)

LEMMA InitInv == Init => Inv
<1> SUFFICES ASSUME Init PROVE Inv
  OBVIOUS
<1>1. TypeOK
  BY InitTypeOK
<1>2. \A l : ~Registered(l)
  BY DEF Init, Registered, ToSet
<1>3. HandlersOnOwnEvent
  BY DEF Init, HandlersOnOwnEvent, ToSet
<1> QED
  BY <1>1, <1>2, <1>3 DEF Init, Inv, UncalledIsClean, CaptureFits,
     CompletionsServed, NothingMissed, FirstMatchWins

(* What Inv says of one call. *)
OpInv(op) ==
  /\ promise[op] = "uncalled" =>
       stage[op] = "idle" /\ matched[op] = 0 /\ op \notin ready /\ ~Registered(op)
  /\ matched[op] # 0 =>
       /\ matched[op] > since[op] /\ Accepts(op, log[matched[op]])
       /\ stage[op] \in {"sent", "ok", "error"}
       /\ \A i \in since[op] + 1 .. matched[op] - 1 :
            Accepts(op, log[i]) => i \in aborted
  /\ op \in ready \/ promise[op] = "resolved" => Served(op)
  /\ matched[op] = 0 /\ Registered(op) =>
       \A i \in since[op] + 1 .. Len(log) : Accepts(op, log[i]) => i \in aborted

LEMMA InvByCall ==
  Inv <=> TypeOK /\ HandlersOnOwnEvent /\ \A op \in Ops : OpInv(op)
BY DEF Inv, OpInv, UncalledIsClean, CaptureFits, CompletionsServed,
       NothingMissed, FirstMatchWins

(* A step that leaves the history and a call alone keeps OpInv; the call   *)
(* may lose its handler.                                                   *)
Same(op) ==
  /\ promise'[op] = promise[op] /\ stage'[op] = stage[op]
  /\ matched'[op] = matched[op] /\ since'[op] = since[op]
  /\ op \in ready' => op \in ready
  /\ Registered(op)' => Registered(op)

LEMMA SameKeepsOpInv ==
  ASSUME NEW op \in Ops, OpInv(op), Same(op), log' = log, aborted' = aborted
  PROVE  OpInv(op)'
BY DEF OpInv, Same, Served, Accepts

(* A step that registers no handler of a call. *)
NoNewHandler ==
  \A e \in Events, op \in Ops :
    op \in ToSet(listeners'[e]) => op \in ToSet(listeners[e])

LEMMA NoNewHandlerKeeps ==
  ASSUME NoNewHandler
  PROVE  /\ \A op \in Ops : Registered(op)' => Registered(op)
         /\ HandlersOnOwnEvent => HandlersOnOwnEvent'
BY DEF NoNewHandler, Registered, HandlersOnOwnEvent, EventOf

LEMMA SameListeners == listeners' = listeners => NoNewHandler
BY DEF NoNewHandler

LEMMA CallInv ==
  ASSUME Inv, NEW op \in Ops, NEW c \in Conns, Call(op, c)
  PROVE  HandlersOnOwnEvent' /\ \A o \in Ops : OpInv(o)'
<1> USE DEF TypeOK, callVars, connVars, histVars
<1>1. TypeOK /\ HandlersOnOwnEvent /\ \A o \in Ops : OpInv(o)
  BY InvByCall
<1>2. /\ EventOf(op) \in Events
      /\ listeners[EventOf(op)] \in Seq(Ops \cup Users)
  BY <1>1, EventsType
<1>3. \A e \in Events, l \in Ops : l \in ToSet(listeners'[e]) =>
        l \in ToSet(listeners[e]) \/ (l = op /\ e = EventOf(op))
  <2>1. ToSet(PrependListener(listeners[EventOf(op)], op))
          = ToSet(listeners[EventOf(op)]) \cup {op}
    BY <1>2, PrependListenerProperties
  <2>2. \A e \in Events : listeners'[e] =
          IF e = EventOf(op) THEN PrependListener(listeners[e], op) ELSE listeners[e]
    BY <1>1 DEF Call
  <2> QED
    BY <2>1, <2>2
<1>4. HandlersOnOwnEvent'
  BY <1>1, <1>3 DEF HandlersOnOwnEvent, EventOf
<1>5. ASSUME NEW o \in Ops, o # op PROVE OpInv(o)'
  <2>1. Registered(o)' => Registered(o)
    BY <1>3, <1>5 DEF Registered
  <2>2. Same(o) /\ log' = log /\ aborted' = aborted
    BY <1>1, <1>5, <2>1 DEF Call, Same
  <2> QED
    BY <1>1, <2>2, SameKeepsOpInv
<1>6. OpInv(op)'
  <2>1. promise[op] = "uncalled" /\ matched[op] = 0 /\ op \notin ready
    BY <1>1 DEF Call, OpInv
  <2>2. /\ promise'[op] \in {"pending", "connError"}
        /\ matched'[op] = 0 /\ op \notin ready'
        /\ since'[op] = Len(log) /\ log' = log
    BY <1>1, <2>1 DEF Call
  <2> QED
    BY <1>1, <2>2 DEF OpInv
<1> QED
  BY <1>4, <1>5, <1>6

(* A turn that concerns the single call op, if any, and emits nothing. *)
Alone(op) ==
  /\ NoNewHandler /\ log' = log /\ aborted' = aborted /\ since' = since
  /\ \A o \in Ops \ {op} :
       /\ promise'[o] = promise[o] /\ stage'[o] = stage[o]
       /\ matched'[o] = matched[o] /\ (o \in ready' => o \in ready)

LEMMA AloneInv ==
  ASSUME Inv, NEW op \in Ops, Alone(op), OpInv(op)'
  PROVE  HandlersOnOwnEvent' /\ \A o \in Ops : OpInv(o)'
<1>1. HandlersOnOwnEvent /\ \A o \in Ops : OpInv(o)
  BY InvByCall
<1>2. HandlersOnOwnEvent' /\ \A o \in Ops : Registered(o)' => Registered(o)
  BY <1>1, NoNewHandlerKeeps DEF Alone
<1>3. ASSUME NEW o \in Ops \ {op} PROVE OpInv(o)'
  BY <1>1, <1>2, SameKeepsOpInv DEF Alone, Same
<1> QED
  BY <1>2, <1>3

LEMMA RequestInv ==
  ASSUME Inv, NEW op \in Ops,
         AnswerBeans(op) \/ SendCreate(op) \/ AnswerRequest(op)
  PROVE  HandlersOnOwnEvent' /\ \A o \in Ops : OpInv(o)'
<1> USE DEF TypeOK, connVars, histVars
<1>1. TypeOK /\ OpInv(op)
  BY InvByCall
<1>2. NoNewHandler
  BY SameListeners DEF AnswerBeans, SendCreate, AnswerRequest
<1>3. Registered(op)' => Registered(op)
  BY <1>2, NoNewHandlerKeeps
<1>4. Alone(op)
  BY <1>1, <1>2 DEF Alone, AnswerBeans, SendCreate, AnswerRequest, AfterAnswer
<1>5. OpInv(op)'
  <2>1. CASE AnswerBeans(op) \/ SendCreate(op)
    <3>1. matched[op] = 0 /\ op \notin ready /\ promise[op] \notin {"resolved", "uncalled"}
      BY <1>1, <2>1 DEF AnswerBeans, SendCreate, OpInv, Served
    <3> QED
      BY <1>1, <1>3, <2>1, <3>1 DEF AnswerBeans, SendCreate, OpInv, Accepts
  <2>2. CASE AnswerRequest(op)
    <3>1. op \notin ready /\ promise[op] \notin {"resolved", "uncalled"}
      BY <1>1, <2>2 DEF AnswerRequest, OpInv, Served
    <3>2. /\ stage'[op] \in {"ok", "error"}
          /\ op \in ready' => matched[op] # 0 /\ stage'[op] = "ok"
      BY <1>1, <2>2, <3>1 DEF AnswerRequest, AfterAnswer
    <3>3. /\ promise' = promise /\ matched' = matched /\ since' = since
          /\ log' = log /\ aborted' = aborted
      BY <2>2 DEF AnswerRequest
    <3> QED
      BY <1>1, <1>3, <3>1, <3>2, <3>3 DEF OpInv, Served, Accepts
  <2> QED
    BY <2>1, <2>2
<1> QED
  BY <1>4, <1>5, AloneInv

LEMMA SettlingInv ==
  ASSUME Inv, NEW op \in Ops, RunCompletion(op) \/ TimerFires(op)
  PROVE  HandlersOnOwnEvent' /\ \A o \in Ops : OpInv(o)'
<1> USE DEF TypeOK, connVars, histVars
<1>1. TypeOK /\ OpInv(op)
  BY InvByCall
<1>2. NoNewHandler
  <2>1. CASE RunCompletion(op)
    <3>1. ToSet(RemoveListener(listeners[EventOf(op)], op))
            \subseteq ToSet(listeners[EventOf(op)])
      BY <1>1, EventsType, RemoveListenerProperties
    <3> QED
      BY <1>1, <2>1, <3>1 DEF RunCompletion, NoNewHandler
  <2> QED
    BY <2>1, SameListeners DEF TimerFires
<1>3. Registered(op)' => Registered(op)
  BY <1>2, NoNewHandlerKeeps
<1>4. Alone(op)
  BY <1>1, <1>2 DEF Alone, RunCompletion, TimerFires, Settle
<1>5. /\ stage' = stage /\ matched' = matched /\ since' = since
      /\ log' = log /\ aborted' = aborted /\ ready' \subseteq ready
      /\ promise'[op] = "resolved" => op \in ready \/ promise[op] = "resolved"
      /\ promise'[op] = "uncalled" => promise[op] = "uncalled"
  BY <1>1 DEF RunCompletion, TimerFires, Settle
<1>6. OpInv(op)'
  BY <1>1, <1>3, <1>5 DEF OpInv, Served, Accepts
<1> QED
  BY <1>4, <1>6, AloneInv

LEMMA DisconnectInv ==
  ASSUME Inv, Disconnect
  PROVE  HandlersOnOwnEvent' /\ \A o \in Ops : OpInv(o)'
<1> USE DEF TypeOK, connVars, histVars
<1>1. TypeOK /\ \A o \in Ops : OpInv(o)
  BY InvByCall
<1>2. \A e \in Events : ToSet(listeners'[e]) = {}
  BY DEF Disconnect, AllRemoved, ToSet
<1>3. HandlersOnOwnEvent' /\ \A o \in Ops : ~Registered(o)'
  BY <1>2 DEF HandlersOnOwnEvent, Registered
<1>4. ASSUME NEW o \in Ops PROVE OpInv(o)'
  <2>1. /\ stage[o] = "idle" => stage'[o] = "idle"
        /\ stage[o] = "ok" => stage'[o] = "ok"
        /\ stage[o] \in {"sent", "error"} => stage'[o] \in {"sent", "error"}
    BY <1>1 DEF Disconnect, Rejected
  <2>2. /\ promise' = promise /\ matched' = matched /\ since' = since
        /\ log' = log /\ aborted' = aborted /\ ready' = ready
    BY DEF Disconnect
  <2> QED
    BY <1>1, <1>3, <2>1, <2>2 DEF OpInv, Served, Accepts
<1> QED
  BY <1>3, <1>4

(* An emission that no exception cut short reached every listener. *)
LEMMA AllCalled ==
  ASSUME NEW q \in Seq(Ops \cup Users), NEW note, NEW l \in ToSet(q),
         \A m \in ToSet(q) : ~Throws(m, note)
  PROVE  l \in Called(q, note)
BY DEF Called, ToSet

LEMMA DeliverInv ==
  ASSUME Inv, NEW c \in Conns, NEW note \in Wire, Deliver(c, note)
  PROVE  HandlersOnOwnEvent' /\ \A o \in Ops : OpInv(o)'
<1> USE DEF TypeOK, callVars, connVars, histVars
<1> DEFINE serial == Len(log) + 1
           q      == listeners[note.event]
<1>1. TypeOK /\ HandlersOnOwnEvent /\ \A o \in Ops : OpInv(o)
  BY InvByCall
<1>2. /\ log' = Append(log, note) /\ Len(log) \in Nat /\ Len(log') = serial
      /\ log'[serial] = note
      /\ \A i \in 1 .. Len(log) : log'[i] = log[i]
  BY <1>1, AppendProperties DEF Deliver
<1>3. /\ promise' = promise /\ stage' = stage /\ since' = since
      /\ listeners' = listeners /\ aborted \subseteq aborted'
  BY DEF Deliver
<1>4. HandlersOnOwnEvent' /\ \A o \in Ops : Registered(o)' <=> Registered(o)
  BY <1>1, <1>3 DEF HandlersOnOwnEvent, Registered
<1>5. ASSUME NEW o \in Ops, o \in Captures(note) PROVE OpInv(o)'
  <2>1. /\ matched[o] = 0 /\ Accepts(o, note) /\ ~Unassigned(o)
        /\ o \in ToSet(q)
    BY <1>5 DEF Captures, Called, ToSet
  <2>2. Registered(o) /\ promise[o] # "uncalled" /\ promise[o] # "resolved" /\ o \notin ready
    <3>1. note.event = EventOf(o) /\ EventOf(o) \in Events
      BY <2>1, EventsType DEF Accepts
    <3>2. Registered(o)
      BY <2>1, <3>1 DEF Registered
    <3> QED
      BY <1>1, <2>1, <3>2 DEF OpInv, Served
  <2>3. matched'[o] = serial /\ since[o] \in 0 .. Len(log)
    BY <1>1, <1>5 DEF Deliver
  <2>4. stage[o] \in {"sent", "ok", "error"}
    BY <1>1, <2>1 DEF Unassigned, Stages
  <2>5. o \in ready' => stage[o] = "ok"
    BY <1>5, <2>2 DEF Deliver
  <2>6. \A i \in since[o] + 1 .. Len(log) : Accepts(o, log[i]) => i \in aborted
    BY <1>1, <2>1, <2>2 DEF OpInv
  <2>7. \A i \in since'[o] + 1 .. matched'[o] - 1 : Accepts(o, log'[i]) => i \in aborted'
    BY <1>2, <1>3, <2>3, <2>6
  <2>8. Accepts(o, log'[matched'[o]])
    BY <1>2, <2>1, <2>3
  <2>9. matched'[o] # 0 /\ matched'[o] > since'[o]
    BY <1>2, <1>3, <2>3
  <2> QED
    BY <1>3, <2>2, <2>4, <2>5, <2>7, <2>8, <2>9 DEF OpInv, Served, Accepts
<1>6. ASSUME NEW o \in Ops, o \notin Captures(note) PROVE OpInv(o)'
  <2>1. matched'[o] = matched[o] /\ (o \in ready' => o \in ready)
    BY <1>1, <1>6 DEF Deliver
  <2>2. matched[o] \in 0 .. Len(log) /\ since[o] \in 0 .. Len(log)
    BY <1>1
  <2>3. ASSUME matched[o] = 0, Registered(o), Accepts(o, note)
        PROVE  serial \in aborted'
    <3>1. o \in ToSet(q) /\ q \in Seq(Ops \cup Users)
      BY <1>1, <2>3, EventsType DEF HandlersOnOwnEvent, Registered, Accepts
    <3>2. \E m \in ToSet(q) : Throws(m, note)
      <4> SUFFICES ASSUME \A m \in ToSet(q) : ~Throws(m, note) PROVE FALSE
        OBVIOUS
      <4>1. o \in Called(q, note) /\ ~Unassigned(o)
        BY <2>3, <3>1, AllCalled DEF Throws
      <4> QED
        BY <1>6, <2>3, <4>1 DEF Captures
    <3> QED
      BY <3>2 DEF Deliver
  <2>4. matched[o] = 0 /\ Registered(o) =>
          \A i \in since[o] + 1 .. serial : Accepts(o, log'[i]) => i \in aborted'
    BY <1>1, <1>2, <1>3, <2>2, <2>3 DEF OpInv
  <2>5. matched[o] # 0 =>
          /\ Accepts(o, log'[matched[o]])
          /\ \A i \in since[o] + 1 .. matched[o] - 1 :
               Accepts(o, log'[i]) => i \in aborted'
    BY <1>1, <1>2, <1>3, <2>2 DEF OpInv
  <2> QED
    BY <1>1, <1>2, <1>3, <1>4, <2>1, <2>4, <2>5 DEF OpInv, Served, Accepts
<1> QED
  BY <1>4, <1>5, <1>6

(* Turns that concern no call at all. *)
LEMMA ElsewhereInv ==
  ASSUME Inv,
         \/ \E u \in Users : Subscribe(u) \/ Unsubscribe(u)
         \/ \E c \in Conns : Connect(c) \/ RemoteClose(c)
         \/ UNCHANGED vars
  PROVE  HandlersOnOwnEvent' /\ \A o \in Ops : OpInv(o)'
<1> USE DEF TypeOK, vars, callVars, connVars, histVars
<1>1. TypeOK /\ HandlersOnOwnEvent /\ \A o \in Ops : OpInv(o)
  BY InvByCall
<1>2. NoNewHandler
  <2>1. ASSUME NEW u \in Users, Subscribe(u) PROVE NoNewHandler
    <3>1. ASSUME NEW e \in Events, NEW op \in Ops, op \in ToSet(Append(listeners[e], u))
          PROVE  op \in ToSet(listeners[e])
      <4>1. listeners[e] \in Seq(Ops \cup Users) /\ op # u
        BY <1>1, ListenersDistinct
      <4> QED
        BY <3>1, <4>1, AppendProperties DEF ToSet
    <3> QED
      BY <1>1, <2>1, <3>1 DEF Subscribe, NoNewHandler
  <2>2. ASSUME NEW u \in Users, Unsubscribe(u) PROVE NoNewHandler
    <3>1. ToSet(RemoveListener(listeners[UserEvent[u]], u))
            \subseteq ToSet(listeners[UserEvent[u]])
      BY <1>1, EventsType, RemoveListenerProperties
    <3> QED
      BY <1>1, <2>2, <3>1 DEF Unsubscribe, NoNewHandler
  <2> QED
    BY <2>1, <2>2, SameListeners DEF Connect, RemoteClose
<1>3. /\ promise' = promise /\ stage' = stage /\ matched' = matched
      /\ ready' = ready /\ log' = log /\ aborted' = aborted
      /\ \A o \in Ops : since'[o] = since[o]
  BY <1>1, ListenersDistinct DEF Subscribe, Unsubscribe, Connect, RemoteClose
<1>4. HandlersOnOwnEvent' /\ \A o \in Ops : Same(o)
  BY <1>1, <1>2, <1>3, NoNewHandlerKeeps DEF Same
<1> QED
  BY <1>1, <1>3, <1>4, SameKeepsOpInv

LEMMA NextInv == Inv /\ [Next]_vars => Inv'
<1> SUFFICES ASSUME Inv, [Next]_vars PROVE Inv'
  OBVIOUS
<1>1. TypeOK'
  BY NextTypeOK DEF Inv
<1>2. HandlersOnOwnEvent' /\ \A o \in Ops : OpInv(o)'
  BY CallInv, RequestInv, SettlingInv, DeliverInv, DisconnectInv, ElsewhereInv
  DEF Next
<1> QED
  BY <1>1, <1>2 DEF Inv, OpInv, UncalledIsClean, CaptureFits, CompletionsServed,
     NothingMissed, FirstMatchWins

(* The strengthened invariant holds in every behaviour. *)
THEOREM Invariance == Spec => []Inv
BY InitInv, NextInv, PTL DEF Spec

(* A promise resolves only after its request succeeded, with an event that *)
(* its listener condition accepts and that followed the call.              *)
THEOREM ResolutionIsJustified == Spec => []ResolvedJustified
<1>1. Inv => ResolvedJustified
  BY DEF Inv, CompletionsServed, CaptureFits, ResolvedJustified, Served
<1> QED
  BY <1>1, Invariance, PTL

(* The event captured is the first acceptable one, aborted ones apart. *)
THEOREM FirstAcceptableCaptured == Spec => []FirstMatchWins
<1>1. Inv => FirstMatchWins
  BY DEF Inv
<1> QED
  BY <1>1, Invariance, PTL
-----------------------------------------------------------------------------
(* The refinement of AwaitedEvent.                                         *)

LEMMA InitRefines == Init => Outcome!Init
BY DEF Init, Outcome!Init

LEMMA NextRefines == Inv /\ [Next]_vars => [Outcome!Next]_(Outcome!vars)
<1> SUFFICES ASSUME Inv, [Next]_vars
             PROVE  Outcome!Next \/ UNCHANGED Outcome!vars
  OBVIOUS
<1> USE DEF TypeOK, callVars, connVars, histVars
<1>1. TypeOK
  BY DEF Inv
<1>2. ASSUME NEW op \in Ops, NEW c \in Conns, Call(op, c) PROVE Outcome!Make(op)
  <2>1. [o \in Ops |-> since[o]]'
          = [[o \in Ops |-> since[o]] EXCEPT ![op] = Len(log)]
    BY <1>1, <1>2 DEF Call
  <2> QED
    BY <1>2, <2>1 DEF Call, Outcome!Make
<1>3. ASSUME NEW op \in Ops, RunCompletion(op)
      PROVE  Outcome!Resolve(op) \/ UNCHANGED Outcome!vars
  <2>1. CASE promise[op] = "pending"
    <3>1. /\ matched[op] \in since[op] + 1 .. Len(log)
          /\ Accepts(op, log[matched[op]]) /\ log[matched[op]] \in Wire
      BY <1>1, <1>3 DEF RunCompletion, Inv, CompletionsServed, CaptureFits, Served
    <3>2. promise' = [promise EXCEPT ![op] = "resolved"]
      BY <1>1, <1>3, <2>1 DEF RunCompletion, Settle
    <3> QED
      BY <1>3, <2>1, <3>1, <3>2 DEF RunCompletion, Outcome!Resolve
  <2>2. CASE promise[op] # "pending"
    BY <1>1, <1>3, <2>2 DEF RunCompletion, Settle, Outcome!vars
  <2> QED
    BY <2>1, <2>2
<1>4. ASSUME NEW op \in Ops, TimerFires(op)
      PROVE  Outcome!Expire(op) \/ UNCHANGED Outcome!vars
  BY <1>1, <1>4 DEF TimerFires, Settle, Outcome!Expire, Outcome!vars
<1>5. ASSUME NEW c \in Conns, NEW note \in Wire, Deliver(c, note)
      PROVE  Outcome!Emit(note)
  BY <1>5 DEF Deliver, Outcome!Emit
<1>6. ASSUME NEW op \in Ops, AnswerBeans(op) \/ SendCreate(op) \/ AnswerRequest(op)
      PROVE  UNCHANGED Outcome!vars
  BY <1>6 DEF AnswerBeans, SendCreate, AnswerRequest, Outcome!vars
<1>7. ASSUME NEW u \in Users, Subscribe(u) \/ Unsubscribe(u)
      PROVE  UNCHANGED Outcome!vars
  <2>1. \A o \in Ops : since'[o] = since[o]
    BY <1>1, <1>7, ListenersDistinct DEF Subscribe, Unsubscribe
  <2> QED
    BY <1>7, <2>1 DEF Subscribe, Unsubscribe, Outcome!vars
<1>8. ASSUME NEW c \in Conns, Connect(c) \/ RemoteClose(c)
      PROVE  UNCHANGED Outcome!vars
  BY <1>8 DEF Connect, RemoteClose, Outcome!vars
<1>9. CASE Disconnect \/ UNCHANGED vars
  BY <1>9 DEF Disconnect, vars, Outcome!vars
<1> QED
  BY <1>2, <1>3, <1>4, <1>5, <1>6, <1>7, <1>8, <1>9 DEF Next, Outcome!Next

(* Through promise and log alone, every behaviour is one of AwaitedEvent:  *)
(* outcomes are final, and a resolution has its event.                     *)
THEOREM Refinement == Spec => ImplementsAwaitedEvent
<1>1. Spec => Outcome!Init /\ [][Outcome!Next]_(Outcome!vars)
  BY InitRefines, NextRefines, Invariance, PTL DEF Spec
<1> QED
  BY <1>1, PTL DEF ImplementsAwaitedEvent, Outcome!Spec
=============================================================================

---------------------------- MODULE RoutingProofs ----------------------------
(* Theorems about Routing, for any number of calls to connect and any      *)
(* requests, notifications and prompts.                                    *)
EXTENDS Routing, LifecycleProofs, SequenceTheorems, FiniteSetTheorems

(* The inductive invariant.  The numbers of a connection's requests are    *)
(* distinct, and an answer under way has the number of its request.        *)
IdInv ==
  /\ \A r \in Reqs : via[r] # Nothing => id[r] < nextId[via[r]]
  /\ \A r, q \in Reqs : via[r] # Nothing /\ via[q] = via[r] /\ id[q] = id[r] => q = r
  /\ \A s \in Ids, r \in Reqs : r \in answering[s] => via[r] # Nothing
  /\ \A c \in Ids : \A m \in ToSet(inbox[c]) : m.kind = "answer" =>
       m.id = id[m.to] /\ via[m.to] # Nothing

(* Without an overtaken connect, a connection reads its own call's socket, *)
(* so all that concerns a request stays with its connection, and what the  *)
(* server sends unasked is seen by one connection.                         *)
OwnSocket ==
  \A c \in Ids : reads[c] \in {c, Nothing} /\ (inbox[c] # <<>> => reads[c] = c)

OwnAnswers ==
  /\ \A s \in Ids, r \in Reqs : r \in answering[s] => via[r] = s
  /\ \A c \in Ids : \A m \in ToSet(inbox[c]) : m.kind = "answer" => via[m.to] = c

Touched(c, m) == c \in handledBy[m] \/ Message(m) \in ToSet(inbox[c])

SeenOnce ==
  \A m \in Unasked, c, d \in Ids : Touched(c, m) =>
    m \notin unsent /\ (Touched(d, m) => c = d)

OwnInv == OwnSocket /\ OwnAnswers /\ OwnAnswer /\ SeenOnce /\ refused = {}

RoutingInv == Inv /\ RoutingTypeOK /\ IdInv /\ (OvertakenConnect \/ OwnInv)
-----------------------------------------------------------------------------
LEMMA IdsAreNumbers ==
  /\ Nothing \notin Ids /\ Ids \subseteq Nat
  /\ \A m \in Unasked : Message(m) \in Messages /\ Message(m).kind = "unasked"
                        /\ Message(m).msg = m
  /\ \A m, n \in Unasked : Message(m) = Message(n) => m = n
BY AttemptsAssumption DEF Ids, Nothing, Message, Messages

LEMMA AnswerMessage ==
  ASSUME RoutingTypeOK, NEW r \in Reqs
  PROVE  /\ Answer(r) \in Messages /\ Answer(r).kind = "answer"
         /\ Answer(r).id = id[r] /\ Answer(r).to = r
BY DEF Answer, Messages, RoutingTypeOK

LEMMA KindsOfMessages ==
  ASSUME NEW m \in Messages
  PROVE  /\ m.kind = "answer" => m.id \in Nat /\ m.to \in Reqs
         /\ m.kind = "unasked" => m.msg \in Unasked /\ m = Message(m.msg)
         /\ m.kind \in {"answer", "unasked"}
BY DEF Messages, Message

LEMMA Appended ==
  ASSUME NEW q \in Seq(Messages), NEW m \in Messages
  PROVE  Append(q, m) \in Seq(Messages) /\ ToSet(Append(q, m)) = ToSet(q) \cup {m}
<1>1. /\ Len(Append(q, m)) = Len(q) + 1 /\ Append(q, m)[Len(q) + 1] = m
      /\ \A i \in 1 .. Len(q) : Append(q, m)[i] = q[i]
      /\ DOMAIN q = 1 .. Len(q) /\ DOMAIN Append(q, m) = 1 .. Len(q) + 1
      /\ Append(q, m) \in Seq(Messages) /\ Len(q) \in Nat
  BY AppendProperties
<1> QED
  BY <1>1 DEF ToSet

LEMMA Dropped ==
  ASSUME NEW q \in Seq(Messages), q # <<>>
  PROVE  /\ Tail(q) \in Seq(Messages) /\ ToSet(Tail(q)) \subseteq ToSet(q)
         /\ Head(q) \in Messages /\ Head(q) \in ToSet(q)
<1>1. /\ Tail(q) \in Seq(Messages) /\ Len(Tail(q)) = Len(q) - 1
      /\ \A i \in 1 .. Len(Tail(q)) : Tail(q)[i] = q[i + 1]
      /\ Head(q) = q[1] /\ Head(q) \in Messages
      /\ Len(q) \in Nat /\ Len(q) # 0 /\ DOMAIN q = 1 .. Len(q)
      /\ DOMAIN Tail(q) = 1 .. Len(Tail(q))
  BY HeadTailProperties, EmptySeq
<1> QED
  BY <1>1 DEF ToSet

LEMMA Nobody == ToSet(<<>>) = {} /\ <<>> \in Seq(Messages)
BY DEF ToSet
-----------------------------------------------------------------------------
LEMMA RoutingInitInv == RoutingInit => RoutingInv
<1> SUFFICES ASSUME RoutingInit PROVE RoutingInv
  OBVIOUS
<1>1. Inv
  BY InitInv DEF RoutingInit
<1>2. RoutingTypeOK
  BY <1>1, Nobody DEF RoutingInit, RoutingTypeOK, Inv
<1>3. IdInv
  BY Nobody DEF RoutingInit, IdInv
<1>4. OwnInv
  BY Nobody DEF RoutingInit, Init, OwnInv, OwnSocket, OwnAnswers, OwnAnswer, SeenOnce, Touched
<1> QED
  BY <1>1, <1>2, <1>3, <1>4 DEF RoutingInv

(* The steps of RoutingNext are steps of Lifecycle, or leave it alone. *)
LEMMA StepOfLifecycle == [RoutingNext]_routingVars => [Next]_vars
BY DEF RoutingNext, routingVars, ClientStep, OnPromptString, Request,
   ServerAnswers, ServerSends, Handle

LEMMA LifecycleKept == RoutingInv /\ [RoutingNext]_routingVars => Inv'
BY StepOfLifecycle, NextInv DEF RoutingInv

(* The numbers of a connection's requests, and the types.                  *)
LEMMA RequestStep ==
  ASSUME RoutingInv, NEW r \in Reqs, Request(r), Inv'
  PROVE  RoutingInv'
<1>1. RoutingTypeOK /\ IdInv /\ connection \in Ids /\ connection # Nothing
  BY IdsAreNumbers DEF RoutingInv, RoutingTypeOK, TypeOK, Request
<1>2. /\ via' = [via EXCEPT ![r] = connection] /\ via[r] = Nothing
      /\ id' = [id EXCEPT ![r] = nextId[connection]]
      /\ nextId' = [nextId EXCEPT ![connection] = @ + 1]
      /\ UNCHANGED <<vars, prompter, reply, unsent, inbox, handledBy, refused>>
  BY DEF Request
<1>3. /\ answering' \in [Ids -> SUBSET Reqs]
      /\ \A t \in Ids, q \in Reqs : q \in answering'[t] =>
           q \in answering[t] \/ (q = r /\ t = reads[connection])
  <2>1. reads[connection] \in Ids
    BY <1>1 DEF RoutingInv, Inv, TypeOK, ConnectionsHaveSockets, Request
  <2> DEFINE s == reads[connection]
  <2>2. answering \in [Ids -> SUBSET Reqs]
    BY <1>1 DEF RoutingTypeOK
  <2>3. \/ answering' = answering
        \/ answering' = [answering EXCEPT ![s] = answering[s] \cup {r}]
    BY DEF Request
  <2> HIDE DEF s
  <2>4. s \in Ids
    BY <2>1 DEF s
  <2>5. CASE answering' = answering
    BY <2>2, <2>5
  <2>6. CASE answering' = [answering EXCEPT ![s] = answering[s] \cup {r}]
    <3>1. \A t \in Ids : answering'[t] = IF t = s THEN answering[t] \cup {r} ELSE answering[t]
      BY <2>2, <2>4, <2>6
    <3>2. answering' \in [Ids -> SUBSET Reqs]
      BY <2>2, <2>4, <2>6
    <3> QED
      BY <3>1, <3>2 DEF s
  <2> QED
    BY <2>3, <2>5, <2>6
<1>4. RoutingTypeOK'
  <2>1. /\ via' \in [Reqs -> Ids \cup {Nothing}] /\ id' \in [Reqs -> Nat]
        /\ nextId' \in [Ids -> Nat]
    BY <1>1, <1>2 DEF RoutingTypeOK
  <2>2. TypeOK'
    BY DEF Inv
  <2> QED
    BY <1>1, <1>2, <1>3, <2>1, <2>2 DEF RoutingTypeOK
<1>5. \A c \in Ids : \A m \in ToSet(inbox[c]) : m.kind = "answer" => m.to # r
  BY <1>1, <1>2 DEF IdInv
<1>6. \A c \in Ids : \A m \in ToSet(inbox[c]) : m \in Messages
  BY <1>1 DEF RoutingTypeOK, ToSet
<1>7. IdInv'
  <2>1. \A q \in Reqs : via[q] # Nothing =>
          /\ q # r /\ via'[q] = via[q] /\ id'[q] = id[q] /\ id[q] \in Nat
          /\ via[q] \in Ids /\ nextId[via[q]] \in Nat
          /\ nextId'[via[q]] = IF via[q] = connection THEN nextId[via[q]] + 1
                                                      ELSE nextId[via[q]]
    BY <1>1, <1>2 DEF RoutingTypeOK
  <2>2. /\ via'[r] = connection /\ id'[r] = nextId[connection]
        /\ nextId'[connection] = nextId[connection] + 1 /\ nextId[connection] \in Nat
    BY <1>1, <1>2 DEF RoutingTypeOK
  <2>3. \A q \in Reqs : q # r => via'[q] = via[q] /\ id'[q] = id[q]
    BY <1>1, <1>2 DEF RoutingTypeOK
  <2>4. \A q \in Reqs : via'[q] # Nothing => id'[q] < nextId'[via'[q]]
    BY <1>1, <2>1, <2>2, <2>3 DEF IdInv
  <2>5. \A p, q \in Reqs : via'[p] # Nothing /\ via'[q] = via'[p] /\ id'[q] = id'[p] => q = p
    BY <1>1, <2>1, <2>2, <2>3 DEF IdInv
  <2>6. \A s \in Ids, q \in Reqs : q \in answering'[s] => via'[q] # Nothing
    BY <1>1, <1>3, <2>1, <2>2, <2>3 DEF IdInv
  <2>7. \A c \in Ids : \A m \in ToSet(inbox'[c]) : m.kind = "answer" =>
          m.id = id'[m.to] /\ via'[m.to] # Nothing
    BY <1>1, <1>2, <1>5, <1>6, <2>3, KindsOfMessages DEF IdInv
  <2> QED
    BY <2>4, <2>5, <2>6, <2>7 DEF IdInv
<1>8. ASSUME OwnInv PROVE OwnInv'
  <2>1. reads[connection] \in Ids => reads[connection] = connection
    BY <1>1, <1>8, IdsAreNumbers DEF OwnInv, OwnSocket
  <2>2. OwnAnswers'
    <3>1. \A q \in Reqs : via'[q] = IF q = r THEN connection ELSE via[q]
      BY <1>1, <1>2 DEF RoutingTypeOK
    <3>2. \A s \in Ids, q \in Reqs : q \in answering'[s] => via'[q] = s
      <4> SUFFICES ASSUME NEW s \in Ids, NEW q \in Reqs, q \in answering'[s]
                   PROVE  via'[q] = s
        OBVIOUS
      <4>1. CASE q \in answering[s]
        BY <1>1, <1>2, <1>8, <3>1, <4>1 DEF OwnInv, OwnAnswers, IdInv
      <4>2. CASE q = r /\ s = reads[connection]
        BY <2>1, <3>1, <4>2
      <4> QED
        BY <1>3, <4>1, <4>2
    <3>3. \A c \in Ids : \A m \in ToSet(inbox'[c]) : m.kind = "answer" => via'[m.to] = c
      BY <1>2, <1>5, <1>6, <1>8, <3>1, KindsOfMessages DEF OwnInv, OwnAnswers
    <3> QED
      BY <3>2, <3>3 DEF OwnAnswers
  <2> QED
    BY <1>2, <1>8, <2>2
    DEF OwnInv, OwnSocket, OwnAnswer, SeenOnce, Touched, vars
<1>9. OvertakenConnect => OvertakenConnect'
  BY <1>2 DEF OvertakenConnect, vars
<1> QED
  BY <1>4, <1>7, <1>8, <1>9 DEF RoutingInv

LEMMA PrompterStep ==
  ASSUME RoutingInv, OnPromptString, Inv'
  PROVE  RoutingInv'
<1>1. /\ UNCHANGED <<vars, nextId, via, id, reply, answering, unsent, inbox, handledBy, refused>>
      /\ prompter' = prompter \cup {connection} /\ connection # Nothing
  BY DEF OnPromptString
<1>2. RoutingTypeOK'
  BY <1>1 DEF RoutingInv, RoutingTypeOK, TypeOK, vars
<1>3. IdInv'
  BY <1>1 DEF RoutingInv, IdInv
<1>4. (OvertakenConnect \/ OwnInv)'
  BY <1>1 DEF RoutingInv, OvertakenConnect, OwnInv, OwnSocket, OwnAnswers, OwnAnswer,
     SeenOnce, Touched, vars
<1> QED
  BY <1>2, <1>3, <1>4 DEF RoutingInv

(* A message arrives: at one connection only, if none was overtaken.       *)
LEMMA ArrivesFacts ==
  ASSUME RoutingInv, NEW s \in Ids, NEW m \in Messages, Arrives(s, m)
  PROVE  /\ inbox' \in [Ids -> Seq(Messages)]
         /\ \A c \in Ids : ToSet(inbox'[c]) \subseteq ToSet(inbox[c]) \cup {m}
         /\ OwnInv => \A c \in Ids \ {s} : inbox'[c] = inbox[c]
         /\ \A c \in Ids : inbox'[c] = inbox[c] \/ reads[c] = s
<1>1. /\ inbox \in [Ids -> Seq(Messages)]
      /\ \A c \in Ids : inbox'[c] = IF c \in Readers(s) THEN Append(inbox[c], m) ELSE inbox[c]
      /\ inbox' \in [Ids -> Seq(Messages)]
  BY Appended DEF Arrives, RoutingInv, RoutingTypeOK
<1>2. OwnInv => \A c \in Ids \ {s} : c \notin Readers(s)
  BY IdsAreNumbers DEF OwnInv, OwnSocket, Readers
<1> QED
  BY <1>1, <1>2, Appended DEF Readers

LEMMA ServerAnswersStep ==
  ASSUME RoutingInv, NEW s \in Ids, NEW r \in Reqs, ServerAnswers(s, r), Inv'
  PROVE  RoutingInv'
<1>1. /\ RoutingTypeOK /\ IdInv /\ r \in answering[s]
      /\ answering' = [answering EXCEPT ![s] = @ \ {r}]
      /\ UNCHANGED <<vars, nextId, prompter, via, id, reply, unsent, handledBy, refused>>
  BY DEF ServerAnswers, RoutingInv
<1>2. /\ Answer(r) \in Messages /\ Answer(r).kind = "answer"
      /\ Answer(r).id = id[r] /\ Answer(r).to = r
  BY <1>1, AnswerMessage
<1>3. /\ inbox' \in [Ids -> Seq(Messages)]
      /\ \A c \in Ids : ToSet(inbox'[c]) \subseteq ToSet(inbox[c]) \cup {Answer(r)}
      /\ OwnInv => \A c \in Ids \ {s} : inbox'[c] = inbox[c]
      /\ \A c \in Ids : inbox'[c] = inbox[c] \/ reads[c] = s
  BY <1>2, ArrivesFacts DEF ServerAnswers
<1>4. \A t \in Ids : answering'[t] \subseteq answering[t]
  BY <1>1 DEF RoutingTypeOK
<1>5. RoutingTypeOK'
  BY <1>1, <1>3 DEF RoutingTypeOK, TypeOK, vars
<1>6. IdInv'
  <2>1. via[r] # Nothing
    BY <1>1 DEF IdInv
  <2> QED
    BY <1>1, <1>2, <1>3, <1>4, <2>1 DEF IdInv
<1>7. ASSUME OwnInv PROVE OwnInv'
  <2>1. via[r] = s
    BY <1>1, <1>7 DEF OwnInv, OwnAnswers
  <2>2. OwnAnswers'
    BY <1>1, <1>2, <1>3, <1>4, <1>7, <2>1 DEF OwnInv, OwnAnswers
  <2>3. OwnSocket'
    BY <1>1, <1>3, <1>7, IdsAreNumbers DEF OwnInv, OwnSocket, vars
  <2>4. \A m \in Unasked, c \in Ids : Touched(c, m)' => Touched(c, m)
    BY <1>1, <1>2, <1>3, IdsAreNumbers DEF Touched, Message
  <2>5. SeenOnce'
    BY <1>1, <1>7, <2>4 DEF OwnInv, SeenOnce
  <2> QED
    BY <1>1, <1>7, <2>2, <2>3, <2>5 DEF OwnInv, OwnAnswer
<1>8. OvertakenConnect => OvertakenConnect'
  BY <1>1 DEF OvertakenConnect, vars
<1> QED
  BY <1>5, <1>6, <1>7, <1>8 DEF RoutingInv

LEMMA ServerSendsStep ==
  ASSUME RoutingInv, NEW s \in Ids, NEW m \in Unasked, ServerSends(s, m), Inv'
  PROVE  RoutingInv'
<1>1. /\ RoutingTypeOK /\ IdInv /\ m \in unsent /\ unsent' = unsent \ {m}
      /\ UNCHANGED <<vars, nextId, prompter, via, id, reply, answering, handledBy, refused>>
  BY DEF ServerSends, RoutingInv
<1>2. /\ inbox' \in [Ids -> Seq(Messages)]
      /\ \A c \in Ids : ToSet(inbox'[c]) \subseteq ToSet(inbox[c]) \cup {Message(m)}
      /\ OwnInv => \A c \in Ids \ {s} : inbox'[c] = inbox[c]
      /\ \A c \in Ids : inbox'[c] = inbox[c] \/ reads[c] = s
  BY ArrivesFacts, IdsAreNumbers DEF ServerSends
<1>3. RoutingTypeOK'
  BY <1>1, <1>2 DEF RoutingTypeOK, TypeOK, vars
<1>4. IdInv'
  BY <1>1, <1>2, IdsAreNumbers DEF IdInv
<1>5. ASSUME OwnInv PROVE OwnInv'
  <2>1. OwnAnswers'
    BY <1>1, <1>2, <1>5, IdsAreNumbers DEF OwnInv, OwnAnswers
  <2>2. OwnSocket'
    BY <1>1, <1>2, <1>5, IdsAreNumbers DEF OwnInv, OwnSocket, vars
  <2>3. \A n \in Unasked, c \in Ids :
          Touched(c, n)' => Touched(c, n) \/ (n = m /\ c = s)
    BY <1>1, <1>2, <1>5, IdsAreNumbers DEF Touched, Message
  <2>4. \A c \in Ids : ~Touched(c, m)
    BY <1>1, <1>5 DEF OwnInv, SeenOnce
  <2>5. SeenOnce'
    BY <1>1, <1>5, <2>3, <2>4 DEF OwnInv, SeenOnce
  <2> QED
    BY <1>1, <1>5, <2>1, <2>2, <2>5 DEF OwnInv, OwnAnswer
<1>6. OvertakenConnect => OvertakenConnect'
  BY <1>1 DEF OvertakenConnect, vars
<1> QED
  BY <1>3, <1>4, <1>5, <1>6 DEF RoutingInv

(* An answer settles the request it answers, for no other request of the   *)
(* connection has its number; and a prompt is refused by its connection    *)
(* only if that one has no listener.                                       *)
LEMMA HandleStep ==
  ASSUME RoutingInv, NEW c \in Ids, Handle(c), Inv'
  PROVE  RoutingInv'
<1> DEFINE head == Head(inbox[c])
<1>1. /\ RoutingTypeOK /\ IdInv /\ inbox[c] # <<>> /\ inbox[c] \in Seq(Messages)
      /\ inbox' = [inbox EXCEPT ![c] = Tail(inbox[c])]
      /\ UNCHANGED <<vars, nextId, prompter, via, id, answering, unsent>>
  BY DEF Handle, RoutingInv, RoutingTypeOK
<1>2. /\ Tail(inbox[c]) \in Seq(Messages) /\ ToSet(Tail(inbox[c])) \subseteq ToSet(inbox[c])
      /\ head \in Messages /\ head \in ToSet(inbox[c])
  BY <1>1, Dropped
<1>3. /\ inbox' \in [Ids -> Seq(Messages)]
      /\ \A d \in Ids : /\ ToSet(inbox'[d]) \subseteq ToSet(inbox[d])
                        /\ inbox'[d] = inbox[d] \/ d = c
  BY <1>1, <1>2 DEF RoutingTypeOK
<1>4. HandleAnswer(c) \/ HandleUnasked(c)
  BY DEF Handle
<1>5. TypeOK'
  BY DEF Inv
<1>6. IdInv'
  BY <1>1, <1>3 DEF IdInv
<1>7. OwnInv => OwnSocket' /\ OwnAnswers'
  BY <1>1, <1>3 DEF OwnInv, OwnSocket, OwnAnswers, vars
<1>8. OvertakenConnect => OvertakenConnect'
  BY <1>1 DEF OvertakenConnect, vars
<1>9. CASE HandleAnswer(c)
  <2>1. /\ head.kind = "answer" /\ UNCHANGED <<handledBy, refused>>
        /\ head.id = id[head.to] /\ via[head.to] # Nothing /\ head.to \in Reqs
    BY <1>1, <1>2, <1>9, KindsOfMessages DEF HandleAnswer, IdInv
  <2>2. reply' = [r \in Reqs |->
                   IF via[r] = c /\ id[r] = head.id /\ reply[r] = NoReq
                   THEN head.to ELSE reply[r]]
    BY <1>9 DEF HandleAnswer
  <2>3. RoutingTypeOK'
    BY <1>1, <1>3, <1>5, <2>1, <2>2 DEF RoutingTypeOK
  <2>4. ASSUME OwnInv PROVE OwnInv'
    <3>1. via[head.to] = c
      BY <1>2, <2>1, <2>4 DEF OwnInv, OwnAnswers
    <3>2. \A r \in Reqs : via[r] = c /\ id[r] = head.id => r = head.to
      BY <1>1, <2>1, <3>1 DEF IdInv
    <3>3. OwnAnswer'
      BY <2>2, <2>4, <3>2 DEF OwnInv, OwnAnswer
    <3>4. \A m \in Unasked, d \in Ids : Touched(d, m)' => Touched(d, m)
      BY <1>3, <2>1 DEF Touched, Message
    <3>5. SeenOnce'
      BY <1>1, <2>4, <3>4 DEF OwnInv, SeenOnce
    <3> QED
      BY <1>7, <2>1, <2>4, <3>3, <3>5 DEF OwnInv
  <2> QED
    BY <1>6, <1>8, <2>3, <2>4 DEF RoutingInv
<1>10. CASE HandleUnasked(c)
  <2>1. /\ head.kind = "unasked" /\ head.msg \in Unasked /\ head = Message(head.msg)
        /\ handledBy' = [handledBy EXCEPT ![head.msg] = @ \cup {c}]
        /\ reply' = reply
        /\ refused' = IF /\ head.msg \in Prompts /\ c \notin prompter
                         /\ \E d \in prompter : reads[d] = reads[c]
                      THEN refused \cup {head.msg} ELSE refused
    BY <1>2, <1>10, KindsOfMessages DEF HandleUnasked
  <2> HIDE DEF head
  <2>2. RoutingTypeOK'
    <3>1. handledBy' \in [Unasked -> SUBSET Ids]
      BY <1>1, <2>1 DEF RoutingTypeOK
    <3>2. refused' \subseteq Prompts
      BY <1>1, <2>1 DEF RoutingTypeOK
    <3> QED
      BY <1>1, <1>3, <1>5, <2>1, <3>1, <3>2 DEF RoutingTypeOK
  <2>3. ASSUME OwnInv PROVE OwnInv'
    <3>1. \A d \in prompter : reads[d] = reads[c] => d = c
      BY <1>1, <2>3, IdsAreNumbers DEF OwnInv, OwnSocket, RoutingTypeOK
    <3>2. refused' = refused
      BY <2>1, <3>1
    <3>3. \A m \in Unasked, d \in Ids : Touched(d, m)' => Touched(d, m)
      <4> SUFFICES ASSUME NEW m \in Unasked, NEW d \in Ids, Touched(d, m)'
                   PROVE  Touched(d, m)
        OBVIOUS
      <4>1. CASE d \in handledBy'[m] /\ d \notin handledBy[m]
        <5>1. m = head.msg /\ d = c
          BY <1>1, <2>1, <4>1 DEF RoutingTypeOK
        <5> QED
          BY <1>2, <2>1, <5>1 DEF Touched
      <4>2. CASE d \in handledBy[m] \/ Message(m) \in ToSet(inbox'[d])
        BY <1>3, <4>2 DEF Touched
      <4> QED
        BY <4>1, <4>2 DEF Touched, Message
    <3>4. SeenOnce'
      BY <1>1, <2>3, <3>3 DEF OwnInv, SeenOnce
    <3> QED
      BY <1>7, <2>1, <2>3, <3>2, <3>4 DEF OwnInv, OwnAnswer
  <2> QED
    BY <1>6, <1>8, <2>2, <2>3 DEF RoutingInv
<1> QED
  BY <1>4, <1>9, <1>10

(* A connect that is not overtaken when its socket connects is the last    *)
(* one made, so that its connection reads its own socket.                  *)
LEMMA ReadsOwn ==
  ASSUME Inv, NEW a \in Ids, SocketConnects(a), a \notin overtaken
  PROVE  ReadSocket(a) = a
<1>1. sock[a] = "connecting"
  BY DEF SocketConnects
<1> QED
  BY <1>1 DEF Inv, OvertakenUnlessLast, ReadSocket

LEMMA ClientFacts ==
  ASSUME Inv, Next
  PROVE  /\ OvertakenConnect => OvertakenConnect'
         /\ \A c \in Ids : reads'[c] = reads[c] \/ reads'[c] = c \/ OvertakenConnect'
<1>1. TypeOK
  BY DEF Inv
<1>2. ASSUME NEW a \in Ids, Connect(a)
      PROVE  /\ reads' = reads /\ overtaken \subseteq overtaken'
             /\ \A c \in Ids : conn[c] # "none" => conn'[c] # "none"
  BY <1>2 DEF Connect
<1>3. ASSUME NEW a \in Ids, SocketConnects(a)
      PROVE  /\ overtaken \subseteq overtaken'
             /\ \A c \in Ids : conn[c] # "none" => conn'[c] # "none"
             /\ \A c \in Ids : reads'[c] = reads[c] \/ reads'[c] = c \/ OvertakenConnect'
  <2>1. /\ overtaken' = overtaken
        /\ \A c \in Ids : conn[c] # "none" => conn'[c] # "none"
        /\ \A c \in Ids : reads'[c] = IF c = a THEN ReadSocket(a) ELSE reads[c]
        /\ conn'[a] = "listening"
    BY <1>1, <1>3 DEF SocketConnects, TypeOK
  <2>2. CASE a \in overtaken
    BY <2>1, <2>2 DEF OvertakenConnect
  <2>3. CASE a \notin overtaken
    BY <1>3, <2>1, <2>3, ReadsOwn
  <2> QED
    BY <2>1, <2>2, <2>3
<1>4. ASSUME NEW a \in Ids, TimerFires(a) \/ SocketFails(a) \/ PeerCloses(a) \/ SocketClosed(a)
      PROVE  /\ reads' = reads /\ overtaken \subseteq overtaken'
             /\ \A c \in Ids : conn[c] # "none" => conn'[c] # "none"
  BY <1>1, <1>4 DEF TimerFires, SocketFails, PeerCloses, SocketClosed, TypeOK
<1>5. ASSUME OnConnectionClosed \/ RemoveOnConnectionClosed \/ Disconnect
      PROVE  /\ reads' = reads /\ overtaken \subseteq overtaken'
             /\ \A c \in Ids : conn[c] # "none" => conn'[c] # "none"
  BY <1>1, <1>5 DEF OnConnectionClosed, RemoveOnConnectionClosed, Disconnect, TypeOK
<1>6. ASSUME overtaken \subseteq overtaken',
             \A c \in Ids : conn[c] # "none" => conn'[c] # "none"
      PROVE  OvertakenConnect => OvertakenConnect'
  <2>1. overtaken \subseteq Ids
    BY <1>1 DEF TypeOK
  <2> QED
    BY <1>6, <2>1 DEF OvertakenConnect
<1> QED
  BY <1>2, <1>3, <1>4, <1>5, <1>6 DEF Next, ShutdownServer

LEMMA ClientStepInv ==
  ASSUME RoutingInv, ClientStep, Inv'
  PROVE  RoutingInv'
<1>1. /\ Inv /\ Next /\ TypeOK' /\ RoutingTypeOK /\ IdInv
      /\ UNCHANGED <<nextId, prompter, via, id, reply, answering, unsent, handledBy, refused>>
      /\ \A c \in Ids : inbox'[c] = <<>> \/ inbox'[c] = inbox[c]
      /\ inbox' \in [Ids -> Seq(Messages)]
  BY Nobody DEF ClientStep, RoutingInv, RoutingTypeOK, Inv
<1>2. \A c \in Ids : ToSet(inbox'[c]) \subseteq ToSet(inbox[c])
  BY <1>1, Nobody
<1>3. RoutingTypeOK'
  BY <1>1 DEF RoutingTypeOK
<1>4. IdInv'
  BY <1>1, <1>2 DEF IdInv
<1>5. OvertakenConnect => OvertakenConnect'
  BY <1>1, ClientFacts
<1>6. ASSUME OwnInv, ~OvertakenConnect' PROVE OwnInv'
  <2>1. \A c \in Ids : reads'[c] = reads[c] \/ reads'[c] = c
    BY <1>1, <1>6, ClientFacts
  <2>2. OwnSocket'
    BY <1>1, <1>6, <2>1 DEF OwnInv, OwnSocket
  <2>3. OwnAnswers'
    BY <1>1, <1>2, <1>6 DEF OwnInv, OwnAnswers
  <2>4. SeenOnce'
    BY <1>1, <1>2, <1>6 DEF OwnInv, SeenOnce, Touched, Message
  <2> QED
    BY <1>1, <1>6, <2>2, <2>3, <2>4 DEF OwnInv, OwnAnswer
<1> QED
  BY <1>3, <1>4, <1>5, <1>6 DEF RoutingInv

LEMMA RoutingNextInv == RoutingInv /\ [RoutingNext]_routingVars => RoutingInv'
<1> SUFFICES ASSUME RoutingInv, [RoutingNext]_routingVars PROVE RoutingInv'
  OBVIOUS
<1>1. Inv'
  BY LifecycleKept
<1>2. CASE RoutingNext
  BY <1>1, <1>2, ClientStepInv, PrompterStep, RequestStep, ServerAnswersStep,
     ServerSendsStep, HandleStep DEF RoutingNext
<1>3. CASE UNCHANGED routingVars
  <2> USE DEF routingVars, trafficVars
  <2>1. RoutingTypeOK'
    BY <1>1, <1>3 DEF RoutingInv, RoutingTypeOK, Inv
  <2>2. IdInv'
    BY <1>3 DEF RoutingInv, IdInv
  <2>3. (OvertakenConnect \/ OwnInv)'
    BY <1>3 DEF RoutingInv, OvertakenConnect, OwnInv, OwnSocket, OwnAnswers, OwnAnswer,
       SeenOnce, Touched, Message, vars
  <2> QED
    BY <1>1, <2>1, <2>2, <2>3 DEF RoutingInv
<1> QED
  BY <1>2, <1>3

(* With traffic, the client still takes the steps of Lifecycle and no      *)
(* others, so that what is proved of connections and sockets holds here.   *)
THEOREM RoutingIsLifecycle == RoutingSpec => Spec
<1>1. RoutingInit => Init
  BY DEF RoutingInit
<1> QED
  BY <1>1, StepOfLifecycle, PTL DEF RoutingSpec, Spec

(* The inductive invariant holds in every behaviour. *)
THEOREM RoutingInvariance == RoutingSpec => []RoutingInv
BY RoutingInitInv, RoutingNextInv, PTL DEF RoutingSpec

(* Every variable keeps its type. *)
THEOREM RoutingTypeCorrect == RoutingSpec => []RoutingTypeOK
<1>1. RoutingInv => RoutingTypeOK
  BY DEF RoutingInv
<1> QED
  BY <1>1, RoutingInvariance, PTL

(* Overtaken connects apart, a request ends with its own answer. *)
THEOREM AnswersArrive == RoutingSpec => []OwnAnswerUnlessOvertaken
<1>1. RoutingInv => OwnAnswerUnlessOvertaken
  BY DEF RoutingInv, OwnInv, OwnAnswerUnlessOvertaken
<1> QED
  BY <1>1, RoutingInvariance, PTL

(* ... no notification or prompt is handled twice ... *)
THEOREM HandledOnce == RoutingSpec => []HandledOnceUnlessOvertaken
<1>1. RoutingInv => HandledOnceUnlessOvertaken
  <2> SUFFICES ASSUME RoutingInv, ~OvertakenConnect, NEW m \in Unasked
               PROVE  Cardinality(handledBy[m]) <= 1
    BY DEF HandledOnceUnlessOvertaken
  <2>1. handledBy[m] \subseteq Ids /\ \A c, d \in handledBy[m] : c = d
    BY DEF RoutingInv, OwnInv, SeenOnce, Touched, RoutingTypeOK
  <2>2. CASE handledBy[m] = {}
    BY <2>2, FS_EmptySet
  <2>3. CASE handledBy[m] # {}
    <3>1. PICK c \in handledBy[m] : TRUE
      BY <2>3
    <3>2. handledBy[m] = {c}
      BY <2>1, <3>1
    <3>3. Cardinality({c}) = 1
      BY FS_Singleton
    <3> QED
      BY <3>2, <3>3
  <2> QED
    BY <2>2, <2>3
<1> QED
  BY <1>1, RoutingInvariance, PTL

(* ... and no prompt is refused that has a listener. *)
THEOREM PromptsHonoured == RoutingSpec => []PromptHonouredUnlessOvertaken
<1>1. RoutingInv => PromptHonouredUnlessOvertaken
  BY DEF RoutingInv, OwnInv, PromptHonouredUnlessOvertaken
<1> QED
  BY <1>1, RoutingInvariance, PTL
-----------------------------------------------------------------------------
(* Overtaken connects not excepted: a connection stays on the socket its   *)
(* connect handler found, its own unless it was overtaken; and what        *)
(* concerns a request, a notification or a prompt stays on one socket.     *)
SocketKept ==
  \A c \in Ids : /\ reads[c] \in {c, Nothing} \/ c \in overtaken
                 /\ sock[c] \in {"none", "connecting"} => reads[c] = Nothing

SameSocket(r, c) == via[r] # Nothing /\ reads[c] # Nothing /\ reads[via[r]] = reads[c]

StaysOnSocket ==
  /\ \A r \in Reqs : via[r] # Nothing => reads[via[r]] # Nothing
  /\ \A s \in Ids, r \in Reqs : r \in answering[s] => via[r] # Nothing /\ reads[via[r]] = s
  /\ \A c \in Ids : \A m \in ToSet(inbox[c]) :
       reads[c] # Nothing /\ (m.kind = "answer" => SameSocket(m.to, c))
  /\ \A r \in Reqs : reply[r] # NoReq =>
       via[r] # Nothing /\ SameSocket(reply[r], via[r]) /\ id[reply[r]] = id[r]
  /\ \A m \in Unasked, c, d \in Ids : Touched(c, m) =>
       m \notin unsent /\ reads[c] # Nothing /\ (Touched(d, m) => reads[c] = reads[d])

SharedInv == RoutingInv /\ SocketKept /\ StaysOnSocket

(* Of two connections on one socket, the older one was overtaken.          *)
LEMMA SharedIsBesideOvertaken ==
  ASSUME Inv, SocketKept, NEW c \in Ids, NEW d \in Ids, c # d,
         reads[c] = reads[d], reads[c] # Nothing
  PROVE  BesideOvertaken(c, d)
<1>1. \A a, b \in Ids : a < b /\ reads[a] = reads[b] /\ reads[a] # Nothing
                          => a \in overtaken
  <2> SUFFICES ASSUME NEW a \in Ids, NEW b \in Ids, a < b, reads[a] = reads[b],
                      reads[a] # Nothing
               PROVE  a \in overtaken
    OBVIOUS
  <2>1. reads[b] >= b /\ reads[b] \in Nat /\ a \in Nat /\ b \in Nat
    BY IdsAreNumbers DEF Inv, TypeOK, NeverOlderSocket
  <2>2. reads[a] # a
    BY <2>1
  <2> QED
    BY <2>2 DEF SocketKept
<1>2. c < d \/ d < c
  BY IdsAreNumbers
<1> QED
  BY <1>1, <1>2 DEF BesideOvertaken

(* The client puts a connection on a socket once: when the socket of its   *)
(* own attempt connects.                                                   *)
LEMMA ClientKeepsSockets ==
  ASSUME Inv, SocketKept, [Next]_vars
  PROVE  /\ SocketKept'
         /\ \A c \in Ids : reads[c] # Nothing => reads'[c] = reads[c]
<1>1. TypeOK
  BY DEF Inv
<1>2. ASSUME NEW a \in Ids, Connect(a)
      PROVE  reads' = reads /\ SocketKept'
  <2>1. sock[a] = "none"
    BY <1>2 DEF Inv, SocketsOfCalls, Connect
  <2> QED
    BY <1>1, <1>2, <2>1 DEF Connect, TypeOK, SocketKept
<1>3. ASSUME NEW a \in Ids, SocketConnects(a)
      PROVE  /\ SocketKept'
             /\ \A c \in Ids : reads[c] # Nothing => reads'[c] = reads[c]
  <2>1. /\ reads[a] = Nothing /\ reads' = [reads EXCEPT ![a] = ReadSocket(a)]
        /\ sock' = [sock EXCEPT ![a] = "open"] /\ overtaken' = overtaken
    BY <1>1, <1>3 DEF SocketConnects, SocketKept
  <2>2. reads'[a] = a \/ a \in overtaken
    BY <1>1, <1>3, <2>1, ReadsOwn DEF TypeOK
  <2> QED
    BY <1>1, <2>1, <2>2 DEF TypeOK, SocketKept
<1>4. ASSUME NEW a \in Ids, TimerFires(a) \/ SocketFails(a) \/ PeerCloses(a) \/ SocketClosed(a)
      PROVE  reads' = reads /\ SocketKept'
  BY <1>1, <1>4 DEF TimerFires, SocketFails, PeerCloses, SocketClosed, TypeOK,
     SocketKept, Live
<1>5. ASSUME \/ OnConnectionClosed \/ RemoveOnConnectionClosed
             \/ Disconnect \/ UNCHANGED vars
      PROVE  reads' = reads /\ SocketKept'
  <2>1. /\ reads' = reads /\ overtaken' = overtaken
        /\ \A c \in Ids : sock'[c] = sock[c] \/ (sock[c] # "none" /\ sock'[c] = "closing")
    BY <1>1, <1>5 DEF OnConnectionClosed, RemoveOnConnectionClosed, Disconnect, TypeOK,
       Live, vars
  <2> QED
    BY <2>1 DEF SocketKept
<1> QED
  BY <1>2, <1>3, <1>4, <1>5 DEF Next, ShutdownServer

LEMMA SharedInit == RoutingInit => SharedInv
<1> SUFFICES ASSUME RoutingInit PROVE SharedInv
  OBVIOUS
<1>1. SocketKept
  BY DEF RoutingInit, Init, SocketKept
<1>2. StaysOnSocket
  BY Nobody DEF RoutingInit, StaysOnSocket, Touched
<1> QED
  BY <1>1, <1>2, RoutingInitInv DEF SharedInv

LEMMA SharedRequest ==
  ASSUME SharedInv, NEW r \in Reqs, Request(r)
  PROVE  StaysOnSocket'
<1>1. /\ RoutingTypeOK /\ TypeOK /\ IdInv /\ StaysOnSocket /\ ConnectionsHaveSockets
  BY DEF SharedInv, RoutingInv, Inv
<1>2. /\ via' = [via EXCEPT ![r] = connection] /\ via[r] = Nothing
      /\ id' = [id EXCEPT ![r] = nextId[connection]]
      /\ connection \in Ids /\ reads[connection] \in Ids
      /\ UNCHANGED <<reads, reply, unsent, inbox, handledBy>>
  BY <1>1 DEF Request, TypeOK, ConnectionsHaveSockets, vars
<1>3. /\ \A q \in Reqs : via'[q] = IF q = r THEN connection ELSE via[q]
      /\ \A q \in Reqs : q # r => id'[q] = id[q]
  BY <1>1, <1>2 DEF RoutingTypeOK
<1>4. \A s \in Ids, q \in Reqs : q \in answering'[s] =>
        q \in answering[s] \/ (q = r /\ s = reads[connection])
  BY <1>1, <1>2 DEF Request, RoutingTypeOK
<1>5. \A c \in Ids : \A m \in ToSet(inbox[c]) :
        m \in Messages /\ (m.kind = "answer" => m.to # r /\ m.to \in Reqs)
  <2>1. \A c \in Ids : \A m \in ToSet(inbox[c]) : m \in Messages
    BY <1>1 DEF RoutingTypeOK, ToSet
  <2> QED
    BY <1>1, <1>2, <2>1, KindsOfMessages DEF IdInv
<1>6. \A q \in Reqs : reply[q] # NoReq => q # r /\ reply[q] # r /\ reply[q] \in Reqs
  BY <1>1, <1>2 DEF StaysOnSocket, SameSocket, RoutingTypeOK
<1>7. reads[connection] # Nothing /\ connection # Nothing
  BY <1>2, IdsAreNumbers
<1>8. \A q \in Reqs : via'[q] # Nothing => reads'[via'[q]] # Nothing
  BY <1>1, <1>2, <1>3, <1>7 DEF StaysOnSocket
<1>9. \A s \in Ids, q \in Reqs :
        q \in answering'[s] => via'[q] # Nothing /\ reads'[via'[q]] = s
  BY <1>1, <1>2, <1>3, <1>4, <1>7 DEF StaysOnSocket
<1>10. \A c \in Ids : \A m \in ToSet(inbox'[c]) :
         reads'[c] # Nothing /\ (m.kind = "answer" => SameSocket(m.to, c)')
  BY <1>1, <1>2, <1>3, <1>5 DEF StaysOnSocket, SameSocket
<1>11. \A q \in Reqs : reply'[q] # NoReq =>
         via'[q] # Nothing /\ SameSocket(reply[q], via[q])' /\ id'[reply'[q]] = id'[q]
  BY <1>1, <1>2, <1>3, <1>6 DEF StaysOnSocket, SameSocket
<1>12. \A m \in Unasked, c, d \in Ids : Touched(c, m)' =>
         m \notin unsent' /\ reads'[c] # Nothing /\ (Touched(d, m)' => reads'[c] = reads'[d])
  BY <1>1, <1>2 DEF StaysOnSocket, Touched, Message
<1> QED
  BY <1>8, <1>9, <1>10, <1>11, <1>12 DEF StaysOnSocket

(* The other steps change no request and bring nothing new but what        *)
(* arrives on a socket.                                                    *)
LEMMA SharedOther ==
  ASSUME SharedInv, UNCHANGED <<via, id>>,
         \A c \in Ids : reads[c] # Nothing => reads'[c] = reads[c],
         \A s \in Ids : answering'[s] \subseteq answering[s],
         \A c \in Ids : \A m \in ToSet(inbox'[c]) :
           \/ m \in ToSet(inbox[c])
           \/ reads[c] # Nothing /\ (m.kind = "answer" => m.to \in Reqs /\ SameSocket(m.to, c)),
         \A r \in Reqs : \/ reply'[r] = reply[r]
                         \/ /\ via[r] # Nothing /\ reply'[r] \in Reqs
                            /\ SameSocket(reply'[r], via[r]) /\ id[reply'[r]] = id[r],
         \A m \in Unasked : m \in unsent' => m \in unsent,
         \A m \in Unasked, c \in Ids : Touched(c, m)' =>
           \/ Touched(c, m)
           \/ /\ m \notin unsent' /\ reads[c] # Nothing
              /\ \A d \in Ids : Touched(d, m)' => reads[d] = reads[c]
  PROVE  StaysOnSocket'
<1>1. RoutingTypeOK /\ StaysOnSocket
  BY DEF SharedInv, RoutingInv
<1>2. \A r \in Reqs : /\ via'[r] = via[r] /\ id'[r] = id[r]
                      /\ via[r] \in Ids \cup {Nothing}
                      /\ via[r] # Nothing => /\ via[r] \in Ids /\ reads[via[r]] # Nothing
                                             /\ reads'[via[r]] = reads[via[r]]
  BY <1>1 DEF RoutingTypeOK, StaysOnSocket
<1>3. \A r \in Reqs, c \in Ids : SameSocket(r, c) => SameSocket(r, c)'
  BY <1>2 DEF SameSocket
<1>4. \A r \in Reqs : via'[r] # Nothing => reads'[via'[r]] # Nothing
  BY <1>2
<1>5. \A s \in Ids, r \in Reqs :
        r \in answering'[s] => via'[r] # Nothing /\ reads'[via'[r]] = s
  BY <1>1, <1>2 DEF StaysOnSocket
<1>6. \A c \in Ids : \A m \in ToSet(inbox'[c]) :
        reads'[c] # Nothing /\ (m.kind = "answer" => SameSocket(m.to, c)')
  <2> SUFFICES ASSUME NEW c \in Ids, NEW m \in ToSet(inbox'[c])
               PROVE  reads'[c] # Nothing /\ (m.kind = "answer" => SameSocket(m.to, c)')
    OBVIOUS
  <2>1. CASE m \in ToSet(inbox[c])
    <3>1. m \in Messages
      BY <1>1, <2>1 DEF RoutingTypeOK, ToSet
    <3> QED
      BY <1>1, <1>3, <2>1, <3>1, KindsOfMessages DEF StaysOnSocket
  <2>2. CASE reads[c] # Nothing /\ (m.kind = "answer" => m.to \in Reqs /\ SameSocket(m.to, c))
    BY <1>3, <2>2
  <2> QED
    BY <2>1, <2>2
<1>7. \A r \in Reqs : reply'[r] # NoReq =>
        via'[r] # Nothing /\ SameSocket(reply[r], via[r])' /\ id'[reply'[r]] = id'[r]
  <2> SUFFICES ASSUME NEW r \in Reqs, reply'[r] # NoReq
               PROVE  /\ via'[r] # Nothing /\ SameSocket(reply[r], via[r])'
                      /\ id'[reply'[r]] = id'[r]
    OBVIOUS
  <2>1. /\ via[r] # Nothing /\ reply'[r] \in Reqs
        /\ SameSocket(reply'[r], via[r]) /\ id[reply'[r]] = id[r]
    BY <1>1 DEF StaysOnSocket, RoutingTypeOK
  <2> QED
    BY <1>2, <2>1 DEF SameSocket
<1>8. \A m \in Unasked, c, d \in Ids : Touched(c, m)' =>
        m \notin unsent' /\ reads'[c] # Nothing /\ (Touched(d, m)' => reads'[c] = reads'[d])
  <2>1. \A m \in Unasked, c \in Ids : Touched(c, m)' => m \notin unsent' /\ reads[c] # Nothing
    BY <1>1 DEF StaysOnSocket
  <2>2. \A m \in Unasked, c, d \in Ids : Touched(c, m)' /\ Touched(d, m)' => reads[c] = reads[d]
    BY <1>1 DEF StaysOnSocket
  <2> QED
    BY <2>1, <2>2
<1> QED
  BY <1>4, <1>5, <1>6, <1>7, <1>8 DEF StaysOnSocket

LEMMA SharedNext == SharedInv /\ [RoutingNext]_routingVars => SharedInv'
<1> SUFFICES ASSUME SharedInv, [RoutingNext]_routingVars PROVE SharedInv'
  OBVIOUS
<1>1. RoutingInv /\ RoutingTypeOK /\ IdInv /\ StaysOnSocket /\ Inv
  BY DEF SharedInv, RoutingInv
<1>2. /\ RoutingInv' /\ SocketKept'
      /\ \A c \in Ids : reads[c] # Nothing => reads'[c] = reads[c]
  <2>1. [Next]_vars
    BY StepOfLifecycle
  <2> QED
    BY <1>1, <2>1, RoutingNextInv, ClientKeepsSockets DEF SharedInv
<1>3. ASSUME ClientStep \/ OnPromptString \/ UNCHANGED routingVars PROVE StaysOnSocket'
  <2>1. /\ UNCHANGED <<via, id, reply, answering, unsent, handledBy>>
        /\ \A c \in Ids : inbox'[c] = <<>> \/ inbox'[c] = inbox[c]
    BY <1>1, <1>3 DEF ClientStep, OnPromptString, routingVars, trafficVars, RoutingTypeOK
  <2>2. \A c \in Ids : ToSet(inbox'[c]) \subseteq ToSet(inbox[c])
    BY <2>1, Nobody
  <2>3. \A m \in Unasked, c \in Ids : Touched(c, m)' => Touched(c, m)
    BY <2>1, <2>2 DEF Touched, Message
  <2> QED
    BY <1>2, <2>1, <2>2, <2>3, SharedOther
<1>4. ASSUME NEW s \in Ids, NEW r \in Reqs, ServerAnswers(s, r) PROVE StaysOnSocket'
  <2>1. /\ UNCHANGED <<via, id, reply, unsent, handledBy>> /\ r \in answering[s]
        /\ \A t \in Ids : answering'[t] \subseteq answering[t]
    BY <1>1, <1>4 DEF ServerAnswers, RoutingTypeOK
  <2>2. Answer(r) \in Messages /\ Answer(r).kind = "answer" /\ Answer(r).to = r
    BY <1>1, AnswerMessage
  <2>3. \A c \in Ids : /\ ToSet(inbox'[c]) \subseteq ToSet(inbox[c]) \cup {Answer(r)}
                       /\ inbox'[c] = inbox[c] \/ reads[c] = s
    BY <1>1, <1>4, <2>2, ArrivesFacts DEF ServerAnswers
  <2>4. \A c \in Ids : reads[c] = s => reads[c] # Nothing /\ SameSocket(r, c)
    BY <1>1, <2>1, IdsAreNumbers DEF StaysOnSocket, SameSocket
  <2>5. \A m \in Unasked, c \in Ids : Touched(c, m)' => Touched(c, m)
    BY <2>1, <2>2, <2>3, IdsAreNumbers DEF Touched, Message
  <2>6. \A c \in Ids : \A m \in ToSet(inbox'[c]) :
          \/ m \in ToSet(inbox[c])
          \/ /\ reads[c] # Nothing
             /\ m.kind = "answer" => m.to \in Reqs /\ SameSocket(m.to, c)
    BY <2>2, <2>3, <2>4
  <2> QED
    BY <1>2, <2>1, <2>5, <2>6, SharedOther
<1>5. ASSUME NEW s \in Ids, NEW n \in Unasked, ServerSends(s, n) PROVE StaysOnSocket'
  <2>1. /\ UNCHANGED <<via, id, reply, answering, handledBy>>
        /\ n \in unsent /\ unsent' = unsent \ {n}
    BY <1>5 DEF ServerSends
  <2>2. \A c \in Ids : /\ ToSet(inbox'[c]) \subseteq ToSet(inbox[c]) \cup {Message(n)}
                       /\ inbox'[c] = inbox[c] \/ reads[c] = s
    BY <1>1, <1>5, ArrivesFacts, IdsAreNumbers DEF ServerSends
  <2>3. \A m \in Unasked, c \in Ids :
          Touched(c, m)' => Touched(c, m) \/ (m = n /\ reads[c] = s)
    BY <2>1, <2>2, IdsAreNumbers DEF Touched, Message
  <2>4. \A c \in Ids : ~Touched(c, n)
    BY <1>1, <2>1 DEF StaysOnSocket
  <2>5. \A m \in Unasked, c \in Ids : Touched(c, m)' =>
          \/ Touched(c, m)
          \/ /\ m \notin unsent' /\ reads[c] # Nothing
             /\ \A d \in Ids : Touched(d, m)' => reads[d] = reads[c]
    BY <2>1, <2>3, <2>4, IdsAreNumbers
  <2>6. \A c \in Ids : \A m \in ToSet(inbox'[c]) :
          \/ m \in ToSet(inbox[c])
          \/ /\ reads[c] # Nothing
             /\ m.kind = "answer" => m.to \in Reqs /\ SameSocket(m.to, c)
    BY <2>2, IdsAreNumbers
  <2> QED
    BY <1>2, <2>1, <2>5, <2>6, SharedOther
<1>6. ASSUME NEW c \in Ids, Handle(c) PROVE StaysOnSocket'
  <2> DEFINE head == Head(inbox[c])
  <2>1. /\ UNCHANGED <<via, id, answering, unsent>> /\ inbox[c] # <<>>
        /\ inbox' = [inbox EXCEPT ![c] = Tail(inbox[c])]
        /\ inbox[c] \in Seq(Messages)
    BY <1>1, <1>6 DEF Handle, RoutingTypeOK
  <2>2. /\ ToSet(Tail(inbox[c])) \subseteq ToSet(inbox[c])
        /\ head \in Messages /\ head \in ToSet(inbox[c])
    BY <2>1, Dropped
  <2>3. \A d \in Ids : ToSet(inbox'[d]) \subseteq ToSet(inbox[d])
    BY <1>1, <2>1, <2>2 DEF RoutingTypeOK
  <2>4. \A r \in Reqs : \/ reply'[r] = reply[r]
                        \/ /\ via[r] # Nothing /\ reply'[r] \in Reqs
                           /\ SameSocket(reply'[r], via[r]) /\ id[reply'[r]] = id[r]
    <3>1. CASE HandleAnswer(c)
      <4>1. /\ head.kind = "answer" /\ head.to \in Reqs
            /\ head.id = id[head.to] /\ SameSocket(head.to, c)
        BY <1>1, <2>2, <3>1, KindsOfMessages DEF HandleAnswer, IdInv, StaysOnSocket
      <4> QED
        BY <3>1, <4>1, IdsAreNumbers DEF HandleAnswer
    <3>2. CASE HandleUnasked(c)
      BY <3>2 DEF HandleUnasked
    <3> QED
      BY <1>6, <3>1, <3>2 DEF Handle
  <2>5. \A m \in Unasked, d \in Ids : d \in handledBy'[m] =>
          d \in handledBy[m] \/ (d = c /\ head = Message(m))
    <3>1. CASE HandleAnswer(c)
      BY <3>1 DEF HandleAnswer
    <3>2. CASE HandleUnasked(c)
      <4>1. /\ head.msg \in Unasked /\ head = Message(head.msg)
            /\ handledBy' = [handledBy EXCEPT ![head.msg] = @ \cup {c}]
        BY <2>2, <3>2, KindsOfMessages DEF HandleUnasked
      <4> HIDE DEF head
      <4> QED
        BY <1>1, <4>1 DEF RoutingTypeOK
    <3> QED
      BY <1>6, <3>1, <3>2 DEF Handle
  <2> HIDE DEF head
  <2>6. \A m \in Unasked, d \in Ids : Touched(d, m)' => Touched(d, m)
    BY <2>2, <2>3, <2>5 DEF Touched, Message
  <2> QED
    BY <1>2, <2>1, <2>3, <2>4, <2>6, SharedOther
<1> QED
  BY <1>2, <1>3, <1>4, <1>5, <1>6, SharedRequest DEF RoutingNext, SharedInv

(* In every behaviour, overtaken connects included, requests, answers and  *)
(* what the server sends unasked stay on the socket they were sent on.     *)
THEOREM SharedInvariance == RoutingSpec => []SharedInv
BY SharedInit, SharedNext, PTL DEF RoutingSpec

(* An overtaken connect harms only the socket it landed on: whatever       *)
(* settles another request, or is handled twice, has an older connection   *)
(* beside a younger one on that socket, and a further call had overtaken   *)
(* the connect of the older one.                                           *)
THEOREM StraysExplained == RoutingSpec => []StraysBesideOvertaken
<1>1. SharedInv => StraysBesideOvertaken
  <2> SUFFICES ASSUME SharedInv PROVE StraysBesideOvertaken
    OBVIOUS
  <2>1. Inv /\ RoutingTypeOK /\ IdInv /\ SocketKept /\ StaysOnSocket
    BY DEF SharedInv, RoutingInv
  <2>2. ASSUME NEW r \in Reqs, reply[r] \notin {r, NoReq}
        PROVE  id[reply[r]] = id[r] /\ BesideOvertaken(via[r], via[reply[r]])
    <3>1. /\ reply[r] \in Reqs /\ via[r] \in Ids /\ via[reply[r]] \in Ids
          /\ reads[via[reply[r]]] = reads[via[r]] /\ reads[via[r]] # Nothing
          /\ id[reply[r]] = id[r]
      BY <2>1, <2>2 DEF StaysOnSocket, SameSocket, RoutingTypeOK
    <3>2. via[r] # via[reply[r]]
      BY <2>1, <2>2, <3>1, IdsAreNumbers DEF IdInv
    <3> QED
      BY <2>1, <3>1, <3>2, SharedIsBesideOvertaken
  <2>3. ASSUME NEW m \in Unasked, NEW c \in handledBy[m], NEW d \in handledBy[m], c # d
        PROVE  BesideOvertaken(c, d)
    <3>1. c \in Ids /\ d \in Ids /\ reads[c] = reads[d] /\ reads[c] # Nothing
      BY <2>1 DEF StaysOnSocket, Touched, RoutingTypeOK
    <3> QED
      BY <2>1, <2>3, <3>1, SharedIsBesideOvertaken
  <2> QED
    BY <2>2, <2>3 DEF StraysBesideOvertaken
<1> QED
  BY <1>1, SharedInvariance, PTL
=============================================================================

------------------------------- MODULE Routing -------------------------------
(***************************************************************************)
(* Lifecycle with traffic: which connection reads which message, when a    *)
(* connect was overtaken by a further call, connects after all and puts a  *)
(* second connection on the socket of that call.  Every connection numbers *)
(* its requests from 0 and handles every message its socket carries, so    *)
(* two connections on one socket take each other's answers and both handle *)
(* each notification and each prompt of the server.                        *)
(***************************************************************************)
EXTENDS Lifecycle, SequencesExt, FiniteSets

CONSTANTS
  Reqs,        \* requests the user makes through getOutgoingHandler()
  NoReq,       \* stands for an undefined request
  Notes,       \* notifications the server sends
  Prompts      \* promptString requests the server makes

ASSUME NoReqAssumption == NoReq \notin Reqs

Unasked == Notes \cup Prompts

VARIABLES
  nextId,    \* nextId[c]: the sequence number of connection c's next request
  prompter,  \* connections with a listener set by onPromptString
  via,       \* via[r]: the connection r was sent through
  id,        \* id[r]: its number on that connection
  reply,     \* reply[r]: the request whose answer settled r
  answering, \* answering[s]: requests the server got on socket s, not answered
  unsent,    \* what the server has not sent yet of Unasked
  inbox,     \* inbox[c]: messages connection c has read and not handled
  handledBy, \* history: handledBy[m]: connections that have handled m
  refused    \* history: prompts refused by one connection of a socket while
             \* another one of that socket had the listener

trafficVars == <<nextId, prompter, via, id, reply, answering, unsent, inbox,
                 handledBy, refused>>
routingVars == <<vars, trafficVars>>

Answer(r)   == [kind |-> "answer", id |-> id[r], to |-> r]
Message(m)  == [kind |-> "unasked", msg |-> m]
Messages    == [kind : {"answer"}, id : Nat, to : Reqs]
                 \cup [kind : {"unasked"}, msg : Unasked]

RoutingTypeOK ==
  /\ TypeOK
  /\ nextId \in [Ids -> Nat]
  /\ prompter \subseteq Ids
  /\ via \in [Reqs -> Ids \cup {Nothing}]
  /\ id \in [Reqs -> Nat]
  /\ reply \in [Reqs -> Reqs \cup {NoReq}]
  /\ answering \in [Ids -> SUBSET Reqs]
  /\ unsent \subseteq Unasked
  /\ inbox \in [Ids -> Seq(Messages)]
  /\ handledBy \in [Unasked -> SUBSET Ids]
  /\ refused \subseteq Prompts

RoutingInit ==
  /\ Init
  /\ nextId = [c \in Ids |-> 0]
  /\ prompter = {}
  /\ via = [r \in Reqs |-> Nothing]
  /\ id = [r \in Reqs |-> 0]
  /\ reply = [r \in Reqs |-> NoReq]
  /\ answering = [s \in Ids |-> {}]
  /\ unsent = Unasked
  /\ inbox = [c \in Ids |-> <<>>]
  /\ handledBy = [m \in Unasked |-> {}]
  /\ refused = {}
-----------------------------------------------------------------------------
(* A request through the handlers of the latest connection.  It is written *)
(* to the socket under the connection, which may still be connecting.      *)
Request(r) ==
  /\ ~crashed
  /\ via[r] = Nothing
  /\ connection # Nothing /\ conn[connection] = "listening"
  /\ via' = [via EXCEPT ![r] = connection]
  /\ id'  = [id EXCEPT ![r] = nextId[connection]]
  /\ nextId' = [nextId EXCEPT ![connection] = @ + 1]
  /\ answering' = IF Live(reads[connection])
                  THEN [answering EXCEPT ![reads[connection]] = @ \cup {r}]
                  ELSE answering
  /\ UNCHANGED <<vars, prompter, reply, unsent, inbox, handledBy, refused>>

(* onPromptString sets a request handler of the connection, not a listener *)
(* of the emitter.                                                         *)
OnPromptString ==
  /\ ~crashed
  /\ connection # Nothing
  /\ prompter' = prompter \cup {connection}
  /\ UNCHANGED <<vars, nextId, via, id, reply, answering, unsent, inbox,
                 handledBy, refused>>

(* A message arrives on socket s: each connection reading s gets it.  The  *)
(* socket is paused until one does.                                        *)
Readers(s) == {c \in Ids : reads[c] = s /\ conn[c] = "listening"}

Arrives(s, m) ==
  /\ ~crashed
  /\ sock[s] = "open" /\ Readers(s) # {}
  /\ inbox' = [c \in Ids |-> IF c \in Readers(s) THEN Append(inbox[c], m)
                                                 ELSE inbox[c]]

ServerAnswers(s, r) ==
  /\ r \in answering[s]
  /\ answering' = [answering EXCEPT ![s] = @ \ {r}]
  /\ Arrives(s, Answer(r))
  /\ UNCHANGED <<vars, nextId, prompter, via, id, reply, unsent, handledBy, refused>>

ServerSends(s, m) ==
  /\ m \in unsent
  /\ unsent' = unsent \ {m}
  /\ Arrives(s, Message(m))
  /\ UNCHANGED <<vars, nextId, prompter, via, id, reply, answering, handledBy, refused>>

(* Connection c handles the next message.  An answer settles the request   *)
(* of that number that c is waiting for, if there is one.                  *)
HandleAnswer_AnyConnection(c) ==    \* pending requests looked up by number
  /\ Head(inbox[c]).kind = "answer"
  /\ reply' = [r \in Reqs |->
                 IF /\ via[r] # Nothing /\ id[r] = Head(inbox[c]).id
                    /\ reply[r] = NoReq
                 THEN Head(inbox[c]).to ELSE reply[r]]
  /\ UNCHANGED <<handledBy, refused>>
HandleAnswer(c) ==
  /\ Head(inbox[c]).kind = "answer"
  /\ reply' = [r \in Reqs |->
                 IF via[r] = c /\ id[r] = Head(inbox[c]).id /\ reply[r] = NoReq
                 THEN Head(inbox[c]).to ELSE reply[r]]
  /\ UNCHANGED <<handledBy, refused>>

(* A notification is emitted; a prompt goes to the listener or is refused. *)
HandleUnasked(c) ==
  /\ Head(inbox[c]).kind = "unasked"
  /\ LET m == Head(inbox[c]).msg
     IN  /\ handledBy' = [handledBy EXCEPT ![m] = @ \cup {c}]
         /\ refused' = IF /\ m \in Prompts /\ c \notin prompter
                          /\ \E d \in prompter : reads[d] = reads[c]
                       THEN refused \cup {m} ELSE refused
  /\ UNCHANGED reply

Handle(c) ==
  /\ ~crashed
  /\ inbox[c] # <<>>
  /\ inbox' = [inbox EXCEPT ![c] = Tail(@)]
  /\ HandleAnswer(c) \/ HandleUnasked(c)
  /\ UNCHANGED <<vars, nextId, prompter, via, id, answering, unsent>>

(* The client's own steps; a connection that is disposed drops its inbox.  *)
ClientStep ==
  /\ Next
  /\ inbox' = [c \in Ids |-> IF conn'[c] = "disposed" THEN <<>> ELSE inbox[c]]
  /\ UNCHANGED <<nextId, prompter, via, id, reply, answering, unsent,
                 handledBy, refused>>

RoutingNext ==
  \/ ClientStep \/ OnPromptString
  \/ \E r \in Reqs : Request(r) \/ \E s \in Ids : ServerAnswers(s, r)
  \/ \E s \in Ids, m \in Unasked : ServerSends(s, m)
  \/ \E c \in Ids : Handle(c)

RoutingSpec == RoutingInit /\ [][RoutingNext]_routingVars
-----------------------------------------------------------------------------
(* Properties.                                                             *)

(* A request ends with the answer to itself. *)
OwnAnswer == \A r \in Reqs : reply[r] \in {r, NoReq}

(* Answers go astray only after an overtaken connect: reconnecting, in     *)
(* order or over a connection that is still open, never mixes two requests *)
(* of the same number.                                                     *)
OwnAnswerUnlessOvertaken == OvertakenConnect \/ OwnAnswer

(* Likewise, each notification is emitted once and each prompt handled     *)
(* once, however many connections feed the emitter.                        *)
HandledOnceUnlessOvertaken ==
  OvertakenConnect \/ \A m \in Unasked : Cardinality(handledBy[m]) <= 1

(* Likewise, a prompt is not refused behind the back of the listener set   *)
(* for its socket: overtaken connects again apart, no other connection     *)
(* answers.                                                                *)
PromptHonouredUnlessOvertaken == OvertakenConnect \/ refused = {}

(* Connections c and d read one socket, and the older of them had its      *)
(* connect overtaken by a further call.                                    *)
BesideOvertaken(c, d) ==
  /\ reads[c] = reads[d]
  /\ \E old, young \in {c, d} : old < young /\ old \in overtaken

(* What an overtaken connect can do ends at the socket it landed on: an    *)
(* answer settles another request only if both have the same number on two *)
(* connections of that socket, and only such connections handle the same   *)
(* notification or prompt.  Requests of every other socket are safe.       *)
StraysBesideOvertaken ==
  /\ \A r \in Reqs : reply[r] \notin {r, NoReq} =>
       id[reply[r]] = id[r] /\ BesideOvertaken(via[r], via[reply[r]])
  /\ \A m \in Unasked : \A c, d \in handledBy[m] : c # d => BesideOvertaken(c, d)
=============================================================================

--------------------------- MODULE MCServerSession ---------------------------
(* Instances of ServerSession for TLC: calls about one server.             *)
EXTENDS ServerSession

(* Creating and starting a server. *)
RunApi     == [create |-> "createServerFromBean", start |-> "startServerSync"]
RunOps     == DOMAIN RunApi
RunSubject == [op \in RunOps |-> "wildfly"]

SessionWire ==
  {NoteOf("wildfly", from, to) : from \in RunStates, to \in RunStates}
NoUserEvent == [u \in {} |-> "serverAdded"]
=============================================================================

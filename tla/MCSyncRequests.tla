--------------------------- MODULE MCSyncRequests ---------------------------
(* Instances of SyncRequests for TLC.  An instance is a set of calls, the  *)
(* listeners of the user and the notifications the server may send.        *)
EXTENDS SyncRequests

Note(e, server, s) == [event |-> e, subject |-> server, state |-> s]
Added(server)      == Note("serverAdded", server, "other")

(* Creation: both promise methods for one server, seen by a user listener. *)
CreateApi       == [path |-> "createServerFromPath",
                    bean |-> "createServerFromBean"]
CreateOps       == DOMAIN CreateApi
CreateSubject   == [op \in CreateOps |-> "wildfly"]
CreateUserEvent == [gui |-> "serverAdded"]
CreateWire      == {Added("wildfly")}

(* Run state: start and stop of one server, and a second call to start it; *)
(* the server also reports transitions and another server's state.         *)
StateApi     == [start |-> "startServerSync", stop |-> "stopServerSync",
                 again |-> "startServerSync"]
StateOps     == DOMAIN StateApi
StateSubject == [op \in StateOps |-> "wildfly"]
StateWire    ==
  {Note("serverStateChanged", "wildfly", s) : s \in States}
    \cup {Note("serverStateChanged", "tomcat", "started")}

(* The methods on Common.sendRequestSync, across two connections. *)
PathApi     == [add |-> "addDiscoveryPathSync", delete |-> "deleteServerSync"]
PathOps     == DOMAIN PathApi
PathSubject == [add |-> "opt", delete |-> "wildfly"]
PathWire    == {Note("discoveryPathAdded", "opt", "other"),
                Note("serverRemoved", "wildfly", "other")}

NoUserEvent == [u \in {} |-> "serverAdded"]
=============================================================================

---------------------------- MODULE AwaitedEvent ----------------------------
(***************************************************************************)
(* What a call that waits for an event promises its caller, with no        *)
(* emitter, connection, request or timer in sight.  The call has one       *)
(* outcome, fixed once: it fails at once because nothing can be sent, it   *)
(* resolves, for which an event that satisfies it must have been emitted   *)
(* since it was made, or it expires.  It does not wait for ever.           *)
(***************************************************************************)
EXTENDS Integers, Sequences

CONSTANTS
  Calls,       \* the calls
  Wire,        \* the events that may be emitted
  Satisfying   \* Satisfying[c]: the events that c may resolve with

VARIABLES
  outcome,     \* outcome[c]
  events,      \* the events emitted so far
  since        \* since[c]: how many events had been emitted when c was made

vars == <<outcome, events, since>>

Init ==
  /\ outcome = [c \in Calls |-> "uncalled"]
  /\ events  = <<>>
  /\ since   = [c \in Calls |-> 0]

Make(c) ==
  /\ outcome[c] = "uncalled"
  /\ \E o \in {"pending", "connError"} : outcome' = [outcome EXCEPT ![c] = o]
  /\ since' = [since EXCEPT ![c] = Len(events)]
  /\ UNCHANGED events

Emit(e) ==
  /\ events' = Append(events, e)
  /\ UNCHANGED <<outcome, since>>

Resolve(c) ==
  /\ outcome[c] = "pending"
  /\ \E i \in since[c] + 1 .. Len(events) : events[i] \in Satisfying[c]
  /\ outcome' = [outcome EXCEPT ![c] = "resolved"]
  /\ UNCHANGED <<events, since>>

Expire(c) ==
  /\ outcome[c] = "pending"
  /\ outcome' = [outcome EXCEPT ![c] = "timeout"]
  /\ UNCHANGED <<events, since>>

Next ==
  \/ \E c \in Calls : Make(c) \/ Resolve(c) \/ Expire(c)
  \/ \E e \in Wire : Emit(e)

Spec     == Init /\ [][Next]_vars
FairSpec == Spec /\ \A c \in Calls : WF_vars(Resolve(c) \/ Expire(c))
=============================================================================

---------------------------- MODULE BoundedCall ----------------------------
(***************************************************************************)
(* What a call that waits for an answer promises its caller, with no       *)
(* connection, request or timer in sight.  The call has one outcome, fixed *)
(* once, and it has it before its budget of time is used up: it resolves,  *)
(* in the same moment as its answer comes, or it fails.  An answer that    *)
(* comes later changes nothing.                                            *)
(***************************************************************************)
EXTENDS Integers

CONSTANTS
  Calls,   \* the calls
  Limit    \* Limit[c]: how long c may take

VARIABLES
  time,     \* the clock
  outcome,  \* outcome[c]
  made,     \* made[c]: when c was made
  answered  \* calls that were answered

vars == <<time, outcome, made, answered>>

Failures == {"timeout", "connError", "typeError"}

Init ==
  /\ time = 0
  /\ outcome = [c \in Calls |-> "uncalled"]
  /\ made = [c \in Calls |-> 0]
  /\ answered = {}

Make(c) ==
  /\ outcome[c] = "uncalled"
  /\ \E o \in {"pending", "connError"} : outcome' = [outcome EXCEPT ![c] = o]
  /\ made' = [made EXCEPT ![c] = time]
  /\ UNCHANGED <<time, answered>>

Resolve(c) ==
  /\ outcome[c] = "pending"
  /\ outcome' = [outcome EXCEPT ![c] = "resolved"]
  /\ answered' = answered \cup {c}
  /\ UNCHANGED <<time, made>>

Fail(c) ==
  /\ outcome[c] = "pending"
  /\ \E o \in Failures : outcome' = [outcome EXCEPT ![c] = o]
  /\ UNCHANGED <<time, made, answered>>

AnswerLate(c) ==
  /\ outcome[c] \in Failures
  /\ answered' = answered \cup {c}
  /\ UNCHANGED <<time, outcome, made>>

(* The clock waits for a call that has used up its budget. *)
Tick ==
  /\ \A c \in Calls : outcome[c] = "pending" => time < made[c] + Limit[c]
  /\ time' = time + 1
  /\ UNCHANGED <<outcome, made, answered>>

Next ==
  \/ \E c \in Calls : Make(c) \/ Resolve(c) \/ Fail(c) \/ AnswerLate(c)
  \/ Tick

Spec     == Init /\ [][Next]_vars
FairSpec == Spec /\ \A c \in Calls : WF_vars(Resolve(c) \/ Fail(c))
=============================================================================

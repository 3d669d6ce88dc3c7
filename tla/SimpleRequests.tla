--------------------------- MODULE SimpleRequests ---------------------------
(***************************************************************************)
(* Calls that wait for the answer of a request only: every request method  *)
(* of Outgoing, through Common.sendSimpleRequest, and the async methods of *)
(* ServerCreation.  createServerFromPathAsync makes two requests, one      *)
(* after the other, each with a timer of its own.  A discrete clock tells  *)
(* when timers are due.                                                    *)
(***************************************************************************)
EXTENDS Integers

CONSTANTS
  Plain,    \* calls of Outgoing's methods and of createServerFromBeanAsync
  FromPath, \* calls of createServerFromPathAsync
  Timeout,  \* the timeout parameter of every call
  MaxTime   \* bound: no call is made when it could outlast the clock

ASSUME CallsDistinct     == Plain \cap FromPath = {}
ASSUME TimeoutAssumption == Timeout \in Nat /\ MaxTime \in Nat

Ops  == Plain \cup FromPath
Find == FromPath \X {"find"}   \* the FindServerBeans requests
Main == Ops \X {"main"}        \* the requests the calls are about
Reqs == Find \cup Main

VARIABLES
  now,     \* the clock
  conn,    \* the connection: open, closed by the peer, or disposed
  timer,   \* timer[r]: the setTimeout of sendSimpleRequest
  due,     \* due[r]: when it is due
  answer,  \* answer[r]: what the server answered
  result,  \* result[r]: the promise of sendSimpleRequest
  called,  \* history: called[op]: when the call was made
  early    \* history: requests answered with an error before their timer fired

vars == <<now, conn, timer, due, answer, result, called, early>>

TimerStates == {"unset", "armed", "cleared", "fired"}
(* empty: an empty list of server beans *)
Answers == {"unsent", "waiting", "ok", "empty", "error"}
Results == {"none", "pending", "resolved", "timeout", "connError"}

TypeOK ==
  /\ now \in 0 .. MaxTime
  /\ conn \in {"open", "closed", "disposed"}
  /\ timer \in [Reqs -> TimerStates]
  /\ due \in [Reqs -> Nat]
  /\ answer \in [Reqs -> Answers]
  /\ result \in [Reqs -> Results]
  /\ called \in [Ops -> 0 .. MaxTime]
  /\ early \subseteq Reqs

Init ==
  /\ now = 0
  /\ conn = "open"
  /\ timer = [r \in Reqs |-> "unset"]
  /\ due = [r \in Reqs |-> 0]
  /\ answer = [r \in Reqs |-> "unsent"]
  /\ result = [r \in Reqs |-> "none"]
  /\ called = [op \in Ops |-> 0]
  /\ early = {}
-----------------------------------------------------------------------------
(* The timeout of each request: FindServerBeans gets half of the call's.   *)
TimeoutOf_Whole(r) == Timeout
TimeoutOf(r) == IF r \in Find THEN Timeout \div 2 ELSE Timeout

(* How long a call may take. *)
Budget(op) == IF op \in FromPath THEN Timeout \div 2 + Timeout ELSE Timeout

(* Common.sendSimpleRequest: arm the timer, then send.  If sendRequest     *)
(* throws, the executor rejects the promise; the timer stays armed.        *)
SendSimpleRequest(r) ==
  /\ timer' = [timer EXCEPT ![r] = "armed"]
  /\ due'   = [due EXCEPT ![r] = now + TimeoutOf(r)]
  /\ IF conn = "open"
     THEN /\ answer' = [answer EXCEPT ![r] = "waiting"]
          /\ result' = [result EXCEPT ![r] = "pending"]
     ELSE /\ result' = [result EXCEPT ![r] = "connError"]
          /\ UNCHANGED answer

(* createServerFromPathAsync goes on after its first await only if the     *)
(* promise of FindServerBeans was resolved, and not with an empty list,    *)
(* whose serverBeans[0].location is a TypeError.                           *)
Resumes_OnAnswer(op) == answer[<<op, "find">>] = "ok"
Resumes(op) == result[<<op, "find">>] = "resolved" /\ answer[<<op, "find">>] = "ok"

Resuming(op) == /\ op \in FromPath /\ Resumes(op)
                /\ result[<<op, "main">>] = "none"

(* The promise the caller holds. *)
Outcome(op) ==
  LET find == result[<<op, "find">>]
      main == result[<<op, "main">>]
  IN  IF main # "none" THEN main
      ELSE IF op \in Plain \/ find = "none" THEN "uncalled"
      ELSE IF find # "resolved" THEN find
      ELSE IF answer[<<op, "find">>] = "empty" THEN "typeError"
      ELSE "pending"

NoMicrotask == \A op \in Ops : ~Resuming(op)
-----------------------------------------------------------------------------
Call(op) ==
  LET r == IF op \in FromPath THEN <<op, "find">> ELSE <<op, "main">>
  IN
  /\ result[r] = "none"
  /\ now + Budget(op) <= MaxTime
  /\ called' = [called EXCEPT ![op] = now]
  /\ SendSimpleRequest(r)
  /\ UNCHANGED <<now, conn, early>>

(* The microtask after the await: CreateServer, with the whole timeout. *)
Resume(op) ==
  /\ Resuming(op)
  /\ SendSimpleRequest(<<op, "main">>)
  /\ UNCHANGED <<now, conn, called, early>>

(* disconnect: dispose rejects the responses outstanding, and the promise  *)
(* of sendSimpleRequest has no handler for that.                           *)
Rejected(a) == IF a = "waiting" THEN "error" ELSE a

Dispose ==
  /\ conn # "disposed"
  /\ conn'   = "disposed"
  /\ answer' = [r \in Reqs |-> Rejected(answer[r])]
  /\ UNCHANGED <<now, timer, due, result, called, early>>

RemoteClose ==
  /\ NoMicrotask
  /\ conn = "open"
  /\ conn' = "closed"
  /\ UNCHANGED <<now, timer, due, answer, result, called, early>>

(* resolve and reject: only the first of them counts. *)
Settle_TimerState(r, o) ==
  [result EXCEPT ![r] = IF @ = "pending" THEN timer[r] ELSE @]
Settle(r, o) == [result EXCEPT ![r] = IF @ = "pending" THEN o ELSE @]

(* A good answer: clearTimeout, and resolve unless the timer was first. *)
Answer(r) ==
  /\ NoMicrotask
  /\ answer[r] = "waiting"
  /\ \E a \in IF r \in Find THEN {"ok", "empty"} ELSE {"ok"} :
       answer' = [answer EXCEPT ![r] = a]
  /\ timer'  = [timer EXCEPT ![r] = IF @ = "armed" THEN "cleared" ELSE @]
  /\ result' = Settle(r, "resolved")
  /\ UNCHANGED <<now, conn, due, called, early>>

(* An error answer: sendSimpleRequest handles no rejection. *)
TimerAfterError_Cleared(r) == [timer EXCEPT ![r] = "cleared"]
TimerAfterError(r) == timer

ErrorAnswer(r) ==
  /\ NoMicrotask
  /\ answer[r] = "waiting"
  /\ answer' = [answer EXCEPT ![r] = "error"]
  /\ early'  = IF result[r] = "pending" THEN early \cup {r} ELSE early
  /\ timer'  = TimerAfterError(r)
  /\ UNCHANGED <<now, conn, due, result, called>>

Overdue(r) == timer[r] = "armed" /\ due[r] <= now

TimerFires(r) ==
  /\ NoMicrotask
  /\ Overdue(r)
  /\ timer'  = [timer EXCEPT ![r] = "fired"]
  /\ result' = Settle(r, "timeout")
  /\ UNCHANGED <<now, conn, due, answer, called, early>>

(* Time passes when the loop is idle. *)
Tick ==
  /\ NoMicrotask
  /\ \A r \in Reqs : ~Overdue(r)
  /\ now < MaxTime
  /\ now' = now + 1
  /\ UNCHANGED <<conn, timer, due, answer, result, called, early>>

Next ==
  \/ \E op \in Ops : Call(op) \/ Resume(op)
  \/ \E r \in Reqs : Answer(r) \/ ErrorAnswer(r) \/ TimerFires(r)
  \/ Dispose \/ RemoteClose \/ Tick

(* Time passes, and the loop runs what is due. *)
Fairness ==
  /\ WF_vars(Tick)
  /\ \A op \in Ops : WF_vars(Resume(op))
  /\ \A r \in Reqs : WF_vars(TimerFires(r))

Spec     == Init /\ [][Next]_vars
FairSpec == Spec /\ Fairness
-----------------------------------------------------------------------------
(* Properties.                                                             *)

(* A call is settled after its timeout at the latest; one that makes two   *)
(* requests, after one and a half timeouts.                                *)
SettledInTime ==
  \A op \in Ops : Outcome(op) = "pending" => now <= called[op] + Budget(op)

(* A server is never created behind the caller's back: once the search for *)
(* beans has timed out, a late answer does not send CreateServer.          *)
LateBeansCreateNothing ==
  \A op \in FromPath : result[<<op, "find">>] = "timeout" =>
    answer[<<op, "main">>] = "unsent" /\ timer[<<op, "main">>] = "unset"

(* Every call settles, whatever the server and the network do. *)
EveryCallSettles ==
  \A op \in Ops : Outcome(op) = "pending" ~> Outcome(op) # "pending"

(* Seen through the promise, the clock and the answers, every call does    *)
(* what BoundedCall promises: in particular its outcome is final, although *)
(* createServerFromPathAsync draws it from two requests, and an answer to  *)
(* either of them may come after its timer.                                *)
Promise == INSTANCE BoundedCall WITH
  Calls    <- Ops,
  Limit    <- [op \in Ops |-> Budget(op)],
  time     <- now,
  outcome  <- [op \in Ops |-> Outcome(op)],
  made     <- called,
  answered <- {op \in Ops : answer[<<op, "main">>] = "ok"}

ImplementsBoundedCall     == Promise!Spec
ImplementsFairBoundedCall == Promise!FairSpec

(* What sendSimpleRequest documents of timeoutMessage, "error message in   *)
(* case of timeout": it is not what a request ends with that the server    *)
(* answered, with an error, in time.                                       *)
TimeoutMeansNoAnswer ==
  \A r \in early : result[r] # "timeout"
=============================================================================

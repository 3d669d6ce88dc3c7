------------------------ MODULE SimpleRequestsProofs ------------------------
(* Theorems about SimpleRequests, for any calls, timeout and clock.        *)
EXTENDS SimpleRequests, TLAPS

find(op) == <<op, "find">>
main(op) == <<op, "main">>

(* The inductive invariant, first for a request: nothing is armed before   *)
(* it is sent, its promise settles with the answer or the timer, and no    *)
(* later than the timer is due.                                            *)
RequestInv(r) ==
  /\ result[r] = "none" => answer[r] = "unsent" /\ timer[r] = "unset"
  /\ answer[r] = "waiting" => result[r] \in {"pending", "timeout"}
  /\ result[r] = "pending" =>
       timer[r] = "armed" /\ answer[r] \in {"waiting", "error"} /\ now <= due[r]
  /\ result[r] = "resolved" => answer[r] \in {"ok", "empty"}

(* For a call: the second request follows a search resolved with a bean,   *)
(* at most half a timeout after the call, so both end within its budget.   *)
CallInv(op) ==
  /\ result[main(op)] # "none" => due[main(op)] <= called[op] + Budget(op)
  /\ op \in FromPath =>
       /\ result[main(op)] # "none" => Resumes(op)
       /\ result[find(op)] # "none" => due[find(op)] = called[op] + Timeout \div 2
       /\ Resuming(op) => now <= called[op] + Timeout \div 2

Inv ==
  /\ TypeOK
  /\ \A r \in Reqs : RequestInv(r)
  /\ \A op \in Ops : CallInv(op)
-----------------------------------------------------------------------------
LEMMA Timeouts ==
  /\ Timeout \div 2 \in Nat
  /\ \A r \in Reqs : TimeoutOf(r) \in Nat
  /\ \A op \in Ops : /\ Budget(op) \in Nat
                     /\ TimeoutOf(main(op)) = Timeout
                     /\ op \in FromPath => /\ TimeoutOf(find(op)) = Timeout \div 2
                                           /\ Budget(op) = Timeout \div 2 + Timeout
                     /\ op \notin FromPath => Budget(op) = Timeout
BY TimeoutAssumption DEF TimeoutOf, Budget, Find, main, find

LEMMA RequestsOfCalls ==
  /\ \A op \in Ops : main(op) \in Main /\ main(op) \in Reqs /\ main(op) \notin Find
  /\ \A op \in FromPath : find(op) \in Find /\ find(op) \in Reqs /\ op \in Ops
  /\ \A r \in Reqs : \/ \E op \in Ops : r = main(op)
                     \/ \E op \in FromPath : r = find(op)
  /\ \A o, p : main(o) # find(p) /\ (main(o) = main(p) => o = p)
                 /\ (find(o) = find(p) => o = p)
BY DEF Main, Find, Reqs, Ops, main, find

LEMMA InitInv == Init => Inv
BY TimeoutAssumption, RequestsOfCalls
   DEF Init, Inv, TypeOK, TimerStates, Answers, Results, RequestInv, CallInv, Resuming

LEMMA NextTypeOK == Inv /\ [Next]_vars => TypeOK'
<1> SUFFICES ASSUME Inv, [Next]_vars PROVE TypeOK'
  OBVIOUS
<1> USE DEF TypeOK, TimerStates, Answers, Results
<1>1. TypeOK
  BY DEF Inv
<1>2. ASSUME NEW r \in Reqs, SendSimpleRequest(r)
      PROVE  /\ timer' \in [Reqs -> TimerStates] /\ due' \in [Reqs -> Nat]
             /\ answer' \in [Reqs -> Answers] /\ result' \in [Reqs -> Results]
  <2>1. now + TimeoutOf(r) \in Nat
    BY <1>1, Timeouts, TimeoutAssumption
  <2> QED
    BY <1>1, <1>2, <2>1 DEF SendSimpleRequest
<1>3. ASSUME NEW op \in Ops, Call(op) PROVE TypeOK'
  <2>1. PICK r \in Reqs : SendSimpleRequest(r)
    BY <1>3, RequestsOfCalls DEF Call, find, main
  <2> QED
    BY <1>1, <1>2, <1>3, <2>1 DEF Call
<1>4. ASSUME NEW op \in Ops, Resume(op) PROVE TypeOK'
  <2>1. SendSimpleRequest(main(op)) /\ main(op) \in Reqs
    BY <1>4, RequestsOfCalls DEF Resume, main
  <2> QED
    BY <1>1, <1>2, <1>4, <2>1 DEF Resume
<1>5. ASSUME NEW r \in Reqs, Answer(r) \/ ErrorAnswer(r) \/ TimerFires(r)
      PROVE  TypeOK'
  BY <1>1, <1>5 DEF Answer, ErrorAnswer, TimerFires, Settle, TimerAfterError
<1>6. CASE Dispose \/ RemoteClose
  BY <1>1, <1>6 DEF Dispose, RemoteClose, Rejected
<1>7. CASE Tick
  BY <1>1, <1>7, TimeoutAssumption DEF Tick
<1>8. CASE UNCHANGED vars
  BY <1>1, <1>8 DEF vars
<1> QED
  BY <1>3, <1>4, <1>5, <1>6, <1>7, <1>8 DEF Next

(* What Inv says beyond types. *)
Rest == (\A r \in Reqs : RequestInv(r)) /\ (\A op \in Ops : CallInv(op))

LEMMA CallRest ==
  ASSUME Inv, TypeOK', NEW op \in Ops, Call(op)
  PROVE  Rest'
<1> DEFINE first == IF op \in FromPath THEN find(op) ELSE main(op)
<1>1. TypeOK /\ Rest
  BY DEF Inv, Rest
<1>2. /\ first \in Reqs /\ result[first] = "none" /\ SendSimpleRequest(first)
      /\ called' = [called EXCEPT ![op] = now] /\ now' = now
  BY RequestsOfCalls DEF Call, find, main
<1>3. /\ due' = [due EXCEPT ![first] = now + TimeoutOf(first)]
      /\ TimeoutOf(first) \in Nat /\ now \in Nat
  BY <1>1, <1>2, Timeouts DEF SendSimpleRequest, TypeOK
<1>4. \A r \in Reqs : r # first => /\ result'[r] = result[r] /\ answer'[r] = answer[r]
                                   /\ timer'[r] = timer[r] /\ due'[r] = due[r]
  BY <1>1, <1>2 DEF SendSimpleRequest, TypeOK
<1>5. /\ result'[first] \in {"pending", "connError"} /\ timer'[first] = "armed"
      /\ result'[first] = "pending" => answer'[first] = "waiting"
      /\ answer'[first] = "waiting" => result'[first] = "pending"
  BY <1>1, <1>2 DEF SendSimpleRequest, TypeOK, Rest, RequestInv
<1>6. ASSUME NEW r \in Reqs PROVE RequestInv(r)'
  <2>1. CASE r = first
    BY <1>1, <1>2, <1>3, <1>5, <2>1 DEF RequestInv, TypeOK
  <2>2. CASE r # first
    BY <1>1, <1>2, <1>4, <2>2 DEF RequestInv, Rest
  <2> QED
    BY <2>1, <2>2
<1>7. ASSUME NEW o \in Ops PROVE CallInv(o)'
  <2>1. CASE o # op
    <3>1. /\ first # main(o) /\ called'[o] = called[o]
          /\ o \in FromPath => first # find(o)
      BY <1>1, <1>2, <2>1, RequestsOfCalls DEF TypeOK
    <3> QED
      BY <1>1, <1>2, <1>4, <3>1, RequestsOfCalls
      DEF CallInv, Rest, Resuming, Resumes, main, find
  <2>2. CASE o = op /\ op \in FromPath
    <3>1. first = find(op) /\ first # main(op)
      BY <2>2, RequestsOfCalls
    <3>2. result[main(op)] = "none"
      BY <1>1, <1>2, <2>2, <3>1 DEF Rest, CallInv, Resumes, find
    <3>3. result'[main(op)] = "none" /\ ~Resumes(op)'
      BY <1>4, <1>5, <3>1, <3>2, RequestsOfCalls DEF Resumes, find
    <3>4. called'[op] = now /\ due'[find(op)] = now + Timeout \div 2
      BY <1>1, <1>2, <1>3, <2>2, <3>1, Timeouts DEF TypeOK
    <3> QED
      BY <2>2, <3>3, <3>4 DEF CallInv, Resuming
  <2>3. CASE o = op /\ op \notin FromPath
    <3>1. called'[op] = now /\ due'[main(op)] = now + Budget(op)
      BY <1>1, <1>2, <1>3, <2>3, Timeouts DEF TypeOK
    <3>2. due'[main(op)] <= called'[op] + Budget(op)'
      BY <1>3, <3>1, Timeouts DEF Budget
    <3> QED
      BY <2>3, <3>2 DEF CallInv
  <2> QED
    BY <2>1, <2>2, <2>3
<1> QED
  BY <1>6, <1>7 DEF Rest

LEMMA ResumeRest ==
  ASSUME Inv, TypeOK', NEW op \in Ops, Resume(op)
  PROVE  Rest'
<1>1. TypeOK /\ Rest
  BY DEF Inv, Rest
<1>2. /\ op \in FromPath /\ Resumes(op) /\ result[main(op)] = "none"
      /\ now <= called[op] + Timeout \div 2
      /\ SendSimpleRequest(main(op)) /\ called' = called /\ now' = now
  BY <1>1 DEF Resume, Resuming, Rest, CallInv, main
<1>3. /\ due' = [due EXCEPT ![main(op)] = now + Timeout]
      /\ Timeout \in Nat /\ now \in Nat /\ called[op] \in Nat
  <2>1. Timeout \in Nat /\ now \in Nat /\ called[op] \in Nat
    BY <1>1, TimeoutAssumption DEF TypeOK
  <2>2. TimeoutOf(main(op)) = Timeout
    BY Timeouts
  <2> QED
    BY <1>2, <2>1, <2>2 DEF SendSimpleRequest
<1>4. \A r \in Reqs : r # main(op) =>
        /\ result'[r] = result[r] /\ answer'[r] = answer[r]
        /\ timer'[r] = timer[r] /\ due'[r] = due[r]
  BY <1>1, <1>2 DEF SendSimpleRequest, TypeOK
<1>5. /\ result'[main(op)] \in {"pending", "connError"} /\ timer'[main(op)] = "armed"
      /\ result'[main(op)] = "pending" => answer'[main(op)] = "waiting"
      /\ answer'[main(op)] = "waiting" => result'[main(op)] = "pending"
  BY <1>1, <1>2, RequestsOfCalls DEF SendSimpleRequest, TypeOK, Rest, RequestInv
<1>6. ASSUME NEW r \in Reqs PROVE RequestInv(r)'
  <2>1. CASE r = main(op)
    BY <1>1, <1>2, <1>3, <1>5, <2>1 DEF RequestInv, TypeOK
  <2>2. CASE r # main(op)
    BY <1>1, <1>2, <1>4, <2>2 DEF RequestInv, Rest
  <2> QED
    BY <2>1, <2>2
<1>7. ASSUME NEW o \in Ops PROVE CallInv(o)'
  <2>1. CASE o # op
    <3>1. main(op) # main(o) /\ main(op) # find(o)
      BY <2>1, RequestsOfCalls
    <3> QED
      BY <1>1, <1>2, <1>4, <3>1, RequestsOfCalls
      DEF CallInv, Rest, Resuming, Resumes, main, find
  <2>2. CASE o = op
    <3>1. Resumes(op)' /\ ~Resuming(op)'
      BY <1>2, <1>4, <1>5, RequestsOfCalls DEF Resumes, Resuming, find, main
    <3>2. due'[main(op)] <= called'[op] + Budget(op)'
      <4>1. due'[main(op)] = now + Timeout
        BY <1>1, <1>3, RequestsOfCalls DEF TypeOK
      <4>2. Budget(op)' = Timeout \div 2 + Timeout
        BY <1>2, Timeouts DEF Budget
      <4> QED
        BY <1>2, <1>3, <4>1, <4>2, Timeouts
    <3>3. due'[find(op)] = called'[op] + Timeout \div 2
      BY <1>1, <1>2, <1>4, RequestsOfCalls DEF Rest, CallInv, Resumes, find
    <3> QED
      BY <2>2, <3>1, <3>2, <3>3 DEF CallInv
  <2> QED
    BY <2>1, <2>2
<1> QED
  BY <1>6, <1>7 DEF Rest

(* A request that settles, or not: only its answer, promise and timer      *)
(* change, and a promise that is settled stays so.                         *)
LEMMA AnswerRest ==
  ASSUME Inv, TypeOK', NEW r \in Reqs, Answer(r) \/ ErrorAnswer(r) \/ TimerFires(r)
  PROVE  Rest'
<1>1. TypeOK /\ Rest
  BY DEF Inv, Rest
<1>2. /\ now' = now /\ due' = due /\ called' = called
      /\ \A q \in Reqs : q # r => /\ result'[q] = result[q] /\ answer'[q] = answer[q]
                                  /\ timer'[q] = timer[q]
  BY <1>1 DEF Answer, ErrorAnswer, TimerFires, Settle, TimerAfterError, TypeOK
<1>3. /\ result'[r] = result[r]
           \/ (result[r] = "pending" /\ result'[r] \in {"resolved", "timeout"})
      /\ answer'[r] = answer[r]
           \/ (answer[r] = "waiting" /\ answer'[r] \in {"ok", "empty", "error"})
  BY <1>1 DEF Answer, ErrorAnswer, TimerFires, Settle, TypeOK
<1>4. RequestInv(r)'
  <2>1. CASE Answer(r)
    BY <1>1, <1>2, <2>1 DEF Answer, Settle, TypeOK, Rest, RequestInv
  <2>2. CASE ErrorAnswer(r)
    BY <1>1, <1>2, <2>2 DEF ErrorAnswer, TimerAfterError, TypeOK, Rest, RequestInv
  <2>3. CASE TimerFires(r)
    BY <1>1, <1>2, <2>3 DEF TimerFires, Overdue, Settle, TypeOK, Rest, RequestInv
  <2> QED
    BY <2>1, <2>2, <2>3
<1>5. \A q \in Reqs : RequestInv(q)'
  BY <1>1, <1>2, <1>4 DEF Rest, RequestInv
<1>6. ASSUME NEW o \in Ops PROVE CallInv(o)'
  <2>1. /\ \A q \in Reqs : /\ result'[q] = "none" <=> result[q] = "none"
                           /\ result[q] = "resolved" => /\ result'[q] = "resolved"
                                                        /\ answer'[q] = answer[q]
    BY <1>1, <1>2, <1>3 DEF Rest, RequestInv
  <2>2. ASSUME o \in FromPath, Resumes(o) PROVE Resumes(o)'
    BY <2>1, <2>2, RequestsOfCalls DEF Resumes, find
  <2>3. ASSUME o \in FromPath, Resuming(o)'
        PROVE  now' <= called'[o] + Timeout \div 2
    <3>1. CASE Resumes(o)
      BY <1>1, <1>2, <2>1, <2>3, <3>1, RequestsOfCalls
      DEF Rest, CallInv, Resuming, main
    <3>2. CASE ~Resumes(o)
      <4>1. find(o) \in Reqs /\ Resumes(o)'
        BY <2>3, RequestsOfCalls DEF Resuming
      <4>2. r = find(o)
        BY <1>2, <3>2, <4>1 DEF Resumes, find
      <4>3. result[r] = "pending"
        BY <1>1, <1>3, <3>2, <4>1, <4>2 DEF Rest, RequestInv, Resumes, find
      <4>4. now <= due[r] /\ due[r] = called[o] + Timeout \div 2
        BY <1>1, <2>3, <4>1, <4>2, <4>3 DEF Rest, RequestInv, CallInv
      <4> QED
        BY <1>2, <4>4
    <3> QED
      BY <3>1, <3>2
  <2>4. /\ o \in FromPath /\ result'[find(o)] # "none" =>
            due'[find(o)] = called'[o] + Timeout \div 2
        /\ result'[main(o)] # "none" => due'[main(o)] <= called'[o] + Budget(o)
    BY <1>1, <1>2, <2>1, RequestsOfCalls DEF Rest, CallInv
  <2>5. o \in FromPath /\ result'[main(o)] # "none" => Resumes(o)'
    BY <1>1, <2>1, <2>2, RequestsOfCalls DEF Rest, CallInv
  <2> QED
    BY <2>3, <2>4, <2>5 DEF CallInv, Budget
<1> QED
  BY <1>5, <1>6 DEF Rest

LEMMA ConnectionRest ==
  ASSUME Inv, TypeOK', Dispose \/ RemoteClose \/ UNCHANGED vars
  PROVE  Rest'
<1>1. TypeOK /\ Rest
  BY DEF Inv, Rest
<1>2. /\ UNCHANGED <<now, timer, due, result, called>>
      /\ \A r \in Reqs : answer'[r] = answer[r]
                         \/ (answer[r] = "waiting" /\ answer'[r] = "error")
  BY <1>1 DEF Dispose, RemoteClose, Rejected, vars, TypeOK
<1>3. \A r \in Reqs : RequestInv(r)'
  BY <1>1, <1>2 DEF Rest, RequestInv
<1>4. ASSUME NEW op \in Ops PROVE CallInv(op)'
  <2>1. op \in FromPath => (Resumes(op)' <=> Resumes(op))
    BY <1>1, <1>2, RequestsOfCalls DEF Rest, RequestInv, Resumes, find
  <2> QED
    BY <1>1, <1>2, <2>1 DEF Rest, CallInv, Resuming, Budget
<1> QED
  BY <1>3, <1>4 DEF Rest

LEMMA TickRest ==
  ASSUME Inv, TypeOK', Tick
  PROVE  Rest'
<1>1. TypeOK /\ Rest
  BY DEF Inv, Rest
<1>2. /\ now' = now + 1 /\ UNCHANGED <<timer, due, answer, result, called>>
      /\ \A op \in Ops : ~Resuming(op)
      /\ \A r \in Reqs : timer[r] = "armed" => ~(due[r] <= now)
  BY DEF Tick, NoMicrotask, Overdue
<1>3. ASSUME NEW r \in Reqs PROVE RequestInv(r)'
  <2>1. due[r] \in Nat /\ now \in Nat
    BY <1>1 DEF TypeOK
  <2> QED
    BY <1>1, <1>2, <2>1 DEF Rest, RequestInv
<1>4. ASSUME NEW op \in Ops PROVE CallInv(op)'
  BY <1>1, <1>2 DEF Rest, CallInv, Resuming, Resumes, Budget
<1> QED
  BY <1>3, <1>4 DEF Rest

LEMMA NextInv == Inv /\ [Next]_vars => Inv'
<1> SUFFICES ASSUME Inv, [Next]_vars PROVE Inv'
  OBVIOUS
<1>1. TypeOK'
  BY NextTypeOK
<1>2. ASSUME NEW op \in Ops, Call(op) \/ Resume(op) PROVE Rest'
  BY <1>1, <1>2, CallRest, ResumeRest
<1>3. ASSUME NEW r \in Reqs, Answer(r) \/ ErrorAnswer(r) \/ TimerFires(r)
      PROVE  Rest'
  BY <1>1, <1>3, AnswerRest
<1>4. CASE Tick
  BY <1>1, <1>4, TickRest DEF Rest, Inv
<1>5. CASE Dispose \/ RemoteClose \/ UNCHANGED vars
  BY <1>1, <1>5, ConnectionRest DEF Rest, Inv
<1> QED
  BY <1>1, <1>2, <1>3, <1>4, <1>5 DEF Next, Rest, Inv

(* The inductive invariant holds in every behaviour. *)
THEOREM Invariance == Spec => []Inv
BY InitInv, NextInv, PTL DEF Spec

(* Every variable keeps its type. *)
THEOREM TypeCorrect == Spec => []TypeOK
<1>1. Inv => TypeOK
  BY DEF Inv
<1> QED
  BY <1>1, Invariance, PTL

(* What the promise of the caller says of the two requests behind it. *)
LEMMA PendingMeans ==
  ASSUME Inv, NEW op \in Ops, Outcome(op) = "pending"
  PROVE  \/ result[main(op)] = "pending"
         \/ op \in FromPath /\ result[find(op)] = "pending" /\ result[main(op)] = "none"
         \/ Resuming(op)
<1>1. TypeOK /\ (\A r \in Reqs : RequestInv(r)) /\ CallInv(op)
  BY DEF Inv
<1>2. CASE result[main(op)] # "none"
  BY <1>2 DEF Outcome, main
<1>3. CASE result[main(op)] = "none"
  <2>1. op \in FromPath
    BY <1>3 DEF Outcome, main, Ops
  <2>2. \/ result[find(op)] = "pending"
        \/ result[find(op)] = "resolved" /\ answer[find(op)] # "empty"
    BY <1>3, <2>1 DEF Outcome, main, find
  <2>3. result[find(op)] = "resolved" => answer[find(op)] \in {"ok", "empty"}
    BY <1>1, <2>1, RequestsOfCalls DEF RequestInv
  <2> QED
    BY <1>3, <2>1, <2>2, <2>3 DEF Resuming, Resumes, find, main
<1> QED
  BY <1>2, <1>3

(* A call is settled after its timeout at the latest, or after one and a   *)
(* half of them if it makes two requests.                                  *)
LEMMA PendingInTime ==
  ASSUME Inv, NEW op \in Ops, Outcome(op) = "pending"
  PROVE  now <= called[op] + Budget(op)
<1>1. TypeOK /\ (\A r \in Reqs : RequestInv(r)) /\ CallInv(op)
  BY DEF Inv
<1>2. now \in Nat /\ called[op] \in Nat /\ Timeout \in Nat
  BY <1>1, TimeoutAssumption DEF TypeOK
<1>3. CASE result[main(op)] = "pending"
  <2>1. main(op) \in Reqs /\ due[main(op)] \in Nat /\ Budget(op) \in Nat
    BY <1>1, RequestsOfCalls, Timeouts DEF TypeOK
  <2> QED
    BY <1>1, <1>2, <1>3, <2>1 DEF RequestInv, CallInv
<1>4. CASE op \in FromPath /\ (result[find(op)] = "pending" \/ Resuming(op))
  <2>1. now <= called[op] + Timeout \div 2
    BY <1>1, <1>4, RequestsOfCalls DEF RequestInv, CallInv
  <2>2. Budget(op) = Timeout \div 2 + Timeout /\ Timeout \div 2 \in Nat
    BY <1>4, Timeouts
  <2> QED
    BY <1>2, <2>1, <2>2
<1> QED
  BY <1>3, <1>4, PendingMeans DEF Resuming

THEOREM EndsInTime == Spec => []SettledInTime
<1>1. Inv => SettledInTime
  BY PendingInTime DEF SettledInTime
<1> QED
  BY <1>1, Invariance, PTL

(* Once the search for beans has timed out, CreateServer is never sent.    *)
THEOREM TimedOutSearchCreatesNothing == Spec => []LateBeansCreateNothing
<1>1. Inv => LateBeansCreateNothing
  <2> SUFFICES ASSUME Inv, NEW op \in FromPath, result[find(op)] = "timeout"
               PROVE  answer[main(op)] = "unsent" /\ timer[main(op)] = "unset"
    BY DEF LateBeansCreateNothing, main, find
  <2>1. op \in Ops /\ main(op) \in Reqs
    BY RequestsOfCalls
  <2>2. result[main(op)] = "none"
    BY <2>1 DEF Inv, CallInv, Resumes, find
  <2> QED
    BY <2>1, <2>2 DEF Inv, RequestInv
<1> QED
  BY <1>1, Invariance, PTL
-----------------------------------------------------------------------------
(* The refinement.  What a caller sees of its call: its promise, and       *)
(* whether the request the call is about was answered.                     *)
Outcomes == [op \in Ops |-> Outcome(op)]
Answered == {op \in Ops : answer[main(op)] = "ok"}

(* Once the request the call is about is sent, its promise is that one's;  *)
(* before, it is the promise of the search, which resolves with a list.    *)
LEMMA OutcomeOfMain ==
  ASSUME NEW op \in Ops, result[main(op)] # "none"
  PROVE  Outcome(op) = result[main(op)]
BY DEF Outcome, main

LEMMA OutcomeOfPlain ==
  ASSUME NEW op \in Ops, op \notin FromPath, result[main(op)] = "none"
  PROVE  Outcome(op) = "uncalled"
BY DEF Outcome, main, Ops

LEMMA OutcomeOfFind ==
  ASSUME NEW op \in FromPath, result[main(op)] = "none"
  PROVE  Outcome(op) =
           IF result[find(op)] = "none" THEN "uncalled"
           ELSE IF result[find(op)] # "resolved" THEN result[find(op)]
           ELSE IF answer[find(op)] = "empty" THEN "typeError" ELSE "pending"
BY CallsDistinct DEF Outcome, main, find

(* So it depends on the two requests of the call alone. *)
LEMMA OutcomeKept ==
  ASSUME NEW op \in Ops,
         result'[main(op)] = result[main(op)],
         op \in FromPath => /\ result'[find(op)] = result[find(op)]
                            /\ result[find(op)] = "resolved" =>
                                 (answer'[find(op)] = "empty" <=> answer[find(op)] = "empty")
  PROVE  Outcome(op)' = Outcome(op)
BY CallsDistinct DEF Outcome, main, find, Ops

(* One call changes: the rest of the calls look as before. *)
LEMMA OneOutcome ==
  ASSUME NEW op \in Ops, \A p \in Ops : p # op => Outcome(p)' = Outcome(p)
  PROVE  Outcomes' = [Outcomes EXCEPT ![op] = Outcome(op)']
BY DEF Outcomes

LEMMA NoOutcome ==
  ASSUME \A p \in Ops : Outcome(p)' = Outcome(p)
  PROVE  Outcomes' = Outcomes
BY DEF Outcomes

(* The actions of BoundedCall, in the terms of this module. *)
LEMMA AbstractSteps ==
  /\ Promise!vars' = Promise!vars <=>
       UNCHANGED <<now, called>> /\ Outcomes' = Outcomes /\ Answered' = Answered
  /\ \A op \in Ops :
       /\ /\ Outcome(op) = "uncalled" /\ Answered' = Answered /\ now' = now
          /\ called' = [called EXCEPT ![op] = now]
          /\ \E o \in {"pending", "connError"} : Outcomes' = [Outcomes EXCEPT ![op] = o]
          => Promise!Make(op)
       /\ /\ Outcome(op) = "pending" /\ Answered' = Answered
          /\ UNCHANGED <<now, called>>
          /\ \E o \in {"timeout", "connError", "typeError"} :
               Outcomes' = [Outcomes EXCEPT ![op] = o]
          => Promise!Fail(op)
       /\ /\ Outcome(op) = "pending" /\ Answered' = Answered \cup {op}
          /\ UNCHANGED <<now, called>>
          /\ Outcomes' = [Outcomes EXCEPT ![op] = "resolved"]
          => Promise!Resolve(op)
       /\ /\ Outcome(op) = "timeout" /\ Answered' = Answered \cup {op}
          /\ UNCHANGED <<now, called>> /\ Outcomes' = Outcomes
          => Promise!AnswerLate(op)
  /\ /\ \A op \in Ops : Outcome(op) = "pending" => now < called[op] + Budget(op)
     /\ now' = now + 1 /\ called' = called
     /\ Outcomes' = Outcomes /\ Answered' = Answered
     => Promise!Tick
BY DEF Promise!vars, Promise!Make, Promise!Fail, Promise!Resolve, Promise!AnswerLate,
       Promise!Tick, Promise!Failures, Outcomes, Answered, main

LEMMA InitRefines == Init => Promise!Init
<1> SUFFICES ASSUME Init PROVE Promise!Init
  OBVIOUS
<1>1. \A op \in Ops : Outcome(op) = "uncalled"
  BY RequestsOfCalls, OutcomeOfPlain, OutcomeOfFind DEF Init
<1>2. Answered = {}
  BY RequestsOfCalls DEF Init, Answered
<1> QED
  BY <1>1, <1>2 DEF Promise!Init, Init, Answered, main

LEMMA CallRefines ==
  ASSUME Inv, NEW op \in Ops, Call(op)
  PROVE  Promise!Make(op)
<1> DEFINE first == IF op \in FromPath THEN find(op) ELSE main(op)
<1>1. TypeOK /\ CallInv(op)
  BY DEF Inv
<1>2. /\ first \in Reqs /\ result[first] = "none" /\ SendSimpleRequest(first)
      /\ called' = [called EXCEPT ![op] = now] /\ now' = now
  BY RequestsOfCalls DEF Call, find, main
<1>3. /\ \A r \in Reqs : r # first => /\ result'[r] = result[r] /\ answer'[r] = answer[r]
      /\ result'[first] \in {"pending", "connError"}
      /\ answer'[first] = "ok" <=> answer[first] = "ok"
  <2>1. answer[first] = "unsent"
    BY <1>2 DEF Inv, RequestInv
  <2> QED
    BY <1>1, <1>2, <2>1 DEF SendSimpleRequest, TypeOK
<1>4. \A p \in Ops : p # op => Outcome(p)' = Outcome(p)
  <2> SUFFICES ASSUME NEW p \in Ops, p # op PROVE Outcome(p)' = Outcome(p)
    OBVIOUS
  <2>1. first # main(p) /\ first # find(p)
    BY RequestsOfCalls
  <2> QED
    BY <1>3, <2>1, RequestsOfCalls, OutcomeKept
<1>5. Answered' = Answered
  BY <1>3, RequestsOfCalls DEF Answered
<1>6. result[main(op)] = "none"
  BY <1>1, <1>2, RequestsOfCalls DEF CallInv, Resumes, find
<1>7. Outcome(op) = "uncalled"
  BY <1>2, <1>6, OutcomeOfPlain, OutcomeOfFind
<1>8. Outcome(op)' = result'[first]
  <2>1. CASE op \in FromPath
    <3>1. first = find(op) /\ result'[main(op)] = "none"
      BY <1>3, <1>6, <2>1, RequestsOfCalls
    <3> QED
      BY <1>3, <2>1, <3>1, CallsDistinct DEF Outcome, main, find
  <2>2. CASE op \notin FromPath
    BY <1>3, <2>2 DEF Outcome, main
  <2> QED
    BY <2>1, <2>2
<1>9. \E o \in {"pending", "connError"} : Outcomes' = [Outcomes EXCEPT ![op] = o]
  BY <1>3, <1>4, <1>8, OneOutcome
<1> QED
  BY <1>2, <1>5, <1>7, <1>9, AbstractSteps

(* The second request is sent within the budget of the call: its caller    *)
(* sees nothing, unless sending fails.                                     *)
LEMMA ResumeRefines ==
  ASSUME Inv, NEW op \in Ops, Resume(op)
  PROVE  Promise!Fail(op) \/ UNCHANGED Promise!vars
<1>1. TypeOK /\ \A r \in Reqs : RequestInv(r)
  BY DEF Inv
<1>2. /\ op \in FromPath /\ Resumes(op) /\ result[main(op)] = "none"
      /\ SendSimpleRequest(main(op)) /\ called' = called /\ now' = now
  BY DEF Resume, Resuming, main
<1>3. /\ \A r \in Reqs : r # main(op) => result'[r] = result[r] /\ answer'[r] = answer[r]
      /\ result'[main(op)] \in {"pending", "connError"}
      /\ answer'[main(op)] # "ok" /\ answer[main(op)] # "ok"
  BY <1>1, <1>2, RequestsOfCalls DEF SendSimpleRequest, TypeOK, RequestInv
<1>4. \A p \in Ops : p # op => Outcome(p)' = Outcome(p)
  <2> SUFFICES ASSUME NEW p \in Ops, p # op PROVE Outcome(p)' = Outcome(p)
    OBVIOUS
  <2>1. main(op) # main(p) /\ main(op) # find(p)
    BY RequestsOfCalls
  <2> QED
    BY <1>3, <2>1, RequestsOfCalls, OutcomeKept
<1>5. Answered' = Answered
  BY <1>3, RequestsOfCalls DEF Answered
<1>6. Outcome(op) = "pending" /\ Outcome(op)' = result'[main(op)]
  BY <1>2, <1>3, OutcomeOfFind DEF Outcome, main, find, Resumes
<1>7. CASE result'[main(op)] = "pending"
  <2>1. Outcomes' = Outcomes
    BY <1>4, <1>6, <1>7, NoOutcome
  <2> QED
    BY <1>2, <1>5, <2>1, AbstractSteps
<1>8. CASE result'[main(op)] = "connError"
  <2>1. Outcomes' = [Outcomes EXCEPT ![op] = "connError"]
    BY <1>4, <1>6, <1>8, OneOutcome
  <2> QED
    BY <1>2, <1>5, <1>6, <2>1, AbstractSteps
<1> QED
  BY <1>3, <1>7, <1>8

(* What settles or answers one request leaves the other calls alone.       *)
LEMMA OthersKept ==
  ASSUME Inv, NEW op \in Ops, NEW r \in Reqs,
         r = main(op) \/ (op \in FromPath /\ r = find(op)),
         Answer(r) \/ ErrorAnswer(r) \/ TimerFires(r)
  PROVE  /\ \A q \in Reqs : q # r => result'[q] = result[q] /\ answer'[q] = answer[q]
         /\ \A p \in Ops : p # op => Outcome(p)' = Outcome(p)
<1>1. \A q \in Reqs : q # r => result'[q] = result[q] /\ answer'[q] = answer[q]
  BY DEF Inv, TypeOK, Answer, ErrorAnswer, TimerFires, Settle
<1>2. ASSUME NEW p \in Ops, p # op PROVE Outcome(p)' = Outcome(p)
  <2>1. r # main(p) /\ r # find(p)
    BY <1>2, RequestsOfCalls
  <2> QED
    BY <1>1, <2>1, RequestsOfCalls, OutcomeKept
<1> QED
  BY <1>1, <1>2

(* The answer of the search: the call goes on, or fails for want of beans. *)
LEMMA FoundRefines ==
  ASSUME Inv, NEW op \in FromPath, Answer(find(op))
  PROVE  Promise!Fail(op) \/ UNCHANGED Promise!vars
<1> DEFINE r == find(op)
<1>1. TypeOK /\ RequestInv(r) /\ CallInv(op) /\ op \in Ops /\ r \in Reqs
  BY RequestsOfCalls DEF Inv
<1>2. /\ \A q \in Reqs : q # r => result'[q] = result[q] /\ answer'[q] = answer[q]
      /\ \A p \in Ops : p # op => Outcome(p)' = Outcome(p)
  BY <1>1, OthersKept
<1>3. Answered' = Answered
  BY <1>2, RequestsOfCalls DEF Answered
<1>4. /\ answer[r] = "waiting" /\ answer'[r] \in {"ok", "empty"}
      /\ result'[r] = IF result[r] = "pending" THEN "resolved" ELSE result[r]
      /\ UNCHANGED <<now, called>>
  BY <1>1 DEF Answer, Settle, TypeOK
<1>5. result[main(op)] = "none" /\ result'[main(op)] = "none"
  BY <1>1, <1>2, <1>4, RequestsOfCalls DEF CallInv, Resumes, find
<1>6. CASE result[r] = "timeout"
  <2>1. Outcome(op)' = Outcome(op)
    BY <1>4, <1>5, <1>6, OutcomeKept, RequestsOfCalls
  <2>2. Outcomes' = Outcomes
    BY <1>2, <2>1, NoOutcome
  <2> QED
    BY <1>3, <1>4, <2>2, AbstractSteps
<1>7. CASE result[r] = "pending"
  <2>1. /\ Outcome(op) = "pending"
        /\ Outcome(op)' = IF answer'[r] = "empty" THEN "typeError" ELSE "pending"
    BY <1>4, <1>5, <1>7, CallsDistinct DEF Outcome, main, find
  <2>2. CASE answer'[r] = "empty"
    <3>1. Outcomes' = [Outcomes EXCEPT ![op] = "typeError"]
      BY <1>1, <1>2, <2>1, <2>2, OneOutcome
    <3> QED
      BY <1>1, <1>3, <1>4, <2>1, <3>1, AbstractSteps
  <2>3. CASE answer'[r] # "empty"
    <3>1. Outcomes' = Outcomes
      BY <1>2, <2>1, <2>3, NoOutcome
    <3> QED
      BY <1>3, <1>4, <3>1, AbstractSteps
  <2> QED
    BY <2>2, <2>3
<1> QED
  BY <1>1, <1>4, <1>6, <1>7 DEF RequestInv

(* The answer of the request the call is about resolves it, or is late.    *)
LEMMA AnswerRefines ==
  ASSUME Inv, NEW op \in Ops, Answer(main(op))
  PROVE  Promise!Resolve(op) \/ Promise!AnswerLate(op)
<1> DEFINE r == main(op)
<1>1. TypeOK /\ RequestInv(r) /\ r \in Reqs /\ r \notin Find
  BY RequestsOfCalls DEF Inv
<1>2. /\ \A q \in Reqs : q # r => result'[q] = result[q] /\ answer'[q] = answer[q]
      /\ \A p \in Ops : p # op => Outcome(p)' = Outcome(p)
  BY <1>1, OthersKept
<1>3. /\ answer[r] = "waiting" /\ answer'[r] = "ok"
      /\ result'[r] = IF result[r] = "pending" THEN "resolved" ELSE result[r]
      /\ UNCHANGED <<now, called>>
  BY <1>1 DEF Answer, Settle, TypeOK
<1>4. Answered' = Answered \cup {op}
  BY <1>2, <1>3, RequestsOfCalls DEF Answered
<1>5. result[r] # "none" /\ Outcome(op) = result[r] /\ Outcome(op)' = result'[r]
  BY <1>1, <1>3 DEF RequestInv, Outcome, main
<1>6. CASE result[r] = "timeout"
  <2>1. Outcomes' = Outcomes
    BY <1>2, <1>3, <1>5, <1>6, NoOutcome
  <2> QED
    BY <1>3, <1>4, <1>5, <1>6, <2>1, AbstractSteps
<1>7. CASE result[r] = "pending"
  <2>1. Outcomes' = [Outcomes EXCEPT ![op] = "resolved"]
    BY <1>2, <1>3, <1>5, <1>7, OneOutcome
  <2> QED
    BY <1>3, <1>4, <1>5, <1>7, <2>1, AbstractSteps
<1> QED
  BY <1>1, <1>3, <1>6, <1>7 DEF RequestInv

(* The timer of either request fails the call, or comes after its answer.  *)
LEMMA TimerRefines ==
  ASSUME Inv, NEW op \in Ops, NEW r \in Reqs,
         r = main(op) \/ (op \in FromPath /\ r = find(op)), TimerFires(r)
  PROVE  Promise!Fail(op) \/ UNCHANGED Promise!vars
<1>1. TypeOK /\ RequestInv(r) /\ CallInv(op)
  BY DEF Inv
<1>2. /\ \A q \in Reqs : q # r => result'[q] = result[q] /\ answer'[q] = answer[q]
      /\ \A p \in Ops : p # op => Outcome(p)' = Outcome(p)
  BY OthersKept
<1>3. /\ result'[r] = IF result[r] = "pending" THEN "timeout" ELSE result[r]
      /\ UNCHANGED <<now, called, answer>>
  BY <1>1 DEF TimerFires, Settle, TypeOK
<1>4. Answered' = Answered
  BY <1>3 DEF Answered
<1>5. CASE result[r] # "pending"
  <2>1. Outcome(op)' = Outcome(op)
    BY <1>2, <1>3, <1>5, OutcomeKept, RequestsOfCalls
  <2>2. Outcomes' = Outcomes
    BY <1>2, <2>1, NoOutcome
  <2> QED
    BY <1>3, <1>4, <2>2, AbstractSteps
<1>6. CASE result[r] = "pending"
  <2>1. Outcome(op) = "pending" /\ Outcome(op)' = "timeout"
    <3>1. CASE r = main(op)
      BY <1>3, <1>6, <3>1 DEF Outcome, main
    <3>2. CASE op \in FromPath /\ r = find(op)
      <4>1. result[main(op)] = "none" /\ result'[main(op)] = "none"
        BY <1>1, <1>2, <1>6, <3>2, RequestsOfCalls DEF CallInv, Resumes, find
      <4> QED
        BY <1>3, <1>6, <3>2, <4>1, CallsDistinct DEF Outcome, main, find
    <3> QED
      BY <3>1, <3>2
  <2>2. Outcomes' = [Outcomes EXCEPT ![op] = "timeout"]
    BY <1>2, <2>1, OneOutcome
  <2> QED
    BY <1>3, <1>4, <2>1, <2>2, AbstractSteps
<1> QED
  BY <1>5, <1>6

(* What no promise shows: an error answer, and the end of the connection.  *)
LEMMA UnseenRefines ==
  ASSUME Inv, \/ \E r \in Reqs : ErrorAnswer(r)
              \/ Dispose \/ RemoteClose \/ UNCHANGED vars
  PROVE  UNCHANGED Promise!vars
<1>1. TypeOK /\ \A r \in Reqs : RequestInv(r)
  BY DEF Inv
<1>2. /\ UNCHANGED <<now, called, result>>
      /\ \A r \in Reqs : answer'[r] = answer[r]
                         \/ (answer[r] = "waiting" /\ answer'[r] = "error")
  BY <1>1 DEF ErrorAnswer, Dispose, RemoteClose, Rejected, vars, TypeOK
<1>3. Answered' = Answered
  BY <1>2, RequestsOfCalls DEF Answered
<1>4. \A op \in Ops : Outcome(op)' = Outcome(op)
  BY <1>1, <1>2, RequestsOfCalls, OutcomeKept DEF RequestInv
<1> QED
  BY <1>2, <1>3, <1>4, NoOutcome, AbstractSteps

(* The clock stands while a timer is due or a call can go on, and one or   *)
(* the other is so when a pending call has used up its budget.             *)
LEMMA TickRefines ==
  ASSUME Inv, Tick
  PROVE  Promise!Tick
<1>1. TypeOK /\ (\A r \in Reqs : RequestInv(r)) /\ \A op \in Ops : CallInv(op)
  BY DEF Inv
<1>2. /\ now' = now + 1 /\ UNCHANGED <<answer, result, called>>
      /\ \A op \in Ops : ~Resuming(op)
      /\ \A r \in Reqs : timer[r] = "armed" => ~(due[r] <= now)
  BY DEF Tick, NoMicrotask, Overdue
<1>3. ASSUME NEW op \in Ops, Outcome(op) = "pending"
      PROVE  now < called[op] + Budget(op)
  <2>1. /\ now \in Nat /\ called[op] \in Nat /\ Timeout \in Nat
        /\ \A r \in Reqs : due[r] \in Nat
    BY <1>1, TimeoutAssumption DEF TypeOK
  <2>2. CASE result[main(op)] = "pending"
    <3>1. main(op) \in Reqs /\ Budget(op) \in Nat
      BY RequestsOfCalls, Timeouts
    <3> QED
      BY <1>1, <1>2, <2>1, <2>2, <3>1 DEF RequestInv, CallInv
  <2>3. CASE op \in FromPath /\ result[find(op)] = "pending"
    <3>1. now < called[op] + Timeout \div 2
      BY <1>1, <1>2, <2>1, <2>3, RequestsOfCalls, Timeouts DEF RequestInv, CallInv
    <3>2. Budget(op) = Timeout \div 2 + Timeout /\ Timeout \div 2 \in Nat
      BY <2>3, Timeouts
    <3> QED
      BY <2>1, <3>1, <3>2
  <2> QED
    BY <1>2, <1>3, <2>2, <2>3, PendingMeans
<1>4. Answered' = Answered
  BY <1>2 DEF Answered
<1>5. \A op \in Ops : Outcome(op)' = Outcome(op)
  BY <1>2, OutcomeKept
<1> QED
  BY <1>2, <1>3, <1>4, <1>5, NoOutcome, AbstractSteps

(* Every call does what BoundedCall promises: one outcome, in time, and    *)
(* final, whatever comes late of either request.                           *)
THEOREM Refinement == Spec => ImplementsBoundedCall
<1>1. Inv /\ [Next]_vars => [Promise!Next]_Promise!vars
  <2> SUFFICES ASSUME Inv, [Next]_vars PROVE [Promise!Next]_Promise!vars
    OBVIOUS
  <2>1. ASSUME NEW op \in Ops, Call(op) \/ Resume(op)
        PROVE  [Promise!Next]_Promise!vars
    BY <2>1, CallRefines, ResumeRefines DEF Promise!Next
  <2>2. ASSUME NEW r \in Reqs, Answer(r) \/ TimerFires(r)
        PROVE  [Promise!Next]_Promise!vars
    <3>1. \/ \E op \in Ops : r = main(op)
          \/ \E op \in FromPath : op \in Ops /\ r = find(op)
      BY RequestsOfCalls
    <3> QED
      BY <2>2, <3>1, FoundRefines, AnswerRefines, TimerRefines DEF Promise!Next
  <2>3. CASE Tick
    BY <2>3, TickRefines DEF Promise!Next
  <2>4. CASE \/ \E r \in Reqs : ErrorAnswer(r)
             \/ Dispose \/ RemoteClose \/ UNCHANGED vars
    BY <2>4, UnseenRefines
  <2> QED
    BY <2>1, <2>2, <2>3, <2>4 DEF Next
<1> QED
  BY <1>1, InitRefines, Invariance, PTL DEF Spec, ImplementsBoundedCall, Promise!Spec
=============================================================================

-------------------------- MODULE RunControlProofs --------------------------
(***************************************************************************)
(* Proofs about RunControl, for any number of requests and clicks.         *)
(***************************************************************************)
EXTENDS RunControl, FiniteSetTheorems, TLAPS

RunPlaces == Inside \cup {"timer", "test", "runOk"}

(* A request that may still create a thread has a number to give it. *)
TicketInv ==
  \A q \in Requests : req[q] \in RunPlaces => ticket[q] \in Threads

(* Who may own an executor, as long as no two run requests overlapped: the *)
(* std::thread object, or the request between creating and storing it.     *)
UnracedInv ==
  ~raced =>
    /\ ~crashed
    /\ \A p, q \in Requests :
         req[p] \in Inside /\ req[q] \in Inside => p = q
    /\ \A q \in Requests :
         /\ req[q] = "create" => ~joinable /\ Executors = {}
         /\ req[q] = "assign" => ~joinable /\ Executors \subseteq {ticket[q]}
    /\ (\A q \in Requests : req[q] # "assign") =>
         /\ Executors \subseteq {abthread}
         /\ Executors # {} => joinable

IInv ==
  /\ TypeOK
  /\ TicketInv
  /\ EveryExecutorOwned
  /\ UnracedInv
  /\ RunningFlagTruthful

-----------------------------------------------------------------------------
LEMMA InitInv == Init => IInv
<1> SUFFICES ASSUME Init PROVE IInv
  OBVIOUS
<1>1. TypeOK
  <2>1. /\ req \in [Requests -> Places] /\ thread \in [Threads -> Stages]
        /\ ticket \in [Requests -> 0 .. MaxClicks]
        /\ abthread \in 0 .. MaxClicks /\ clicks \in 0 .. MaxClicks
        /\ button \in {"play", "stop"}
    BY ClickBoundAssumption DEF Init, Places, Stages, Live, Busy
  <2>2. QED BY <2>1 DEF Init, TypeOK
<1>2. Executors = {}
  BY DEF Init, Executors, Live, Busy
<1>3. TicketInv /\ EveryExecutorOwned /\ UnracedInv
  BY <1>2 DEF Init, TicketInv, EveryExecutorOwned, UnracedInv, RunPlaces, Inside
<1>4. RunningFlagTruthful
  BY DEF Init, RunningFlagTruthful, Busy
<1>5. QED BY <1>1, <1>3, <1>4 DEF IInv

(* Steps that leave the threads and the thread object alone, and no run    *)
(* request closer to making a thread, keep everything but the types.       *)
LEMMA QuietStep ==
  ASSUME IInv, TypeOK', TicketInv',
         UNCHANGED <<running, handleVars, thread, raced>>,
         \A q \in Requests :
           /\ req'[q] \in Inside => req[q] \in Inside
           /\ req'[q] = "create" <=> req[q] = "create"
           /\ req'[q] = "assign" <=> req[q] = "assign"
           /\ req[q] = "assign" => ticket'[q] = ticket[q]
  PROVE  IInv'
<1>1. Executors' = Executors
  BY DEF Executors, handleVars
<1>2. EveryExecutorOwned'
  BY <1>1 DEF IInv, EveryExecutorOwned, handleVars
<1>3. UnracedInv'
  BY <1>1 DEF IInv, UnracedInv, handleVars
<1>4. RunningFlagTruthful'
  BY DEF IInv, RunningFlagTruthful
<1>5. QED BY <1>2, <1>3, <1>4 DEF IInv

-----------------------------------------------------------------------------
(* The page's steps and the stop branch.                                   *)
LEMMA PageSteps ==
  ASSUME IInv, NEW q \in Requests,
         \/ Click(q) \/ PostRun(q) \/ RunAnswered(q) \/ StopAnswered(q)
         \/ Stop(q) \/ Fail(q)
  PROVE  IInv'
<1> USE DEF Go, Inside
<1>1. ASSUME NEW from \in Places, NEW to \in Places \ Inside,
             req[q] = from, from \notin Inside,
             req' = [req EXCEPT ![q] = to],
             \A p \in Requests : req[p] = "assign" => ticket'[p] = ticket[p],
             UNCHANGED <<running, handleVars, thread, raced>>,
             TypeOK', TicketInv'
      PROVE  IInv'
  <2>1. \A p \in Requests : p # q => req'[p] = req[p]
    BY <1>1 DEF IInv, TypeOK
  <2>2. req'[q] = to
    BY <1>1 DEF IInv, TypeOK
  <2>3. QED BY <1>1, <2>1, <2>2, QuietStep
<1> USE DEF TicketInv, RunPlaces, handleVars
<1>2. CASE ClickPlay(q)
  <2>1. clicks + 1 \in Threads /\ Threads \subseteq 0 .. MaxClicks
    BY <1>2, ClickBoundAssumption DEF ClickPlay, IInv, TypeOK, Threads
  <2>2. clicks' \in 0 .. MaxClicks /\ ticket' \in [Requests -> 0 .. MaxClicks]
    BY <1>2, <2>1 DEF ClickPlay, IInv, TypeOK
  <2>3. TypeOK'
    BY <1>2, <2>2 DEF ClickPlay, IInv, TypeOK, Places
  <2>4. TicketInv'
    BY <1>2, <2>1 DEF ClickPlay, IInv, TypeOK
  <2>5. QED BY <1>1, <1>2, <2>3, <2>4 DEF ClickPlay, IInv, TypeOK, Places
<1>3. CASE ClickStop(q)
  <2>1. TypeOK' /\ TicketInv'
    BY <1>3, ClickBoundAssumption DEF ClickStop, IInv, TypeOK, Places, historyVars
  <2>2. QED BY <1>1, <1>3, <2>1 DEF ClickStop, Places, historyVars
<1>4. CASE PostRun(q)
  <2>1. TypeOK' /\ TicketInv'
    BY <1>4 DEF PostRun, IInv, TypeOK, Places, historyVars
  <2>2. QED BY <1>1, <1>4, <2>1 DEF PostRun, Places, historyVars
<1>5. CASE RunAnswered(q)
  <2>1. TypeOK' /\ TicketInv'
    BY <1>5, ClickBoundAssumption DEF RunAnswered, IInv, TypeOK, Places, historyVars
  <2>2. QED BY <1>1, <1>5, <2>1 DEF RunAnswered, IInv, TypeOK, Places, historyVars
<1>6. CASE StopAnswered(q)
  <2>1. TypeOK' /\ TicketInv'
    BY <1>6 DEF StopAnswered, IInv, TypeOK, Places, historyVars
  <2>2. QED BY <1>1, <1>6, <2>1 DEF StopAnswered, Places, historyVars
<1>7. CASE Stop(q)
  <2>1. cancelled' \in BOOLEAN /\ running_' \in BOOLEAN
    BY <1>7 DEF Stop, IInv, TypeOK
  <2>2. req' = [req EXCEPT ![q] = "stopOk"] \/ req' = [req EXCEPT ![q] = "idle"]
    BY <1>7 DEF Stop
  <2>3. TypeOK' /\ TicketInv'
    BY <1>7, <2>1, <2>2 DEF Stop, IInv, TypeOK, Places
  <2>4. QED BY <1>1, <1>7, <2>2, <2>3 DEF Stop, Places
<1>8. CASE Fail(q)
  <2>1. TypeOK' /\ TicketInv'
    BY <1>8, ClickBoundAssumption DEF Fail, IInv, TypeOK, Places, historyVars
  <2>2. QED BY <1>1, <1>8, <2>1 DEF Fail, IInv, TypeOK, Places, historyVars
<1>9. QED BY <1>2, <1>3, <1>4, <1>5, <1>6, <1>7, <1>8 DEF Click

(* exec_behaviour, statement by statement.                                 *)
LEMMA RunRequestSteps ==
  ASSUME IInv, ~crashed, NEW q \in Requests,
         \/ TestRunning(q) \/ LookForThread(q) \/ BeginJoin(q) \/ EndJoin(q)
         \/ CreateThread(q) \/ AssignThread(q)
  PROVE  IInv'
<1> USE DEF Go, Inside, handleVars, historyVars
<1>1. CASE TestRunning(q)
  <2>1. TypeOK' /\ TicketInv'
    BY <1>1 DEF TestRunning, IInv, TypeOK, TicketInv, RunPlaces, Places
  <2>2. Executors' = Executors
    BY <1>1 DEF TestRunning, Executors
  <2>3. \A p \in Requests : /\ req'[p] = "assign" <=> req[p] = "assign"
                            /\ req'[p] = "create" <=> req[p] = "create"
    BY <1>1 DEF TestRunning, IInv, TypeOK
  <2>4. EveryExecutorOwned' /\ RunningFlagTruthful'
    BY <1>1, <2>2, <2>3
       DEF TestRunning, IInv, EveryExecutorOwned, RunningFlagTruthful
  <2>5. UnracedInv'
    <3>1. raced' = (raced \/ (~running /\ \E p \in Requests : req[p] \in Inside))
      BY <1>1 DEF TestRunning
    <3>2. ~raced' =>
            \A p, r \in Requests :
              req'[p] \in Inside /\ req'[r] \in Inside => p = r
      BY <1>1, <3>1 DEF TestRunning, IInv, TypeOK, UnracedInv
    <3>3. QED BY <1>1, <2>2, <2>3, <3>1, <3>2 DEF TestRunning, IInv, UnracedInv
  <2>6. QED BY <2>1, <2>4, <2>5 DEF IInv
<1>2. CASE LookForThread(q) \/ BeginJoin(q)
  <2>1. /\ UNCHANGED <<ticket, running, handleVars, thread, raced>>
        /\ req[q] \in {"look", "join"}
        /\ req'[q] \in {"create", "join", "joining"}
        /\ req' = [req EXCEPT ![q] = req'[q]]
    BY <1>2 DEF LookForThread, BeginJoin, IInv, TypeOK
  <2>2. TypeOK'
    BY <1>2, <2>1 DEF LookForThread, BeginJoin, IInv, TypeOK, Places
  <2>3. TicketInv'
    BY <2>1 DEF IInv, TypeOK, TicketInv, RunPlaces
  <2>4. Executors' = Executors
    BY <2>1 DEF Executors
  <2>5. \A p \in Requests : /\ req'[p] = "assign" <=> req[p] = "assign"
                            /\ p # q => req'[p] = req[p]
                            /\ req'[p] \in Inside <=> req[p] \in Inside
    BY <2>1 DEF IInv, TypeOK
  <2>6. EveryExecutorOwned' /\ RunningFlagTruthful'
    BY <2>1, <2>4, <2>5 DEF IInv, EveryExecutorOwned, RunningFlagTruthful
  <2>7. ASSUME ~raced, req'[q] = "create"
        PROVE  ~joinable /\ Executors = {}
    <3>1. \A p \in Requests : req[p] # "assign"
      BY <2>1, <2>7 DEF IInv, UnracedInv
    <3>2. Executors \subseteq {abthread} /\ (Executors # {} => joinable)
      BY <2>7, <3>1 DEF IInv, UnracedInv
    <3>3. ~joinable
      <4>1. CASE LookForThread(q)
        BY <4>1, <2>7 DEF LookForThread, IInv, TypeOK
      <4>2. CASE BeginJoin(q)
        <5>1. \A p \in Requests : req[p] # "joining"
          BY <2>7, <4>2 DEF BeginJoin, IInv, UnracedInv
        <5>2. QED BY <2>7, <4>2, <5>1 DEF BeginJoin, IInv, TypeOK
      <4>3. QED BY <1>2, <4>1, <4>2
    <3>4. QED BY <3>2, <3>3
  <2>8. UnracedInv'
    BY <2>1, <2>4, <2>5, <2>7 DEF IInv, UnracedInv
  <2>9. QED BY <2>2, <2>3, <2>6, <2>8 DEF IInv
<1>3. CASE EndJoin(q)
  <2>1. TypeOK' /\ TicketInv'
    BY <1>3 DEF EndJoin, IInv, TypeOK, TicketInv, RunPlaces, Places
  <2>2. Executors' = Executors /\ abthread \notin Executors
    BY <1>3 DEF EndJoin, Executors, Live, Busy
  <2>3. \A p \in Requests : /\ req'[p] = "assign" <=> req[p] = "assign"
                            /\ p # q => req'[p] = req[p]
                            /\ req'[p] \in Inside <=> req[p] \in Inside
    BY <1>3 DEF EndJoin, IInv, TypeOK
  <2>4. EveryExecutorOwned' /\ RunningFlagTruthful'
    BY <1>3, <2>2, <2>3 DEF EndJoin, IInv, EveryExecutorOwned, RunningFlagTruthful
  <2>5. ~raced => Executors = {}
    <3>1. ~raced => \A p \in Requests : req[p] # "assign"
      BY <1>3 DEF EndJoin, IInv, UnracedInv
    <3>2. QED BY <2>2, <3>1 DEF IInv, UnracedInv
  <2>6. UnracedInv'
    BY <1>3, <2>2, <2>3, <2>5 DEF EndJoin, IInv, UnracedInv
  <2>7. QED BY <2>1, <2>4, <2>6 DEF IInv
<1>4. CASE CreateThread(q)
  <2>1. ticket[q] \in Threads /\ req[q] = "create"
    BY <1>4 DEF CreateThread, IInv, TicketInv, RunPlaces
  <2>2. TypeOK' /\ TicketInv'
    BY <1>4, <2>1
       DEF CreateThread, IInv, TypeOK, TicketInv, RunPlaces, Places, Stages, Live, Busy
  <2>3. Executors' = Executors \cup {ticket[q]}
    BY <1>4, <2>1 DEF CreateThread, Executors, Live, Busy, IInv, TypeOK
  <2>4. /\ req'[q] = "assign" /\ ticket' = ticket
        /\ \A p \in Requests : p # q => req'[p] = req[p]
    BY <1>4 DEF CreateThread, IInv, TypeOK
  <2>5. EveryExecutorOwned'
    BY <1>4, <2>1, <2>3, <2>4 DEF CreateThread, IInv, EveryExecutorOwned
  <2>6. RunningFlagTruthful'
    <3>1. ~raced => Executors = {}
      BY <2>1 DEF IInv, UnracedInv
    <3>2. \A t \in Threads :
            ~raced => thread'[t] \notin Busy
                      /\ thread[t] \notin Busy
      BY <1>4, <2>1, <3>1 DEF CreateThread, Executors, Live, Busy, IInv, TypeOK
    <3>3. QED BY <1>4, <3>2 DEF CreateThread, IInv, RunningFlagTruthful
  <2>7. UnracedInv'
    BY <1>4, <2>1, <2>3, <2>4 DEF CreateThread, IInv, UnracedInv
  <2>8. QED BY <2>2, <2>5, <2>6, <2>7 DEF IInv
<1>5. CASE AssignThread(q)
  <2>1. ticket[q] \in Threads /\ req[q] = "assign"
    BY <1>5 DEF AssignThread, IInv, TicketInv, RunPlaces
  <2>2. TypeOK' /\ TicketInv'
    BY <1>5, <2>1, ClickBoundAssumption
       DEF AssignThread, IInv, TypeOK, TicketInv, RunPlaces, Places, Threads
  <2>3. Executors' = Executors
    BY <1>5 DEF AssignThread, Executors
  <2>4. /\ req'[q] = "runOk" /\ ticket' = ticket
        /\ \A p \in Requests : p # q => req'[p] = req[p]
    BY <1>5 DEF AssignThread, IInv, TypeOK
  <2>5. crashed' = joinable /\ abthread' = ticket[q] /\ joinable' = TRUE
    BY <1>5 DEF AssignThread
  <2>6. EveryExecutorOwned'
    <3> SUFFICES ASSUME ~crashed', NEW t \in Executors
                 PROVE  \/ t = ticket[q]
                        \/ \E p \in Requests : req'[p] = "assign" /\ ticket[p] = t
      BY <2>3, <2>4, <2>5 DEF EveryExecutorOwned
    <3>1. ~joinable
      BY <2>5
    <3>2. PICK p \in Requests : req[p] = "assign" /\ ticket[p] = t
      BY <3>1 DEF IInv, EveryExecutorOwned
    <3>3. QED BY <2>4, <3>2
  <2>7. RunningFlagTruthful'
    BY <1>5 DEF AssignThread, IInv, RunningFlagTruthful
  <2>8. UnracedInv'
    BY <1>5, <2>1, <2>3, <2>4, <2>5 DEF AssignThread, IInv, UnracedInv
  <2>9. QED BY <2>2, <2>6, <2>7, <2>8 DEF IInv
<1>6. QED BY <1>1, <1>2, <1>3, <1>4, <1>5

-----------------------------------------------------------------------------
(* exec_behaviour_thread.  Without a race the stepping thread is the only  *)
(* executor, so the flag it writes speaks for all of them.                 *)
LEMMA OnlyExecutor ==
  ASSUME IInv, ~raced, NEW t \in Executors
  PROVE  Executors = {t}
<1>1. CASE \E q \in Requests : req[q] = "assign"
  <2>1. PICK q \in Requests : req[q] = "assign"
    BY <1>1
  <2>2. QED BY <2>1 DEF IInv, UnracedInv
<1>2. CASE \A q \in Requests : req[q] # "assign"
  BY <1>2 DEF IInv, UnracedInv
<1>3. QED BY <1>1, <1>2

LEMMA ThreadSteps ==
  ASSUME IInv, NEW t \in Threads, Run(t) \/ StopNode(t) \/ BreakCircle(t)
  PROVE  IInv'
<1> USE DEF requestVars, handleVars, historyVars
<1>1. CASE BreakCircle(t)
  <2>1. TypeOK' /\ TicketInv'
    BY <1>1 DEF BreakCircle, IInv, TypeOK, TicketInv
  <2>2. QED BY <1>1, <2>1, QuietStep DEF BreakCircle
<1>2. CASE Run(t) \/ StopNode(t)
  <2> USE <1>2
  <2>1. /\ thread[t] \in Live
        /\ thread' = [thread EXCEPT ![t] = thread'[t]]
        /\ thread'[t] \in Busy \cup {"done"}
        /\ UNCHANGED <<requestVars, handleVars, historyVars>>
    BY DEF Run, ThreadStarts, EnterExec, EnterBody, FinishBody, LeaveExec,
           ThreadEnds, StopNode, Advance, Live, Busy, IInv, TypeOK
  <2>2. running' \in BOOLEAN /\ running_' \in BOOLEAN
    BY DEF Run, ThreadStarts, EnterExec, EnterBody, FinishBody, LeaveExec,
           ThreadEnds, StopNode, IInv, TypeOK
  <2>3. endless' \subseteq Threads
    BY DEF Run, ThreadStarts, EnterExec, EnterBody, FinishBody, LeaveExec,
           ThreadEnds, StopNode, IInv, TypeOK
  <2>4. TypeOK' /\ TicketInv'
    BY <2>1, <2>2, <2>3 DEF IInv, TypeOK, TicketInv, Stages, Live
  <2>5. Executors' \subseteq Executors
    BY <2>1 DEF Executors, Live, IInv, TypeOK
  <2>6. EveryExecutorOwned'
    BY <2>1, <2>5 DEF IInv, EveryExecutorOwned
  <2>7. UnracedInv'
    BY <2>1, <2>5 DEF IInv, UnracedInv
  <2>8. RunningFlagTruthful'
    <3> SUFFICES ASSUME ~raced
                 PROVE  running' = \E u \in Threads : thread'[u] \in Busy
      BY <2>1 DEF RunningFlagTruthful
    <3>1. Executors = {t}
      BY <2>1, OnlyExecutor DEF Executors
    <3>2. \A u \in Threads : u # t => thread[u] \notin Busy
      BY <3>1 DEF Executors, Live
    <3>3. \A u \in Threads : u # t => thread'[u] \notin Busy
      BY <2>1, <3>2 DEF IInv, TypeOK
    <3>4. running <=> thread[t] \in Busy
      <4>1. running <=> \E u \in Threads : thread[u] \in Busy
        BY Zenon DEF IInv, RunningFlagTruthful
      <4>2. QED BY <3>2, <4>1
    <3>5. running' <=> thread'[t] \in Busy
      <4>1. CASE ThreadStarts(t)
        BY <4>1 DEF ThreadStarts, Advance, IInv, TypeOK, Busy
      <4>2. CASE \/ EnterExec(t) \/ EnterBody(t) \/ FinishBody(t)
                 \/ LeaveExec(t) \/ StopNode(t)
        <5>1. thread[t] \in Busy /\ thread'[t] \in Busy /\ running' = running
          BY <4>2 DEF EnterExec, EnterBody, FinishBody, LeaveExec, StopNode,
                      Advance, IInv, TypeOK, Busy
        <5>2. QED BY <3>4, <5>1
      <4>3. CASE ThreadEnds(t)
        BY <4>3 DEF ThreadEnds, Advance, IInv, TypeOK, Busy
      <4>4. QED BY <4>1, <4>2, <4>3 DEF Run
    <3>6. running' <=> \E u \in Threads : thread'[u] \in Busy
      BY <3>3, <3>5
    <3>7. QED BY <2>2, <3>6, Zenon
  <2>9. QED BY <2>4, <2>6, <2>7, <2>8 DEF IInv
<1>3. QED BY <1>1, <1>2

-----------------------------------------------------------------------------
LEMMA NextInv == IInv /\ [Next]_vars => IInv'
<1> SUFFICES ASSUME IInv, [Next]_vars PROVE IInv'
  OBVIOUS
<1>1. ASSUME ~crashed, NEW q \in Requests, Click(q) \/ Serve(q) \/ Fail(q) PROVE IInv'
  BY <1>1, PageSteps, RunRequestSteps DEF Serve
<1>2. ASSUME NEW t \in Threads, Run(t) \/ StopNode(t) \/ BreakCircle(t) PROVE IInv'
  BY <1>2, ThreadSteps
<1>3. CASE UNCHANGED vars
  BY <1>3 DEF vars, requestVars, handleVars, historyVars, IInv, TypeOK, TicketInv,
              EveryExecutorOwned, UnracedInv, RunningFlagTruthful, Executors
<1>4. QED BY <1>1, <1>2, <1>3 DEF Next

LEMMA SpecInv == Spec => []IInv
<1>1. QED BY InitInv, NextInv, PTL DEF Spec

(* Every variable keeps its type, for any number of requests and clicks.   *)
THEOREM TypeCorrect == Spec => []TypeOK
<1>1. IInv => TypeOK
  BY DEF IInv
<1>2. QED BY <1>1, SpecInv, PTL

(* exec_behaviour never loses track of a live executor: it is the one the  *)
(* std::thread object can join or one about to be stored there.            *)
THEOREM ExecutorsOwned == Spec => []EveryExecutorOwned
<1>1. IInv => EveryExecutorOwned
  BY DEF IInv
<1>2. QED BY <1>1, SpecInv, PTL

(* Run requests that do not overlap never lead to two executors nor to the *)
(* termination of the server.                                              *)
THEOREM SafeUnlessRaced == Spec => []OneExecutorUnlessRaced
<1>1. IInv => OneExecutorUnlessRaced
  <2> SUFFICES ASSUME IInv, ~raced PROVE ~crashed /\ Cardinality(Executors) <= 1
    BY DEF OneExecutorUnlessRaced
  <2>1. ~crashed
    BY DEF IInv, UnracedInv
  <2>2. CASE Executors = {}
    BY <2>1, <2>2, FS_EmptySet
  <2>3. CASE Executors # {}
    <3>1. PICK t \in Executors : TRUE
      BY <2>3
    <3>2. Executors = {t}
      BY <3>1, OnlyExecutor
    <3>3. Cardinality({t}) = 1
      BY FS_Singleton
    <3>4. QED BY <2>1, <3>2, <3>3
  <2>4. QED BY <2>2, <2>3
<1>2. QED BY <1>1, SpecInv, PTL

(* As long as run requests do not overlap, NodeManager::running is true    *)
(* exactly while an executor is at work.                                   *)
THEOREM FlagTruthful == Spec => []RunningFlagTruthful
<1>1. IInv => RunningFlagTruthful
  BY DEF IInv
<1>2. QED BY <1>1, SpecInv, PTL
=============================================================================

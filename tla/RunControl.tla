----------------------------- MODULE RunControl -----------------------------
(***************************************************************************)
(* Starting and stopping a behaviour: the play/stop button of the editor   *)
(* (server/static/js/main.js), the run and stop requests a thread of the   *)
(* HTTP pool serves (server/nodemanager.cpp) and the thread that runs      *)
(* Manager::exec (lib/ab/manager.cpp).  Nothing here is under a lock: each *)
(* read or write of a shared variable is a step of its own.                *)
(***************************************************************************)
EXTENDS Integers, FiniteSets

CONSTANTS
  Requests,   (* requests the editor can have in flight at once            *)
  MaxClicks   (* bound on the number of clicks on the button               *)

ASSUME ClickBoundAssumption == MaxClicks \in Nat

VARIABLES
  button,    (* "play" or "stop", what the next click asks for             *)
  req,       (* where each request is                                      *)
  ticket,    (* the thread a run request makes, if it makes one; 0: none   *)
  running,   (* NodeManager::running                                       *)
  running_,  (* Manager::running_                                          *)
  abthread,  (* thread the std::thread object was made for; 0: NULL        *)
  joinable,  (* that object still has a thread to join                     *)
  thread,    (* where each thread of exec_behaviour_thread is              *)
  clicks,    (* clicks made; a thread is numbered after its click          *)
  crashed,   (* std::terminate was called                                  *)
  endless,   (* threads whose cycle follows connections in a circle        *)
  raced,     (* history: two run requests were past the running test       *)
  cancelled  (* history: a stop was served with no run request left to     *)
             (* serve, and no play was clicked since                       *)

requestVars == <<button, req, ticket, clicks>>
handleVars == <<abthread, joinable, crashed>>
historyVars == <<raced, cancelled>>
vars == <<requestVars, running, running_, handleVars, thread, endless,
          historyVars>>

Threads == 1 .. MaxClicks

(* idle: free; timer: the page waits a second before it posts; the others  *)
(* are the handler's places for run (test .. assign) and for stop; the Ok  *)
(* places are answers on their way to the page.                            *)
Places == {"idle", "timer", "test", "look", "join", "joining", "create",
           "assign", "runOk", "stop", "stopOk"}

(* A run request between its test of running and its last assignment. *)
Inside == {"look", "join", "joining", "create", "assign"}

(* looping: at the test of while(running_); body: in the statements of the *)
(* loop, where checks, chains, actions and the sleep are.                  *)
Busy == {"entering", "looping", "body", "leaving"}
Live == Busy \cup {"starting"}
Stages == Live \cup {"unborn", "done"}

Executors == {t \in Threads : thread[t] \in Live}

Init ==
  /\ button = "play"
  /\ req = [q \in Requests |-> "idle"]
  /\ ticket = [q \in Requests |-> 0]
  /\ running = FALSE /\ running_ = FALSE
  /\ abthread = 0 /\ joinable = FALSE
  /\ thread = [t \in Threads |-> "unborn"]
  /\ clicks = 0
  /\ crashed = FALSE /\ endless = {}
  /\ raced = FALSE /\ cancelled = FALSE

Go(q, to) == req' = [req EXCEPT ![q] = to]

-----------------------------------------------------------------------------
(* Main.prototype.startStop.  Nothing disables the button while a request  *)
(* is out, so a second click asks for the same thing again.                *)
ClickPlay(q) ==
  /\ req[q] = "idle" /\ button = "play" /\ clicks < MaxClicks
  /\ Go(q, "timer")
  /\ clicks' = clicks + 1
  /\ ticket' = [ticket EXCEPT ![q] = clicks + 1]
  /\ cancelled' = FALSE
  /\ UNCHANGED <<button, running, running_, handleVars, thread, endless, raced>>

ClickStop(q) ==
  /\ req[q] = "idle" /\ button = "stop" /\ clicks < MaxClicks
  /\ Go(q, "stop")
  /\ clicks' = clicks + 1
  /\ UNCHANGED <<button, ticket, running, running_, handleVars, thread, endless, historyVars>>

PostRun(q) ==
  /\ req[q] = "timer"
  /\ Go(q, "test")
  /\ UNCHANGED <<button, ticket, clicks, running, running_, handleVars,
                 thread, endless, historyVars>>

RunAnswered(q) ==
  /\ req[q] = "runOk"
  /\ Go(q, "idle")
  /\ button' = "stop"
  /\ ticket' = [ticket EXCEPT ![q] = 0]
  /\ UNCHANGED <<clicks, running, running_, handleVars, thread,
                 endless, historyVars>>

(* The .error branches: the request was lost before it was served, or its  *)
(* answer was, and the button stays.  A page that gives up on a run that   *)
(* is still being served goes on as after a lost answer: nothing but the   *)
(* button waits for it.                                                    *)
Fail(q) ==
  /\ req[q] \in {"test", "runOk", "stop", "stopOk"}
  /\ Go(q, "idle")
  /\ ticket' = [ticket EXCEPT ![q] = 0]
  /\ UNCHANGED <<button, clicks, running, running_, handleVars, thread,
                 endless, historyVars>>

StopAnswered(q) ==
  /\ req[q] = "stopOk"
  /\ Go(q, "idle")
  /\ button' = "play"
  /\ UNCHANGED <<ticket, clicks, running, running_, handleVars, thread,
                 endless, historyVars>>

-----------------------------------------------------------------------------
(* exec_behaviour, in the order of its statements.                         *)
TestRunning(q) ==
  /\ req[q] = "test"
  /\ Go(q, IF running THEN "runOk" ELSE "look")
  /\ raced' = (raced \/ (~running /\ \E p \in Requests : req[p] \in Inside))
  /\ UNCHANGED <<button, ticket, clicks, running, running_, handleVars,
                 thread, endless, cancelled>>

(* Never waiting for the old thread. *)
LookWithoutJoin(q) ==
  /\ req[q] = "look"
  /\ Go(q, "create")
  /\ UNCHANGED <<button, ticket, clicks, running, running_, handleVars,
                 thread, endless, historyVars>>

LookForThread(q) ==
  /\ req[q] = "look"
  /\ Go(q, IF abthread = 0 THEN "create" ELSE "join")
  /\ UNCHANGED <<button, ticket, clicks, running, running_, handleVars,
                 thread, endless, historyVars>>

(* Detaching the old thread instead of waiting for it. *)
DetachInsteadOfJoin(q) ==
  /\ req[q] = "join"
  /\ joinable' = FALSE
  /\ Go(q, "create")
  /\ UNCHANGED <<button, ticket, clicks, running, running_, abthread,
                 crashed, thread, endless, historyVars>>

(* join(): throws when there is nothing to join or when another request is *)
(* already joining (glibc's EINVAL), and the exception is swallowed.       *)
BeginJoin(q) ==
  /\ req[q] = "join"
  /\ Go(q, IF joinable /\ \A p \in Requests : req[p] # "joining"
           THEN "joining" ELSE "create")
  /\ UNCHANGED <<button, ticket, clicks, running, running_, handleVars,
                 thread, endless, historyVars>>

(* Dropping the pointer in place of the object's own bookkeeping. *)
EndJoinByReset(q) ==
  /\ req[q] = "joining"
  /\ thread[abthread] = "done"
  /\ abthread' = 0
  /\ Go(q, "create")
  /\ UNCHANGED <<button, ticket, clicks, running, running_, joinable, crashed,
                 thread, endless, historyVars>>

(* The old thread ended; its std::thread object is kept. *)
EndJoin(q) ==
  /\ req[q] = "joining"
  /\ thread[abthread] = "done"
  /\ joinable' = FALSE
  /\ Go(q, "create")
  /\ UNCHANGED <<button, ticket, clicks, running, running_, abthread,
                 crashed, thread, endless, historyVars>>

(* make_shared<std::thread>: the new thread runs before it is stored. *)
CreateThread(q) ==
  /\ req[q] = "create"
  /\ thread' = [thread EXCEPT ![ticket[q]] = "starting"]
  /\ Go(q, "assign")
  /\ UNCHANGED <<button, ticket, clicks, running, running_, handleVars,
                 endless, historyVars>>

(* Storing it destroys the old std::thread: terminate if still joinable. *)
AssignThread(q) ==
  /\ req[q] = "assign"
  /\ crashed' = joinable
  /\ abthread' = ticket[q]
  /\ joinable' = TRUE
  /\ Go(q, "runOk")
  /\ UNCHANGED <<button, ticket, clicks, running, running_, thread, endless,
                 historyVars>>

(* The stop branch of NodeManager::manager: Manager::cancel, or an error   *)
(* when nothing ever ran.                                                  *)
Stop(q) ==
  /\ req[q] = "stop"
  /\ IF abthread # 0
     THEN /\ running_' = FALSE
          /\ cancelled' = \A p \in Requests :
                            req[p] \notin Inside \cup {"timer", "test"}
          /\ Go(q, "stopOk")
     ELSE UNCHANGED <<running_, cancelled>> /\ Go(q, "idle")
  /\ UNCHANGED <<button, ticket, clicks, running, handleVars, thread, endless, raced>>

-----------------------------------------------------------------------------
(* exec_behaviour_thread around Manager::exec.                             *)
Advance(t, from, to) ==
  /\ thread[t] = from
  /\ thread' = [thread EXCEPT ![t] = to]

ThreadStarts(t) ==
  /\ Advance(t, "starting", "entering")
  /\ running' = TRUE
  /\ UNCHANGED <<requestVars, running_, handleVars, endless, historyVars>>

(* exec sets running_ itself: a cancel that came before is forgotten. *)
EnterExec(t) ==
  /\ Advance(t, "entering", "looping")
  /\ running_' = TRUE
  /\ UNCHANGED <<requestVars, running, handleVars, endless, historyVars>>

(* The test of while(running_) passes.  Connections in a circle may keep a *)
(* chain of this cycle, the while(lastNode) of notify, from ever ending.   *)
EnterBody(t) ==
  /\ running_
  /\ Advance(t, "looping", "body")
  /\ endless' \in {endless, endless \cup {t}}
  /\ UNCHANGED <<requestVars, running, running_, handleVars, historyVars>>

(* A Stop node of the behaviour calls cancel from the executor thread. *)
StopNode(t) ==
  /\ thread[t] = "body"
  /\ running_' = FALSE
  /\ UNCHANGED <<requestVars, running, handleVars, thread, endless, historyVars>>

FinishBody(t) ==
  /\ t \notin endless
  /\ Advance(t, "body", "looping")
  /\ UNCHANGED <<requestVars, running, running_, handleVars, endless, historyVars>>

(* An edit of the graph or a guard lets a chain out of its circle. *)
BreakCircle(t) ==
  /\ t \in endless
  /\ endless' = endless \ {t}
  /\ UNCHANGED <<requestVars, running, running_, handleVars, thread, historyVars>>

(* An exec whose loop is left by its flag and then forgets it. *)
LeaveOnRunning(t) ==
  /\ ~running
  /\ Advance(t, "looping", "leaving")
  /\ UNCHANGED <<requestVars, running, running_, handleVars, endless, historyVars>>

(* The test of while(running_), once per cycle, fails. *)
LeaveExec(t) ==
  /\ ~running_
  /\ Advance(t, "looping", "leaving")
  /\ UNCHANGED <<requestVars, running, running_, handleVars, endless, historyVars>>

(* A thread that ends without clearing the flag. *)
ThreadEndsSilently(t) ==
  /\ Advance(t, "leaving", "done")
  /\ UNCHANGED <<requestVars, running, running_, handleVars, endless, historyVars>>

ThreadEnds(t) ==
  /\ Advance(t, "leaving", "done")
  /\ running' = FALSE
  /\ UNCHANGED <<requestVars, running_, handleVars, endless, historyVars>>

-----------------------------------------------------------------------------
Click(q) == ClickPlay(q) \/ ClickStop(q)

Serve(q) ==
  \/ PostRun(q) \/ RunAnswered(q) \/ StopAnswered(q)
  \/ TestRunning(q) \/ LookForThread(q) \/ BeginJoin(q) \/ EndJoin(q)
  \/ CreateThread(q) \/ AssignThread(q) \/ Stop(q)

Run(t) ==
  \/ ThreadStarts(t) \/ EnterExec(t) \/ EnterBody(t) \/ FinishBody(t)
  \/ LeaveExec(t) \/ ThreadEnds(t)

Next ==
  /\ ~crashed
  /\ \/ \E q \in Requests : Click(q) \/ Serve(q) \/ Fail(q)
     \/ \E t \in Threads : Run(t) \/ StopNode(t) \/ BreakCircle(t)

(* The pool serves what is posted and the executor thread is scheduled,    *)
(* and the body of its loop returns unless a chain goes round in a circle. *)
(* A user need not click, a request need not fail, a behaviour need not    *)
(* have a Stop node and nobody need break a circle.                        *)
Fairness ==
  /\ \A q \in Requests : WF_vars(~crashed /\ Serve(q))
  /\ \A t \in Threads : WF_vars(~crashed /\ Run(t))

Spec == Init /\ [][Next]_vars
FairSpec == Spec /\ Fairness

-----------------------------------------------------------------------------
TypeOK ==
  /\ button \in {"play", "stop"}
  /\ req \in [Requests -> Places]
  /\ ticket \in [Requests -> 0 .. MaxClicks]
  /\ running \in BOOLEAN /\ running_ \in BOOLEAN
  /\ abthread \in 0 .. MaxClicks
  /\ joinable \in BOOLEAN /\ (joinable => abthread # 0)
  /\ thread \in [Threads -> Stages]
  /\ clicks \in 0 .. MaxClicks
  /\ endless \subseteq Threads
  /\ crashed \in BOOLEAN /\ raced \in BOOLEAN /\ cancelled \in BOOLEAN

(* No executor escapes: until the server terminates, each live executor is *)
(* the one the std::thread object can still join, or was created by a      *)
(* request that is about to store it.                                      *)
EveryExecutorOwned ==
  ~crashed =>
    \A t \in Executors :
      \/ abthread = t /\ joinable
      \/ \E q \in Requests : req[q] = "assign" /\ ticket[q] = t

(* Run requests that do not overlap are safe: one executor at most, and    *)
(* the server is not terminated by a joinable thread object.               *)
OneExecutorUnlessRaced ==
  ~raced => ~crashed /\ Cardinality(Executors) <= 1

(* NodeManager::running says, but for the first instant of a thread, what  *)
(* it is used for: an executor is alive.                                   *)
RunningFlagTruthful ==
  ~raced =>
    running = \E t \in Threads : thread[t] \in Busy

(* A cancel that comes once exec has entered its loop ends it, whatever is *)
(* clicked meanwhile: the flag is only raised again by the next executor.  *)
(* It does so unless the cycle under way is caught in a circle of          *)
(* connections, which never tests the flag (manager.cpp:343): that the     *)
(* code then goes against manager.h:228 is what the run cyclic_chain of    *)
(* the executor shows.                                                     *)
StopEndsLoop ==
  \A t \in Threads :
    (thread[t] \in {"looping", "body"} /\ ~running_)
      ~> (thread[t] = "done" \/ raced \/ t \in endless)

(* What manager.h:228 says of cancel ("Stops the execution of the          *)
(* manager."), seen from the editor: once a stop was served, no run        *)
(* request is left and nobody clicks play again, no executor keeps on, but *)
(* one that is caught in a circle.                                         *)
CancelStopsExecution ==
  cancelled ~> (~cancelled \/ Executors = {} \/ crashed \/ endless # {})
=============================================================================

------------------------------ MODULE Executor ------------------------------
(***************************************************************************)
(* The thread that executes a behaviour (Manager::exec, notify, notifyOne  *)
(* and sync of lib/ab/manager.cpp) and the threads of the HTTP pool that   *)
(* edit the same graph and push notifications meanwhile                    *)
(* (NodeManager::node of server/nodemanager.cpp).  The only lock is        *)
(* pendingNotificationsMutex.  A graph operation is one step, the handler  *)
(* that makes it two: it finds its nodes by name first.                    *)
(***************************************************************************)
EXTENDS Graph, FiniteSets

CONSTANTS
  Polled,       (* events polled in every cycle, Timeout for one            *)
  Starts,       (* Start events: polled once after each sync                *)
  StopNodes,    (* Stop actions                                             *)
  Loaders,      (* Load actions                                             *)
  FileNodes,    (* the file a Load action reads: its nodes in their order,  *)
  FileLinks,    (* and its connections                                      *)
  FirstGraph,   (* the graph the server starts with                         *)
  NoNode,       (* no node                                                  *)
  Clients,      (* threads of the HTTP pool                                 *)
  Menu,         (* the requests they may serve                              *)
  NoRequest,    (* a thread serving none                                    *)
  MaxRequests,  (* bound on the number of requests served                   *)
  Endless       (* requests that come without bound                         *)

InFile == {FileNodes[i] : i \in 1 .. Len(FileNodes)}

ASSUME EventAssumption == Polled \subseteq Events /\ Starts \subseteq Events \ Polled
ASSUME ActionAssumption ==
  StopNodes \subseteq Nodes \ Events /\ Loaders \subseteq Nodes \ Events
ASSUME FileAssumption ==
  /\ FileNodes \in Seq(Nodes) /\ FileNodes # <<>>
  /\ \A i, j \in 1 .. Len(FileNodes) : FileNodes[i] = FileNodes[j] => i = j
  /\ FileLinks \in Seq([from : Nodes, to : Nodes, guard : Guards \cup {NoGuard}])
ASSUME NoNodeAssumption == NoNode \notin Nodes
ASSUME MenuAssumption ==
  /\ Menu \subseteq [op : {"create", "connect", "disconnect", "guard", "notify", "remove"},
                     node : Nodes, other : Nodes, expr : Guards \cup {NoGuard}]
  /\ NoRequest \notin [op : STRING, node : Nodes, other : Nodes, expr : Guards \cup {NoGuard}]
  /\ \A r \in Menu : r.op = "create" => r.node \notin InFile
ASSUME RequestBoundAssumption ==
  MaxRequests \in Nat /\ \A r \in Endless : r.op # "create"
ASSUME FirstGraphAssumption ==
  /\ FirstGraph \in Graphs /\ FirstGraph.dirty
  /\ FirstGraph.active = FirstGraph.nodes \cap Events
  /\ FirstGraph.nodes \cap InFile = {}
  /\ \A n \in FirstGraph.nodes :
       /\ Targets(FirstGraph, n) \subseteq FirstGraph.nodes \ Events
       /\ OncePerTarget(FirstGraph.links[n])
  /\ \A n \in Nodes \ FirstGraph.nodes : FirstGraph.links[n] = <<>>

VARIABLES
  g,          (* nodes, activeEvents, nodeConnections, syncOnNextCycle      *)
  running_,   (* whether the loop of exec goes on                           *)
  pc,         (* where exec is                                              *)
  polled,     (* the events this pass over activeEvents has been through    *)
  armed,      (* the Start events that have their Polling flag              *)
  cur,        (* lastNode: the node the chain is at                         *)
  origin,     (* who started the chain: "poll" or "drain"                   *)
  at,         (* the event the iterator of the pass is at                   *)
  copied,     (* the connections notifyOne, or a Load action, holds         *)
  pos,        (* which of them, or of the file's entries, is next           *)
  left,       (* n of notifyOne: how many are counted, or still to skip     *)
  pending,    (* pendingNotifications                                       *)
  request,    (* what each HTTP thread is serving, its nodes found          *)
  holds,      (* the guards that are true now                               *)
  served,     (* requests taken so far                                      *)
  used,       (* nodes that were created, a node being created once only    *)
  alive,      (* the process did not crash                                  *)
  orphaned,   (* history: nodes were removed since the chain began          *)
  dangling,   (* history: a connection was made or left to a removed node   *)
  unsynced,   (* history: the graph changed and no event was synced since   *)
  lost,       (* history: it did while the flag was down or being cleared   *)
  stale,      (* history: events checked since, unless lost                 *)
  started,    (* history: Start events that fired in this execution         *)
  refired     (* history: one of them fired twice in an execution           *)

choice == <<copied, pos, left>>
passVars == <<polled, armed, at>>
chainVars == <<cur, origin, choice>>
loopVars == <<pc, passVars, chainVars>>
netVars == <<request, served, used>>
syncHistory == <<unsynced, lost, stale>>
startHistory == <<started, refired>>
history == <<orphaned, dangling, syncHistory, startHistory>>
vars == <<g, running_, loopVars, pending, netVars, holds, alive, history>>

(* loop: at the head of while(running_); syncing and clearing: in sync,    *)
(* before and after the events are synced; poll: in the pass over          *)
(* activeEvents; enter: at a node of a chain; loading, linking, guarding:  *)
(* in a Load action; choose, guards, count, pick: in notifyOne's choice;   *)
(* broke: at the test that may break the pass; drain: about to lock the    *)
(* mutex; draining: under it; sleep: in usleep.                            *)
Choice == {"choose", "guards", "count", "pick"}
Chain == {"enter", "loading", "linking", "guarding"} \cup Choice
Places == {"off", "loop", "syncing", "clearing", "poll", "broke", "drain",
           "draining", "sleep"} \cup Chain

(* What notifyOne knows of a connection it copied: where it leads, its     *)
(* guard, whether the graph still has it, and, as a history, all it has    *)
(* been since: free of a guard, or with one that holds or fails.           *)
Copies == [to : Nodes, guard : Guards \cup {NoGuard}, mine : BOOLEAN,
           seen : SUBSET {"free", "holds", "fails"}]

Status(l, true) == IF l.guard = NoGuard THEN "free"
                   ELSE IF l.guard \in true THEN "holds" ELSE "fails"

(* What an HTTP thread may be serving: a guard request looks for its       *)
(* connection, one that is connected already holds it, also when it is     *)
(* dropped from the graph.                                                 *)
Serving ==
  [op : {"connect", "connected", "dropped", "disconnect", "guard", "notify", "remove"},
   node : Nodes, other : Nodes, expr : Guards \cup {NoGuard}]

MutexHeld == pc = "draining" \/ (pc \in Chain /\ origin = "drain")

Init ==
  /\ g = FirstGraph
  /\ running_ = FALSE
  /\ pc = "off" /\ polled = {} /\ cur = NoNode /\ origin = "poll"
  /\ at = NoNode /\ copied = <<>> /\ pos = 1 /\ left = 0
  /\ armed = Starts
  /\ pending = <<>>
  /\ request = [c \in Clients |-> NoRequest]
  /\ served = 0
  /\ used = FirstGraph.nodes
  /\ holds = {}
  /\ alive = TRUE
  /\ orphaned = FALSE /\ dangling = FALSE
  /\ unsynced = TRUE /\ lost = FALSE /\ stale = 0
  /\ started = {} /\ refired = FALSE

(* What a change of the graph does to the history.                         *)
GraphChanged ==
  IF g' = g THEN UNCHANGED syncHistory
  ELSE /\ unsynced' = TRUE
       /\ lost' = (lost \/ pc = "clearing" \/ ~g'.dirty)
       /\ stale' = IF lost' THEN 0 ELSE stale

(* A step that only goes to another place.                                 *)
Goto(place) ==
  /\ pc' = place
  /\ UNCHANGED <<g, running_, passVars, chainVars, pending, netVars, holds,
                 alive, history>>

-----------------------------------------------------------------------------
(* exec: its start, the head of its loop and its sync.                     *)
Exec ==
  /\ pc = "off"
  /\ running_' = TRUE
  /\ g' = [g EXCEPT !.dirty = TRUE]
  /\ pc' = "loop"
  /\ started' = {}
  /\ UNCHANGED <<passVars, chainVars, pending, netVars, holds, alive,
                 orphaned, dangling, syncHistory, refired>>

LoopHead ==
  /\ pc = "loop"
  /\ Goto(IF ~running_ THEN "off" ELSE IF g.dirty THEN "syncing" ELSE "poll")

SyncEvents ==
  /\ pc = "syncing"
  /\ armed' = armed \cup (Starts \cap g.active)
  /\ unsynced' = FALSE /\ lost' = FALSE /\ stale' = 0
  /\ pc' = "clearing"
  /\ UNCHANGED <<g, running_, polled, at, chainVars, pending, netVars, holds,
                 alive, orphaned, dangling, startHistory>>

ClearFlag ==
  /\ pc = "clearing"
  /\ g' = [g EXCEPT !.dirty = FALSE]
  /\ pc' = "poll"
  /\ UNCHANGED <<running_, passVars, chainVars, pending, netVars, holds,
                 alive, history>>

(* The events that have the Polling flag and are still ahead in the pass.  *)
ToPoll == {e \in g.active \ polled : e \in Polled \cup armed}

(* Starting a chain, the while loop of notify. *)
StartChain(n, from) ==
  /\ cur' = n /\ origin' = from
  /\ orphaned' = FALSE
  /\ pc' = "enter"

(* check() of one event: a Start event fires and drops its Polling flag,   *)
(* of the others any may fire.  The pass breaks when a sync is due.        *)
Check(e) ==
  /\ pc = "poll" /\ e \in ToPoll
  /\ polled' = polled \cup {e}
  /\ armed' = armed \ {e}
  /\ started' = started \cup ({e} \cap Starts)
  /\ refired' = (refired \/ e \in started)
  /\ stale' = IF unsynced /\ ~lost /\ stale < 2 THEN stale + 1 ELSE stale
  /\ at' = e
  /\ \/ StartChain(e, "poll")
     \/ e \notin Starts /\ pc' = "broke" /\ UNCHANGED <<cur, origin, orphaned>>
  /\ UNCHANGED <<g, running_, choice, pending, netVars, holds, alive,
                 dangling, unsynced, lost>>

LeavePass ==
  /\ pc' = "drain"
  /\ polled' = {} /\ at' = NoNode
  /\ UNCHANGED <<g, running_, armed, chainVars, pending, netVars, holds,
                 alive, history>>

EndOfPass == pc = "poll" /\ ToPoll = {} /\ LeavePass

(* A pass that goes on whatever happened to the graph.                     *)
NeverBreak ==
  /\ pc = "broke"
  /\ pc' = "poll" /\ at' = NoNode
  /\ UNCHANGED <<g, running_, polled, armed, chainVars, pending, netVars,
                 holds, alive, history>>

(* A pass that ends with the first event it checks.                        *)
AlwaysBreak ==
  /\ pc = "broke"
  /\ LeavePass

(* A pass that is not broken moves on, from an event that may have been    *)
(* erased: then it goes on, starts over or ends, or the process crashes.   *)
BreakForSync ==
  /\ pc = "broke"
  /\ IF g.dirty THEN LeavePass
     ELSE /\ at' = NoNode
          /\ IF at \in g.active
             THEN pc' = "poll" /\ UNCHANGED <<polled, alive>>
             ELSE /\ alive' \in BOOLEAN
                  /\ \/ pc' = "poll" /\ polled' \in {polled, {}}
                     \/ pc' = "drain" /\ polled' = {}
          /\ UNCHANGED <<g, running_, armed, chainVars, pending, netVars,
                         holds, history>>

-----------------------------------------------------------------------------
(* A chain: notifyOne, node after node, and the catch of notify.           *)
Leave == copied' = <<>> /\ pos' = 1 /\ left' = 0
EndChain ==
  /\ Leave
  /\ pc' = IF origin = "poll" THEN "broke" ELSE "draining"
  /\ cur' = NoNode /\ origin' = "poll" /\ orphaned' = FALSE
Follow(n) == Leave /\ pc' = "enter" /\ cur' = n /\ UNCHANGED <<origin, orphaned>>

(* What no step of a choice changes, nor the end of a chain.               *)
chainFrame == <<g, running_, passVars, pending, netVars, holds, alive,
                dangling, syncHistory, startHistory>>

(* The action of the node runs, if it is one.  A Stop node cancels.  A Load *)
(* node clears the graph before it reads its file, if it names one.        *)
EnterNode ==
  /\ pc = "enter"
  /\ running_' = (running_ /\ cur \notin StopNodes)
  /\ \/ /\ cur \in Loaders
        /\ InFile \cap used = {}
        /\ pc' = "loading"
        /\ g' = Clear(g)
        /\ orphaned' = TRUE
        /\ dangling' = (dangling \/ \E n \in g.nodes \cap Kept :
                          ~(Targets(g, n) \subseteq g.nodes \cap Kept))
        /\ GraphChanged
     \/ /\ pc' = "choose"
        /\ UNCHANGED <<g, orphaned, dangling, syncHistory>>
  /\ UNCHANGED <<passVars, chainVars, pending, netVars, holds, alive,
                 startHistory>>

(* readNode: the next node of the file, then its connections.              *)
LoadNode ==
  LET n == FileNodes[pos]
  IN  /\ pc = "loading"
      /\ g' = AddNode(g, n)
      /\ used' = used \cup {n}
      /\ armed' = armed \cup ({n} \cap Starts)
      /\ GraphChanged
      /\ IF pos < Len(FileNodes)
         THEN pos' = pos + 1 /\ UNCHANGED pc
         ELSE /\ pos' = 1
              /\ pc' = IF FileLinks = <<>> THEN "choose" ELSE "linking"
      /\ UNCHANGED <<running_, polled, at, cur, origin, copied, left, pending,
                     request, served, holds, alive, orphaned, dangling,
                     startHistory>>

NextLink ==
  /\ copied' = <<>>
  /\ IF pos < Len(FileLinks) THEN pos' = pos + 1 /\ pc' = "linking"
                             ELSE pos' = 1 /\ pc' = "choose"

(* readConnection: its nodes are looked up by name, and its guard is set   *)
(* when it is in the graph already.                                        *)
LoadLink ==
  LET l == FileLinks[pos]
  IN  /\ pc = "linking"
      /\ IF {l.from, l.to} \subseteq g.nodes
         THEN g' = Connect(g, l.from, l.to)
         ELSE UNCHANGED g
      /\ GraphChanged
      /\ IF {l.from, l.to} \subseteq g'.nodes /\ l.to \in Targets(g', l.from)
              /\ l.guard # NoGuard
         THEN /\ pc' = "guarding" /\ UNCHANGED pos
              /\ copied' = <<[to |-> l.to, guard |-> NoGuard,
                              mine |-> TRUE, seen |-> {}]>>
         ELSE NextLink
      /\ UNCHANGED <<running_, passVars, cur, origin, left, pending, netVars,
                     holds, alive, orphaned, dangling, startHistory>>

LoadGuard ==
  LET l == FileLinks[pos]
  IN  /\ pc = "guarding"
      /\ g' = IF copied[1].mine THEN SetGuard(g, l.from, l.to, l.guard) ELSE g
      /\ GraphChanged
      /\ NextLink
      /\ UNCHANGED <<running_, passVars, cur, origin, left, pending, netVars,
                     holds, alive, orphaned, dangling, startHistory>>

(* There is no file, or nothing to read in it.                             *)
NothingToLoad ==
  /\ pc = "loading" /\ pos = 1
  /\ Goto("choose")

(* The action throws, a Load action also over the parameters of any of its *)
(* nodes: the chain stops, the loop goes on.                               *)
ActionThrows ==
  /\ pc \in {"enter", "loading"} /\ cur \notin Events
  /\ EndChain
  /\ UNCHANGED chainFrame

(* An empty guard that counts as true. *)
EmptyGuardHolds(l) == l.guard = NoGuard \/ l.guard \in holds

(* checkGuard: an empty guard is false. *)
GuardHolds(l) == l.guard \in holds

(* notifyOne's choice, over a copy of the node's connections.              *)
CopyLinks ==
  LET link == g.links[cur]
  IN  /\ pc = "choose"
      /\ IF link = <<>> THEN EndChain
         ELSE /\ pc' = "guards"
              /\ copied' = [i \in 1 .. Len(link) |->
                   [to |-> link[i].to, guard |-> link[i].guard, mine |-> TRUE,
                    seen |-> {Status(link[i], holds)}]]
              /\ UNCHANGED <<cur, origin, pos, left, orphaned>>
      /\ UNCHANGED chainFrame

(* The first connection whose guard holds when it is tested.               *)
TestGuard ==
  /\ pc = "guards"
  /\ IF GuardHolds(copied[pos]) THEN Follow(copied[pos].to)
     ELSE /\ IF pos < Len(copied) THEN pos' = pos + 1 /\ UNCHANGED pc
                                  ELSE pos' = 1 /\ pc' = "count"
          /\ UNCHANGED <<cur, origin, copied, left, orphaned>>
  /\ UNCHANGED chainFrame

(* Else those without a guard are counted; if there are any an event takes *)
(* its first connection, an action draws one of them.                      *)
CountFree ==
  LET n == IF copied[pos].guard = NoGuard THEN left + 1 ELSE left
  IN  /\ pc = "count"
      /\ IF pos < Len(copied)
         THEN /\ pos' = pos + 1 /\ left' = n
              /\ UNCHANGED <<pc, cur, origin, copied, orphaned>>
         ELSE IF n = 0 THEN EndChain
         ELSE IF cur \in Events THEN Follow(copied[1].to)
         ELSE /\ pc' = "pick" /\ pos' = 1 /\ left' \in 0 .. n - 1
              /\ UNCHANGED <<cur, origin, copied, orphaned>>
      /\ UNCHANGED chainFrame

(* And looks for it, which may be in vain when guards were set meanwhile.  *)
PickFree ==
  LET free == copied[pos].guard = NoGuard
  IN  /\ pc = "pick"
      /\ IF free /\ left = 0 THEN Follow(copied[pos].to)
         ELSE IF pos < Len(copied)
         THEN /\ pos' = pos + 1 /\ left' = (IF free THEN left - 1 ELSE left)
              /\ UNCHANGED <<pc, cur, origin, copied, orphaned>>
         ELSE EndChain
      /\ UNCHANGED chainFrame

-----------------------------------------------------------------------------
(* The end of a cycle: the pending notifications, under the mutex.         *)
LockQueue ==
  /\ pc = "drain"
  /\ Goto("draining")

(* Starting whatever is in the queue. *)
TakeUnchecked ==
  /\ pc = "draining" /\ pending # <<>>
  /\ pending' = Tail(pending)
  /\ StartChain(Head(pending), "drain")
  /\ UNCHANGED <<g, running_, passVars, choice, netVars, holds, alive,
                 dangling, syncHistory, startHistory>>

(* Emptying the queue once one notification was taken. *)
TakeOneDropRest ==
  /\ pc = "draining" /\ pending # <<>>
  /\ pending' = <<>>
  /\ IF Head(pending) \in g.nodes
     THEN StartChain(Head(pending), "drain")
     ELSE UNCHANGED <<pc, cur, origin, orphaned>>
  /\ UNCHANGED <<g, running_, passVars, choice, netVars, holds, alive,
                 dangling, syncHistory, startHistory>>

(* Keeping a notification whose node is not there in the queue. *)
TakeAndRequeue ==
  /\ pc = "draining" /\ pending # <<>>
  /\ IF Head(pending) \in g.nodes
     THEN pending' = Tail(pending) /\ StartChain(Head(pending), "drain")
     ELSE /\ pending' = Append(Tail(pending), Head(pending))
          /\ UNCHANGED <<pc, cur, origin, orphaned>>
  /\ UNCHANGED <<g, running_, passVars, choice, netVars, holds, alive,
                 dangling, syncHistory, startHistory>>

TakePending ==
  /\ pc = "draining" /\ pending # <<>>
  /\ pending' = Tail(pending)
  /\ IF Head(pending) \in g.nodes
     THEN StartChain(Head(pending), "drain")
     ELSE UNCHANGED <<pc, cur, origin, orphaned>>
  /\ UNCHANGED <<g, running_, passVars, choice, netVars, holds, alive,
                 dangling, syncHistory, startHistory>>

UnlockQueue ==
  /\ pc = "draining" /\ pending = <<>>
  /\ Goto("sleep")

(* A sleep that only a notification ends. *)
WakeUpWhenNotified ==
  /\ pc = "sleep" /\ pending # <<>>
  /\ Goto("loop")

WakeUp ==
  /\ pc = "sleep"
  /\ Goto("loop")

-----------------------------------------------------------------------------
(* The HTTP threads.  create_node looks nothing up before it adds.         *)
Create(r) ==
  /\ served < MaxRequests
  /\ r.op = "create" /\ r.node \notin used
  /\ g' = AddNode(g, r.node)
  /\ used' = used \cup {r.node}
  /\ armed' = armed \cup ({r.node} \cap Starts)
  /\ GraphChanged
  /\ served' = served + 1
  /\ UNCHANGED <<running_, pc, polled, at, chainVars, pending, request, holds,
                 alive, orphaned, dangling, startHistory>>

(* The other handlers first find the nodes their request names.            *)
Find(c, r) ==
  /\ request[c] = NoRequest /\ (served < MaxRequests \/ r \in Endless)
  /\ r.op # "create" /\ {r.node, r.other} \subseteq g.nodes
  /\ request' = [request EXCEPT ![c] = r]
  /\ served' = IF r \in Endless THEN served ELSE served + 1
  /\ UNCHANGED <<g, running_, loopVars, pending, used, holds, alive, history>>

Answer(c) == request' = [request EXCEPT ![c] = NoRequest]

(* connect, after which the guard of the request is still to be set.       *)
ConnectNodes(c) ==
  LET r == request[c]
  IN  /\ r # NoRequest /\ r.op = "connect"
      /\ g' = Connect(g, r.node, r.other)
      /\ dangling' = (dangling \/ (r.other \notin g.nodes /\ g' # g))
      /\ GraphChanged
      /\ IF r.expr = NoGuard \/ r.other \in Events
         THEN Answer(c)
         ELSE request' = [request EXCEPT ![c].op = "connected"]
      /\ UNCHANGED <<running_, loopVars, pending, served, used, holds, alive,
                     orphaned, startHistory>>

(* Whose connections the executor holds in copied.                         *)
Holder == IF pc = "guarding" THEN FileLinks[pos].from ELSE cur

(* Connections are gone from the graph: those the executor and the other   *)
(* handlers hold live on, but are not the graph's any more.                *)
Disown(c) ==
  /\ copied' = [i \in 1 .. Len(copied) |->
       [copied[i] EXCEPT !.mine = @ /\ copied[i].to \in Targets(g', Holder)]]
  /\ request' = [d \in Clients |->
       IF d = c THEN NoRequest
       ELSE IF /\ request[d] # NoRequest /\ request[d].op = "connected"
               /\ request[d].other \notin Targets(g', request[d].node)
       THEN [request[d] EXCEPT !.op = "dropped"] ELSE request[d]]

DisconnectNodes(c) ==
  LET r == request[c]
  IN  /\ r # NoRequest /\ r.op = "disconnect"
      /\ g' = Disconnect(g, r.node, r.other)
      /\ GraphChanged
      /\ Disown(c)
      /\ UNCHANGED <<running_, pc, passVars, cur, origin, pos, left, pending,
                     served, used, holds, alive, orphaned, dangling,
                     startHistory>>

(* The copies among s get the guard e.                                     *)
Reguard(s, e) ==
  copied' = [i \in 1 .. Len(copied) |->
    IF i \in s
    THEN [copied[i] EXCEPT !.guard = e,
            !.seen = @ \cup {Status([copied[i] EXCEPT !.guard = e], holds)}]
    ELSE copied[i]]

(* The guard of a connection the handler holds, or still has to look for:  *)
(* the pointer it gets is not tested.  One that was dropped may be the one *)
(* the executor holds as well.                                             *)
SetGuardOf(c) ==
  LET r == request[c]
      Of(mine) == {i \in 1 .. Len(copied) :
                     /\ Holder = r.node /\ copied[i].to = r.other
                     /\ copied[i].mine = mine}
  IN  /\ r # NoRequest
      /\ \/ /\ r.op \in {"guard", "connected"}
            /\ alive' = (r.op = "connected" \/ r.other \in Targets(g, r.node))
            /\ g' = SetGuard(g, r.node, r.other, r.expr)
            /\ Reguard(Of(TRUE), r.expr)
         \/ /\ r.op = "dropped"
            /\ \E s \in {{}, Of(FALSE)} : Reguard(s, r.expr)
            /\ UNCHANGED <<g, alive>>
      /\ GraphChanged
      /\ Answer(c)
      /\ UNCHANGED <<running_, pc, passVars, cur, origin, pos, left, pending,
                     served, used, holds, orphaned, dangling, startHistory>>

(* notify from a thread that is not the executor's.                        *)
PushNotification(c) ==
  /\ request[c] # NoRequest /\ request[c].op = "notify"
  /\ ~MutexHeld
  /\ pending' = Append(pending, request[c].node)
  /\ Answer(c)
  /\ UNCHANGED <<g, running_, loopVars, served, used, holds, alive, history>>

(* deleteNode.  When other nodes lead to this one disconnect goes on with  *)
(* an iterator erase has invalidated: it crashes, or gets away with it.    *)
RemoveNode(c) ==
  LET n == request[c].node
  IN  /\ request[c] # NoRequest /\ request[c].op = "remove"
      /\ g' = DeleteNode(g, n)
      /\ alive' \in {TRUE, Sources(g, n) \subseteq {n}}
      /\ orphaned' = (orphaned \/ (pc \in Chain /\ n \in g.nodes))
      /\ GraphChanged
      /\ Disown(c)
      /\ UNCHANGED <<running_, pc, passVars, cur, origin, pos, left, pending,
                     served, used, holds, dangling, startHistory>>

(* The stop request: Manager::cancel.                                      *)
Cancel ==
  /\ running_' = FALSE
  /\ UNCHANGED <<g, loopVars, pending, netVars, holds, alive, history>>

(* What the guards look at changes at any time.                            *)
World ==
  /\ \E e \in Guards :
       holds' = IF e \in holds THEN holds \ {e} ELSE holds \cup {e}
  /\ copied' = [i \in 1 .. Len(copied) |->
       [copied[i] EXCEPT !.seen = @ \cup {Status(copied[i], holds')}]]
  /\ UNCHANGED <<g, running_, pc, passVars, cur, origin, pos, left, pending,
                 netVars, alive, history>>

Cycle ==
  \/ LoopHead \/ SyncEvents \/ ClearFlag \/ (\E e \in Events : Check(e))
  \/ BreakForSync \/ EndOfPass
  \/ EnterNode \/ ActionThrows
  \/ LoadNode \/ LoadLink \/ LoadGuard \/ NothingToLoad
  \/ CopyLinks \/ TestGuard \/ CountFree \/ PickFree
  \/ LockQueue \/ TakePending \/ UnlockQueue \/ WakeUp

Serve(c) ==
  \/ ConnectNodes(c) \/ DisconnectNodes(c) \/ SetGuardOf(c)
  \/ PushNotification(c) \/ RemoveNode(c)

Next ==
  /\ alive
  /\ \/ Exec \/ Cycle \/ Cancel \/ World
     \/ \E r \in Menu : Create(r) \/ \E c \in Clients : Find(c, r)
     \/ \E c \in Clients : Serve(c)

(* The executor thread and the threads of the pool are scheduled.  A       *)
(* thread that wants the mutex gets it although the executor locks it      *)
(* again and again, for it is free in the 200 ms of each cycle's usleep.   *)
Fairness ==
  /\ WF_vars(alive /\ Cycle)
  /\ \A c \in Clients : SF_vars(alive /\ Serve(c))

Spec == Init /\ [][Next]_vars
FairSpec == Spec /\ Fairness

-----------------------------------------------------------------------------
TypeOK ==
  /\ g \in Graphs
  /\ running_ \in BOOLEAN /\ alive \in BOOLEAN
  /\ pc \in Places
  /\ polled \subseteq Events /\ armed \subseteq Starts
  /\ cur \in Nodes \cup {NoNode} /\ (pc \in Chain => cur \in Nodes)
  /\ origin \in {"poll", "drain"}
  /\ at \in Events \cup {NoNode}
  /\ copied \in Seq(Copies) /\ pos \in Nat \ {0} /\ left \in Nat
  /\ pending \in Seq(Nodes)
  /\ request \in [Clients -> Serving \cup {NoRequest}]
  /\ served \in 0 .. MaxRequests
  /\ used \subseteq Nodes
  /\ holds \subseteq Guards
  /\ orphaned \in BOOLEAN /\ dangling \in BOOLEAN /\ refired \in BOOLEAN
  /\ unsynced \in BOOLEAN /\ lost \in BOOLEAN
  /\ stale \in 0 .. 2
  /\ started \subseteq Starts

(* A chain visits nodes of the graph.  It is at a removed node only when   *)
(* nodes were removed under it, or behind a connection that a request made *)
(* (or a Load left) to a node that was gone already.                       *)
EnteredNodesBelong ==
  pc \in Chain /\ cur \notin g.nodes => orphaned \/ dangling

(* After a change of the graph that raised syncOnNextCycle, or that came   *)
(* while it was raised, at most one event is checked before the events are *)
(* synced.  Not after one that fell in the clearing of the flag, nor after *)
(* a removal, disconnection or guard that found it down and left it so.    *)
AtMostOneStaleCheck == stale <= 1

(* The choice Manager::notify documents: a connection whose guard holds,   *)
(* else one without a guard; of what changed during the choice any of the  *)
(* states it had counts.  The chain stops only when there is neither, or   *)
(* when the connections without a guard were not the same all the time.    *)
Held == {i \in 1 .. Len(copied) : copied[i].seen = {"holds"}}
Open == {i \in 1 .. Len(copied) : copied[i].seen = {"free"}}
Mixed == {i \in 1 .. Len(copied) : "free" \in copied[i].seen} \ Open

MayFollow(i) == IF Held # {} THEN "holds" \in copied[i].seen
                             ELSE {"holds", "free"} \cap copied[i].seen # {}
MayStop == Held = {} /\ (Open = {} \/ Mixed # {})

Documented ==
  pc \in Choice /\ pc' \notin Choice =>
    IF pc' = "enter"
    THEN \E i \in 1 .. Len(copied) : copied[i].to = cur' /\ MayFollow(i)
    ELSE MayStop

(* From an action the chain moves as documented, whatever the guards do    *)
(* and whoever edits the connections between the copy of the connections,  *)
(* the tests of the guards, the count and the draw.                        *)
ActionsChooseAsDocumented == [][(cur \notin Events) => Documented]_vars

(* From an event too (manager.h:115-116).                                  *)
EventsChooseAsDocumented == [][(cur \in Events) => Documented]_vars

(* "Whenever some part of the graph changes, [...] or removal, next cycle  *)
(* must sync" (manager.h:305), as seen by a step that removes a node.      *)
RemovalAsksForSync == [][g'.nodes # g.nodes /\ alive' => g'.dirty]_vars

(* A Start event is "activated just once when the behaviour starts to      *)
(* execute" (server/static/doc/start.html:3).                              *)
StartsOnce == ~refired

(* In a running behaviour every polled event gets its turn, whatever the   *)
(* others fire, unless changes of the graph break the pass again and again *)
(* (each time it starts over at the first event).                          *)
EveryEventChecked ==
  \/ []<>(pc = "broke" /\ g.dirty)
  \/ \A e \in Polled :
       (running_ /\ e \in g.active)
         ~> (e \in polled \/ e \notin g.active \/ ~running_ \/ ~alive)

(* A pushed notification starts its chain, unless its node is removed or   *)
(* the behaviour is stopped.                                               *)
EveryNotificationServed ==
  \A n \in Nodes :
    (running_ /\ \E i \in 1 .. Len(pending) : pending[i] = n)
      ~> \/ pc = "enter" /\ cur = n /\ origin = "drain"
         \/ n \notin g.nodes \/ ~running_ \/ ~alive

(* A request that notifies a node returns, although the chains of the      *)
(* drained notifications run under the mutex it needs.                     *)
NotifyReturns ==
  \A c \in Clients :
    (request[c] # NoRequest /\ request[c].op = "notify")
      ~> (request[c] = NoRequest \/ ~alive)

(* cancel "stops the execution of the manager" (manager.h:228).            *)
CancelEndsExec == (~running_ /\ pc # "off") ~> (pc = "off" \/ running_ \/ ~alive)
=============================================================================

----------------------------- MODULE EditorSync -----------------------------
(***************************************************************************)
(* The behaviour as the editor page keeps it (Behaviour and its nodes and  *)
(* connections, server/static/js/behaviour.js, node.js, connections.js)    *)
(* beside the one the server keeps.  Every edit is a POST: calls of one    *)
(* page are served and answered in any order, and the page goes on being   *)
(* edited meanwhile.  A page object keeps its identity (an index of node   *)
(* or arrow) while its id, its entry in state and its drawing change.      *)
(***************************************************************************)
EXTENDS Naturals, Sequences, FiniteSets, SequencesExt

CONSTANTS
  Names,        (* ids of nodes                                             *)
  NoName,       (* no id                                                    *)
  Kinds,        (* types of node                                            *)
  EventKinds,   (* those that are events                                    *)
  LoadKinds,    (* those that load a behaviour, Load                        *)
  TempId,       (* the id the page gives its n-th node, by kind             *)
  ServerName,   (* the n-th name the server makes up                        *)
  GivenNames,   (* names the user types                                     *)
  NullName,     (* what a cancelled prompt gives, and                       *)
  EmptyName,    (* what a POST makes of it                                  *)
  FirstNodes,   (* kinds of the nodes the server starts with                *)
  FirstLinks,   (* their connections, as pairs of indices                   *)
  RingSize,     (* the slots of the EventQueue, ten                         *)
  Sessions      (* the bounds of a run: what the user does, in order, how   *)
                (* many requests fail on the way and what executes: nodes   *)
                (* entered, lines printed and behaviours loaded             *)

ASSUME NamesAssumption ==
  /\ NoName \notin Names /\ GivenNames \cup {NullName, EmptyName} \subseteq Names
  /\ EventKinds \subseteq Kinds /\ LoadKinds \subseteq Kinds \ EventKinds
  /\ TempId \in [Kinds -> Seq(Names)] /\ ServerName \in Seq(Names)
  /\ \A i, j \in 1 .. Len(ServerName) : ServerName[i] = ServerName[j] => i = j
ASSUME FirstAssumption ==
  /\ FirstNodes \in Seq(Kinds) /\ Len(FirstNodes) <= Len(ServerName)
  /\ FirstLinks \subseteq (1 .. Len(FirstNodes)) \X (1 .. Len(FirstNodes))
  /\ \A l \in FirstLinks : FirstNodes[l[2]] \notin EventKinds
ASSUME RingAssumption == RingSize \in Nat \ {0}
ASSUME SessionsAssumption ==
  Sessions \subseteq [edits : Seq({"add", "delete", "connect", "disconnect", "rename", "clear",
                                 "refresh", "play", "stop"}),
                     losses : Nat, visits : Nat]

VARIABLES
  (* the page *)
  node,       (* node objects: id, kind, active, drawn, label (element id)  *)
  state,      (* Behaviour.state: the object of an id                       *)
  arrow,      (* connection objects: from, to, name, mapped, drawn, leaving *)
  count,      (* Behaviour.node_count                                       *)
  button,     (* whether #startstop shows play or stop                      *)
  (* what is under way *)
  calls,      (* requests of the page, served or not                        *)
  events,     (* events the page did not ask for, those of the last slots   *)
  news,       (* the events of an answer to its poll, on their way          *)
  polling,    (* whether the page polls on                                  *)
  (* the server *)
  known,      (* nodes made so far: name, kind                              *)
  live,       (* those of Manager::nodes                                    *)
  links,      (* nodeConnections: id, from, to                              *)
  linked,     (* connections made so far, which numbers them                *)
  named,      (* names made up so far                                       *)
  file,       (* what current.ab holds                                      *)
  writing,    (* saves that have listed the behaviour: the call each is     *)
              (* for, the list, whether it is written, and whether nothing  *)
              (* but edits that end in a save came after it                 *)
  running,    (* whether the behaviour executes, or was told to stop        *)
  visiting,   (* the node being executed, 0 for none                        *)
  alive,      (* the process did not crash                                  *)
  (* history *)
  crossed,    (* kinds of edits that overtook one another                   *)
  unsaved,    (* an edit the code does not save came after the list that    *)
              (* was written last, or a newer list was taken before         *)
  lossy,      (* a call failed on the way                                   *)
  session     (* what is left of the session                                *)

page == <<node, state, arrow, count, button>>
feed == <<events, news, polling>>
disk == <<file, writing, unsaved>>
server == <<known, live, links, linked, named, disk, running, visiting, alive>>
bounds == <<session, lossy>>
vars == <<page, calls, feed, server, crossed, bounds>>

NodeOps == {"create", "remove", "rename", "clear", "refresh"}
LinkOps == {"connect", "disconnect"}
NoView == [nodes |-> {}, links |-> {}]

Call(op, who, at, to) ==
  [op |-> op, who |-> who, at |-> at, to |-> to, copy |-> 0,
   status |-> "sent", name |-> NoName, view |-> NoView]

(* Two calls that say the same are told apart by their copy.               *)
Numbered(c) ==
  [c EXCEPT !.copy = CHOOSE k \in 0 .. Cardinality(calls) :
     /\ \A d \in calls : d.op = c.op /\ d.who = c.who => d.copy # k
     /\ \A j \in 0 .. k - 1 : \E d \in calls : d.op = c.op /\ d.who = c.who /\ d.copy = j]

Posted(C) == {Numbered(c) : c \in C}

(* startStop(true), as every edit calls it when the page shows stop.       *)
StopIfRunning ==
  IF button = "stop" THEN {Call("stop", 0, NoName, NoName)} ELSE {}

Assign(f, x, y) == [z \in DOMAIN f \cup {x} |-> IF z = x THEN y ELSE f[z]]
Without(f, X) == [z \in DOMAIN f \ X |-> f[z]]

Mapped == {a \in 1 .. Len(arrow) : arrow[a].mapped}
Drawn == {o \in 1 .. Len(node) : node[o].drawn}
EndsAt(a, id) == node[arrow[a].from].id = id \/ node[arrow[a].to].id = id

PostDisconnect(a) ==
  Call("disconnect", a, node[arrow[a].from].id, node[arrow[a].to].id)

Joins(a, f, t) == node[arrow[a].from].id = f /\ node[arrow[a].to].id = t

(* Edits that the page does not keep apart: a clear or a refresh and any   *)
(* other, two renames, a connect and the removal of an end, and a connect  *)
(* and a disconnect of the same nodes; those that give a node an id        *)
(* another has, or had when something that names it was posted; and a      *)
(* refresh after a clear that left connections, whose nodes are gone.      *)
Clash(op, f, t) ==
  LET Late == {c \in calls : c.op \in NodeOps \cup LinkOps}
  IN (IF \E c \in Late :
           \/ {op, c.op} \subseteq NodeOps /\ {op, c.op} \cap {"clear", "refresh"} # {}
           \/ op = "rename" /\ c.op = "rename"
      THEN {"nodes"} ELSE {})
     \cup
     (IF \E c \in Late :
           \/ op \in LinkOps /\ c.op \in {"rename", "remove", "clear", "refresh"}
           \/ c.op \in LinkOps /\ op \in {"rename", "clear", "refresh"}
           \/ c.op = "connect" /\ op = "remove"
           \/ {op, c.op} = LinkOps /\ Joins(c.who, f, t)
      THEN {"links"} ELSE {})

LiveNames == {known[n].name : n \in live}
Taken(id) ==
  \/ id \in DOMAIN state \cup LiveNames
  \/ \E c \in calls : id \in {c.at, c.to, c.name}
  \/ visiting # 0 /\ known[visiting].name = id
  \/ \E i \in DOMAIN events : events[i].name = id
  \/ \E i \in DOMAIN news : news[i].name = id
Reused(id) == IF Taken(id) THEN {"nodes", "links"} ELSE {}

-----------------------------------------------------------------------------
(* The page: what the user does.                                           *)
Does(op) ==
  /\ session.edits # <<>> /\ Head(session.edits) = op
  /\ session' = [session EXCEPT !.edits = Tail(@)]
SameServer == UNCHANGED <<feed, server, lossy>>

AddNode(k) ==
  LET id == TempId[k][count + 1]
  IN /\ Does("add") /\ count < Len(TempId[k])
     /\ count' = count + 1
     /\ node' = Append(node, [id |-> id, kind |-> k, active |-> FALSE,
                              drawn |-> FALSE, label |-> NoName])
     /\ state' = Assign(state, id, Len(node) + 1)
     /\ calls' = calls \cup Posted(StopIfRunning \cup {Call("create", Len(node) + 1, id, NoName)})
     /\ crossed' = crossed \cup Clash("create", id, NoName) \cup Reused(id)
     /\ UNCHANGED <<arrow, button>> /\ SameServer

(* deleteNode for an order of the page: the arrows go when the server says *)
(* so, and the node is asked for at the same time.                         *)
PostDelete(o, answered) ==
  LET ends == {a \in Mapped : ~arrow[a].leaving /\ EndsAt(a, node[o].id)}
  IN /\ ~node[o].active
     /\ arrow' = [a \in DOMAIN arrow |->
                    IF a \in ends THEN [arrow[a] EXCEPT !.leaving = TRUE] ELSE arrow[a]]
     /\ calls' = (calls \ answered) \cup
          Posted(StopIfRunning \cup {PostDisconnect(a) : a \in ends}
                   \cup {Call("remove", o, node[o].id, NoName)})

DeleteNode(o) ==
  /\ Does("delete") /\ o \in Drawn
  /\ PostDelete(o, {})
  /\ crossed' = crossed \cup Clash("remove", node[o].id, NoName)
  /\ UNCHANGED <<node, state, count, button>> /\ SameServer

(* A drag or a click from one node to another connects them, or            *)
(* disconnects them when they are connected.                               *)
Connected(f, t) == {a \in Mapped : arrow[a].from = f /\ arrow[a].to = t}

Connect(f, t) ==
  /\ Does("connect") /\ {f, t} \subseteq Drawn /\ node[f].id # node[t].id
  /\ Connected(f, t) = {}
  /\ arrow' = Append(arrow, [from |-> f, to |-> t, name |-> 0, mapped |-> TRUE,
                             drawn |-> TRUE, leaving |-> FALSE])
  /\ calls' = calls \cup Posted(StopIfRunning \cup
                {Call("connect", Len(arrow) + 1, node[f].id, node[t].id)})
  /\ crossed' = crossed \cup Clash("connect", node[f].id, node[t].id)
  /\ UNCHANGED <<node, state, count, button>> /\ SameServer

Disconnect(f, t) ==
  /\ Does("disconnect") /\ {f, t} \subseteq Drawn
  /\ \E a \in Connected(f, t) : calls' = calls \cup Posted({PostDisconnect(a)})
  /\ crossed' = crossed \cup Clash("disconnect", node[f].id, node[t].id)
  /\ UNCHANGED page /\ SameServer

SetName(o, new) ==
  /\ Does("rename") /\ o \in Drawn
  /\ new # node[o].id /\ new \notin DOMAIN state
  /\ calls' = calls \cup Posted({Call("rename", o, node[o].id, new)})
  /\ crossed' = crossed \cup Clash("rename", node[o].id, new) \cup Reused(new)
                  \cup (IF new = NullName THEN {"nodes", "links"} ELSE {})
  /\ UNCHANGED page /\ SameServer

(* clear deletes the nodes one after the other and throws at an active     *)
(* one: gone are those that came before it, and nothing else is done.      *)
Ids(gone) == {node[state[i]].id : i \in gone}

(* A clear that leaves Behaviour.state as it is. *)
StateKept(gone) == state

StateWithout(gone) == Without(state, Ids(gone))
NodesWithout(gone) ==
  [o \in DOMAIN node |->
     IF node[o].label \in Ids(gone) THEN [node[o] EXCEPT !.drawn = FALSE] ELSE node[o]]

(* A clear that leaves the connections as they are. *)
ArrowsKept(gone) == arrow

ArrowsWithout(gone) ==
  [a \in DOMAIN arrow |->
     IF arrow[a].mapped /\ ~arrow[a].leaving /\ (\E i \in Ids(gone) : EndsAt(a, i))
     THEN [arrow[a] EXCEPT !.mapped = FALSE, !.drawn = FALSE] ELSE arrow[a]]

Busy == {i \in DOMAIN state : node[state[i]].active}

ClearAborts ==
  \E gone \in SUBSET (DOMAIN state \ Busy) :
    /\ Busy # {}
    /\ state' = StateWithout(gone)
    /\ node' = NodesWithout(gone)
    /\ arrow' = ArrowsWithout(gone)
    /\ crossed' = crossed \cup {"nodes", "links"}
    /\ UNCHANGED count

NewBehaviour ==
  /\ Does("clear")
  /\ \/ /\ Busy = {}
        /\ state' = StateWithout(DOMAIN state)
        /\ node' = NodesWithout(DOMAIN state)
        /\ arrow' = ArrowsWithout(DOMAIN state)
        /\ count' = 0
        /\ calls' = calls \cup Posted(StopIfRunning \cup {Call("clear", 0, NoName, NoName)})
        /\ crossed' = crossed \cup Clash("clear", NoName, NoName)
     \/ /\ ClearAborts
        /\ calls' = calls \cup Posted(StopIfRunning)
  /\ UNCHANGED button /\ SameServer

(* Load ends in refresh(true).                                             *)
Refresh ==
  /\ Does("refresh")
  /\ calls' = calls \cup Posted(StopIfRunning \cup {Call("refresh", 1, NoName, NoName)})
  /\ crossed' = crossed \cup Clash("refresh", NoName, NoName)
  /\ UNCHANGED page /\ SameServer

StartStop ==
  /\ Does(button)
  /\ calls' = calls \cup Posted({Call(IF button = "play" THEN "run" ELSE "stop", 0, NoName, NoName)})
  /\ UNCHANGED <<page, crossed>> /\ SameServer

-----------------------------------------------------------------------------
(* The page: the answers, each with what it posts next.                    *)
Answered(c) == calls' = calls \ {c}
SamePage == UNCHANGED <<feed, server, bounds>>

(* The object keeps the id the page made up, though its element is named anew. *)
AdoptLabel(o, name) ==
  [node EXCEPT ![o].drawn = TRUE, ![o].label = name]

Adopt(o, name) == [node EXCEPT ![o].id = name, ![o].drawn = TRUE, ![o].label = name]

(* A node that takes whatever name the answer gives, also of an error.     *)
CreatedAnyway(c) ==
  /\ c.op = "create" /\ c.status # "sent"
  /\ node' = Adopt(c.who, c.name)
  /\ state' = Assign(Without(state, {node[c.who].id}), c.name, c.who)
  /\ calls' = calls \ {c}
  /\ UNCHANGED <<arrow, count, button, crossed>> /\ SamePage

Created(c) ==
  LET o == c.who
  IN /\ c.op = "create"
     /\ \/ /\ c.status = "ok"
           /\ node' = Adopt(o, c.name)
           /\ state' = Assign(Without(state, {node[o].id}), c.name, o)
           /\ calls' = (calls \ {c}) \cup Posted({Call("position", o, c.name, NoName)})
           /\ UNCHANGED arrow
        \/ /\ c.status = "error"
           /\ PostDelete(o, {c})
           /\ UNCHANGED <<node, state>>
     /\ UNCHANGED <<count, button, crossed>> /\ SamePage

(* A removal, and a position, after which nothing is saved. *)
NoSave(c) == {}

Save(c) == Posted({Call("save", c.who, NoName, NoName)})

Positioned(c) ==
  /\ c.op = "position" /\ c.status # "sent"
  /\ calls' = (calls \ {c}) \cup
       (IF c.status = "ok" THEN Save(c) ELSE {})
  /\ UNCHANGED <<page, crossed>> /\ SamePage

(* All nodes of the kind leave the canvas. *)
UndrawKind(id) ==
  LET kinds == {node[o].kind : o \in {p \in DOMAIN node : node[p].label = id}}
  IN [o \in DOMAIN node |-> IF node[o].kind \in kinds THEN [node[o] EXCEPT !.drawn = FALSE] ELSE node[o]]

Undraw(id) ==
  [o \in DOMAIN node |-> IF node[o].label = id THEN [node[o] EXCEPT !.drawn = FALSE] ELSE node[o]]

Removed(c) ==
  LET id == node[c.who].id
  IN /\ c.op = "remove"
     /\ \/ /\ c.status = "ok"
           /\ state' = Without(state, {id})
           /\ node' = Undraw(id)
           /\ calls' = (calls \ {c}) \cup Save(c)
        \/ /\ c.status = "error"
           /\ Answered(c)
           /\ UNCHANGED <<state, node>>
     /\ UNCHANGED <<arrow, count, button, crossed>> /\ SamePage

(* A disconnect that fails is given up. *)
GiveUp(c) == {}

(* A connect that failed is undone at the server too, and a disconnect     *)
(* that failed is asked for again, under the ids the nodes have by then.   *)
Retry(c) == Posted({PostDisconnect(c.who)})
Linked(c) ==
  /\ c.op \in LinkOps
  /\ \/ /\ c.status = "ok"
        /\ arrow' = IF c.op = "connect" THEN arrow
                    ELSE [arrow EXCEPT ![c.who].mapped = FALSE, ![c.who].drawn = FALSE]
        /\ Answered(c)
     \/ /\ c.status = "error"
        /\ calls' = (calls \ {c}) \cup Retry(c)
        /\ UNCHANGED arrow
  /\ UNCHANGED <<node, state, count, button, crossed>> /\ SamePage

Renamed(c) ==
  LET old == node[c.who].id
      first == {o \in Drawn : node[o].label = old /\ \A p \in Drawn : node[p].label = old => o <= p}
  IN /\ c.op = "rename"
     /\ \/ /\ c.status = "ok"
           /\ node' = [o \in DOMAIN node |->
                [node[o] EXCEPT !.id = IF o = c.who THEN c.to ELSE @,
                                !.label = IF o \in first THEN c.to ELSE @]]
           /\ state' = Assign(Without(state, {old}), c.to, c.who)
        \/ /\ c.status = "error"
           /\ UNCHANGED <<node, state>>
     /\ Answered(c)
     /\ UNCHANGED <<arrow, count, button, crossed>> /\ SamePage

(* refresh: the nodes of the file become objects, in front of what the     *)
(* page keeps unless it is cleared first; then the connections, where one  *)
(* to a node the page does not have throws and those after it are lost.    *)
Read(view) ==
  LET order == SetToSeq(view.nodes)
  IN [i \in DOMAIN order |->
        [id |-> order[i].name, kind |-> order[i].kind, active |-> FALSE,
         drawn |-> TRUE, label |-> order[i].name]]

Index(i) == Len(node) + i
Places(objects, s) ==
  LET Of(id) == {i \in DOMAIN objects : objects[i].id = id}
  IN [id \in DOMAIN s \cup {objects[i].id : i \in DOMAIN objects} |->
        IF Of(id) = {} THEN s[id] ELSE Index(Max(Of(id)))]

ReadLinks(K, s) ==
  LET order == SetToSeq(K)
  IN [i \in DOMAIN order |->
        [from |-> s[order[i].from], to |-> s[order[i].to], name |-> order[i].id,
         mapped |-> TRUE, drawn |-> TRUE, leaving |-> FALSE]]

Refreshed(c) ==
  LET forced == c.who = 1
      objects == Read(c.view)
      s == Places(objects, IF forced THEN StateWithout(DOMAIN state) ELSE state)
      good == {l \in c.view.links : {l.from, l.to} \subseteq DOMAIN s}
      Kept(K) == [a \in DOMAIN arrow |->
        LET b == IF forced THEN ArrowsWithout(DOMAIN state)[a] ELSE arrow[a]
        IN [b EXCEPT !.mapped = @ /\ b.name \notin {l.id : l \in K}]]
  IN /\ c.op = "refresh"
     /\ Answered(c)
     /\ \/ /\ c.status = "ok" /\ forced
           /\ ClearAborts
        \/ /\ c.status = "ok" /\ (forced => Busy = {})
           /\ state' = s
           /\ node' = (IF forced THEN NodesWithout(DOMAIN state) ELSE node) \o objects
           /\ count' = (IF forced THEN 0 ELSE count) + Len(objects)
           /\ \E K \in IF good = c.view.links THEN {good} ELSE SUBSET good :
                arrow' = Kept(K) \o ReadLinks(K, s)
           /\ UNCHANGED crossed
        \/ /\ c.status = "error"
           /\ UNCHANGED <<state, node, arrow, count, crossed>>
     /\ UNCHANGED button /\ SamePage

(* The answers that only change the button, or nothing.                    *)
Acknowledged(c) ==
  /\ c.op \in {"save", "clear", "run", "stop"} /\ c.status # "sent"
  /\ Answered(c)
  /\ button' = IF c.status = "ok" /\ c.op = "run" THEN "stop"
               ELSE IF c.status = "ok" /\ c.op = "stop" THEN "play" ELSE button
  /\ UNCHANGED <<node, state, arrow, count, crossed>> /\ SamePage

(* deactivate() that does not reset active. *)
StaysActive(e) == TRUE

(* processEvents: get(name).activate() and deactivate(), for every event    *)
(* of an answer; those whose name the page does not know throw, one by one. *)
Activity(e) == e.enter

ProcessEvents ==
  LET About(o) == {k \in DOMAIN news : news[k].name \in DOMAIN state /\ state[news[k].name] = o}
  IN /\ news # <<>>
     /\ news' = <<>>
     /\ node' = [o \in DOMAIN node |->
          IF About(o) = {} THEN node[o] ELSE [node[o] EXCEPT !.active = Activity(news[Max(About(o))])]]
     /\ UNCHANGED <<state, arrow, count, button, calls, events, polling, server, crossed, bounds>>

(* checkEvents asks again once the answer before is processed.             *)
FetchEvents ==
  /\ polling /\ alive /\ news = <<>> /\ events # <<>>
  /\ news' = events /\ events' = <<>>
  /\ UNCHANGED <<page, calls, polling, server, crossed, bounds>>

(* Nothing handles a poll that fails: it was the last.                     *)
PollFails ==
  /\ polling
  /\ polling' = FALSE /\ news' = <<>>
  /\ \/ /\ alive /\ session.losses > 0
        /\ session' = [session EXCEPT !.losses = @ - 1]
     \/ ~alive /\ UNCHANGED session
  /\ UNCHANGED <<page, calls, events, server, crossed, lossy>>

-----------------------------------------------------------------------------
(* The server: NodeManager::node and NodeManager::manager.                 *)
Named(id) == {n \in live : known[n].name = id}
Reply(c, status) == calls' = (calls \ {c}) \cup {[c EXCEPT !.status = status]}
Serving(c, op) == alive /\ c.op = op /\ c.status = "sent"
SameRun == UNCHANGED <<page, feed, running, visiting, bounds>>
StaysUp == UNCHANGED <<alive, crossed>>

(* A change that nothing saves: the file and every list miss it.           *)
NotSaved ==
  /\ unsaved' = TRUE
  /\ writing' = {[w EXCEPT !.last = FALSE] : w \in writing}
  /\ UNCHANGED file

ServeCreate(c) ==
  LET fresh == {i \in DOMAIN ServerName : i > named /\ Named(ServerName[i]) = {}}
      name == ServerName[Min(fresh)]
  IN /\ Serving(c, "create") /\ fresh # {}
     /\ named' = Min(fresh)
     /\ known' = Append(known, [name |-> name, kind |-> node[c.who].kind])
     /\ live' = live \cup {Len(known) + 1}
     /\ calls' = (calls \ {c}) \cup {[c EXCEPT !.status = "ok", !.name = name]}
     /\ crossed' = crossed \cup Reused(name)
     /\ UNCHANGED <<links, linked, disk, alive>> /\ SameRun

ServePosition(c) ==
  /\ Serving(c, "position")
  /\ Reply(c, IF Named(c.at) = {} THEN "error" ELSE "ok")
  /\ UNCHANGED <<known, live, links, linked, named, disk>> /\ SameRun /\ StaysUp

(* disconnect(Node) goes on with an iterator that erasing a connection to   *)
(* the node made invalid: the process may crash.  The page disconnects the *)
(* node first, but does not wait for that to be served.                    *)
Entered(n) == \E l \in links : l.to = n /\ l.from # n

ServeRemove(c) ==
  /\ Serving(c, "remove")
  /\ \/ /\ Named(c.at) = {} /\ Reply(c, "error")
        /\ UNCHANGED <<live, links>> /\ StaysUp
     \/ \E n \in Named(c.at) :
          /\ crossed' = crossed \cup (IF Entered(n) THEN {"removal"} ELSE {})
          /\ \/ /\ Entered(n) /\ alive' = FALSE /\ Reply(c, "error")
                /\ UNCHANGED <<live, links>>
             \/ /\ live' = live \ {n}
                /\ links' = {l \in links : n \notin {l.from, l.to}}
                /\ Reply(c, "ok")
                /\ UNCHANGED alive
  /\ UNCHANGED <<known, linked, named, disk>> /\ SameRun

(* Manager::connect reads the name of the node it was not given: the       *)
(* process crashes.                                                        *)
ServeConnect(c) ==
  /\ Serving(c, "connect")
  /\ \/ /\ Named(c.at) = {} /\ Reply(c, "error")
        /\ UNCHANGED <<links, linked, alive>>
     \/ /\ Named(c.at) # {} /\ Named(c.to) = {}
        /\ alive' = FALSE
        /\ Reply(c, "error")
        /\ UNCHANGED <<links, linked>>
     \/ \E f \in Named(c.at), t \in Named(c.to) :
          /\ LET there == \E l \in links : l.from = f /\ l.to = t
                 refused == ~there /\ known[t].kind \in EventKinds
             IN /\ Reply(c, IF refused THEN "error" ELSE "ok")
                /\ IF there \/ refused THEN UNCHANGED <<links, linked>>
                   ELSE /\ linked' = linked + 1
                        /\ links' = links \cup {[id |-> linked + 1, from |-> f, to |-> t]}
          /\ UNCHANGED alive
  /\ UNCHANGED <<known, live, named, disk, crossed>> /\ SameRun

ServeDisconnect(c) ==
  /\ Serving(c, "disconnect")
  /\ \/ /\ Named(c.at) = {} \/ Named(c.to) = {}
        /\ Reply(c, "error")
        /\ UNCHANGED links
     \/ \E f \in Named(c.at), t \in Named(c.to) :
          /\ links' = {l \in links : <<l.from, l.to>> # <<f, t>>}
          /\ Reply(c, "ok")
  /\ UNCHANGED <<known, live, linked, named, disk>> /\ SameRun /\ StaysUp

ServeRename(c) ==
  /\ Serving(c, "rename")
  /\ \/ /\ Named(c.at) = {} /\ Reply(c, "error")
        /\ UNCHANGED <<known, crossed, disk>>
     \/ \E n \in Named(c.at) :
          /\ known' = [known EXCEPT ![n].name = IF c.to = NullName THEN EmptyName ELSE c.to]
          /\ Reply(c, "ok")
          /\ NotSaved
          /\ crossed' = crossed \cup
               (IF visiting # 0 \/ events # <<>> \/ news # <<>> THEN {"visits"} ELSE {})
  /\ UNCHANGED <<live, links, linked, named, alive>> /\ SameRun

(* Manager::clear keeps nodeConnections.                                   *)
ServeClear(c) ==
  /\ Serving(c, "clear")
  /\ live' = {}
  /\ NotSaved
  /\ Reply(c, "ok")
  /\ UNCHANGED <<known, links, linked, named>> /\ SameRun /\ StaysUp

View ==
  [nodes |-> {[name |-> known[n].name, kind |-> known[n].kind, made |-> n] : n \in live},
   links |-> {[id |-> l.id, from |-> known[l.from].name, to |-> known[l.to].name] : l \in links}]

(* writeBehaviour lists the behaviour first and writes the file when it    *)
(* is done, unlocked: saves of several threads overtake one another.       *)
ListFile(c) ==
  /\ alive /\ c.status = "sent" /\ c.op \in {"save", "refresh", "run"}
  /\ \A w \in writing : w.for # c
  /\ writing' = {[w EXCEPT !.last = FALSE] : w \in writing} \cup
                  {[for |-> c, list |-> View, written |-> FALSE, last |-> TRUE]}
  /\ UNCHANGED <<calls, known, live, links, linked, named, file, unsaved>> /\ SameRun /\ StaysUp

WriteFile(c) ==
  /\ alive /\ c.status = "sent"
  /\ \E w \in writing :
       /\ w.for = c /\ ~w.written
       /\ file' = w.list /\ unsaved' = ~w.last
       /\ IF c.op = "refresh"
          THEN /\ writing' = (writing \ {w}) \cup {[w EXCEPT !.written = TRUE]}
               /\ UNCHANGED calls
          ELSE writing' = writing \ {w} /\ Reply(c, "ok")
  /\ running' = IF c.op = "run" /\ running = "off" THEN "on" ELSE running
  /\ UNCHANGED <<page, feed, known, live, links, linked, named, visiting, bounds>> /\ StaysUp

(* A refresh sends the file, which another save may have written since.    *)
ReadFile(c) ==
  /\ Serving(c, "refresh")
  /\ \E w \in writing : w.for = c /\ w.written /\ writing' = writing \ {w}
  /\ calls' = (calls \ {c}) \cup {[c EXCEPT !.status = "ok", !.view = file]}
  /\ crossed' = crossed \cup
       (IF file # View THEN {"nodes", "links"} ELSE {}) \cup
       (IF \E l \in links : ~({l.from, l.to} \subseteq live) THEN {"links"} ELSE {})
  /\ UNCHANGED <<known, live, links, linked, named, file, unsaved, alive>> /\ SameRun

(* There is an executor to stop: the button shows stop once a run was      *)
(* answered.  One that has not come to its loop yet misses the stop.       *)
ServeStop(c) ==
  /\ Serving(c, "stop")
  /\ Reply(c, "ok")
  /\ running' \in {running, IF running = "on" THEN "stopping" ELSE running}
  /\ UNCHANGED <<page, feed, known, live, links, linked, named, disk, visiting, bounds>> /\ StaysUp

Serve(c) ==
  \/ ServeCreate(c) \/ ServePosition(c) \/ ServeRemove(c) \/ ServeConnect(c)
  \/ ServeDisconnect(c) \/ ServeRename(c) \/ ServeClear(c)
  \/ ListFile(c) \/ WriteFile(c) \/ ReadFile(c) \/ ServeStop(c)

-----------------------------------------------------------------------------
(* The executor.  It pushes an event when it enters a node and when it     *)
(* leaves; a full ring drops its oldest.                                   *)
Push(e) ==
  LET all == Append(events, e)
      full == Len(events) >= RingSize
  IN /\ events' = (IF full THEN Tail(all) ELSE all)
     /\ crossed' = crossed \cup (IF full THEN {"missed"} ELSE {})
Executes ==
  /\ alive /\ session.visits > 0
  /\ session' = [session EXCEPT !.visits = @ - 1]
SameGraph ==
  UNCHANGED <<page, calls, news, polling, known, live, links, linked, named, disk, alive, lossy>>

(* A chain goes on when the behaviour was told to stop.                    *)
EnterNode ==
  /\ Executes /\ running # "off" /\ visiting = 0
  /\ \E n \in live : visiting' = n /\ Push([enter |-> TRUE, name |-> known[n].name])
  /\ UNCHANGED running /\ SameGraph

(* Lua prints to the console of the page, by the same ring.                *)
Prints ==
  /\ Executes /\ visiting # 0
  /\ Push([enter |-> FALSE, name |-> NoName])
  /\ UNCHANGED <<running, visiting>> /\ SameGraph

(* Load clears the behaviour and reads a file, here the one the server     *)
(* started with.  No edit of the page can be kept apart from that.         *)
FirstKnown == [i \in DOMAIN FirstNodes |-> [name |-> ServerName[i], kind |-> FirstNodes[i]]]
FirstJoined(n, k) ==
  LET order == SetToSeq(FirstLinks)
  IN {[id |-> k + i, from |-> n + order[i][1], to |-> n + order[i][2]] : i \in DOMAIN order}

LoadBehaviour ==
  LET n == Len(known)
  IN /\ Executes /\ visiting # 0 /\ known[visiting].kind \in LoadKinds
     /\ known' = known \o FirstKnown
     /\ live' = {n + i : i \in DOMAIN FirstNodes}
     /\ links' = links \cup FirstJoined(n, linked)
     /\ linked' = linked + Cardinality(FirstLinks)
     /\ NotSaved
     /\ crossed' = crossed \cup {"nodes", "links"}
     /\ UNCHANGED <<page, calls, feed, named, running, visiting, alive, lossy>>

LeaveNode ==
  /\ alive /\ visiting # 0
  /\ Push([enter |-> FALSE, name |-> known[visiting].name])
  /\ visiting' = 0
  /\ UNCHANGED <<running, session>> /\ SameGraph

ExecEnds ==
  /\ alive /\ running = "stopping" /\ visiting = 0
  /\ running' = "off"
  /\ UNCHANGED <<visiting, events, crossed, session>> /\ SameGraph

(* A call that fails on the way, before or after it was served, and those  *)
(* a dead server never serves: the page cannot tell.  One that is being    *)
(* saved fails once it is.                                                 *)
Fails(c) ==
  /\ c.status # "error"
  /\ \/ /\ alive /\ session.losses > 0 /\ \A w \in writing : w.for # c
        /\ session' = [session EXCEPT !.losses = @ - 1]
        /\ lossy' = TRUE
     \/ /\ ~alive /\ c.status = "sent"
        /\ UNCHANGED bounds
  /\ Reply(c, "error")
  /\ UNCHANGED <<page, feed, server, crossed>>

-----------------------------------------------------------------------------
(* The page has just been loaded: main.ready has called refresh().         *)
Init ==
  /\ node = <<>> /\ state = <<>> /\ arrow = <<>> /\ count = 0 /\ button = "play"
  /\ calls = {Call("refresh", 0, NoName, NoName)}
  /\ events = <<>> /\ news = <<>> /\ polling = TRUE
  /\ known = FirstKnown
  /\ live = DOMAIN FirstNodes
  /\ links = FirstJoined(0, 0)
  /\ linked = Cardinality(FirstLinks) /\ named = Len(FirstNodes)
  /\ file = View /\ writing = {}
  /\ running = "off" /\ visiting = 0 /\ alive = TRUE
  /\ crossed = {} /\ unsaved = FALSE
  /\ session \in Sessions /\ lossy = FALSE

Answer(c) ==
  \/ Created(c) \/ Positioned(c) \/ Removed(c) \/ Linked(c) \/ Renamed(c)
  \/ Refreshed(c) \/ Acknowledged(c)

Edit ==
  \/ \E k \in Kinds : AddNode(k)
  \/ \E o \in Drawn : DeleteNode(o) \/ \E new \in GivenNames : SetName(o, new)
  \/ \E f, t \in Drawn : Connect(f, t) \/ Disconnect(f, t)
  \/ NewBehaviour \/ Refresh \/ StartStop

Next ==
  \/ Edit
  \/ \E c \in calls : Serve(c) \/ Answer(c) \/ Fails(c)
  \/ EnterNode \/ Prints \/ LoadBehaviour \/ LeaveNode \/ ExecEnds
  \/ FetchEvents \/ ProcessEvents \/ PollFails

Spec == Init /\ [][Next]_vars
-----------------------------------------------------------------------------
(* Properties.                                                             *)

(* Types of the state.                                                     *)
Status == {"sent", "ok", "error"}
TypeOK ==
  /\ node \in Seq([id : Names, kind : Kinds, active : BOOLEAN, drawn : BOOLEAN,
                    label : Names \cup {NoName}])
  /\ DOMAIN state \subseteq Names /\ \A i \in DOMAIN state : state[i] \in DOMAIN node
  /\ \A a \in DOMAIN arrow : {arrow[a].from, arrow[a].to} \subseteq DOMAIN node
  /\ button \in {"play", "stop"} /\ count \in Nat
  /\ \A c \in calls : c.status \in Status /\ (c.op \in LinkOps => c.who \in DOMAIN arrow)
  /\ Len(events) <= RingSize /\ running \in {"off", "on", "stopping"}
  /\ live \subseteq DOMAIN known /\ visiting \in DOMAIN known \cup {0}
  /\ \A l \in links : {l.from, l.to} \subseteq DOMAIN known

Quiet == calls = {} /\ alive /\ ~lossy
Apart == crossed \cap {"nodes", "links"} = {}

(* Once every answer is in, the page shows each node of the server once,   *)
(* under its name, and no other (addNode, deleteNode, setName, clear,      *)
(* refresh).  Excused are edits the page does not keep apart, once one     *)
(* overtakes another, a rename whose prompt was cancelled or left empty, a *)
(* refresh that is sent an older file than it wrote, and a Load node.      *)
NodesAgree ==
  Quiet /\ "nodes" \notin crossed =>
    /\ DOMAIN state = LiveNames
    /\ {node[o].label : o \in Drawn} = LiveNames
    /\ Cardinality(Drawn) = Cardinality(live)
    /\ \A i \in DOMAIN state : node[state[i]].id = i /\ state[i] \in Drawn

(* Then its arrows are the connections of the server, too, with the same   *)
(* excuses.                                                                *)
ArrowsAgree ==
  Quiet /\ Apart =>
    {<<node[arrow[a].from].id, node[arrow[a].to].id>> : a \in Mapped}
      = {<<known[l.from].name, known[l.to].name>> : l \in {m \in links : {m.from, m.to} \subseteq live}}

(* An arrow whose node is gone from the page has a request under way: the  *)
(* page never gives up one it cannot disconnect (disconnect, deleteNode).  *)
DanglingArrowPending ==
  Apart =>
    \A a \in Mapped :
      \/ {node[arrow[a].from].id, node[arrow[a].to].id} \subseteq DOMAIN state
      \/ \E c \in calls : c.op \in LinkOps /\ c.who = a

(* The server outlives every edit that waits for the edits before it, and  *)
(* every deletion whose disconnections are served before its removal       *)
(* (deleteNode posts them together; Manager::disconnect).                  *)
ServerSurvives == Apart /\ "removal" \notin crossed /\ ~lossy => alive

(* Once every answer is in, the file holds the nodes of the server, unless *)
(* the last to come was a rename, a clear or a Load, which nothing saves,  *)
(* or a save that listed them before another one did (writeBehaviour).     *)
NodesSaved == Quiet /\ ~unsaved => file.nodes = View.nodes

(* A node the page holds busy, and so does not delete, is executing, or an *)
(* event about it is on its way, as long as the page polls, no event was   *)
(* dropped and none named a node that was renamed meanwhile (processEvents).*)
BusyIsExecuting ==
  /\ crossed \subseteq {"links", "removal"} /\ polling /\ alive
  /\ visiting = 0 /\ events = <<>> /\ news = <<>>
  => Busy = {}

(* What leaves the canvas left the server before, unless the page clears   *)
(* or loads everything anew.                                               *)
Anew ==
  \/ \E c \in calls' \ calls : c.op = "clear"
  \/ \E c \in calls \ calls' : c.op = "refresh"
GoneWhenAcknowledged ==
  [][\A o \in Drawn : "nodes" \notin crossed' /\ ~node'[o].drawn /\ ~Anew =>
       node[o].label \notin LiveNames]_vars
=============================================================================

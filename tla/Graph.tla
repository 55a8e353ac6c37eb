------------------------------- MODULE Graph --------------------------------
(***************************************************************************)
(* The graph of a behaviour as Manager keeps it (lib/ab/manager.cpp): its  *)
(* nodes, the events that are polled (activeEvents), the ordered           *)
(* connections of each node and the syncOnNextCycle flag its operations    *)
(* raise.  A record g = [nodes, active, links, dirty] holds the four, and  *)
(* the operations are operators on it.                                     *)
(***************************************************************************)
EXTENDS Integers, Sequences

CONSTANTS
  Nodes,   (* every node object the program may ever create              *)
  Events,  (* those that are events; the others are actions              *)
  Kept,    (* those with the flag ManualRemoval                          *)
  Guards,  (* guard expressions; a connection may have none              *)
  NoGuard  (* the empty guard                                            *)

ASSUME NodeAssumption == Events \subseteq Nodes /\ Kept \subseteq Nodes
ASSUME GuardAssumption == NoGuard \notin Guards

Links == [to : Nodes, guard : Guards \cup {NoGuard}]

Graphs ==
  {g \in [nodes : SUBSET Nodes, active : SUBSET Events,
          links : [Nodes -> Seq(Links)], dirty : BOOLEAN] :
     g.active \subseteq g.nodes}

(* Where the connections of n lead, and the nodes that lead to n.          *)
Targets(g, n) == {g.links[n][i].to : i \in 1 .. Len(g.links[n])}
Sources(g, n) == {m \in Nodes : n \in Targets(g, m)}

(* No two connections of s lead to the same node.                          *)
OncePerTarget(s) ==
  \A i, j \in 1 .. Len(s) : s[i].to = s[j].to => i = j

(* The elements of s but the i-th one.                                     *)
Without(s, i) ==
  [k \in 1 .. Len(s) - 1 |-> IF k < i THEN s[k] ELSE s[k + 1]]

(* The connections s but the one to n.  connect never makes a second one.  *)
Unlink(s, n) ==
  LET at == {i \in 1 .. Len(s) : s[i].to = n}
  IN  IF at = {} THEN s ELSE Without(s, CHOOSE i \in at : TRUE)

AddNode(g, n) ==
  [g EXCEPT !.nodes = @ \cup {n}, !.active = @ \cup ({n} \cap Events),
            !.dirty = TRUE]

(* connect: an existing connection is kept, one to an event is refused.    *)
Connect(g, a, b) ==
  IF b \in Targets(g, a) \/ b \in Events
  THEN g
  ELSE [g EXCEPT !.links[a] = Append(@, [to |-> b, guard |-> NoGuard]),
                 !.dirty = TRUE]

SetGuard(g, a, b, expr) ==
  [g EXCEPT !.links[a] =
     [i \in 1 .. Len(@) |-> IF @[i].to = b THEN [@[i] EXCEPT !.guard = expr]
                                           ELSE @[i]]]

Disconnect(g, a, b) == [g EXCEPT !.links[a] = Unlink(@, b)]

(* disconnect(Node): what is left when it survives its own iterators.      *)
Isolate(g, n) ==
  [g EXCEPT !.links = [m \in Nodes |-> IF m = n THEN <<>> ELSE Unlink(@[m], n)]]

(* A deleteNode that leaves an event in activeEvents.                      *)
DeleteKeepingActive(g, n) ==
  [Isolate(g, n) EXCEPT !.nodes = @ \ {n}]

(* deleteNode, which like disconnect and setGuard does not ask for a sync. *)
DeleteNode(g, n) ==
  LET h == Isolate(g, n)
  IN  [h EXCEPT !.active = @ \ {n}, !.nodes = @ \ {n}]

(* clear: every connection stays, also those of the nodes that go.         *)
Clear(g) ==
  [g EXCEPT !.nodes = @ \cap Kept, !.active = {}, !.dirty = TRUE]
=============================================================================

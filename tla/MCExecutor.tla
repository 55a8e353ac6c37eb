----------------------------- MODULE MCExecutor -----------------------------
(***************************************************************************)
(* A small behaviour with one node of each kind: a Start event, a polled   *)
(* event, a click, a guarded action, a Stop node, a Load node and the      *)
(* polled event of its file.  Two requests meet the executor at every      *)
(* point of its cycle.  In MCExecutor.cfg the click has the ManualRemoval  *)
(* flag of node.h, which node types of a plugin may set and those of this  *)
(* repository do not: it shows what clear leaves behind.                   *)
(***************************************************************************)
EXTENDS Executor, TLC

CONSTANTS start, tick, click, a, halt, ld, f, fa, late, p

L(n, e) == [to |-> n, guard |-> e]
NoLinks == [n \in Nodes |-> <<>>]

MCNodes == {start, tick, click, a, halt, ld, f, fa, late}
MCEvents == {start, tick, click, f, late}

MCFirstGraph ==
  [nodes  |-> MCNodes \ {f, fa, late},
   active |-> MCEvents \ {f, late},
   links  |-> (start :> <<L(a, NoGuard)>>) @@ (tick :> <<L(a, p)>>)
              @@ (click :> <<L(ld, NoGuard)>>) @@ (a :> <<L(halt, p)>>)
              @@ NoLinks,
   dirty  |-> TRUE]

MCFileNodes == <<f, fa>>
MCFileLinks == <<[from |-> f, to |-> fa, guard |-> p]>>
MCNoLinks == <<>>

R(op, n, m, e) == [op |-> op, node |-> n, other |-> m, expr |-> e]

MCMenu == {R("create", late, late, NoGuard), R("notify", click, click, NoGuard),
           R("notify", a, a, NoGuard),
           R("connect", a, ld, p), R("disconnect", a, halt, NoGuard),
           R("disconnect", a, ld, NoGuard), R("guard", a, halt, NoGuard),
           R("remove", a, a, NoGuard), R("remove", tick, tick, NoGuard)}

(* For the liveness run: two polled events that compete for the pass, and  *)
(* no guards, so every chain goes as far as it can; one of the events is   *)
(* connected and disconnected again and again.                             *)
MCLiveNodes == {tick, late, a, ld, f}
MCLiveEvents == {tick, late, f}
MCLiveFile == <<f>>
MCLiveGraph ==
  [nodes  |-> {tick, late, a, ld},
   active |-> {tick, late},
   links  |-> [n \in MCLiveNodes |-> <<>>],
   dirty  |-> TRUE]

MCEndless == {R("connect", tick, a, NoGuard), R("disconnect", tick, a, NoGuard)}
MCLiveMenu ==
  {R("notify", ld, ld, NoGuard), R("notify", a, a, NoGuard),
   R("remove", a, a, NoGuard)} \cup MCEndless

(* Two actions that lead to each other, behind a polled event.             *)
MCCyclicGraph ==
  [nodes  |-> {tick, a, ld},
   active |-> {tick},
   links  |-> (tick :> <<L(a, NoGuard)>>) @@ (a :> <<L(ld, NoGuard)>>)
              @@ (ld :> <<L(a, NoGuard)>>) @@ NoLinks,
   dirty  |-> TRUE]

(* An event with a guarded connection before one without a guard.          *)
MCGuardedGraph ==
  [nodes  |-> {click, a, halt},
   active |-> {click},
   links  |-> (click :> <<L(a, p), L(halt, NoGuard)>>) @@ NoLinks,
   dirty  |-> TRUE]
MCNotifyMenu == {R("notify", click, click, NoGuard)}
=============================================================================

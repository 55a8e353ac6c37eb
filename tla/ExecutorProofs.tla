--------------------------- MODULE ExecutorProofs ---------------------------
(***************************************************************************)
(* What the operations of Graph return, and proofs about Executor, for     *)
(* every graph, file, menu and number of HTTP threads.                     *)
(***************************************************************************)
EXTENDS Executor, FiniteSetTheorems, TLAPS

(* Removing one element keeps the others and their number.                 *)
LEMMA WithoutIsShorter ==
  ASSUME NEW S, NEW s \in Seq(S), NEW i \in 1 .. Len(s)
  PROVE  /\ Without(s, i) \in Seq(S)
         /\ Len(Without(s, i)) = Len(s) - 1
         /\ \A k \in 1 .. Len(s) - 1 :
              Without(s, i)[k] = s[IF k < i THEN k ELSE k + 1]
<1>1. Len(s) - 1 \in Nat
  OBVIOUS
<1>2. \A k \in 1 .. Len(s) - 1 : (IF k < i THEN s[k] ELSE s[k + 1]) \in S
  OBVIOUS
<1>3. Without(s, i) \in [1 .. Len(s) - 1 -> S]
  BY <1>2 DEF Without
<1>4. Without(s, i) \in Seq(S)
  BY <1>1, <1>3
<1>5. Len(Without(s, i)) = Len(s) - 1
  BY <1>1, <1>3, <1>4 DEF Without
<1>6. QED BY <1>4, <1>5 DEF Without

(* Unlink leaves no connection to n, adds none and keeps them unique.      *)
LEMMA UnlinkDrops ==
  ASSUME NEW s \in Seq(Links), OncePerTarget(s), NEW n
  PROVE  /\ Unlink(s, n) \in Seq(Links)
         /\ OncePerTarget(Unlink(s, n))
         /\ \A k \in 1 .. Len(Unlink(s, n)) :
              /\ Unlink(s, n)[k].to # n
              /\ \E j \in 1 .. Len(s) : Unlink(s, n)[k] = s[j]
<1> DEFINE hits == {i \in 1 .. Len(s) : s[i].to = n}
<1>1. CASE hits = {}
  <2>1. Unlink(s, n) = s
    BY <1>1 DEF Unlink
  <2>2. QED BY <1>1, <2>1
<1>2. CASE hits # {}
  <2>1. PICK i \in 1 .. Len(s) : s[i].to = n /\ Unlink(s, n) = Without(s, i)
    BY <1>2 DEF Unlink
  <2>2. /\ Unlink(s, n) \in Seq(Links)
        /\ Len(Unlink(s, n)) = Len(s) - 1
        /\ \A k \in 1 .. Len(s) - 1 :
             Unlink(s, n)[k] = s[IF k < i THEN k ELSE k + 1]
    BY <2>1, WithoutIsShorter
  <2>3. \A k \in 1 .. Len(s) - 1 :
          /\ (IF k < i THEN k ELSE k + 1) \in 1 .. Len(s)
          /\ (IF k < i THEN k ELSE k + 1) # i
    OBVIOUS
  <2>4. ASSUME NEW k \in 1 .. Len(Unlink(s, n))
        PROVE  /\ Unlink(s, n)[k].to # n
               /\ \E j \in 1 .. Len(s) : Unlink(s, n)[k] = s[j]
    <3> DEFINE from == IF k < i THEN k ELSE k + 1
    <3>1. k \in 1 .. Len(s) - 1
      BY <2>2
    <3>2. from \in 1 .. Len(s) /\ from # i /\ Unlink(s, n)[k] = s[from]
      BY <2>2, <2>3, <3>1
    <3> HIDE DEF from
    <3>3. s[from].to # n
      BY <2>1, <3>2 DEF OncePerTarget
    <3>4. QED BY <3>2, <3>3
  <2>5. OncePerTarget(Unlink(s, n))
    <3> SUFFICES ASSUME NEW k \in 1 .. Len(s) - 1, NEW m \in 1 .. Len(s) - 1,
                        Unlink(s, n)[k].to = Unlink(s, n)[m].to
                 PROVE  k = m
      BY <2>2 DEF OncePerTarget
    <3> DEFINE at1 == IF k < i THEN k ELSE k + 1
               at2 == IF m < i THEN m ELSE m + 1
    <3>1. at1 \in 1 .. Len(s) /\ at2 \in 1 .. Len(s) /\ s[at1].to = s[at2].to
      BY <2>2, <2>3
    <3>2. at1 = at2
      BY <3>1 DEF OncePerTarget
    <3>3. QED BY <3>2
  <2>6. QED BY <2>2, <2>4, <2>5
<1>3. QED BY <1>1, <1>2

-----------------------------------------------------------------------------
(* What every operation keeps: the shape of the graph, and one connection  *)
(* at most between two nodes.                                              *)
Sane(h) == h \in Graphs /\ \A n \in Nodes : OncePerTarget(h.links[n])

(* The connections of the graph's nodes lead to nodes of the graph.        *)
Closed(h) == \A m \in h.nodes : Targets(h, m) \subseteq h.nodes

(* h with the connections r for node a.                                    *)
WithLinks(h, a, r) == [h EXCEPT !.links[a] = r]

LEMMA Relinked ==
  ASSUME NEW h, Sane(h), NEW a \in Nodes, NEW r \in Seq(Links), OncePerTarget(r),
         NEW k, k = WithLinks(h, a, r)
  PROVE  /\ Sane(k) /\ k.nodes = h.nodes /\ k.dirty = h.dirty
         /\ k.links[a] = r
         /\ \A m \in Nodes : m # a => k.links[m] = h.links[m]
<1>1. h \in Graphs /\ \A n \in Nodes : OncePerTarget(h.links[n])
  BY DEF Sane
<1>2. /\ k.nodes = h.nodes /\ k.dirty = h.dirty /\ k.active = h.active
      /\ k.links = [h.links EXCEPT ![a] = r]
      /\ k = [nodes |-> k.nodes, active |-> k.active, links |-> k.links, dirty |-> k.dirty]
  BY <1>1 DEF Graphs, WithLinks
<1>3. k.links \in [Nodes -> Seq(Links)]
  BY <1>1, <1>2 DEF Graphs
<1>4. k.links[a] = r /\ \A m \in Nodes : m # a => k.links[m] = h.links[m]
  BY <1>1, <1>2 DEF Graphs
<1>5. k \in Graphs
  BY <1>1, <1>2, <1>3 DEF Graphs
<1>6. QED BY <1>1, <1>2, <1>4, <1>5 DEF Sane

(* The flag is no part of what Sane asks for.                              *)
LEMMA Flagged ==
  ASSUME NEW h, Sane(h), NEW k, k = [h EXCEPT !.dirty = TRUE]
  PROVE  Sane(k) /\ k.nodes = h.nodes /\ k.links = h.links /\ k.dirty
BY DEF Sane, Graphs

LEMMA AddNodeSane ==
  ASSUME NEW h, Sane(h), NEW n \in Nodes
  PROVE  /\ Sane(AddNode(h, n))
         /\ AddNode(h, n).nodes = h.nodes \cup {n}
         /\ AddNode(h, n).links = h.links
         /\ AddNode(h, n).dirty
BY DEF Sane, AddNode, Graphs

LEMMA ConnectSane ==
  ASSUME NEW h, Sane(h), NEW a \in Nodes, NEW b \in Nodes
  PROVE  /\ Sane(Connect(h, a, b))
         /\ Connect(h, a, b).nodes = h.nodes
         /\ \A m \in Nodes :
              Targets(Connect(h, a, b), m) \subseteq Targets(h, m) \cup {b}
         /\ \A m \in Nodes \ {a} : Connect(h, a, b).links[m] = h.links[m]
         /\ IF b \in Targets(h, a) \cup Events
            THEN Connect(h, a, b) = h
            ELSE Connect(h, a, b).dirty
<1> DEFINE c == Connect(h, a, b)
           l == [to |-> b, guard |-> NoGuard]
<1>1. CASE b \in Targets(h, a) \cup Events
  BY <1>1 DEF Connect
<1>2. CASE b \notin Targets(h, a) \cup Events
  <2>2. h.links[a] \in Seq(Links) /\ l \in Links
    BY DEF Sane, Graphs, Links
  <2> DEFINE r == Append(h.links[a], l)
  <2>3. /\ r \in Seq(Links)
        /\ Len(r) = Len(h.links[a]) + 1
        /\ \A i \in 1 .. Len(h.links[a]) : r[i] = h.links[a][i]
        /\ r[Len(h.links[a]) + 1] = l
    BY <2>2
  <2>8. \A i \in 1 .. Len(h.links[a]) : h.links[a][i].to # b
    BY <1>2 DEF Targets
  <2>9. OncePerTarget(r)
    <3> SUFFICES ASSUME NEW i \in 1 .. Len(h.links[a]) + 1,
                        NEW j \in 1 .. Len(h.links[a]) + 1,
                        r[i].to = r[j].to
                 PROVE  i = j
      BY <2>3 DEF OncePerTarget
    <3>1. l.to = b
      OBVIOUS
    <3>2. OncePerTarget(h.links[a])
      BY DEF Sane
    <3>3. CASE i \in 1 .. Len(h.links[a]) /\ j \in 1 .. Len(h.links[a])
      BY <2>3, <3>2, <3>3 DEF OncePerTarget
    <3>4. CASE i = Len(h.links[a]) + 1 /\ j \in 1 .. Len(h.links[a])
      BY <2>3, <2>8, <3>1, <3>4
    <3>5. CASE j = Len(h.links[a]) + 1 /\ i \in 1 .. Len(h.links[a])
      BY <2>3, <2>8, <3>1, <3>5
    <3>6. Len(h.links[a]) \in Nat
      BY <2>2
    <3>7. QED BY <3>3, <3>4, <3>5, <3>6
  <2> DEFINE k == WithLinks(h, a, r)
  <2>10. c = [k EXCEPT !.dirty = TRUE]
    BY <1>2 DEF Connect, WithLinks, Sane, Graphs
  <2>11. \A i \in 1 .. Len(r) :
           r[i].to \in {h.links[a][j].to : j \in 1 .. Len(h.links[a])} \cup {b}
    BY <2>2, <2>3
  <2> HIDE DEF r
  <2>12. /\ Sane(k) /\ k.nodes = h.nodes /\ k.links[a] = r
         /\ \A m \in Nodes : m # a => k.links[m] = h.links[m]
    BY <2>3, <2>9, Relinked
  <2> HIDE DEF k
  <2>13. Sane(c) /\ c.nodes = h.nodes /\ c.links = k.links /\ c.dirty
    BY <2>10, <2>12, Flagged
  <2>14. \A m \in Nodes : Targets(c, m) \subseteq Targets(h, m) \cup {b}
    <3> SUFFICES ASSUME NEW m \in Nodes
                 PROVE  Targets(c, m) \subseteq Targets(h, m) \cup {b}
      OBVIOUS
    <3>1. CASE m = a
      BY <2>11, <2>12, <2>13, <3>1 DEF Targets
    <3>2. CASE m # a
      BY <2>12, <2>13, <3>2 DEF Targets
    <3>3. QED BY <3>1, <3>2
  <2>15. QED BY <1>2, <2>12, <2>13, <2>14
<1>3. QED BY <1>1, <1>2

LEMMA ConnectElsewhere ==
  ASSUME NEW h, Sane(h), NEW a \in Nodes, NEW b \in Nodes, NEW m \in Nodes \ {a}
  PROVE  Connect(h, a, b).links[m] = h.links[m]
BY ConnectSane

LEMMA SetGuardSane ==
  ASSUME NEW h, Sane(h), NEW a \in Nodes, NEW b, NEW e \in Guards \cup {NoGuard}
  PROVE  /\ Sane(SetGuard(h, a, b, e))
         /\ SetGuard(h, a, b, e).nodes = h.nodes
         /\ SetGuard(h, a, b, e).dirty = h.dirty
         /\ \A m \in Nodes :
              /\ Targets(SetGuard(h, a, b, e), m) = Targets(h, m)
              /\ h.links[m] = <<>> => SetGuard(h, a, b, e).links[m] = <<>>
<1> DEFINE s == h.links[a]
           r == [i \in 1 .. Len(s) |-> IF s[i].to = b THEN [s[i] EXCEPT !.guard = e]
                                                      ELSE s[i]]
           k == SetGuard(h, a, b, e)
<1>1. s \in Seq(Links)
  BY DEF Sane, Graphs
<1>2. \A i \in 1 .. Len(s) : r[i] \in Links /\ r[i].to = s[i].to
  <2> SUFFICES ASSUME NEW i \in 1 .. Len(s) PROVE r[i] \in Links /\ r[i].to = s[i].to
    OBVIOUS
  <2>1. s[i] \in Links
    BY <1>1
  <2>2. [s[i] EXCEPT !.guard = e] \in Links /\ [s[i] EXCEPT !.guard = e].to = s[i].to
    BY <2>1 DEF Links
  <2>3. r[i] = IF s[i].to = b THEN [s[i] EXCEPT !.guard = e] ELSE s[i]
    OBVIOUS
  <2>4. QED BY <2>1, <2>2, <2>3
<1>3. r \in Seq(Links) /\ Len(r) = Len(s)
  <2>1. Len(s) \in Nat
    BY <1>1
  <2>2. r \in [1 .. Len(s) -> Links]
    BY <1>2
  <2>3. r \in Seq(Links)
    BY <2>1, <2>2
  <2>4. DOMAIN r = 1 .. Len(s)
    OBVIOUS
  <2>5. QED BY <2>1, <2>3, <2>4
<1>4. OncePerTarget(r)
  BY <1>2, <1>3 DEF OncePerTarget, Sane
<1>5. k = WithLinks(h, a, r)
  BY DEF SetGuard, WithLinks
<1>6. /\ Sane(k) /\ k.nodes = h.nodes /\ k.dirty = h.dirty /\ k.links[a] = r
      /\ \A m \in Nodes : m # a => k.links[m] = h.links[m]
  <2> HIDE DEF r, k
  <2>1. QED BY <1>3, <1>4, <1>5, Relinked
<1>8. Targets(k, a) = Targets(h, a)
  <2>1. \A i \in 1 .. Len(s) : r[i].to = s[i].to
    BY <1>2
  <2> HIDE DEF r
  <2>2. QED BY <1>3, <1>6, <2>1 DEF Targets
<1>9. h.links[a] = <<>> => r = <<>>
  BY <1>1, <1>3
<1>10. \A m \in Nodes : /\ OncePerTarget(k.links[m])
                        /\ Targets(k, m) = Targets(h, m)
                        /\ h.links[m] = <<>> => k.links[m] = <<>>
  <2> SUFFICES ASSUME NEW m \in Nodes
               PROVE  /\ OncePerTarget(k.links[m])
                      /\ Targets(k, m) = Targets(h, m)
                      /\ h.links[m] = <<>> => k.links[m] = <<>>
    OBVIOUS
  <2>1. CASE m = a
    BY <1>4, <1>6, <1>8, <1>9, <2>1
  <2>2. CASE m # a
    BY <1>6, <2>2 DEF Sane, Targets
  <2>3. QED BY <2>1, <2>2
<1>11. QED BY <1>6, <1>10

(* disconnect(A, B) and deleteNode only remove connections; deleteNode     *)
(* removes all that lead to the node.                                      *)
LEMMA UnlinkedTargets ==
  ASSUME NEW s \in Seq(Links), OncePerTarget(s), NEW n
  PROVE  /\ {Unlink(s, n)[i].to : i \in 1 .. Len(Unlink(s, n))}
              \subseteq {s[i].to : i \in 1 .. Len(s)} \ {n}
         /\ s = <<>> => Unlink(s, n) = <<>>
<1>1. \A k \in 1 .. Len(Unlink(s, n)) :
        /\ Unlink(s, n)[k].to # n
        /\ \E j \in 1 .. Len(s) : Unlink(s, n)[k] = s[j]
  BY UnlinkDrops
<1>2. s = <<>> => Unlink(s, n) = <<>>
  BY DEF Unlink
<1>3. QED BY <1>1, <1>2

LEMMA DisconnectSane ==
  ASSUME NEW h, Sane(h), NEW a \in Nodes, NEW b
  PROVE  /\ Sane(Disconnect(h, a, b))
         /\ Disconnect(h, a, b).nodes = h.nodes
         /\ Disconnect(h, a, b).dirty = h.dirty
         /\ \A m \in Nodes :
              /\ Targets(Disconnect(h, a, b), m) \subseteq Targets(h, m)
              /\ h.links[m] = <<>> => Disconnect(h, a, b).links[m] = <<>>
<1> DEFINE r == Unlink(h.links[a], b)
           k == Disconnect(h, a, b)
<1>1. h.links[a] \in Seq(Links) /\ OncePerTarget(h.links[a])
  BY DEF Sane, Graphs
<1>2. r \in Seq(Links) /\ OncePerTarget(r)
  BY <1>1, UnlinkDrops
<1>3. k = WithLinks(h, a, r)
  BY DEF Disconnect, WithLinks
<1>5. /\ Sane(k) /\ k.nodes = h.nodes /\ k.dirty = h.dirty /\ k.links[a] = r
      /\ \A m \in Nodes : m # a => k.links[m] = h.links[m]
  <2> HIDE DEF r, k
  <2>1. QED BY <1>2, <1>3, Relinked
<1>6. /\ {r[i].to : i \in 1 .. Len(r)} \subseteq
           {h.links[a][i].to : i \in 1 .. Len(h.links[a])}
      /\ h.links[a] = <<>> => r = <<>>
  BY <1>1, UnlinkedTargets
<1>7. \A m \in Nodes : /\ OncePerTarget(k.links[m])
                       /\ Targets(k, m) \subseteq Targets(h, m)
                       /\ h.links[m] = <<>> => k.links[m] = <<>>
  <2> SUFFICES ASSUME NEW m \in Nodes
               PROVE  /\ OncePerTarget(k.links[m])
                      /\ Targets(k, m) \subseteq Targets(h, m)
                      /\ h.links[m] = <<>> => k.links[m] = <<>>
    OBVIOUS
  <2> HIDE DEF r
  <2>1. CASE m = a
    <3>1. OncePerTarget(k.links[m]) /\ (h.links[m] = <<>> => k.links[m] = <<>>)
      BY <1>2, <1>5, <1>6, <2>1
    <3>2. Targets(k, a) = {r[i].to : i \in 1 .. Len(r)}
      BY <1>5 DEF Targets
    <3>3. Targets(h, a) = {h.links[a][i].to : i \in 1 .. Len(h.links[a])}
      BY DEF Targets
    <3>4. QED BY <1>6, <2>1, <3>1, <3>2, <3>3
  <2>2. CASE m # a
    BY <1>5, <2>2 DEF Sane, Targets
  <2>3. QED BY <2>1, <2>2
<1>8. QED BY <1>5, <1>7

LEMMA DeleteNodeSane ==
  ASSUME NEW h, Sane(h), NEW n \in Nodes
  PROVE  /\ Sane(DeleteNode(h, n))
         /\ DeleteNode(h, n).nodes = h.nodes \ {n}
         /\ DeleteNode(h, n).dirty = h.dirty
         /\ \A m \in Nodes :
              /\ Targets(DeleteNode(h, n), m) \subseteq Targets(h, m) \ {n}
              /\ h.links[m] = <<>> => DeleteNode(h, n).links[m] = <<>>
<1> DEFINE k == DeleteNode(h, n)
<1>1. \A m \in Nodes : h.links[m] \in Seq(Links) /\ OncePerTarget(h.links[m])
  BY DEF Sane, Graphs
<1>2. \A m \in Nodes :
        /\ k.links[m] = IF m = n THEN <<>> ELSE Unlink(h.links[m], n)
        /\ k.links[m] \in Seq(Links) /\ OncePerTarget(k.links[m])
  <2>1. k.links = [m \in Nodes |-> IF m = n THEN <<>> ELSE Unlink(h.links[m], n)]
    BY DEF DeleteNode, Isolate, Sane, Graphs
  <2>2. \A m \in Nodes : Unlink(h.links[m], n) \in Seq(Links)
                         /\ OncePerTarget(Unlink(h.links[m], n))
    BY <1>1, UnlinkDrops
  <2>3. OncePerTarget(<<>>) /\ <<>> \in Seq(Links)
    BY DEF OncePerTarget
  <2>4. QED BY <2>1, <2>2, <2>3
<1>3. /\ k = [Isolate(h, n) EXCEPT !.active = @ \ {n}, !.nodes = @ \ {n}]
      /\ Isolate(h, n) \in Graphs /\ Isolate(h, n).nodes = h.nodes
      /\ Isolate(h, n).dirty = h.dirty
  <2> DEFINE l == [m \in Nodes |-> IF m = n THEN <<>> ELSE Unlink(h.links[m], n)]
  <2>1. l \in [Nodes -> Seq(Links)]
    BY <1>1, UnlinkDrops
  <2>2. Isolate(h, n) = [h EXCEPT !.links = l]
    BY DEF Isolate
  <2> HIDE DEF l
  <2>3. Isolate(h, n) \in Graphs /\ Isolate(h, n).nodes = h.nodes
        /\ Isolate(h, n).dirty = h.dirty
    BY <2>1, <2>2 DEF Sane, Graphs
  <2>4. k = [Isolate(h, n) EXCEPT !.active = @ \ {n}, !.nodes = @ \ {n}]
    BY DEF DeleteNode
  <2>5. QED BY <2>3, <2>4
<1>4. k \in Graphs /\ k.nodes = h.nodes \ {n} /\ k.dirty = h.dirty
  BY <1>3 DEF Graphs
<1>5. \A m \in Nodes : /\ Targets(k, m) \subseteq Targets(h, m) \ {n}
                       /\ h.links[m] = <<>> => k.links[m] = <<>>
  <2> SUFFICES ASSUME NEW m \in Nodes
               PROVE  /\ Targets(k, m) \subseteq Targets(h, m) \ {n}
                      /\ h.links[m] = <<>> => k.links[m] = <<>>
    OBVIOUS
  <2>1. CASE m = n
    BY <1>2, <2>1 DEF Targets
  <2>2. CASE m # n
    <3>1. k.links[m] = Unlink(h.links[m], n)
      BY <1>2, <2>2
    <3>2. {Unlink(h.links[m], n)[i].to : i \in 1 .. Len(Unlink(h.links[m], n))}
             \subseteq {h.links[m][i].to : i \in 1 .. Len(h.links[m])} \ {n}
      BY <1>1, UnlinkedTargets
    <3>3. h.links[m] = <<>> => Unlink(h.links[m], n) = <<>>
      BY <1>1, UnlinkedTargets
    <3>4. QED BY <3>1, <3>2, <3>3 DEF Targets
  <2>3. QED BY <2>1, <2>2
<1>6. QED BY <1>2, <1>4, <1>5 DEF Sane

LEMMA ClearSane ==
  ASSUME NEW h, Sane(h)
  PROVE  /\ Sane(Clear(h))
         /\ Clear(h).nodes = h.nodes \cap Kept
         /\ Clear(h).links = h.links
         /\ Clear(h).dirty
BY DEF Sane, Clear, Graphs

-----------------------------------------------------------------------------
(* Before a node object is created nothing is known of it; the connections *)
(* of the graph stay inside it unless a dangling one was made.             *)
GraphInv ==
  /\ Sane(g)
  /\ g.nodes \subseteq used
  /\ \A n \in Nodes \ used : g.links[n] = <<>>
  /\ \A c \in Clients : request[c] # NoRequest => request[c].node \in used
  /\ ~dangling => Closed(g)

(* What exec holds of the graph at each place: a copy of connections, the  *)
(* place in it or in the file, a count.                                    *)
Counting == {"count", "pick"}
Choosing == {"guards"} \cup Counting
Loading == {"loading", "linking", "guarding"}

PlaceInv ==
  /\ pc \notin Choosing \cup {"guarding"} => copied = <<>>
  /\ pc \notin Choosing \cup Loading => pos = 1
  /\ pc \notin Counting => left = 0
  /\ pc = "loading" => pos <= Len(FileNodes)
  /\ pc \in {"linking", "guarding"} => pos <= Len(FileLinks)
  /\ pc \in Choosing => pos <= Len(copied)

(* The copied connections lead to nodes of the graph, with the exceptions  *)
(* of EnteredNodesBelong.                                                  *)
CopiesBelong ==
  \A i \in 1 .. Len(copied) : copied[i].to \in g.nodes \/ orphaned \/ dangling

(* The nodes a Load action still has to add are new.                       *)
FreshInv ==
  pc = "loading" => \A j \in pos .. Len(FileNodes) : FileNodes[j] \notin used

(* notifyOne's choice as far as it is: no guard held all the time up to    *)
(* the place of the first pass, and when no connection got or lost its     *)
(* guard the count is the number of those without one.                     *)
ChoiceInv ==
  pc \in Choosing =>
    /\ \A i \in 1 .. Len(copied) : Status(copied[i], holds) \in copied[i].seen
    /\ \A i \in 1 .. Len(copied) :
         i < pos \/ pc # "guards" => copied[i].seen # {"holds"}
    /\ Mixed = {} =>
         /\ pc = "count" => left = Cardinality({i \in Open : i < pos})
         /\ pc = "pick" => left < Cardinality({i \in Open : i >= pos})

(* What the flag, and the place of exec, say of the changes not yet synced *)
SyncInv ==
  /\ lost => stale = 0
  /\ ~lost =>
       /\ unsynced => g.dirty /\ pc # "clearing"
       /\ (pc = "poll" \/ ~unsynced) => stale = 0
       /\ stale <= 1

IInv == /\ TypeOK /\ GraphInv /\ EnteredNodesBelong /\ SyncInv
        /\ PlaceInv /\ FreshInv /\ CopiesBelong /\ ChoiceInv

-----------------------------------------------------------------------------
LEMMA InitInv == Init => IInv
<1> SUFFICES ASSUME Init PROVE IInv
  OBVIOUS
<1>1. Sane(FirstGraph)
  BY FirstGraphAssumption DEF Sane, OncePerTarget
<1>2. TypeOK
  <2>1. g \in Graphs /\ used \subseteq Nodes
    BY FirstGraphAssumption DEF Init, Graphs
  <2>2. request \in [Clients -> Serving \cup {NoRequest}] /\ served \in 0 .. MaxRequests
    BY RequestBoundAssumption DEF Init
  <2>3. pending \in Seq(Nodes) /\ pc \in Places \ Chain
    BY DEF Init, Places, Chain, Choice
  <2>4. /\ cur \in Nodes \cup {NoNode} /\ (pc \in Chain => cur \in Nodes)
        /\ origin \in {"poll", "drain"} /\ polled \subseteq Events
        /\ armed \subseteq Starts /\ started \subseteq Starts /\ holds \subseteq Guards
        /\ at \in Events \cup {NoNode}
    BY <2>3 DEF Init
  <2>5. stale \in 0 .. 2
    BY DEF Init
  <2>6. /\ running_ \in BOOLEAN /\ alive \in BOOLEAN
        /\ orphaned \in BOOLEAN /\ dangling \in BOOLEAN /\ refired \in BOOLEAN
        /\ unsynced \in BOOLEAN /\ lost \in BOOLEAN
    BY DEF Init
  <2>7. copied \in Seq(Copies) /\ pos \in Nat \ {0} /\ left \in Nat
    BY DEF Init
  <2>8. QED BY <2>1, <2>2, <2>3, <2>4, <2>5, <2>6, <2>7 DEF TypeOK
<1>3. GraphInv
  <2>1. Closed(FirstGraph)
    BY FirstGraphAssumption DEF Closed
  <2>2. QED BY <1>1, <2>1, FirstGraphAssumption DEF Init, GraphInv
<1>4. EnteredNodesBelong /\ SyncInv
  BY FirstGraphAssumption DEF Init, EnteredNodesBelong, SyncInv, Chain, Choice
<1>5. PlaceInv /\ FreshInv /\ CopiesBelong /\ ChoiceInv
  BY DEF Init, PlaceInv, FreshInv, CopiesBelong, ChoiceInv, Choosing, Counting, Loading
<1>6. QED BY <1>2, <1>3, <1>4, <1>5 DEF IInv

LEMMA TargetsAreNodes ==
  ASSUME NEW h \in Graphs, NEW n \in Nodes
  PROVE  Targets(h, n) \subseteq Nodes
<1>1. h.links[n] \in Seq(Links)
  BY DEF Graphs
<1>2. \A i \in 1 .. Len(h.links[n]) : h.links[n][i] \in Links
  BY <1>1
<1>3. \A i \in 1 .. Len(h.links[n]) : h.links[n][i].to \in Nodes
  BY <1>2 DEF Links
<1>4. QED BY <1>3 DEF Targets

(* Outside a chain nothing is copied or counted. *)
LEMMA NothingHeld ==
  ASSUME PlaceInv, pc \notin Chain
  PROVE  copied = <<>> /\ pos = 1 /\ left = 0
BY DEF PlaceInv, Chain, Choice, Choosing, Counting, Loading

-----------------------------------------------------------------------------
(* A step of exec outside a chain. *)
LEMMA ParkedInv ==
  ASSUME IInv, pc \notin Chain, pc' \in Places \ Chain,
         UNCHANGED <<cur, origin, copied, pos, left>>,
         polled' \subseteq Events, armed' \subseteq Starts,
         at' \in Events \cup {NoNode}, pending' \in Seq(Nodes),
         Sane(g'), g'.nodes = g.nodes, g'.links = g.links,
         UNCHANGED <<request, served, used, holds, orphaned, dangling>>,
         running_' \in BOOLEAN, alive' \in BOOLEAN,
         SyncInv', unsynced' \in BOOLEAN, lost' \in BOOLEAN, stale' \in 0 .. 2,
         started' \subseteq Starts, refired' \in BOOLEAN
  PROVE  IInv'
<1>1. TypeOK'
  <2>1. g' \in Graphs /\ (pc' \in Chain => cur' \in Nodes) /\ pc' \in Places
    BY DEF Sane
  <2>2. QED BY <2>1 DEF IInv, TypeOK
<1>2. GraphInv'
  BY DEF IInv, GraphInv, Closed, Targets
<1>3. EnteredNodesBelong'
  BY DEF EnteredNodesBelong
<1>4. copied' = <<>> /\ pos' = 1 /\ left' = 0
  BY NothingHeld DEF IInv
<1>5. PlaceInv' /\ FreshInv' /\ CopiesBelong' /\ ChoiceInv'
  BY <1>4 DEF PlaceInv, FreshInv, CopiesBelong, ChoiceInv, Chain, Choice, Choosing,
              Counting, Loading
<1>6. QED BY <1>1, <1>2, <1>3, <1>5 DEF IInv

LEMMA LoopInv ==
  ASSUME IInv, \/ LoopHead \/ SyncEvents \/ BreakForSync \/ EndOfPass
               \/ LockQueue \/ UnlockQueue \/ WakeUp \/ Exec \/ ClearFlag
  PROVE  IInv'
<1>1. TypeOK /\ Sane(g) /\ SyncInv
  BY DEF IInv, GraphInv
<1>2. /\ running_ \in BOOLEAN /\ alive \in BOOLEAN /\ pending \in Seq(Nodes)
      /\ polled \subseteq Events /\ armed \subseteq Starts
      /\ at \in Events \cup {NoNode} /\ started \subseteq Starts
      /\ refired \in BOOLEAN /\ unsynced \in BOOLEAN /\ lost \in BOOLEAN
      /\ stale \in 0 .. 2
  BY <1>1 DEF TypeOK
<1>3. CASE LoopHead \/ LockQueue \/ UnlockQueue \/ WakeUp
  <2>1. /\ pc \notin Chain /\ pc' \in Places \ Chain
        /\ pc' \in {"poll", "clearing"} => pc = "loop" /\ pc' = "poll" /\ ~g.dirty
    BY <1>3 DEF LoopHead, LockQueue, UnlockQueue, WakeUp, Goto, Places, Chain, Choice
  <2>2. /\ UNCHANGED <<g, running_, polled, armed, at, cur, origin, copied, pos, left>>
        /\ UNCHANGED <<pending, request, served, used, holds, alive, orphaned>>
        /\ UNCHANGED <<dangling, unsynced, lost, stale, started, refired>>
    BY <1>3 DEF LoopHead, LockQueue, UnlockQueue, WakeUp, Goto, passVars, chainVars,
                choice, netVars, history, syncHistory, startHistory
  <2>3. SyncInv'
    BY <1>1, <2>1, <2>2 DEF SyncInv
  <2>4. /\ polled' \subseteq Events /\ armed' \subseteq Starts
        /\ at' \in Events \cup {NoNode} /\ pending' \in Seq(Nodes) /\ Sane(g')
        /\ running_' \in BOOLEAN /\ alive' \in BOOLEAN /\ unsynced' \in BOOLEAN
        /\ lost' \in BOOLEAN /\ stale' \in 0 .. 2
        /\ started' \subseteq Starts /\ refired' \in BOOLEAN
        /\ g'.nodes = g.nodes /\ g'.links = g.links
    BY <1>1, <1>2, <2>2
  <2>5. QED BY <2>1, <2>2, <2>3, <2>4, ParkedInv
<1>4. CASE SyncEvents
  <2>1. pc \notin Chain /\ pc' \in Places \ Chain
    BY <1>4 DEF SyncEvents, Places, Chain, Choice
  <2>2. /\ UNCHANGED <<g, running_, polled, at, cur, origin, copied, pos, left>>
        /\ UNCHANGED <<pending, request, served, used, holds, alive, orphaned>>
        /\ UNCHANGED <<dangling, started, refired>>
        /\ ~unsynced' /\ ~lost' /\ stale' = 0 /\ armed' \subseteq Starts
        /\ unsynced' \in BOOLEAN /\ lost' \in BOOLEAN
    BY <1>2, <1>4 DEF SyncEvents, chainVars, choice, netVars, startHistory
  <2>3. SyncInv'
    BY <2>2 DEF SyncInv
  <2>4. /\ polled' \subseteq Events
        /\ at' \in Events \cup {NoNode} /\ pending' \in Seq(Nodes) /\ Sane(g')
        /\ running_' \in BOOLEAN /\ alive' \in BOOLEAN /\ stale' \in 0 .. 2
        /\ started' \subseteq Starts /\ refired' \in BOOLEAN
        /\ g'.nodes = g.nodes /\ g'.links = g.links
    BY <1>1, <1>2, <2>2
  <2>5. QED BY <2>1, <2>2, <2>3, <2>4, ParkedInv
<1>5. CASE BreakForSync \/ EndOfPass
  <2>1. /\ pc \notin Chain /\ pc' \in Places \ Chain
        /\ pc' = "drain" \/ (pc' = "poll" /\ ~g.dirty)
        /\ polled' \in {polled, {}} /\ at' = NoNode /\ alive' \in BOOLEAN
    BY <1>2, <1>5 DEF BreakForSync, EndOfPass, LeavePass, Places, Chain, Choice
  <2>2. /\ UNCHANGED <<g, running_, armed, cur, origin, copied, pos, left>>
        /\ UNCHANGED <<pending, request, served, used, holds, orphaned>>
        /\ UNCHANGED <<dangling, unsynced, lost, stale, started, refired>>
    BY <1>5 DEF BreakForSync, EndOfPass, LeavePass, chainVars, choice, netVars,
                history, syncHistory, startHistory
  <2>3. SyncInv'
    BY <1>1, <2>1, <2>2 DEF SyncInv
  <2>4. /\ polled' \subseteq Events /\ armed' \subseteq Starts
        /\ at' \in Events \cup {NoNode} /\ pending' \in Seq(Nodes) /\ Sane(g')
        /\ running_' \in BOOLEAN /\ unsynced' \in BOOLEAN
        /\ lost' \in BOOLEAN /\ stale' \in 0 .. 2
        /\ started' \subseteq Starts /\ refired' \in BOOLEAN
        /\ g'.nodes = g.nodes /\ g'.links = g.links
    BY <1>1, <1>2, <2>1, <2>2
  <2>5. QED BY <2>1, <2>2, <2>3, <2>4, ParkedInv
<1>6. CASE Exec
  <2>1. pc \notin Chain /\ pc' \in Places \ Chain /\ pc' \notin {"poll", "clearing"}
    BY <1>6 DEF Exec, Places, Chain, Choice
  <2>2. /\ UNCHANGED <<polled, armed, at, cur, origin, copied, pos, left>>
        /\ UNCHANGED <<pending, request, served, used, holds, alive, orphaned>>
        /\ UNCHANGED <<dangling, unsynced, lost, stale, refired>>
        /\ started' = {} /\ running_' \in BOOLEAN
    BY <1>6 DEF Exec, passVars, chainVars, choice, netVars, syncHistory
  <2>3. Sane(g') /\ g'.nodes = g.nodes /\ g'.links = g.links /\ g'.dirty
    BY <1>1, <1>6, Flagged DEF Exec
  <2>4. SyncInv'
    BY <1>1, <2>1, <2>2, <2>3 DEF SyncInv
  <2>5. /\ polled' \subseteq Events /\ armed' \subseteq Starts
        /\ at' \in Events \cup {NoNode} /\ pending' \in Seq(Nodes)
        /\ alive' \in BOOLEAN /\ unsynced' \in BOOLEAN
        /\ lost' \in BOOLEAN /\ stale' \in 0 .. 2
        /\ started' \subseteq Starts /\ refired' \in BOOLEAN
    BY <1>2, <2>2
  <2>6. QED BY <2>1, <2>2, <2>3, <2>4, <2>5, ParkedInv
<1>7. CASE ClearFlag
  <2>1. /\ pc \notin Chain /\ pc' \in Places \ Chain
        /\ pc = "clearing" /\ pc' = "poll"
    BY <1>7 DEF ClearFlag, Places, Chain, Choice
  <2>2. /\ UNCHANGED <<running_, polled, armed, at, cur, origin, copied, pos, left>>
        /\ UNCHANGED <<pending, request, served, used, holds, alive, orphaned>>
        /\ UNCHANGED <<dangling, unsynced, lost, stale, started, refired>>
    BY <1>7 DEF ClearFlag, passVars, chainVars, choice, netVars, history,
                syncHistory, startHistory
  <2>3. Sane(g') /\ g'.nodes = g.nodes /\ g'.links = g.links
    BY <1>1, <1>7 DEF ClearFlag, Sane, Graphs
  <2>4. SyncInv'
    BY <1>1, <2>1, <2>2 DEF SyncInv
  <2>5. /\ polled' \subseteq Events /\ armed' \subseteq Starts
        /\ at' \in Events \cup {NoNode} /\ pending' \in Seq(Nodes)
        /\ running_' \in BOOLEAN /\ alive' \in BOOLEAN /\ unsynced' \in BOOLEAN
        /\ lost' \in BOOLEAN /\ stale' \in 0 .. 2
        /\ started' \subseteq Starts /\ refired' \in BOOLEAN
    BY <1>2, <2>2
  <2>6. QED BY <2>1, <2>2, <2>3, <2>4, <2>5, ParkedInv
<1>8. QED BY <1>3, <1>4, <1>5, <1>6, <1>7

-----------------------------------------------------------------------------
(* The steps that start a chain, at a node of the graph. *)
LEMMA ChainStarts ==
  ASSUME IInv, pc \notin Chain,
         NEW n \in g.nodes, NEW from \in {"poll", "drain"}, StartChain(n, from),
         UNCHANGED <<g, copied, pos, left, request, served, used, holds, dangling>>,
         polled' \subseteq Events, armed' \subseteq Starts,
         at' \in Events \cup {NoNode}, pending' \in Seq(Nodes),
         running_' \in BOOLEAN, alive' \in BOOLEAN,
         SyncInv', unsynced' \in BOOLEAN, lost' \in BOOLEAN, stale' \in 0 .. 2,
         started' \subseteq Starts, refired' \in BOOLEAN
  PROVE  IInv'
<1>1. /\ pc' = "enter" /\ cur' = n /\ origin' = from /\ orphaned' = FALSE
      /\ pc' \in Places /\ n \in Nodes
  BY DEF StartChain, Places, Chain, IInv, TypeOK, Graphs
<1>2. TypeOK'
  BY <1>1 DEF IInv, TypeOK
<1>3. GraphInv'
  BY DEF IInv, GraphInv
<1>4. EnteredNodesBelong'
  BY <1>1 DEF EnteredNodesBelong
<1>5. copied' = <<>> /\ pos' = 1 /\ left' = 0
  BY NothingHeld DEF IInv
<1>6. PlaceInv' /\ FreshInv' /\ CopiesBelong' /\ ChoiceInv'
  BY <1>1, <1>5 DEF PlaceInv, FreshInv, CopiesBelong, ChoiceInv, Choosing, Counting, Loading
<1>7. QED BY <1>2, <1>3, <1>4, <1>6 DEF IInv

LEMMA CheckInv ==
  ASSUME IInv, NEW e \in Events, Check(e)
  PROVE  IInv'
<1>1. TypeOK /\ Sane(g) /\ SyncInv /\ e \in g.nodes
  BY DEF IInv, GraphInv, Check, ToPoll, TypeOK, Graphs
<1>2. /\ pc = "poll" /\ pc \notin Chain
      /\ polled' = polled \cup {e} /\ armed' = armed \ {e}
      /\ started' = started \cup ({e} \cap Starts)
      /\ refired' = (refired \/ e \in started)
      /\ stale' = IF unsynced /\ ~lost /\ stale < 2 THEN stale + 1 ELSE stale
      /\ at' = e
      /\ UNCHANGED <<g, running_, copied, pos, left, pending, request, served, used>>
      /\ UNCHANGED <<holds, alive, dangling, unsynced, lost>>
  BY DEF Check, Chain, Choice, choice, netVars
<1>3. /\ polled' \subseteq Events /\ armed' \subseteq Starts
      /\ at' \in Events \cup {NoNode} /\ pending' \in Seq(Nodes)
      /\ running_' \in BOOLEAN /\ alive' \in BOOLEAN /\ unsynced' \in BOOLEAN
      /\ lost' \in BOOLEAN /\ started' \subseteq Starts /\ refired' \in BOOLEAN
  BY <1>1, <1>2 DEF TypeOK
<1>4. stale' \in 0 .. 2
  BY <1>1, <1>2 DEF TypeOK
<1>5. pc' # "poll" /\ pc' # "clearing"
  BY DEF Check, StartChain
<1>6. SyncInv'
  BY <1>1, <1>2, <1>4, <1>5 DEF SyncInv, TypeOK
<1>7. CASE StartChain(e, "poll")
  BY <1>1, <1>2, <1>3, <1>4, <1>6, <1>7, ChainStarts
<1>8. CASE pc' = "broke" /\ UNCHANGED <<cur, origin, orphaned>>
  <2>1. pc' \in Places \ Chain
    BY <1>8 DEF Places, Chain, Choice
  <2>2. QED BY <1>1, <1>2, <1>3, <1>4, <1>6, <1>8, <2>1, ParkedInv
<1>9. QED BY <1>7, <1>8 DEF Check

LEMMA TakePendingInv ==
  ASSUME IInv, TakePending
  PROVE  IInv'
<1>1. TypeOK /\ Sane(g) /\ SyncInv
  BY DEF IInv, GraphInv
<1>2. /\ pc = "draining" /\ pc \notin Chain /\ pc \in Places \ Chain
      /\ pending # <<>> /\ pending' = Tail(pending)
      /\ UNCHANGED <<g, running_, polled, armed, at, copied, pos, left>>
      /\ UNCHANGED <<request, served, used, holds, alive, dangling>>
      /\ UNCHANGED <<unsynced, lost, stale, started, refired>>
  BY DEF TakePending, Places, Chain, Choice, passVars, choice, netVars, syncHistory,
         startHistory
<1>3. /\ polled' \subseteq Events /\ armed' \subseteq Starts
      /\ at' \in Events \cup {NoNode}
      /\ running_' \in BOOLEAN /\ alive' \in BOOLEAN /\ unsynced' \in BOOLEAN
      /\ lost' \in BOOLEAN /\ started' \subseteq Starts /\ refired' \in BOOLEAN
      /\ stale' \in 0 .. 2
  BY <1>1, <1>2 DEF TypeOK
<1>4. pending' \in Seq(Nodes)
  BY <1>1, <1>2 DEF TypeOK
<1>5. pc' # "poll" /\ pc' # "clearing"
  BY <1>2 DEF TakePending, StartChain
<1>6. SyncInv'
  BY <1>1, <1>2, <1>5 DEF SyncInv
<1>7. CASE Head(pending) \in g.nodes
  <2>1. StartChain(Head(pending), "drain")
    BY <1>7 DEF TakePending
  <2>2. QED BY <1>2, <1>3, <1>4, <1>6, <1>7, <2>1, ChainStarts
<1>8. CASE Head(pending) \notin g.nodes
  <2>1. UNCHANGED <<pc, cur, origin, orphaned>>
    BY <1>8 DEF TakePending
  <2>2. QED BY <1>1, <1>2, <1>3, <1>4, <1>6, <2>1, ParkedInv
<1>9. QED BY <1>7, <1>8

-----------------------------------------------------------------------------
(* A step within a chain that leaves the graph alone. *)
LEMMA ChainStepInv ==
  ASSUME IInv, pc' \in Chain, pc' # "loading", running_' \in BOOLEAN,
         UNCHANGED <<g, polled, armed, at, origin, pending, request, served, used>>,
         UNCHANGED <<holds, alive, orphaned, dangling, unsynced, lost, stale>>,
         UNCHANGED <<started, refired>>,
         cur' \in Nodes, cur' \in g.nodes \/ orphaned \/ dangling,
         copied' \in Seq(Copies), pos' \in Nat \ {0}, left' \in Nat,
         PlaceInv', CopiesBelong', ChoiceInv'
  PROVE  IInv'
<1>1. TypeOK'
  BY DEF IInv, TypeOK, Places
<1>2. GraphInv'
  BY DEF IInv, GraphInv
<1>3. EnteredNodesBelong'
  BY DEF EnteredNodesBelong
<1>4. pc' # "poll" /\ pc' # "clearing"
  BY DEF Chain, Choice
<1>5. SyncInv'
  BY <1>4 DEF IInv, SyncInv
<1>6. FreshInv'
  BY DEF FreshInv
<1>7. QED BY <1>1, <1>2, <1>3, <1>5, <1>6 DEF IInv

(* What stays when a chain only moves.                                     *)
LEMMA ChainFrame ==
  ASSUME UNCHANGED chainFrame
  PROVE  /\ UNCHANGED <<g, running_, polled, armed, at, pending, request, served, used>>
         /\ UNCHANGED <<holds, alive, dangling, unsynced, lost, stale, started, refired>>
BY DEF chainFrame, passVars, netVars, syncHistory, startHistory

LEMMA InChain ==
  ASSUME IInv, pc \in Chain
  PROVE  cur \in Nodes /\ (cur \in g.nodes \/ orphaned \/ dangling)
BY DEF IInv, TypeOK, EnteredNodesBelong

LEMMA EndChainInv ==
  ASSUME IInv, pc \in Chain, EndChain, UNCHANGED chainFrame
  PROVE  IInv'
<1>1. /\ pc' \in {"broke", "draining"} /\ cur' = NoNode /\ origin' = "poll"
      /\ orphaned' = FALSE /\ copied' = <<>> /\ pos' = 1 /\ left' = 0
  BY DEF EndChain, Leave
<1>2. /\ UNCHANGED <<g, running_, polled, armed, at, pending, request, served, used>>
      /\ UNCHANGED <<holds, alive, dangling, unsynced, lost, stale, started, refired>>
  BY ChainFrame
<1>3. pc' \in Places \ Chain /\ pc' # "poll" /\ pc' # "clearing"
  BY <1>1 DEF Places, Chain, Choice
<1>4. TypeOK'
  <2>1. copied' \in Seq(Copies) /\ pos' \in Nat \ {0} /\ left' \in Nat
    BY <1>1
  <2>2. /\ cur' \in Nodes \cup {NoNode} /\ (pc' \in Chain => cur' \in Nodes)
        /\ origin' \in {"poll", "drain"} /\ orphaned' \in BOOLEAN
    BY <1>1, <1>3
  <2>3. QED BY <1>2, <1>3, <2>1, <2>2 DEF IInv, TypeOK
<1>5. GraphInv'
  BY <1>2 DEF IInv, GraphInv
<1>6. EnteredNodesBelong'
  BY <1>3 DEF EnteredNodesBelong
<1>7. SyncInv'
  BY <1>2, <1>3 DEF IInv, SyncInv
<1>8. PlaceInv' /\ FreshInv' /\ CopiesBelong' /\ ChoiceInv'
  BY <1>1 DEF PlaceInv, FreshInv, CopiesBelong, ChoiceInv, Choosing, Counting, Loading
<1>9. QED BY <1>4, <1>5, <1>6, <1>7, <1>8 DEF IInv

LEMMA FollowInv ==
  ASSUME IInv, pc \in Chain, NEW i \in 1 .. Len(copied), Follow(copied[i].to),
         UNCHANGED chainFrame
  PROVE  IInv'
<1>1. /\ pc' = "enter" /\ cur' = copied[i].to /\ UNCHANGED <<origin, orphaned>>
      /\ copied' = <<>> /\ pos' = 1 /\ left' = 0
  BY DEF Follow, Leave
<1>2. copied[i] \in Copies
  BY DEF IInv, TypeOK
<1>3. cur' \in Nodes /\ (cur' \in g.nodes \/ orphaned \/ dangling)
  BY <1>1, <1>2 DEF Copies, IInv, CopiesBelong
<1>4. PlaceInv' /\ CopiesBelong' /\ ChoiceInv'
  BY <1>1 DEF PlaceInv, CopiesBelong, ChoiceInv, Choosing, Counting, Loading
<1>5. running_' \in BOOLEAN /\ pc' \in Chain /\ pc' # "loading"
  BY <1>1, ChainFrame DEF IInv, TypeOK, Chain
<1>6. copied' \in Seq(Copies) /\ pos' \in Nat \ {0} /\ left' \in Nat
  BY <1>1
<1>7. QED BY <1>1, <1>3, <1>4, <1>5, <1>6, ChainFrame, ChainStepInv

(* A step in the choice that only goes on in the copy. *)
LEMMA ChoosingInv ==
  ASSUME IInv, pc \in Choosing, pc' \in Choosing, UNCHANGED chainFrame,
         UNCHANGED <<cur, origin, copied, orphaned>>,
         pos' \in 1 .. Len(copied), left' \in Nat, pc' = "guards" => left' = 0,
         ChoiceInv'
  PROVE  IInv'
<1>1. pc \in Chain /\ pc' \in Chain /\ pc' # "loading"
  BY DEF Choosing, Counting, Chain, Choice
<1>2. running_' \in BOOLEAN /\ copied' \in Seq(Copies) /\ pos' \in Nat \ {0}
  BY ChainFrame DEF IInv, TypeOK
<1>3. PlaceInv'
  BY DEF PlaceInv, Choosing, Counting, Loading
<1>4. CopiesBelong'
  BY ChainFrame DEF IInv, CopiesBelong
<1>5. cur' \in Nodes /\ (cur' \in g.nodes \/ orphaned \/ dangling)
  BY <1>1, InChain
<1>6. QED BY <1>1, <1>2, <1>3, <1>4, <1>5, ChainFrame, ChainStepInv

(* The places of s before, and from, place p.                              *)
Below(s, p) == {i \in s : i < p}
Above(s, p) == {i \in s : i >= p}

LEMMA AllPlaces ==
  ASSUME NEW n \in Nat, NEW s, s \subseteq 1 .. n, NEW q, q = n + 1
  PROVE  Below(s, 1) = {} /\ Below(s, q) = s /\ Above(s, 1) = s /\ Above(s, q) = {}
<1>1. \A i \in s : ~(i < 1) /\ i < q /\ i >= 1 /\ ~(i >= q)
  OBVIOUS
<1>2. QED BY <1>1, Zenon DEF Below, Above

(* The connections without a guard before, and from, a place in the copy.  *)
OpenBefore(p) == Below(Open, p)
OpenFrom(p) == Above(Open, p)

LEMMA OpenFinite ==
  ASSUME TypeOK, NEW p \in Nat
  PROVE  /\ IsFiniteSet(Open) /\ IsFiniteSet(OpenBefore(p)) /\ IsFiniteSet(OpenFrom(p))
         /\ Cardinality(Open) \in Nat
         /\ Cardinality(OpenBefore(p)) \in Nat /\ Cardinality(OpenFrom(p)) \in Nat
<1>1. Len(copied) \in Nat
  BY DEF TypeOK
<1>2. IsFiniteSet(1 .. Len(copied))
  BY <1>1, FS_Interval
<1>3. /\ Open \subseteq 1 .. Len(copied)
      /\ OpenBefore(p) \subseteq 1 .. Len(copied) /\ OpenFrom(p) \subseteq 1 .. Len(copied)
  BY DEF Open, OpenBefore, OpenFrom, Below, Above
<1>4. IsFiniteSet(Open) /\ IsFiniteSet(OpenBefore(p)) /\ IsFiniteSet(OpenFrom(p))
  BY <1>2, <1>3, FS_Subset
<1>5. QED BY <1>4, FS_CardinalityType

LEMMA OneMoreOpen ==
  ASSUME TypeOK, NEW p \in 1 .. Len(copied)
  PROVE  /\ p \in Open =>
              /\ Cardinality(OpenBefore(p + 1)) = Cardinality(OpenBefore(p)) + 1
              /\ Cardinality(OpenFrom(p)) = Cardinality(OpenFrom(p + 1)) + 1
         /\ p \notin Open =>
              OpenBefore(p + 1) = OpenBefore(p) /\ OpenFrom(p) = OpenFrom(p + 1)
<1> DEFINE q == p + 1
<1>1. /\ Len(copied) \in Nat /\ Open \subseteq 1 .. Len(copied) /\ p \in Nat
      /\ q \in Nat /\ q = p + 1
  BY DEF TypeOK, Open
<1> HIDE DEF q
<1>2. /\ p \in Open => /\ OpenBefore(q) = OpenBefore(p) \cup {p}
                       /\ OpenFrom(p) = OpenFrom(q) \cup {p}
      /\ p \notin Open => OpenBefore(q) = OpenBefore(p) /\ OpenFrom(p) = OpenFrom(q)
  <2>1. \A i \in Nat : /\ i < q <=> (i < p \/ i = p)
                       /\ i >= p <=> (i >= q \/ i = p)
    BY <1>1
  <2>2. \A i \in Open : /\ i < q <=> (i < p \/ i = p)
                        /\ i >= p <=> (i >= q \/ i = p)
    BY <1>1, <2>1
  <2>3. QED BY <2>2, Zenon DEF OpenBefore, OpenFrom, Below, Above
<1>3. p \notin OpenBefore(p) /\ p \notin OpenFrom(q)
  BY <1>1 DEF OpenBefore, OpenFrom, Below, Above
<1>4. IsFiniteSet(OpenBefore(p)) /\ IsFiniteSet(OpenFrom(q))
  BY <1>1, OpenFinite
<1>5. /\ Cardinality(OpenBefore(p) \cup {p}) = Cardinality(OpenBefore(p)) + 1
      /\ Cardinality(OpenFrom(q) \cup {p}) = Cardinality(OpenFrom(q)) + 1
  BY <1>3, <1>4, FS_AddElement
<1>6. QED BY <1>2, <1>5 DEF q

LEMMA AllOpen ==
  ASSUME TypeOK
  PROVE  /\ OpenBefore(1) = {} /\ OpenBefore(Len(copied) + 1) = Open
         /\ OpenFrom(1) = Open /\ OpenFrom(Len(copied) + 1) = {}
         /\ Cardinality({}) = 0 /\ (Cardinality(Open) = 0 => Open = {})
<1>1. Len(copied) \in Nat /\ Open \subseteq 1 .. Len(copied)
  BY DEF TypeOK, Open
<1>2. /\ OpenBefore(1) = {} /\ OpenBefore(Len(copied) + 1) = Open
      /\ OpenFrom(1) = Open /\ OpenFrom(Len(copied) + 1) = {}
  BY <1>1, AllPlaces DEF OpenBefore, OpenFrom
<1>3. IsFiniteSet(Open) /\ Cardinality({}) = 0
  BY OpenFinite, FS_EmptySet
<1>4. Cardinality(Open) = 0 => Open = {}
  BY <1>3, FS_EmptySet
<1>5. QED BY <1>2, <1>3, <1>4

(* When no connection got or lost its guard, the open ones are those that  *)
(* have none now.                                                          *)
LEMMA OpenIsFree ==
  ASSUME IInv, pc \in Choosing, NEW i \in 1 .. Len(copied)
  PROVE  /\ copied[i] \in Copies /\ Status(copied[i], holds) \in copied[i].seen
         /\ Mixed = {} => (i \in Open <=> copied[i].guard = NoGuard)
         /\ copied[i].guard = NoGuard => Status(copied[i], holds) = "free"
         /\ copied[i].guard \in holds => Status(copied[i], holds) = "holds"
<1>1. copied[i] \in Copies /\ holds \subseteq Guards
  BY DEF IInv, TypeOK
<1>2. Status(copied[i], holds) \in copied[i].seen
  BY DEF IInv, ChoiceInv
<1>3. /\ copied[i].guard = NoGuard => Status(copied[i], holds) = "free"
      /\ copied[i].guard \in holds => Status(copied[i], holds) = "holds"
      /\ Status(copied[i], holds) = "free" => copied[i].guard = NoGuard
  BY <1>1, GuardAssumption DEF Status
<1>4. Mixed = {} => (i \in Open <=> copied[i].guard = NoGuard)
  BY <1>2, <1>3 DEF Open, Mixed
<1>5. QED BY <1>1, <1>2, <1>3, <1>4

LEMMA CopyLinksInv ==
  ASSUME IInv, CopyLinks
  PROVE  IInv'
<1> DEFINE link == g.links[cur]
<1>1. pc = "choose" /\ pc \in Chain /\ UNCHANGED chainFrame /\ pos = 1 /\ left = 0
  BY DEF CopyLinks, Chain, Choice, IInv, PlaceInv, Choosing, Counting, Loading
<1>2. cur \in Nodes /\ (cur \in g.nodes \/ orphaned \/ dangling)
  BY <1>1, InChain
<1>3. CASE link = <<>>
  <2>1. EndChain
    BY <1>3 DEF CopyLinks
  <2>2. QED BY <1>1, <2>1, EndChainInv
<1>4. CASE link # <<>>
  <2>1. /\ pc' = "guards" /\ UNCHANGED <<cur, origin, pos, left, orphaned>>
        /\ copied' = [i \in 1 .. Len(link) |->
             [to |-> link[i].to, guard |-> link[i].guard, mine |-> TRUE,
              seen |-> {Status(link[i], holds)}]]
    BY <1>4 DEF CopyLinks
  <2>2. link \in Seq(Links) /\ Len(link) \in Nat /\ Len(link) # 0
    BY <1>2, <1>4 DEF IInv, TypeOK, Graphs
  <2>3. \A i \in 1 .. Len(link) : link[i] \in Links
    BY <2>2
  <2>4. \A i \in 1 .. Len(link) : Status(link[i], holds) \in {"free", "holds", "fails"}
    BY DEF Status
  <2>5. ASSUME NEW i \in 1 .. Len(link)
        PROVE  /\ copied'[i] \in Copies /\ copied'[i].to = link[i].to
               /\ copied'[i].seen = {Status(copied'[i], holds)}
    <3>1. link[i].to \in Nodes /\ link[i].guard \in Guards \cup {NoGuard}
      BY <2>3 DEF Links
    <3>2. copied'[i] = [to |-> link[i].to, guard |-> link[i].guard, mine |-> TRUE,
                        seen |-> {Status(link[i], holds)}]
      BY <2>1
    <3>3. Status(copied'[i], holds) = Status(link[i], holds)
      BY <3>2 DEF Status
    <3>4. {Status(link[i], holds)} \in SUBSET {"free", "holds", "fails"}
      BY <2>4
    <3>5. copied'[i] \in Copies
      BY <3>1, <3>2, <3>4 DEF Copies
    <3>6. copied'[i].to = link[i].to /\ copied'[i].seen = {Status(link[i], holds)}
      BY <3>2
    <3>7. QED BY <3>3, <3>5, <3>6
  <2>6. copied' \in Seq(Copies) /\ Len(copied') = Len(link)
    <3>1. copied' \in [1 .. Len(link) -> Copies]
      BY <2>1, <2>5
    <3>2. QED BY <2>2, <3>1
  <2>7. UNCHANGED <<g, holds, dangling>> /\ UNCHANGED orphaned /\ pos' = 1 /\ left' = 0
    BY <1>1, <2>1, ChainFrame
  <2>8. CopiesBelong'
    <3> SUFFICES ASSUME NEW i \in 1 .. Len(link)
                 PROVE  link[i].to \in g.nodes \/ orphaned \/ dangling
      BY <2>5, <2>6, <2>7 DEF CopiesBelong
    <3>1. link[i].to \in Targets(g, cur)
      BY DEF Targets
    <3>2. QED BY <1>2, <3>1 DEF IInv, GraphInv, Closed
  <2>9. ChoiceInv'
    <3>1. \A i \in 1 .. Len(copied') : Status(copied'[i], holds') \in copied'[i].seen
      BY <2>5, <2>6, <2>7
    <3>2. pc' = "guards" /\ \A i \in 1 .. Len(copied') : ~(i < pos')
      BY <2>1, <2>2, <2>6, <2>7
    <3>3. QED BY <3>1, <3>2 DEF ChoiceInv
  <2>10. PlaceInv'
    BY <2>1, <2>2, <2>6, <2>7 DEF PlaceInv, Choosing, Counting, Loading
  <2>11. /\ pc' \in Chain /\ pc' # "loading" /\ running_' \in BOOLEAN /\ pos' \in Nat \ {0} /\ left' \in Nat
         /\ cur' \in Nodes /\ (cur' \in g.nodes \/ orphaned \/ dangling)
    BY <1>1, <1>2, <2>1, <2>7, ChainFrame DEF Chain, Choice, IInv, TypeOK
  <2>12. QED BY <1>1, <2>1, <2>6, <2>8, <2>9, <2>10, <2>11, ChainFrame, ChainStepInv
<1>5. QED BY <1>3, <1>4

LEMMA TestGuardInv ==
  ASSUME IInv, TestGuard
  PROVE  IInv'
<1>1. /\ pc = "guards" /\ pc \in Chain /\ pc \in Choosing /\ UNCHANGED chainFrame
      /\ left = 0 /\ pos \in 1 .. Len(copied) /\ Len(copied) \in Nat
  BY DEF TestGuard, Chain, Choice, IInv, TypeOK, PlaceInv, Choosing, Counting
<1>2. CASE GuardHolds(copied[pos])
  BY <1>1, <1>2, FollowInv DEF TestGuard
<1>3. CASE ~GuardHolds(copied[pos])
  <2>1. /\ IF pos < Len(copied) THEN pos' = pos + 1 /\ UNCHANGED pc
                                ELSE pos' = 1 /\ pc' = "count"
        /\ UNCHANGED <<cur, origin, copied, left, orphaned>> /\ UNCHANGED holds
    BY <1>1, <1>3, ChainFrame DEF TestGuard
  <2>2. copied[pos].seen # {"holds"}
    <3>1. Status(copied[pos], holds) # "holds"
      BY <1>3 DEF GuardHolds, Status
    <3>2. QED BY <1>1, <3>1, OpenIsFree
  <2>3. pc' \in Choosing /\ pos' \in 1 .. Len(copied) /\ left' = 0
    BY <1>1, <2>1 DEF Choosing, Counting
  <2>4. ChoiceInv'
    <3>1. \A i \in 1 .. Len(copied) :
            /\ Status(copied[i], holds) \in copied[i].seen
            /\ i < pos => copied[i].seen # {"holds"}
      BY <1>1 DEF IInv, ChoiceInv
    <3>2. CASE pos < Len(copied)
      BY <1>1, <2>1, <2>2, <3>1, <3>2 DEF ChoiceInv
    <3>3. CASE ~(pos < Len(copied))
      <4>1. Cardinality({i \in Open : i < 1}) = 0
        BY AllOpen DEF OpenBefore, Below, IInv
      <4>2. Mixed' = Mixed /\ Open' = Open
        BY <2>1 DEF Mixed, Open
      <4>3. \A i \in 1 .. Len(copied) : copied[i].seen # {"holds"}
        BY <1>1, <2>2, <3>1, <3>3
      <4>4. pc' = "count" /\ pos' = 1
        BY <2>1, <3>3
      <4>5. QED BY <1>1, <2>1, <3>1, <4>1, <4>2, <4>3, <4>4 DEF ChoiceInv
    <3>4. QED BY <3>2, <3>3
  <2>5. QED BY <1>1, <2>1, <2>3, <2>4, ChoosingInv
<1>4. QED BY <1>2, <1>3

(* Where the count and the draw are, in terms of the sets above. *)
LEMMA Counted ==
  ASSUME IInv, pc \in Counting
  PROVE  /\ pos \in 1 .. Len(copied) /\ Len(copied) \in Nat /\ left \in Nat
         /\ pc \in Choosing /\ pc \in Chain
         /\ \A i \in 1 .. Len(copied) :
              /\ Status(copied[i], holds) \in copied[i].seen
              /\ copied[i].seen # {"holds"}
         /\ Held = {}
         /\ Mixed = {} /\ pc = "count" => left = Cardinality(OpenBefore(pos))
         /\ Mixed = {} /\ pc = "pick" => left < Cardinality(OpenFrom(pos))
<1>1. pc \in Choosing /\ pc # "guards" /\ pc \in Chain
  BY DEF Choosing, Counting, Chain, Choice
<1>2. pos \in 1 .. Len(copied) /\ Len(copied) \in Nat /\ left \in Nat
  BY <1>1 DEF IInv, TypeOK, PlaceInv
<1>3. \A i \in 1 .. Len(copied) :
        Status(copied[i], holds) \in copied[i].seen /\ copied[i].seen # {"holds"}
  BY <1>1 DEF IInv, ChoiceInv
<1>4. /\ Mixed = {} /\ pc = "count" => left = Cardinality(OpenBefore(pos))
      /\ Mixed = {} /\ pc = "pick" => left < Cardinality(OpenFrom(pos))
  BY <1>1 DEF IInv, ChoiceInv, OpenBefore, OpenFrom, Below, Above
<1>5. Held = {}
  BY <1>3 DEF Held
<1>6. QED BY <1>1, <1>2, <1>3, <1>4, <1>5

(* After the last connection the count is that of all of them. *)
LEMMA CountedAll ==
  ASSUME IInv, pc = "count", Mixed = {},
         NEW n, n = IF copied[pos].guard = NoGuard THEN left + 1 ELSE left
  PROVE  /\ n = Cardinality(OpenBefore(pos + 1))
         /\ pos = Len(copied) => n = Cardinality(Open)
<1>1. /\ pos \in 1 .. Len(copied) /\ Len(copied) \in Nat /\ pc \in Choosing
      /\ left = Cardinality(OpenBefore(pos)) /\ left \in Nat
  BY Counted DEF Counting
<1>2. pos \in Open <=> copied[pos].guard = NoGuard
  BY <1>1, OpenIsFree
<1>3. n = Cardinality(OpenBefore(pos + 1))
  BY <1>1, <1>2, OneMoreOpen DEF IInv
<1>4. OpenBefore(Len(copied) + 1) = Open
  BY AllOpen DEF IInv
<1>5. QED BY <1>3, <1>4

LEMMA CountFreeInv ==
  ASSUME IInv, CountFree
  PROVE  IInv'
<1> DEFINE n == IF copied[pos].guard = NoGuard THEN left + 1 ELSE left
<1>1. pc = "count" /\ pc \in Counting /\ UNCHANGED chainFrame
  BY DEF CountFree, Counting
<1>2. /\ pos \in 1 .. Len(copied) /\ Len(copied) \in Nat /\ left \in Nat
      /\ pc \in Choosing /\ pc \in Chain
      /\ \A i \in 1 .. Len(copied) :
           Status(copied[i], holds) \in copied[i].seen /\ copied[i].seen # {"holds"}
  BY <1>1, Counted
<1>3. /\ n \in Nat
      /\ Mixed = {} => /\ n = Cardinality(OpenBefore(pos + 1))
                       /\ pos = Len(copied) => n = Cardinality(Open)
  BY <1>1, <1>2, CountedAll
<1>4. IF pos < Len(copied)
      THEN pos' = pos + 1 /\ left' = n /\ UNCHANGED <<pc, cur, origin, copied, orphaned>>
      ELSE IF n = 0 THEN EndChain
      ELSE IF cur \in Events THEN Follow(copied[1].to)
      ELSE /\ pc' = "pick" /\ pos' = 1 /\ left' \in 0 .. n - 1
           /\ UNCHANGED <<cur, origin, copied, orphaned>>
  BY DEF CountFree
<1> HIDE DEF n
<1>5. UNCHANGED holds
  BY <1>1, ChainFrame
<1>6. CASE pos < Len(copied)
  <2>1. /\ pos' = pos + 1 /\ left' = n /\ pc' = "count"
        /\ UNCHANGED <<cur, origin, copied, orphaned>>
    BY <1>1, <1>4, <1>6
  <2>2. Mixed' = Mixed /\ Open' = Open
    BY <2>1 DEF Mixed, Open
  <2>3. Mixed = {} => left' = Cardinality({i \in Open : i < pos'})
    BY <1>3, <2>1 DEF OpenBefore, Below
  <2>4. ChoiceInv'
    BY <1>2, <1>5, <2>1, <2>2, <2>3 DEF ChoiceInv
  <2>5. pc' \in Choosing /\ pos' \in 1 .. Len(copied) /\ left' \in Nat /\ pc' # "guards"
    BY <1>2, <1>3, <1>6, <2>1 DEF Choosing, Counting
  <2>6. QED BY <1>1, <1>2, <2>1, <2>4, <2>5, ChoosingInv
<1>7. CASE ~(pos < Len(copied)) /\ n = 0
  BY <1>1, <1>2, <1>4, <1>7, EndChainInv
<1>8. CASE ~(pos < Len(copied)) /\ n # 0 /\ cur \in Events
  <2>1. 1 \in 1 .. Len(copied) /\ Follow(copied[1].to)
    BY <1>2, <1>4, <1>8
  <2>2. QED BY <1>1, <1>2, <2>1, FollowInv
<1>9. CASE ~(pos < Len(copied)) /\ n # 0 /\ cur \notin Events
  <2>1. /\ pc' = "pick" /\ pos' = 1 /\ left' \in 0 .. n - 1
        /\ UNCHANGED <<cur, origin, copied, orphaned>>
    BY <1>4, <1>9
  <2>2. Mixed' = Mixed /\ Open' = Open
    BY <2>1 DEF Mixed, Open
  <2>3. pos = Len(copied) /\ left' \in Nat /\ left' < n
    BY <1>2, <1>3, <1>9, <2>1
  <2>4. OpenFrom(1) = Open
    BY AllOpen DEF IInv
  <2>5. Mixed = {} => left' < Cardinality({i \in Open : i >= pos'})
    BY <1>3, <2>1, <2>3, <2>4 DEF OpenFrom, Above
  <2>6. ChoiceInv'
    BY <1>2, <1>5, <2>1, <2>2, <2>5 DEF ChoiceInv
  <2>7. pc' \in Choosing /\ pos' \in 1 .. Len(copied) /\ pc' # "guards"
    BY <1>2, <2>1 DEF Choosing, Counting
  <2>8. QED BY <1>1, <1>2, <2>1, <2>3, <2>6, <2>7, ChoosingInv
<1>10. QED BY <1>6, <1>7, <1>8, <1>9

LEMMA PickFreeInv ==
  ASSUME IInv, PickFree
  PROVE  IInv'
<1> DEFINE free == copied[pos].guard = NoGuard
<1>1. pc = "pick" /\ pc \in Counting /\ UNCHANGED chainFrame
  BY DEF PickFree, Counting
<1>2. /\ pos \in 1 .. Len(copied) /\ Len(copied) \in Nat /\ left \in Nat
      /\ pc \in Choosing /\ pc \in Chain
      /\ \A i \in 1 .. Len(copied) :
           Status(copied[i], holds) \in copied[i].seen /\ copied[i].seen # {"holds"}
      /\ Mixed = {} => left < Cardinality(OpenFrom(pos))
  BY <1>1, Counted
<1>3. CASE free /\ left = 0
  BY <1>1, <1>2, <1>3, FollowInv DEF PickFree
<1>4. CASE ~(free /\ left = 0) /\ ~(pos < Len(copied))
  <2>1. EndChain
    BY <1>4 DEF PickFree
  <2>2. QED BY <1>1, <1>2, <2>1, EndChainInv
<1>5. CASE ~(free /\ left = 0) /\ pos < Len(copied)
  <2>1. /\ pos' = pos + 1 /\ left' = (IF free THEN left - 1 ELSE left) /\ pc' = "pick"
        /\ UNCHANGED <<cur, origin, copied, orphaned>> /\ UNCHANGED holds
    BY <1>1, <1>5, ChainFrame DEF PickFree
  <2>2. Mixed' = Mixed /\ Open' = Open
    BY <2>1 DEF Mixed, Open
  <2>3. Mixed = {} => (pos \in Open <=> free)
    BY <1>2, OpenIsFree
  <2>4. Cardinality(OpenFrom(pos)) \in Nat /\ Cardinality(OpenFrom(pos + 1)) \in Nat
    <3>1. TypeOK /\ pos \in Nat /\ pos + 1 \in Nat
      BY <1>2 DEF IInv
    <3>2. QED BY <3>1, OpenFinite
  <2>5. Mixed = {} => left' < Cardinality(OpenFrom(pos + 1))
    <3>1. /\ pos \in Open =>
               Cardinality(OpenFrom(pos)) = Cardinality(OpenFrom(pos + 1)) + 1
          /\ pos \notin Open => OpenFrom(pos) = OpenFrom(pos + 1)
      BY <1>2, OneMoreOpen DEF IInv
    <3>2. QED BY <1>2, <1>5, <2>1, <2>3, <2>4, <3>1
  <2>6. ChoiceInv'
    BY <1>2, <2>1, <2>2, <2>5 DEF ChoiceInv, OpenFrom, Above
  <2>7. pc' \in Choosing /\ pos' \in 1 .. Len(copied) /\ left' \in Nat /\ pc' # "guards"
    BY <1>2, <1>5, <2>1 DEF Choosing, Counting
  <2>8. QED BY <1>1, <1>2, <2>1, <2>6, <2>7, ChoosingInv
<1>6. QED BY <1>3, <1>4, <1>5

-----------------------------------------------------------------------------
(* What a change of the graph, at any place of exec, means for the sync.   *)
LEMMA EditSync ==
  ASSUME IInv, GraphChanged, pc' = pc \/ (pc \in Chain /\ pc' \in Chain)
  PROVE  SyncInv' /\ unsynced' \in BOOLEAN /\ lost' \in BOOLEAN /\ stale' \in 0 .. 2
<1>1. /\ SyncInv /\ unsynced \in BOOLEAN /\ lost \in BOOLEAN /\ stale \in 0 .. 2
      /\ (pc' = "poll" => pc = "poll") /\ (pc' = "clearing" => pc = "clearing")
  BY DEF IInv, TypeOK, Chain, Choice
<1>2. CASE g' = g
  <2>1. UNCHANGED <<g, unsynced, lost, stale>>
    BY <1>2 DEF GraphChanged, syncHistory
  <2>2. QED BY <1>1, <2>1 DEF SyncInv
<1>3. CASE g' # g
  <2>1. /\ unsynced' = TRUE /\ lost' = (lost \/ pc = "clearing" \/ ~g'.dirty)
        /\ stale' = IF lost' THEN 0 ELSE stale
    BY <1>3 DEF GraphChanged
  <2>2. unsynced' \in BOOLEAN /\ lost' \in BOOLEAN /\ stale' \in 0 .. 2
    BY <1>1, <2>1
  <2>3. SyncInv'
    BY <1>1, <2>1 DEF SyncInv
  <2>4. QED BY <2>2, <2>3
<1>4. QED BY <1>2, <1>3

(* A change of the graph, by exec or by a request: what is left to show.   *)
LEMMA EditInv ==
  ASSUME IInv, GraphChanged,
         pc' = pc \/ (pc \in Chain /\ pc' \in Chain),
         UNCHANGED <<cur, origin, polled, at, holds, started, refired>>,
         running_' \in BOOLEAN, alive' \in BOOLEAN,
         orphaned' \in BOOLEAN, dangling' \in BOOLEAN,
         Sane(g'), pc \in Chain => g.nodes \subseteq g'.nodes \/ orphaned',
         orphaned => orphaned', dangling => dangling', ~dangling' => Closed(g'),
         pending' \in Seq(Nodes), armed' \subseteq Starts,
         request' \in [Clients -> Serving \cup {NoRequest}],
         served' \in 0 .. MaxRequests, used' \subseteq Nodes,
         g'.nodes \subseteq used', \A n \in Nodes \ used' : g'.links[n] = <<>>,
         \A c \in Clients : request'[c] # NoRequest => request'[c].node \in used',
         copied' \in Seq(Copies), pos' \in Nat \ {0}, left' \in Nat,
         PlaceInv', FreshInv', CopiesBelong', ChoiceInv'
  PROVE  IInv'
<1>1. /\ SyncInv'
      /\ unsynced' \in BOOLEAN /\ lost' \in BOOLEAN /\ stale' \in 0 .. 2
  BY EditSync
<1>2. g' \in Graphs /\ pc' \in Places /\ (pc' \in Chain => cur' \in Nodes)
  BY DEF Sane, Places, IInv, TypeOK
<1>3. TypeOK'
  BY <1>1, <1>2 DEF IInv, TypeOK
<1>4. GraphInv'
  BY DEF GraphInv
<1>5. EnteredNodesBelong'
  BY DEF IInv, EnteredNodesBelong
<1>6. QED BY <1>1, <1>3, <1>4, <1>5 DEF IInv

-----------------------------------------------------------------------------
(* The action of a node, and a Load action's file. *)
LEMMA EnterNodeInv ==
  ASSUME IInv, EnterNode
  PROVE  IInv'
<1>1. /\ UNCHANGED <<polled, armed, at, cur, origin, copied, pos, left>>
      /\ UNCHANGED <<pending, request, served, used, holds, alive, started, refired>>
      /\ running_' \in BOOLEAN /\ pc = "enter" /\ pc \in Chain
  BY DEF EnterNode, passVars, chainVars, choice, netVars, startHistory, Chain
<1>2. cur \in Nodes /\ (cur \in g.nodes \/ orphaned \/ dangling)
  BY <1>1, InChain
<1>3. copied = <<>> /\ pos = 1 /\ left = 0
  BY <1>1 DEF IInv, PlaceInv, Choosing, Counting, Loading
<1>4. CASE pc' = "choose" /\ UNCHANGED <<g, orphaned, dangling, syncHistory>>
  <2>1. /\ pc' \in Chain /\ pc' # "loading"
        /\ UNCHANGED <<g, orphaned, dangling, unsynced, lost, stale>>
    BY <1>4 DEF Chain, Choice, syncHistory
  <2>2. PlaceInv' /\ CopiesBelong' /\ ChoiceInv'
    BY <1>1, <1>3, <1>4 DEF PlaceInv, CopiesBelong, ChoiceInv, Choosing, Counting, Loading
  <2>3. copied' \in Seq(Copies) /\ pos' \in Nat \ {0} /\ left' \in Nat
    BY <1>1, <1>3
  <2>4. QED BY <1>1, <1>2, <2>1, <2>2, <2>3, ChainStepInv
<1>5. CASE /\ InFile \cap used = {} /\ pc' = "loading"
           /\ g' = Clear(g)
           /\ orphaned' = TRUE
           /\ dangling' = (dangling \/ \E n \in g.nodes \cap Kept :
                             ~(Targets(g, n) \subseteq g.nodes \cap Kept))
           /\ GraphChanged
  <2>1. Sane(g') /\ g'.nodes = g.nodes \cap Kept /\ g'.links = g.links
    BY <1>5, ClearSane DEF IInv, GraphInv
  <2>2. /\ pc' \in Chain /\ orphaned' \in BOOLEAN /\ dangling' \in BOOLEAN
        /\ dangling => dangling'
    BY <1>5 DEF Chain, IInv, TypeOK
  <2>3. ~dangling' => Closed(g')
    <3>1. ~dangling' => \A n \in g.nodes \cap Kept : Targets(g, n) \subseteq g.nodes \cap Kept
      BY <1>5
    <3>2. \A n : Targets(g', n) = Targets(g, n)
      BY <2>1 DEF Targets
    <3>3. QED BY <2>1, <3>1, <3>2 DEF Closed
  <2>4. PlaceInv' /\ CopiesBelong' /\ ChoiceInv'
    <3>1. 1 <= Len(FileNodes)
      BY FileAssumption
    <3>2. QED BY <1>1, <1>3, <1>5, <3>1 DEF PlaceInv, CopiesBelong, ChoiceInv, Choosing,
                                            Counting, Loading
  <2>5. FreshInv'
    BY <1>1, <1>3, <1>5 DEF FreshInv, InFile
  <2>6. copied' \in Seq(Copies) /\ pos' \in Nat \ {0} /\ left' \in Nat
    BY <1>1, <1>3
  <2>7. /\ alive' \in BOOLEAN /\ pending' \in Seq(Nodes) /\ armed' \subseteq Starts
        /\ request' \in [Clients -> Serving \cup {NoRequest}]
        /\ served' \in 0 .. MaxRequests /\ used' \subseteq Nodes
    BY <1>1 DEF IInv, TypeOK
  <2>8. /\ g'.nodes \subseteq used' /\ \A n \in Nodes \ used' : g'.links[n] = <<>>
        /\ \A c \in Clients : request'[c] # NoRequest => request'[c].node \in used'
    BY <1>1, <2>1 DEF IInv, GraphInv
  <2>9. QED BY <1>1, <1>5, <2>1, <2>2, <2>3, <2>4, <2>5, <2>6, <2>7, <2>8, EditInv
<1>6. QED BY <1>4, <1>5 DEF EnterNode

LEMMA NothingToLoadInv ==
  ASSUME IInv, NothingToLoad
  PROVE  IInv'
<1>1. /\ UNCHANGED <<g, running_, polled, armed, at, cur, origin, copied, pos, left>>
      /\ UNCHANGED <<pending, request, served, used, holds, alive, orphaned, dangling>>
      /\ UNCHANGED <<unsynced, lost, stale, started, refired>>
      /\ pc = "loading" /\ pos = 1 /\ pc' = "choose"
      /\ pc \in Chain /\ pc' \in Chain /\ pc' # "loading"
  BY DEF NothingToLoad, Goto, passVars, chainVars, choice, netVars, history,
         syncHistory, startHistory, Chain, Choice
<1>2. cur \in Nodes /\ (cur \in g.nodes \/ orphaned \/ dangling)
  BY <1>1, InChain
<1>3. copied = <<>> /\ left = 0
  BY <1>1 DEF IInv, PlaceInv, Choosing, Counting
<1>4. PlaceInv' /\ CopiesBelong' /\ ChoiceInv'
  BY <1>1, <1>3 DEF PlaceInv, CopiesBelong, ChoiceInv, Choosing, Counting, Loading
<1>5. copied' \in Seq(Copies) /\ pos' \in Nat \ {0} /\ left' \in Nat /\ running_' \in BOOLEAN
  BY <1>1, <1>3 DEF IInv, TypeOK
<1>6. QED BY <1>1, <1>2, <1>4, <1>5, ChainStepInv

LEMMA LoadNodeInv ==
  ASSUME IInv, LoadNode
  PROVE  IInv'
<1> DEFINE n == FileNodes[pos]
<1>1. /\ UNCHANGED <<running_, polled, at, cur, origin, copied, left, pending>>
      /\ UNCHANGED <<request, served, holds, alive, orphaned, dangling, started, refired>>
      /\ pc = "loading" /\ pc \in Chain /\ pc' \in Chain
      /\ g' = AddNode(g, n) /\ GraphChanged
      /\ used' = used \cup {n} /\ armed' = armed \cup ({n} \cap Starts)
      /\ IF pos < Len(FileNodes)
         THEN pos' = pos + 1 /\ pc' = pc
         ELSE pos' = 1 /\ pc' = IF FileLinks = <<>> THEN "choose" ELSE "linking"
  BY DEF LoadNode, startHistory, Chain, Choice
<1>2. /\ pos \in Nat \ {0} /\ pos <= Len(FileNodes) /\ Len(FileNodes) \in Nat
      /\ n \in Nodes /\ n \notin used
  <2>1. pos \in Nat \ {0} /\ pos <= Len(FileNodes) /\ Len(FileNodes) \in Nat
    BY <1>1, FileAssumption DEF IInv, TypeOK, PlaceInv
  <2>2. pos \in 1 .. Len(FileNodes) /\ pos \in pos .. Len(FileNodes)
    BY <2>1
  <2>3. n \in Nodes /\ n \notin used
    BY <1>1, <2>2, FileAssumption DEF IInv, FreshInv
  <2>4. QED BY <2>1, <2>3
<1>3. copied = <<>> /\ left = 0
  BY <1>1 DEF IInv, PlaceInv, Choosing, Counting
<1>4. Sane(g') /\ g'.nodes = g.nodes \cup {n} /\ g'.links = g.links
  BY <1>1, <1>2, AddNodeSane DEF IInv, GraphInv
<1>5. ~dangling' => Closed(g')
  <2>1. Targets(g, n) = {}
    BY <1>2 DEF Targets, IInv, GraphInv
  <2>2. \A m : Targets(g', m) = Targets(g, m)
    BY <1>4 DEF Targets
  <2>3. QED BY <1>1, <1>4, <2>1, <2>2 DEF IInv, GraphInv, Closed
<1>6. PlaceInv'
  <2>1. CASE pos < Len(FileNodes)
    BY <1>1, <1>2, <1>3, <2>1 DEF PlaceInv, Choosing, Counting, Loading
  <2>2. CASE ~(pos < Len(FileNodes))
    <3>1. FileLinks # <<>> => 1 <= Len(FileLinks)
      BY FileAssumption
    <3>2. QED BY <1>1, <1>3, <2>2, <3>1 DEF PlaceInv, Choosing, Counting, Loading
  <2>3. QED BY <2>1, <2>2
<1>7. FreshInv'
  <2>1. CASE pos < Len(FileNodes)
    <3> SUFFICES ASSUME NEW j \in pos + 1 .. Len(FileNodes)
                 PROVE  FileNodes[j] \notin used'
      BY <1>1, <2>1 DEF FreshInv
    <3>1. j \in pos .. Len(FileNodes) /\ j \in 1 .. Len(FileNodes) /\ j # pos
          /\ pos \in 1 .. Len(FileNodes)
      BY <1>2
    <3>2. FileNodes[j] \notin used
      BY <1>1, <3>1 DEF IInv, FreshInv
    <3>3. FileNodes[j] # n
      BY <3>1, FileAssumption
    <3>4. QED BY <1>1, <3>2, <3>3
  <2>2. CASE ~(pos < Len(FileNodes))
    BY <1>1, <2>2 DEF FreshInv
  <2>3. QED BY <2>1, <2>2
<1>8. CopiesBelong' /\ ChoiceInv' /\ copied' \in Seq(Copies) /\ left' \in Nat
  BY <1>1, <1>3 DEF CopiesBelong, ChoiceInv, Choosing, Counting
<1>9. pos' \in Nat \ {0}
  BY <1>1, <1>2
<1>10. /\ running_' \in BOOLEAN /\ alive' \in BOOLEAN /\ orphaned' \in BOOLEAN
       /\ dangling' \in BOOLEAN /\ pending' \in Seq(Nodes) /\ armed' \subseteq Starts
       /\ request' \in [Clients -> Serving \cup {NoRequest}]
       /\ served' \in 0 .. MaxRequests /\ used' \subseteq Nodes
  BY <1>1, <1>2 DEF IInv, TypeOK
<1>11. /\ g'.nodes \subseteq used' /\ \A m \in Nodes \ used' : g'.links[m] = <<>>
       /\ \A c \in Clients : request'[c] # NoRequest => request'[c].node \in used'
       /\ g.nodes \subseteq g'.nodes
  BY <1>1, <1>4 DEF IInv, GraphInv
<1>12. QED BY <1>1, <1>4, <1>5, <1>6, <1>7, <1>8, <1>9, <1>10, <1>11, EditInv

(* The connections of the file. *)
LEMMA FileLinkTypes ==
  ASSUME NEW i \in 1 .. Len(FileLinks)
  PROVE  /\ FileLinks[i].from \in Nodes /\ FileLinks[i].to \in Nodes
         /\ FileLinks[i].guard \in Guards \cup {NoGuard}
<1> DEFINE S == [from : Nodes, to : Nodes, guard : Guards \cup {NoGuard}]
<1>1. FileLinks \in Seq(S)
  BY FileAssumption
<1> HIDE DEF S
<1>2. FileLinks[i] \in S
  BY <1>1
<1>3. QED BY <1>2 DEF S

(* The step from one connection of the file to the next. *)
LEMMA NextLinkPlaces ==
  ASSUME IInv, pc \in {"linking", "guarding"}, NextLink, left' = left
  PROVE  /\ pc' \in Chain /\ pc' # "loading" /\ copied' \in Seq(Copies)
         /\ pos' \in Nat \ {0} /\ left' \in Nat
         /\ PlaceInv' /\ FreshInv' /\ CopiesBelong' /\ ChoiceInv'
<1>1. /\ copied' = <<>>
      /\ IF pos < Len(FileLinks) THEN pos' = pos + 1 /\ pc' = "linking"
                                 ELSE pos' = 1 /\ pc' = "choose"
  BY DEF NextLink
<1>2. pos \in Nat \ {0} /\ left = 0 /\ Len(FileLinks) \in Nat
  BY FileAssumption DEF IInv, TypeOK, PlaceInv, Counting
<1>3. /\ pc' \in Chain /\ pc' # "loading" /\ pc' \notin Choosing
      /\ pos' \in Nat \ {0} /\ copied' \in Seq(Copies)
  BY <1>1, <1>2 DEF Chain, Choice, Choosing, Counting
<1>4. PlaceInv'
  BY <1>1, <1>2 DEF PlaceInv, Choosing, Counting, Loading
<1>5. FreshInv' /\ CopiesBelong' /\ ChoiceInv'
  BY <1>1, <1>3 DEF FreshInv, CopiesBelong, ChoiceInv
<1>6. QED BY <1>2, <1>3, <1>4, <1>5

LEMMA LoadLinkInv ==
  ASSUME IInv, LoadLink
  PROVE  IInv'
<1> DEFINE l == FileLinks[pos]
<1>1. /\ UNCHANGED <<running_, polled, armed, at, cur, origin, left, pending>>
      /\ UNCHANGED <<request, served, used, holds, alive, orphaned, dangling>>
      /\ UNCHANGED <<started, refired>>
      /\ pc = "linking" /\ pc \in Chain /\ GraphChanged
      /\ IF {l.from, l.to} \subseteq g.nodes THEN g' = Connect(g, l.from, l.to) ELSE g' = g
      /\ IF {l.from, l.to} \subseteq g'.nodes /\ l.to \in Targets(g', l.from)
              /\ l.guard # NoGuard
         THEN /\ pc' = "guarding" /\ pos' = pos
              /\ copied' = <<[to |-> l.to, guard |-> NoGuard,
                              mine |-> TRUE, seen |-> {}]>>
         ELSE NextLink
  BY DEF LoadLink, passVars, netVars, startHistory, Chain
<1>2. pos \in 1 .. Len(FileLinks) /\ left = 0
  BY <1>1, FileAssumption DEF IInv, TypeOK, PlaceInv, Counting
<1>3. l.from \in Nodes /\ l.to \in Nodes
  BY <1>2, FileLinkTypes DEF l
<1> HIDE DEF l
<1>4. /\ Sane(g') /\ g'.nodes = g.nodes /\ (~dangling' => Closed(g'))
      /\ \A n \in Nodes \ used' : g'.links[n] = <<>>
  <2>1. CASE g' = g
    BY <1>1, <2>1 DEF IInv, GraphInv
  <2>2. CASE {l.from, l.to} \subseteq g.nodes /\ g' = Connect(g, l.from, l.to)
    <3>1. Sane(g) /\ g.nodes \subseteq Nodes /\ g.nodes \subseteq used
      BY DEF IInv, GraphInv, TypeOK, Graphs
    <3>2. Sane(g') /\ g'.nodes = g.nodes
      BY <1>3, <2>2, <3>1, ConnectSane
    <3>3. \A m \in Nodes : Targets(g', m) \subseteq Targets(g, m) \cup {l.to}
      BY <1>3, <2>2, <3>1, ConnectSane
    <3>4. \A m \in Nodes \ {l.from} : g'.links[m] = g.links[m]
      BY <1>3, <2>2, <3>1, ConnectElsewhere
    <3>5. ~dangling' => Closed(g')
      BY <1>1, <2>2, <3>1, <3>2, <3>3 DEF IInv, GraphInv, Closed
    <3>6. \A n \in Nodes \ used' : g'.links[n] = <<>>
      BY <1>1, <2>2, <3>1, <3>4 DEF IInv, GraphInv
    <3>7. QED BY <3>2, <3>5, <3>6
  <2>3. QED BY <1>1, <2>1, <2>2
<1>5. /\ pc' \in Chain /\ copied' \in Seq(Copies) /\ pos' \in Nat \ {0} /\ left' \in Nat
      /\ PlaceInv' /\ FreshInv' /\ CopiesBelong' /\ ChoiceInv'
  <2>1. CASE NextLink
    BY <1>1, <2>1, NextLinkPlaces
  <2>2. CASE /\ pc' = "guarding" /\ pos' = pos /\ l.to \in g'.nodes
             /\ copied' = <<[to |-> l.to, guard |-> NoGuard, mine |-> TRUE, seen |-> {}]>>
    <3>1. copied' \in Seq(Copies) /\ Len(copied') = 1 /\ copied'[1].to = l.to
      BY <1>3, <2>2 DEF Copies
    <3>2. PlaceInv'
      BY <1>1, <1>2, <2>2 DEF PlaceInv, Choosing, Counting, Loading
    <3>3. CopiesBelong'
      BY <2>2, <3>1 DEF CopiesBelong
    <3>4. FreshInv' /\ ChoiceInv'
      BY <2>2 DEF FreshInv, ChoiceInv, Choosing, Counting
    <3>5. pc' \in Chain /\ pos' \in Nat \ {0} /\ left' \in Nat
      BY <1>1, <1>2, <2>2 DEF Chain
    <3>6. QED BY <3>1, <3>2, <3>3, <3>4, <3>5
  <2>3. QED BY <1>1, <2>1, <2>2
<1>6. /\ running_' \in BOOLEAN /\ alive' \in BOOLEAN /\ orphaned' \in BOOLEAN
      /\ dangling' \in BOOLEAN /\ pending' \in Seq(Nodes) /\ armed' \subseteq Starts
      /\ request' \in [Clients -> Serving \cup {NoRequest}]
      /\ served' \in 0 .. MaxRequests /\ used' \subseteq Nodes
  BY <1>1 DEF IInv, TypeOK
<1>7. /\ g'.nodes \subseteq used' /\ g.nodes \subseteq g'.nodes
      /\ \A c \in Clients : request'[c] # NoRequest => request'[c].node \in used'
  BY <1>1, <1>4 DEF IInv, GraphInv
<1>8. QED BY <1>1, <1>4, <1>5, <1>6, <1>7, EditInv

LEMMA LoadGuardInv ==
  ASSUME IInv, LoadGuard
  PROVE  IInv'
<1> DEFINE l == FileLinks[pos]
<1>1. /\ UNCHANGED <<running_, polled, armed, at, cur, origin, left, pending>>
      /\ UNCHANGED <<request, served, used, holds, alive, orphaned, dangling>>
      /\ UNCHANGED <<started, refired>>
      /\ pc = "guarding" /\ pc \in Chain /\ GraphChanged /\ NextLink
      /\ g' \in {g, SetGuard(g, l.from, l.to, l.guard)}
  BY DEF LoadGuard, passVars, netVars, startHistory, Chain
<1>2. pos \in 1 .. Len(FileLinks)
  BY <1>1, FileAssumption DEF IInv, TypeOK, PlaceInv
<1>3. l.from \in Nodes /\ l.to \in Nodes /\ l.guard \in Guards \cup {NoGuard}
  BY <1>2, FileLinkTypes DEF l
<1> HIDE DEF l
<1>4. /\ Sane(g') /\ g'.nodes = g.nodes /\ (~dangling' => Closed(g'))
      /\ \A n \in Nodes \ used' : g'.links[n] = <<>>
  <2>1. CASE g' = g
    BY <1>1, <2>1 DEF IInv, GraphInv
  <2>2. CASE g' = SetGuard(g, l.from, l.to, l.guard)
    <3>1. Sane(g) /\ g.nodes \subseteq Nodes
      BY DEF IInv, GraphInv, TypeOK, Graphs
    <3>2. /\ Sane(g') /\ g'.nodes = g.nodes
          /\ \A m \in Nodes : /\ Targets(g', m) = Targets(g, m)
                              /\ g.links[m] = <<>> => g'.links[m] = <<>>
      BY <1>3, <2>2, <3>1, SetGuardSane
    <3>3. QED BY <1>1, <3>1, <3>2 DEF IInv, GraphInv, Closed
  <2>3. QED BY <1>1, <2>1, <2>2
<1>5. /\ pc' \in Chain /\ copied' \in Seq(Copies) /\ pos' \in Nat \ {0} /\ left' \in Nat
      /\ PlaceInv' /\ FreshInv' /\ CopiesBelong' /\ ChoiceInv'
  BY <1>1, NextLinkPlaces
<1>6. /\ running_' \in BOOLEAN /\ alive' \in BOOLEAN /\ orphaned' \in BOOLEAN
      /\ dangling' \in BOOLEAN /\ pending' \in Seq(Nodes) /\ armed' \subseteq Starts
      /\ request' \in [Clients -> Serving \cup {NoRequest}]
      /\ served' \in 0 .. MaxRequests /\ used' \subseteq Nodes
  BY <1>1 DEF IInv, TypeOK
<1>7. /\ g'.nodes \subseteq used' /\ g.nodes \subseteq g'.nodes
      /\ \A c \in Clients : request'[c] # NoRequest => request'[c].node \in used'
  BY <1>1, <1>4 DEF IInv, GraphInv
<1>8. QED BY <1>1, <1>4, <1>5, <1>6, <1>7, EditInv

-----------------------------------------------------------------------------
(* What others may do to the copies exec holds: the history of each only   *)
(* grows, and has what the connection is now if it had before.             *)
Refreshed ==
  /\ copied' \in Seq(Copies) /\ Len(copied') = Len(copied)
  /\ \A i \in 1 .. Len(copied) :
       /\ copied'[i].to = copied[i].to
       /\ copied[i].seen \subseteq copied'[i].seen
       /\ Status(copied[i], holds) \in copied[i].seen
            => Status(copied'[i], holds') \in copied'[i].seen

LEMMA RefreshedCopies ==
  ASSUME IInv, Refreshed, UNCHANGED <<pc, pos, left>>,
         pc \in Chain => g.nodes \subseteq g'.nodes \/ orphaned',
         orphaned => orphaned', dangling => dangling'
  PROVE  PlaceInv' /\ CopiesBelong' /\ ChoiceInv'
<1>1. /\ copied \in Seq(Copies) /\ copied' \in Seq(Copies)
      /\ Len(copied) \in Nat /\ Len(copied') = Len(copied)
  BY DEF IInv, TypeOK, Refreshed
<1>2. PlaceInv'
  <2>1. copied = <<>> => copied' = <<>>
    BY <1>1
  <2>2. QED BY <1>1, <2>1 DEF IInv, PlaceInv
<1>3. CopiesBelong'
  <2>1. CASE pc \in Chain
    BY <1>1, <2>1 DEF IInv, CopiesBelong, Refreshed
  <2>2. CASE pc \notin Chain
    <3>1. copied = <<>>
      BY <2>2, NothingHeld DEF IInv
    <3>2. Len(copied') = 0
      BY <1>1, <3>1
    <3>3. QED BY <3>2 DEF CopiesBelong
  <2>3. QED BY <2>1, <2>2
<1>4. ASSUME pc \in Choosing PROVE ChoiceInv'
  <2>1. \A i \in 1 .. Len(copied) :
          /\ Status(copied[i], holds) \in copied[i].seen
          /\ i < pos \/ pc # "guards" => copied[i].seen # {"holds"}
    BY <1>4 DEF IInv, ChoiceInv
  <2>2. \A i \in 1 .. Len(copied) :
          /\ Status(copied'[i], holds') \in copied'[i].seen
          /\ copied[i].seen \subseteq copied'[i].seen
    BY <2>1 DEF Refreshed
  <2>3. \A i \in 1 .. Len(copied) :
          i < pos \/ pc # "guards" => copied'[i].seen # {"holds"}
    <3> SUFFICES ASSUME NEW i \in 1 .. Len(copied), copied'[i].seen = {"holds"}
                 PROVE  copied[i].seen = {"holds"}
      BY <2>1
    <3>1. QED BY <2>1, <2>2, Zenon
  <2>4. Mixed' = {} => Mixed = {} /\ Open' = Open
    <3> SUFFICES ASSUME Mixed' = {} PROVE Mixed = {} /\ Open' = Open
      OBVIOUS
    <3>1. Open' = {i \in 1 .. Len(copied) : copied'[i].seen = {"free"}}
      BY <1>1 DEF Open
    <3>2. ASSUME NEW i \in 1 .. Len(copied)
          PROVE  /\ "free" \in copied[i].seen => copied'[i].seen = {"free"}
                 /\ copied'[i].seen = {"free"} => copied[i].seen = {"free"}
      <4>1. "free" \in copied'[i].seen => i \in Open'
        BY <1>1 DEF Mixed
      <4>2. "free" \in copied[i].seen => copied'[i].seen = {"free"}
        BY <2>2, <3>1, <4>1
      <4>3. copied'[i].seen = {"free"} => copied[i].seen = {"free"}
        BY <2>1, <2>2, Zenon
      <4>4. QED BY <4>2, <4>3
    <3>3. Open' = Open
      BY <3>1, <3>2 DEF Open
    <3>4. Mixed = {}
      BY <3>2 DEF Mixed, Open
    <3>5. QED BY <3>3, <3>4
  <2>5. Mixed = {} => /\ pc = "count" => left = Cardinality({i \in Open : i < pos})
                      /\ pc = "pick" => left < Cardinality({i \in Open : i >= pos})
    BY <1>4 DEF IInv, ChoiceInv
  <2>6. QED BY <1>1, <2>2, <2>3, <2>4, <2>5 DEF ChoiceInv
<1>5. ASSUME pc \notin Choosing PROVE ChoiceInv'
  BY <1>5 DEF ChoiceInv
<1>6. QED BY <1>2, <1>3, <1>4, <1>5

LEMMA NotTouched ==
  ASSUME IInv, UNCHANGED <<copied, holds>>
  PROVE  Refreshed
BY DEF Refreshed, IInv, TypeOK

(* Copies made anew one by one. *)
LEMMA CopiesRenewed ==
  ASSUME IInv, NEW f, copied' = [i \in 1 .. Len(copied) |-> f[i]],
         \A i \in 1 .. Len(copied) :
           /\ f[i] \in Copies /\ f[i].to = copied[i].to
           /\ copied[i].seen \subseteq f[i].seen
           /\ Status(copied[i], holds) \in copied[i].seen
                => Status(f[i], holds') \in f[i].seen
  PROVE  Refreshed
<1>1. Len(copied) \in Nat
  BY DEF IInv, TypeOK
<1>2. copied' \in [1 .. Len(copied) -> Copies]
  OBVIOUS
<1>3. copied' \in Seq(Copies) /\ Len(copied') = Len(copied)
  BY <1>1, <1>2
<1>4. \A i \in 1 .. Len(copied) : copied'[i] = f[i]
  OBVIOUS
<1>5. QED BY <1>3, <1>4 DEF Refreshed

LEMMA DisownRefreshes ==
  ASSUME IInv, NEW c \in Clients, Disown(c), UNCHANGED holds
  PROVE  Refreshed
<1> DEFINE f == [i \in 1 .. Len(copied) |->
                   [copied[i] EXCEPT !.mine = @ /\ copied[i].to \in Targets(g', Holder)]]
<1>1. copied' = f
  BY DEF Disown
<1>2. ASSUME NEW i \in 1 .. Len(copied)
      PROVE  /\ f[i] \in Copies /\ f[i].to = copied[i].to
             /\ copied[i].seen \subseteq f[i].seen
             /\ Status(copied[i], holds) \in copied[i].seen
                  => Status(f[i], holds') \in f[i].seen
  <2>1. copied[i] \in Copies
    BY DEF IInv, TypeOK
  <2>2. (copied[i].mine /\ copied[i].to \in Targets(g', Holder)) \in BOOLEAN
    OBVIOUS
  <2> DEFINE b == copied[i].mine /\ copied[i].to \in Targets(g', Holder)
  <2>3. f[i] = [copied[i] EXCEPT !.mine = b]
    OBVIOUS
  <2> HIDE DEF b, f
  <2>4. b \in BOOLEAN
    BY <2>2 DEF b
  <2>5. /\ f[i] \in Copies /\ f[i].to = copied[i].to
        /\ f[i].seen = copied[i].seen /\ f[i].guard = copied[i].guard
    BY <2>1, <2>3, <2>4 DEF Copies
  <2>6. QED BY <2>5 DEF Status
<1>3. copied' = [i \in 1 .. Len(copied) |-> f[i]]
  BY <1>1
<1> HIDE DEF f
<1>4. QED BY <1>2, <1>3, CopiesRenewed

LEMMA ReguardRefreshes ==
  ASSUME IInv, NEW s, NEW e \in Guards \cup {NoGuard}, Reguard(s, e), UNCHANGED holds
  PROVE  Refreshed
<1> DEFINE new(i) == [copied[i] EXCEPT !.guard = e]
           f == [i \in 1 .. Len(copied) |->
                  IF i \in s
                  THEN [copied[i] EXCEPT !.guard = e,
                          !.seen = @ \cup {Status(new(i), holds)}]
                  ELSE copied[i]]
<1>1. copied' = f
  BY DEF Reguard
<1>2. ASSUME NEW i \in 1 .. Len(copied)
      PROVE  /\ f[i] \in Copies /\ f[i].to = copied[i].to
             /\ copied[i].seen \subseteq f[i].seen
             /\ Status(copied[i], holds) \in copied[i].seen
                  => Status(f[i], holds') \in f[i].seen
  <2>1. copied[i] \in Copies
    BY DEF IInv, TypeOK
  <2>2. CASE i \notin s
    <3>1. f[i] = copied[i]
      BY <2>2
    <3> HIDE DEF f
    <3>2. QED BY <2>1, <3>1
  <2>3. CASE i \in s
    <3> DEFINE st == Status(new(i), holds)
    <3>1. st \in {"free", "holds", "fails"}
      BY DEF Status
    <3>2. f[i] = [copied[i] EXCEPT !.guard = e, !.seen = @ \cup {st}]
      BY <2>3
    <3>3. new(i).guard = e
      BY <2>1 DEF Copies
    <3>4. st = IF e = NoGuard THEN "free" ELSE IF e \in holds THEN "holds" ELSE "fails"
      BY <3>3 DEF Status
    <3> HIDE DEF f, st, new
    <3>5. /\ f[i].to = copied[i].to /\ f[i].guard = e /\ f[i].mine = copied[i].mine
          /\ f[i].seen = copied[i].seen \cup {st}
          /\ f[i] \in Copies
      BY <2>1, <3>1, <3>2 DEF Copies
    <3>6. Status(f[i], holds') = st
      BY <3>4, <3>5 DEF Status
    <3>7. QED BY <3>5, <3>6
  <2>4. QED BY <2>2, <2>3
<1>3. copied' = [i \in 1 .. Len(copied) |-> f[i]]
  BY <1>1
<1> HIDE DEF f
<1>4. QED BY <1>2, <1>3, CopiesRenewed

LEMMA WorldInv ==
  ASSUME IInv, World
  PROVE  IInv'
<1>1. /\ UNCHANGED <<g, running_, pc, polled, armed, at, cur, origin, pos, left>>
      /\ UNCHANGED <<pending, request, served, used, alive, orphaned, dangling>>
      /\ UNCHANGED <<unsynced, lost, stale, started, refired>>
      /\ copied' = [i \in 1 .. Len(copied) |->
           [copied[i] EXCEPT !.seen = @ \cup {Status(copied[i], holds')}]]
  BY DEF World, passVars, netVars, history, syncHistory, startHistory
<1>2. holds' \subseteq Guards
  BY DEF World, IInv, TypeOK
<1>3. Refreshed
  <2> DEFINE f == [i \in 1 .. Len(copied) |->
                     [copied[i] EXCEPT !.seen = @ \cup {Status(copied[i], holds')}]]
  <2>1. ASSUME NEW i \in 1 .. Len(copied)
        PROVE  /\ f[i] \in Copies /\ f[i].to = copied[i].to
               /\ copied[i].seen \subseteq f[i].seen
               /\ Status(copied[i], holds) \in copied[i].seen
                    => Status(f[i], holds') \in f[i].seen
    <3>1. copied[i] \in Copies
      BY DEF IInv, TypeOK
    <3> DEFINE st == Status(copied[i], holds')
    <3>2. st \in {"free", "holds", "fails"}
      BY DEF Status
    <3>3. f[i] = [copied[i] EXCEPT !.seen = @ \cup {st}]
      OBVIOUS
    <3>4. st = Status(copied[i], holds')
      OBVIOUS
    <3> HIDE DEF f, st
    <3>5. /\ f[i].to = copied[i].to /\ f[i].guard = copied[i].guard
          /\ f[i].seen = copied[i].seen \cup {st}
          /\ f[i] \in Copies
      BY <3>1, <3>2, <3>3 DEF Copies
    <3>6. Status(f[i], holds') = st
      BY <3>4, <3>5 DEF Status
    <3>7. QED BY <3>5, <3>6
  <2>2. copied' = [i \in 1 .. Len(copied) |-> f[i]]
    BY <1>1
  <2> HIDE DEF f
  <2>3. QED BY <2>1, <2>2, CopiesRenewed
<1>4. PlaceInv' /\ CopiesBelong' /\ ChoiceInv'
  BY <1>1, <1>3, RefreshedCopies
<1>5. TypeOK'
  BY <1>1, <1>2, <1>3 DEF IInv, TypeOK, Refreshed
<1>6. GraphInv' /\ EnteredNodesBelong' /\ SyncInv' /\ FreshInv'
  BY <1>1 DEF IInv, GraphInv, EnteredNodesBelong, SyncInv, FreshInv
<1>7. QED BY <1>4, <1>5, <1>6 DEF IInv

-----------------------------------------------------------------------------
(* The requests.  What one leaves alone, and what is left to show of it.   *)
LEMMA RequestInv ==
  ASSUME IInv, GraphChanged, Refreshed,
         UNCHANGED <<running_, pc, polled, at, cur, origin, pos, left, holds>>,
         UNCHANGED <<started, refired>>,
         alive' \in BOOLEAN, orphaned' \in BOOLEAN, dangling' \in BOOLEAN,
         Sane(g'), pc \in Chain => g.nodes \subseteq g'.nodes \/ orphaned',
         orphaned => orphaned', dangling => dangling', ~dangling' => Closed(g'),
         pending' \in Seq(Nodes), armed' \subseteq Starts,
         request' \in [Clients -> Serving \cup {NoRequest}],
         served' \in 0 .. MaxRequests, used' \subseteq Nodes,
         used' \cap InFile \subseteq used,
         g'.nodes \subseteq used', \A n \in Nodes \ used' : g'.links[n] = <<>>,
         \A c \in Clients : request'[c] # NoRequest => request'[c].node \in used'
  PROVE  IInv'
<1>1. PlaceInv' /\ CopiesBelong' /\ ChoiceInv'
  BY RefreshedCopies
<1>2. FreshInv'
  <2> SUFFICES ASSUME pc = "loading", NEW j \in pos .. Len(FileNodes)
               PROVE  FileNodes[j] \notin used'
    BY DEF FreshInv
  <2>1. j \in 1 .. Len(FileNodes) /\ FileNodes[j] \notin used
    BY FileAssumption DEF IInv, TypeOK, FreshInv
  <2>2. FileNodes[j] \in InFile
    BY <2>1 DEF InFile
  <2>3. QED BY <2>1, <2>2
<1>3. copied' \in Seq(Copies) /\ pos' \in Nat \ {0} /\ left' \in Nat
      /\ running_' \in BOOLEAN
  BY DEF Refreshed, IInv, TypeOK
<1>4. QED BY <1>1, <1>2, <1>3, EditInv

LEMMA SameGraph ==
  ASSUME IInv, UNCHANGED <<g, dangling, used, syncHistory>>
  PROVE  /\ GraphChanged /\ Sane(g') /\ (~dangling' => Closed(g'))
         /\ g'.nodes \subseteq used' /\ \A n \in Nodes \ used' : g'.links[n] = <<>>
BY DEF IInv, GraphInv, GraphChanged

LEMMA CreateInv ==
  ASSUME IInv, NEW r \in Menu, Create(r)
  PROVE  IInv'
<1>1. TypeOK /\ GraphInv
  BY DEF IInv
<1>2. /\ UNCHANGED <<running_, pc, polled, at, cur, origin, copied, pos, left>>
      /\ UNCHANGED <<pending, request, holds, alive, orphaned, dangling, started, refired>>
      /\ r.op = "create" /\ g' = AddNode(g, r.node) /\ GraphChanged
      /\ used' = used \cup {r.node} /\ r.node \notin used
      /\ armed' = armed \cup ({r.node} \cap Starts)
      /\ served' = served + 1 /\ served < MaxRequests
  BY DEF Create, chainVars, choice, startHistory
<1>3. r.node \in Nodes /\ r.node \notin InFile
  BY <1>2, MenuAssumption
<1>4. Sane(g') /\ g'.nodes = g.nodes \cup {r.node} /\ g'.links = g.links
  BY <1>1, <1>2, <1>3, AddNodeSane DEF GraphInv
<1>5. served' \in 0 .. MaxRequests
  BY <1>1, <1>2, RequestBoundAssumption DEF TypeOK
<1>6. ~dangling' => Closed(g')
  <2>1. g.links[r.node] = <<>>
    BY <1>1, <1>2, <1>3 DEF GraphInv
  <2>2. Targets(g, r.node) = {}
    BY <2>1 DEF Targets
  <2>3. \A n : Targets(g', n) = Targets(g, n)
    BY <1>4 DEF Targets
  <2>4. QED BY <1>1, <1>2, <1>4, <2>2, <2>3 DEF GraphInv, Closed
<1>7. /\ used' \subseteq Nodes /\ g'.nodes \subseteq used'
      /\ armed' \subseteq Starts /\ used' \cap InFile \subseteq used
  BY <1>1, <1>2, <1>3, <1>4 DEF TypeOK, GraphInv
<1>8. /\ \A n \in Nodes \ used' : g'.links[n] = <<>>
      /\ \A c \in Clients : request'[c] # NoRequest => request'[c].node \in used'
  BY <1>1, <1>2, <1>4 DEF GraphInv
<1>9. /\ pending' \in Seq(Nodes)
      /\ request' \in [Clients -> Serving \cup {NoRequest}]
      /\ alive' \in BOOLEAN /\ orphaned' \in BOOLEAN /\ dangling' \in BOOLEAN
  BY <1>1, <1>2 DEF TypeOK
<1>10. g.nodes \subseteq g'.nodes /\ (orphaned => orphaned') /\ (dangling => dangling')
  BY <1>2, <1>4
<1>11. Refreshed
  BY <1>2, NotTouched
<1>12. QED BY <1>2, <1>4, <1>5, <1>6, <1>7, <1>8, <1>9, <1>10, <1>11, RequestInv

LEMMA FindInv ==
  ASSUME IInv, NEW c \in Clients, NEW r \in Menu, Find(c, r)
  PROVE  IInv'
<1>1. TypeOK /\ GraphInv
  BY DEF IInv
<1>2. /\ UNCHANGED <<running_, pc, polled, armed, at, cur, origin, copied, pos, left>>
      /\ UNCHANGED <<g, pending, used, holds, alive, orphaned, dangling>>
      /\ UNCHANGED <<started, refired>> /\ UNCHANGED syncHistory
      /\ request' = [request EXCEPT ![c] = r]
      /\ r.op # "create" /\ r.node \in g.nodes
      /\ served < MaxRequests \/ r \in Endless
      /\ served' = IF r \in Endless THEN served ELSE served + 1
  BY DEF Find, loopVars, passVars, chainVars, choice, history, startHistory
<1>3. r \in Serving
  BY <1>2, MenuAssumption DEF Serving
<1>4. request' \in [Clients -> Serving \cup {NoRequest}]
  BY <1>1, <1>2, <1>3 DEF TypeOK
<1>5. served' \in 0 .. MaxRequests
  BY <1>1, <1>2, RequestBoundAssumption DEF TypeOK
<1>6. \A d \in Clients : request'[d] # NoRequest => request'[d].node \in used'
  BY <1>1, <1>2 DEF TypeOK, GraphInv
<1>7. /\ GraphChanged /\ Sane(g') /\ (~dangling' => Closed(g'))
      /\ g'.nodes \subseteq used' /\ \A n \in Nodes \ used' : g'.links[n] = <<>>
  BY <1>2, SameGraph
<1>8. /\ pending' \in Seq(Nodes) /\ armed' \subseteq Starts /\ used' \subseteq Nodes
      /\ alive' \in BOOLEAN /\ orphaned' \in BOOLEAN /\ dangling' \in BOOLEAN
  BY <1>1, <1>2 DEF TypeOK
<1>9. /\ g.nodes \subseteq g'.nodes /\ (orphaned => orphaned')
      /\ (dangling => dangling') /\ used' \cap InFile \subseteq used
  BY <1>2
<1>10. Refreshed
  BY <1>2, NotTouched
<1>11. QED BY <1>2, <1>4, <1>5, <1>6, <1>7, <1>8, <1>9, <1>10, RequestInv

(* What a thread that serves a request knows of it, what it answers, and   *)
(* what a removal makes of the others' requests.                           *)
LEMMA Served ==
  ASSUME IInv, NEW c \in Clients, request[c] # NoRequest
  PROVE  /\ request[c] \in Serving /\ request[c].node \in Nodes \cap used
         /\ request[c].other \in Nodes /\ request[c].expr \in Guards \cup {NoGuard}
BY DEF IInv, TypeOK, GraphInv, Serving

LEMMA Answered ==
  ASSUME IInv, NEW c \in Clients, Answer(c) \/ Disown(c)
  PROVE  /\ request' \in [Clients -> Serving \cup {NoRequest}]
         /\ \A d \in Clients :
              request'[d] # NoRequest => request'[d].node \in used
<1> DEFINE drop(d) == [request[d] EXCEPT !.op = "dropped"]
<1>1. ASSUME NEW d \in Clients, request[d] # NoRequest
      PROVE  drop(d) \in Serving /\ drop(d).node = request[d].node
  BY <1>1, Served DEF Serving
<1> HIDE DEF drop
<1>2. ASSUME NEW d \in Clients
      PROVE  \/ request'[d] \in {NoRequest, request[d]}
             \/ request[d] # NoRequest /\ request'[d] = drop(d)
  <2>1. CASE Answer(c)
    BY <2>1 DEF Answer, IInv, TypeOK
  <2>2. CASE Disown(c)
    <3>1. request'[d] =
            IF d = c THEN NoRequest
            ELSE IF /\ request[d] # NoRequest /\ request[d].op = "connected"
                    /\ request[d].other \notin Targets(g', request[d].node)
            THEN drop(d) ELSE request[d]
      BY <2>2 DEF Disown, drop
    <3>2. QED BY <3>1
  <2>3. QED BY <2>1, <2>2
<1>3. DOMAIN request' = Clients /\ request' = [d \in Clients |-> request'[d]]
  <2>1. CASE Answer(c)
    BY <2>1 DEF Answer, IInv, TypeOK
  <2>2. CASE Disown(c)
    BY <2>2 DEF Disown
  <2>3. QED BY <2>1, <2>2
<1>4. \A d \in Clients : request'[d] \in Serving \cup {NoRequest}
  BY <1>1, <1>2 DEF IInv, TypeOK
<1>5. \A d \in Clients : request'[d] # NoRequest => request'[d].node \in used
  BY <1>1, <1>2 DEF IInv, GraphInv
<1>6. request' \in [Clients -> Serving \cup {NoRequest}]
  BY <1>3, <1>4
<1>7. QED BY <1>5, <1>6

LEMMA ConnectNodesInv ==
  ASSUME IInv, NEW c \in Clients, ConnectNodes(c)
  PROVE  IInv'
<1> DEFINE r == request[c]
           a == r.node
           b == r.other
<1>1. TypeOK /\ GraphInv
  BY DEF IInv
<1>2. /\ UNCHANGED <<running_, pc, polled, armed, at, cur, origin, copied, pos, left>>
      /\ UNCHANGED <<pending, alive, orphaned, served, used, holds, started, refired>>
      /\ r # NoRequest /\ r.op = "connect" /\ g' = Connect(g, a, b) /\ GraphChanged
      /\ dangling' = (dangling \/ (b \notin g.nodes /\ g' # g))
      /\ Answer(c) \/ request' = [request EXCEPT ![c].op = "connected"]
  BY DEF ConnectNodes, loopVars, passVars, chainVars, choice, startHistory
<1>3. /\ r \in Serving /\ a \in Nodes \cap used /\ b \in Nodes
  BY <1>2, Served
<1>4. /\ Sane(g') /\ g'.nodes = g.nodes
      /\ \A m \in Nodes : Targets(g', m) \subseteq Targets(g, m) \cup {b}
      /\ \A m \in Nodes \ {a} : g'.links[m] = g.links[m]
  <2>1. Sane(g) /\ a \in Nodes /\ b \in Nodes /\ g' = Connect(g, a, b)
    BY <1>1, <1>2, <1>3 DEF GraphInv
  <2> HIDE DEF a, b
  <2>2. Sane(g') /\ g'.nodes = g.nodes
    BY <2>1, ConnectSane
  <2>3. \A m \in Nodes : Targets(g', m) \subseteq Targets(g, m) \cup {b}
    BY <2>1, ConnectSane
  <2>4. \A m \in Nodes \ {a} : g'.links[m] = g.links[m]
    BY <2>1, ConnectElsewhere
  <2>5. QED BY <2>2, <2>3, <2>4
<1>5. /\ request' \in [Clients -> Serving \cup {NoRequest}]
      /\ \A d \in Clients : request'[d] # NoRequest => request'[d].node \in used
  <2>1. CASE Answer(c)
    BY <2>1, Answered
  <2>2. CASE request' = [request EXCEPT ![c].op = "connected"]
    <3> DEFINE q == [r EXCEPT !.op = "connected"]
    <3>1. q \in Serving /\ q.node = a
      BY <1>3 DEF Serving
    <3>2. \A d \in Clients : request'[d] = IF d = c THEN q ELSE request[d]
      BY <1>1, <2>2 DEF TypeOK
    <3>3. request' = [request EXCEPT ![c] = q]
      BY <2>2
    <3> HIDE DEF q
    <3>4. request' \in [Clients -> Serving \cup {NoRequest}]
      BY <1>1, <3>1, <3>3 DEF TypeOK
    <3>5. QED BY <1>1, <1>3, <3>1, <3>2, <3>4 DEF GraphInv
  <2>3. QED BY <1>2, <2>1, <2>2
<1>6. ~dangling' => Closed(g')
  <2>1. g.nodes \subseteq Nodes
    BY <1>1 DEF TypeOK, Graphs
  <2>2. ~dangling' => Closed(g) /\ (b \in g.nodes \/ g' = g)
    BY <1>1, <1>2 DEF GraphInv
  <2> HIDE DEF a, b
  <2>3. QED BY <1>4, <2>1, <2>2 DEF Closed
<1>7. g'.nodes \subseteq used' /\ \A n \in Nodes \ used' : g'.links[n] = <<>>
  <2>1. used' = used /\ g.nodes \subseteq used /\ \A n \in Nodes \ used : g.links[n] = <<>>
    BY <1>1, <1>2 DEF GraphInv
  <2>2. a \in used
    BY <1>3
  <2> HIDE DEF a, b
  <2>3. QED BY <1>4, <2>1, <2>2
<1>8. /\ pending' \in Seq(Nodes) /\ armed' \subseteq Starts
      /\ served' \in 0 .. MaxRequests /\ used' \subseteq Nodes
      /\ alive' \in BOOLEAN /\ orphaned' \in BOOLEAN
  BY <1>1, <1>2 DEF TypeOK
<1>9. dangling' \in BOOLEAN
  BY <1>1, <1>2 DEF TypeOK
<1>10. /\ g.nodes \subseteq g'.nodes /\ (orphaned => orphaned')
       /\ (dangling => dangling') /\ used' \cap InFile \subseteq used
       /\ \A d \in Clients : request'[d] # NoRequest => request'[d].node \in used'
  BY <1>2, <1>4, <1>5
<1>11. Refreshed
  BY <1>2, NotTouched
<1>12. GraphChanged
  BY <1>2
<1>13. /\ UNCHANGED <<running_, pc, polled, at, cur, origin, pos, left, holds>>
       /\ UNCHANGED <<started, refired>>
  BY <1>2
<1>14. Sane(g')
  BY <1>4
<1> HIDE DEF r, a, b
<1>15. QED BY <1>5, <1>6, <1>7, <1>8, <1>9, <1>10, <1>11, <1>12, <1>13, <1>14, RequestInv

(* The requests that at most take from the graph.                          *)
LEMMA LessInv ==
  ASSUME IInv, NEW c \in Clients, Answer(c) \/ Disown(c), GraphChanged, Refreshed,
         UNCHANGED <<running_, pc, passVars, cur, origin, pos, left, served, used>>,
         UNCHANGED <<holds, dangling, startHistory>>,
         Sane(g'), g'.nodes \subseteq g.nodes,
         pc \in Chain => g.nodes \subseteq g'.nodes \/ orphaned',
         \A m \in g'.nodes :
           Targets(g', m) \subseteq Targets(g, m) \ (g.nodes \ g'.nodes),
         \A m \in Nodes : g.links[m] = <<>> => g'.links[m] = <<>>,
         pending' \in Seq(Nodes), alive' \in BOOLEAN, orphaned' \in BOOLEAN,
         orphaned => orphaned'
  PROVE  IInv'
<1>1. TypeOK /\ GraphInv
  BY DEF IInv
<1>2. /\ UNCHANGED <<running_, pc, polled, at, cur, origin, pos, left, holds>>
      /\ UNCHANGED <<started, refired>> /\ UNCHANGED <<armed, served, used, dangling>>
  BY DEF passVars, startHistory
<1>3. ~dangling' => Closed(g')
  BY <1>1, <1>2 DEF GraphInv, Closed
<1>4. g'.nodes \subseteq used' /\ \A n \in Nodes \ used' : g'.links[n] = <<>>
  BY <1>1, <1>2 DEF GraphInv
<1>5. /\ armed' \subseteq Starts /\ served' \in 0 .. MaxRequests
      /\ used' \subseteq Nodes /\ dangling' \in BOOLEAN
  BY <1>1, <1>2 DEF TypeOK
<1>6. /\ request' \in [Clients -> Serving \cup {NoRequest}]
      /\ \A d \in Clients : request'[d] # NoRequest => request'[d].node \in used'
  BY <1>2, Answered
<1>7. (dangling => dangling') /\ used' \cap InFile \subseteq used
  BY <1>2
<1>8. QED BY <1>2, <1>3, <1>4, <1>5, <1>6, <1>7, RequestInv

LEMMA LessRequestsInv ==
  ASSUME IInv, NEW c \in Clients,
         DisconnectNodes(c) \/ SetGuardOf(c) \/ PushNotification(c) \/ RemoveNode(c)
  PROVE  IInv'
<1> DEFINE r == request[c]
<1>1. TypeOK /\ GraphInv /\ Sane(g)
  BY DEF IInv, GraphInv
<1>2. r # NoRequest
  BY DEF DisconnectNodes, SetGuardOf, PushNotification, RemoveNode
<1>3. r.node \in Nodes /\ r.other \in Nodes /\ r.expr \in Guards \cup {NoGuard}
  BY <1>2, Served
<1>4. g.nodes \subseteq Nodes /\ pending \in Seq(Nodes) /\ orphaned \in BOOLEAN
      /\ alive \in BOOLEAN
  BY <1>1 DEF TypeOK, Graphs
<1>5. CASE DisconnectNodes(c)
  <2>1. /\ g' = Disconnect(g, r.node, r.other) /\ UNCHANGED <<pending, alive, orphaned>>
        /\ GraphChanged /\ Disown(c)
        /\ UNCHANGED <<running_, pc, passVars, cur, origin, pos, left, served, used>>
        /\ UNCHANGED <<holds, dangling, startHistory>>
    BY <1>5 DEF DisconnectNodes
  <2>2. /\ Sane(g') /\ g'.nodes = g.nodes
        /\ \A m \in Nodes : Targets(g', m) \subseteq Targets(g, m)
        /\ \A m \in Nodes : g.links[m] = <<>> => g'.links[m] = <<>>
    BY <1>1, <1>3, <2>1, DisconnectSane
  <2>3. /\ g'.nodes \subseteq g.nodes /\ g.nodes \subseteq g'.nodes
        /\ \A m \in g'.nodes :
             Targets(g', m) \subseteq Targets(g, m) \ (g.nodes \ g'.nodes)
    BY <1>4, <2>2
  <2>4. /\ pending' \in Seq(Nodes) /\ alive' \in BOOLEAN
        /\ orphaned' \in BOOLEAN /\ (orphaned => orphaned')
    BY <1>4, <2>1
  <2>5. Refreshed
    BY <2>1, DisownRefreshes
  <2> HIDE DEF r
  <2>6. QED BY <2>1, <2>2, <2>3, <2>4, <2>5, LessInv
<1>6. CASE SetGuardOf(c)
  <2>1. /\ g' \in {g, SetGuard(g, r.node, r.other, r.expr)}
        /\ UNCHANGED <<pending, orphaned>>
        /\ GraphChanged /\ Answer(c)
        /\ UNCHANGED <<running_, pc, passVars, cur, origin, pos, left, served, used>>
        /\ UNCHANGED <<holds, dangling, startHistory>>
    BY <1>6 DEF SetGuardOf
  <2>2. /\ Sane(g') /\ g'.nodes = g.nodes
        /\ \A m \in Nodes : Targets(g', m) \subseteq Targets(g, m)
        /\ \A m \in Nodes : g.links[m] = <<>> => g'.links[m] = <<>>
    <3>1. CASE g' = g
      BY <1>1, <3>1
    <3>2. CASE g' = SetGuard(g, r.node, r.other, r.expr)
      BY <1>1, <1>3, <3>2, SetGuardSane
    <3>3. QED BY <2>1, <3>1, <3>2
  <2>3. /\ g'.nodes \subseteq g.nodes /\ g.nodes \subseteq g'.nodes
        /\ \A m \in g'.nodes :
             Targets(g', m) \subseteq Targets(g, m) \ (g.nodes \ g'.nodes)
    BY <1>4, <2>2
  <2>4. pending' \in Seq(Nodes) /\ orphaned' \in BOOLEAN /\ (orphaned => orphaned')
    BY <1>4, <2>1
  <2>5. alive' \in BOOLEAN
    BY <1>4, <1>6 DEF SetGuardOf
  <2>6. Refreshed
    <3>1. PICK s : Reguard(s, r.expr)
      BY <1>6 DEF SetGuardOf
    <3>2. holds' = holds
      BY <2>1
    <3> HIDE DEF r
    <3>3. QED BY <1>3, <3>1, <3>2, ReguardRefreshes
  <2> HIDE DEF r
  <2>7. QED BY <2>1, <2>2, <2>3, <2>4, <2>5, <2>6, LessInv
<1>7. CASE PushNotification(c)
  <2>1. /\ UNCHANGED <<g, alive, orphaned, copied, used>> /\ UNCHANGED syncHistory
        /\ pending' = Append(pending, r.node) /\ Answer(c)
        /\ UNCHANGED <<running_, pc, passVars, cur, origin, pos, left, served>>
        /\ UNCHANGED <<holds, dangling, startHistory>>
    BY <1>7 DEF PushNotification, loopVars, chainVars, choice, history
  <2>2. pending' \in Seq(Nodes)
    BY <1>3, <1>4, <2>1
  <2>3. GraphChanged /\ Sane(g')
    BY <2>1, SameGraph
  <2>4. g'.nodes = g.nodes /\ g'.links = g.links
        /\ \A m \in g'.nodes : Targets(g', m) \subseteq Targets(g, m)
    BY <2>1 DEF Targets
  <2>5. Refreshed
    BY <2>1, NotTouched
  <2> HIDE DEF r
  <2>6. QED BY <1>4, <2>1, <2>2, <2>3, <2>4, <2>5, LessInv
<1>8. CASE RemoveNode(c)
  <2>1. /\ g' = DeleteNode(g, r.node) /\ pending' = pending /\ GraphChanged /\ Disown(c)
        /\ orphaned' = (orphaned \/ (pc \in Chain /\ r.node \in g.nodes))
        /\ UNCHANGED <<running_, pc, passVars, cur, origin, pos, left, served, used>>
        /\ UNCHANGED <<holds, dangling, startHistory>>
    BY <1>8 DEF RemoveNode
  <2>2. /\ Sane(g') /\ g'.nodes = g.nodes \ {r.node}
        /\ \A m \in Nodes : Targets(g', m) \subseteq Targets(g, m) \ {r.node}
        /\ \A m \in Nodes : g.links[m] = <<>> => g'.links[m] = <<>>
    BY <1>1, <1>3, <2>1, DeleteNodeSane
  <2>3. /\ g'.nodes \subseteq g.nodes
        /\ pc \in Chain => g.nodes \subseteq g'.nodes \/ orphaned'
    <3>1. CASE r.node \in g.nodes
      BY <2>1, <2>2, <3>1
    <3>2. CASE r.node \notin g.nodes
      BY <2>2, <3>2
    <3>3. QED BY <3>1, <3>2
  <2>4. orphaned' \in BOOLEAN /\ (orphaned => orphaned') /\ pending' \in Seq(Nodes)
    BY <1>4, <2>1
  <2>5. \A m \in g'.nodes :
          Targets(g', m) \subseteq Targets(g, m) \ (g.nodes \ g'.nodes)
    BY <1>4, <2>2
  <2>6. alive' \in BOOLEAN
    BY <1>8 DEF RemoveNode
  <2>7. Refreshed
    BY <2>1, DisownRefreshes
  <2> HIDE DEF r
  <2>8. QED BY <2>1, <2>2, <2>3, <2>4, <2>5, <2>6, <2>7, LessInv
<1>9. QED BY <1>5, <1>6, <1>7, <1>8

LEMMA CancelInv ==
  ASSUME IInv, Cancel
  PROVE  IInv'
<1>1. /\ UNCHANGED <<g, pc, polled, armed, at, cur, origin, copied, pos, left>>
      /\ UNCHANGED <<pending, request, served, used, holds, alive, orphaned, dangling>>
      /\ UNCHANGED <<unsynced, lost, stale, started, refired>> /\ running_' \in BOOLEAN
  BY DEF Cancel, loopVars, passVars, chainVars, choice, netVars, history, syncHistory,
         startHistory
<1>2. TypeOK'
  BY <1>1 DEF IInv, TypeOK
<1>3. /\ GraphInv' /\ EnteredNodesBelong' /\ SyncInv' /\ PlaceInv' /\ FreshInv'
      /\ CopiesBelong'
  BY <1>1 DEF IInv, GraphInv, EnteredNodesBelong, SyncInv, PlaceInv, FreshInv, CopiesBelong
<1>4. ChoiceInv'
  BY <1>1 DEF IInv, ChoiceInv, Mixed, Open
<1>5. QED BY <1>2, <1>3, <1>4 DEF IInv

-----------------------------------------------------------------------------
LEMMA NextInv ==
  ASSUME IInv, [Next]_vars
  PROVE  IInv'
<1>1. CASE UNCHANGED vars
  <2>1. /\ UNCHANGED <<g, running_, pc, polled, armed, at, cur, origin, copied, pos, left>>
        /\ UNCHANGED <<pending, request, served, used, holds, alive, orphaned, dangling>>
        /\ UNCHANGED <<unsynced, lost, stale, started, refired>>
    BY <1>1 DEF vars, loopVars, passVars, chainVars, choice, netVars, history,
                syncHistory, startHistory
  <2>2. TypeOK'
    BY <2>1 DEF IInv, TypeOK
  <2>3. /\ GraphInv' /\ EnteredNodesBelong' /\ SyncInv' /\ PlaceInv' /\ FreshInv'
        /\ CopiesBelong'
    BY <2>1 DEF IInv, GraphInv, EnteredNodesBelong, SyncInv, PlaceInv, FreshInv,
                CopiesBelong
  <2>4. ChoiceInv'
    BY <2>1 DEF IInv, ChoiceInv, Mixed, Open
  <2>5. QED BY <2>2, <2>3, <2>4 DEF IInv
<1>2. CASE Next
  <2>1. CASE Cycle
    <3>1. CASE \/ LoopHead \/ SyncEvents \/ ClearFlag \/ BreakForSync \/ EndOfPass
               \/ LockQueue \/ UnlockQueue \/ WakeUp
      BY <3>1, LoopInv
    <3>2. ASSUME NEW e \in Events, Check(e) PROVE IInv'
      BY <3>2, CheckInv
    <3>3. CASE TakePending
      BY <3>3, TakePendingInv
    <3>4. CASE EnterNode
      BY <3>4, EnterNodeInv
    <3>5. CASE ActionThrows
      <4>1. pc \in Chain /\ EndChain /\ UNCHANGED chainFrame
        BY <3>5 DEF ActionThrows, Chain
      <4>2. QED BY <4>1, EndChainInv
    <3>6. CASE LoadNode
      BY <3>6, LoadNodeInv
    <3>7. CASE LoadLink
      BY <3>7, LoadLinkInv
    <3>8. CASE LoadGuard
      BY <3>8, LoadGuardInv
    <3>9. CASE NothingToLoad
      BY <3>9, NothingToLoadInv
    <3>10. CASE CopyLinks
      BY <3>10, CopyLinksInv
    <3>11. CASE TestGuard
      BY <3>11, TestGuardInv
    <3>12. CASE CountFree
      BY <3>12, CountFreeInv
    <3>13. CASE PickFree
      BY <3>13, PickFreeInv
    <3>14. QED
      BY <2>1, <3>1, <3>2, <3>3, <3>4, <3>5, <3>6, <3>7, <3>8, <3>9, <3>10, <3>11,
         <3>12, <3>13 DEF Cycle
  <2>2. CASE Exec
    BY <2>2, LoopInv
  <2>3. CASE Cancel
    BY <2>3, CancelInv
  <2>4. CASE World
    BY <2>4, WorldInv
  <2>5. ASSUME NEW r \in Menu, Create(r) PROVE IInv'
    BY <2>5, CreateInv
  <2>6. ASSUME NEW r \in Menu, NEW c \in Clients, Find(c, r) PROVE IInv'
    BY <2>6, FindInv
  <2>7. ASSUME NEW c \in Clients, Serve(c) PROVE IInv'
    <3>1. CASE ConnectNodes(c)
      BY <3>1, ConnectNodesInv
    <3>2. CASE \/ DisconnectNodes(c) \/ SetGuardOf(c)
               \/ PushNotification(c) \/ RemoveNode(c)
      BY <3>2, LessRequestsInv
    <3>3. QED BY <2>7, <3>1, <3>2 DEF Serve
  <2>8. QED BY <1>2, <2>1, <2>2, <2>3, <2>4, <2>5, <2>6, <2>7 DEF Next
<1>3. QED BY <1>1, <1>2

(* The inductive invariant holds in every reachable state.                 *)
THEOREM InvariantHolds == Spec => []IInv
<1>1. Init => IInv
  BY InitInv
<1>2. IInv /\ [Next]_vars => IInv'
  BY NextInv
<1>3. QED BY <1>1, <1>2, PTL DEF Spec

(* Type correctness: whatever the requests and the chains do to it, the    *)
(* graph stays a graph over the node objects, with activeEvents among its  *)
(* nodes, and the queue holds nodes.                                       *)
THEOREM TypeCorrect == Spec => []TypeOK
<1>1. IInv => TypeOK
  BY DEF IInv
<1>2. QED BY <1>1, InvariantHolds, PTL

(* A chain of notifyOne is at a node of the graph, unless nodes were       *)
(* removed since it began or a connection led to a removed node: also when *)
(* the connections it chooses from are a copy the graph has moved on from. *)
THEOREM ChainsStayInGraph == Spec => []EnteredNodesBelong
<1>1. IInv => EnteredNodesBelong
  BY DEF IInv
<1>2. QED BY <1>1, InvariantHolds, PTL

(* Every change of the graph counts: after one that leaves the flag up at  *)
(* most one event is checked before exec syncs, however many follow and    *)
(* wherever exec is.  One that finds the flag down and leaves it so, as a  *)
(* removal or a guard does, or falls in the clearing, is the exception.    *)
THEOREM SyncInTime == Spec => []AtMostOneStaleCheck
<1>1. IInv => AtMostOneStaleCheck
  BY DEF IInv, SyncInv, AtMostOneStaleCheck
<1>2. QED BY <1>1, InvariantHolds, PTL

-----------------------------------------------------------------------------
(* Only the four steps of notifyOne leave its choice. *)
LEMMA OnlyTheseLeave ==
  ASSUME IInv, [Next]_vars, pc \in Choice, pc' \notin Choice
  PROVE  CopyLinks \/ TestGuard \/ CountFree \/ PickFree
<1>1. CASE UNCHANGED vars
  BY <1>1 DEF vars, loopVars
<1>2. CASE Exec \/ Cancel \/ World
  BY <1>2 DEF Exec, Cancel, World, loopVars, Choice
<1>3. CASE \E r \in Menu : Create(r) \/ \E c \in Clients : Find(c, r)
  BY <1>3 DEF Create, Find, loopVars
<1>4. CASE \E c \in Clients : Serve(c)
  BY <1>4 DEF Serve, ConnectNodes, DisconnectNodes, SetGuardOf, PushNotification,
              RemoveNode, loopVars
<1>5. CASE Cycle
  <2>1. CASE \/ LoopHead \/ SyncEvents \/ ClearFlag \/ (\E e \in Events : Check(e))
             \/ BreakForSync \/ EndOfPass \/ LockQueue \/ TakePending
             \/ UnlockQueue \/ WakeUp
    BY <2>1 DEF LoopHead, SyncEvents, ClearFlag, Check, BreakForSync, EndOfPass,
                LockQueue, TakePending, UnlockQueue, WakeUp, Choice
  <2>2. CASE EnterNode \/ ActionThrows \/ LoadNode \/ LoadLink \/ LoadGuard \/ NothingToLoad
    BY <2>2 DEF EnterNode, ActionThrows, LoadNode, LoadLink, LoadGuard, NothingToLoad,
                Choice
  <2>3. QED BY <1>5, <2>1, <2>2 DEF Cycle
<1>6. QED BY <1>1, <1>2, <1>3, <1>4, <1>5 DEF Next

LEMMA ChoiceStep ==
  ASSUME IInv, [Next]_vars, cur \notin Events
  PROVE  Documented
<1> SUFFICES ASSUME pc \in Choice, pc' \notin Choice
             PROVE  IF pc' = "enter"
                    THEN \E i \in 1 .. Len(copied) : copied[i].to = cur' /\ MayFollow(i)
                    ELSE MayStop
  BY DEF Documented
<1>1. CASE CopyLinks
  <2>1. pc = "choose" /\ EndChain
    BY <1>1 DEF CopyLinks, Choice
  <2>2. copied = <<>> /\ pc' # "enter"
    BY <2>1 DEF EndChain, IInv, PlaceInv, Choosing, Counting
  <2>3. Held = {} /\ Open = {}
    BY <2>2 DEF Held, Open
  <2>4. QED BY <2>2, <2>3 DEF MayStop
<1>2. CASE TestGuard
  <2>1. pc = "guards" /\ GuardHolds(copied[pos]) /\ Follow(copied[pos].to)
    BY <1>2 DEF TestGuard, Choice
  <2>2. pos \in 1 .. Len(copied) /\ pc \in Choosing
    BY <2>1 DEF IInv, TypeOK, PlaceInv, Choosing
  <2>3. Status(copied[pos], holds) = "holds" /\ "holds" \in copied[pos].seen
    <3>1. copied[pos].guard \in holds /\ holds \subseteq Guards
      BY <2>1 DEF GuardHolds, IInv, TypeOK
    <3>2. Status(copied[pos], holds) = "holds"
      BY <3>1, GuardAssumption DEF Status
    <3>3. QED BY <2>2, <3>2, OpenIsFree
  <2>4. MayFollow(pos)
    BY <2>3 DEF MayFollow
  <2>5. QED BY <2>1, <2>2, <2>4 DEF Follow
<1>3. CASE CountFree
  <2> DEFINE n == IF copied[pos].guard = NoGuard THEN left + 1 ELSE left
  <2>1. pc = "count" /\ pc \in Counting /\ ~(pos < Len(copied)) /\ n = 0 /\ EndChain
    BY <1>3 DEF CountFree, Choice, Counting
  <2>2. pos \in 1 .. Len(copied) /\ Len(copied) \in Nat /\ Held = {}
    BY <2>1, Counted
  <2>3. Mixed = {} => Open = {}
    <3> SUFFICES ASSUME Mixed = {} PROVE Open = {}
      OBVIOUS
    <3>1. pos = Len(copied) => n = Cardinality(Open)
      BY <2>1, CountedAll
    <3> HIDE DEF n
    <3>2. Cardinality(Open) = 0
      BY <2>1, <2>2, <3>1
    <3>3. QED BY <3>2, AllOpen DEF IInv
  <2>4. pc' # "enter"
    BY <2>1 DEF EndChain
  <2>5. QED BY <2>2, <2>3, <2>4 DEF MayStop
<1>4. CASE PickFree
  <2> DEFINE free == copied[pos].guard = NoGuard
  <2>1. pc = "pick" /\ pc \in Counting
    BY <1>4 DEF PickFree, Counting
  <2>2. /\ pos \in 1 .. Len(copied) /\ Len(copied) \in Nat /\ left \in Nat
        /\ Held = {} /\ pc \in Choosing
        /\ Mixed = {} => left < Cardinality(OpenFrom(pos))
    BY <2>1, Counted
  <2>3. CASE free /\ left = 0
    <3>1. Follow(copied[pos].to)
      BY <1>4, <2>3 DEF PickFree
    <3>2. "free" \in copied[pos].seen
      BY <2>2, <2>3, OpenIsFree
    <3>3. MayFollow(pos)
      BY <2>2, <3>2 DEF MayFollow
    <3>4. QED BY <2>2, <3>1, <3>3 DEF Follow
  <2>4. CASE ~(free /\ left = 0)
    <3>1. ~(pos < Len(copied)) /\ EndChain
      BY <1>4, <2>4 DEF PickFree, Choice
    <3>2. Mixed = {} => Open = {}
      <4> SUFFICES ASSUME Mixed = {} PROVE FALSE
        OBVIOUS
      <4>1. OpenFrom(pos + 1) = {} /\ Cardinality({}) = 0
        BY <2>2, <3>1, AllOpen DEF IInv
      <4>2. pos \in Open <=> free
        BY <2>2, OpenIsFree
      <4>3. /\ pos \in Open =>
                 Cardinality(OpenFrom(pos)) = Cardinality(OpenFrom(pos + 1)) + 1
            /\ pos \notin Open => OpenFrom(pos) = OpenFrom(pos + 1)
        BY <2>2, OneMoreOpen DEF IInv
      <4> DEFINE here == Cardinality(OpenFrom(pos))
                 there == Cardinality(OpenFrom(pos + 1))
      <4>4. there = 0 /\ left < here
        BY <2>2, <4>1
      <4>5. (pos \in Open => here = there + 1) /\ (pos \notin Open => here = there)
        BY <4>3
      <4> HIDE DEF here, there
      <4>6. left = 0 /\ pos \in Open
        BY <2>2, <4>4, <4>5
      <4>7. QED BY <2>4, <4>2, <4>6
    <3>3. pc' # "enter"
      BY <3>1 DEF EndChain
    <3>4. QED BY <2>2, <3>2, <3>3 DEF MayStop
  <2>5. QED BY <2>3, <2>4
<1>5. QED BY <1>1, <1>2, <1>3, <1>4, OnlyTheseLeave

(* From an action a chain follows a connection whose guard held, else one  *)
(* without a guard, though both change between the copy of the             *)
(* connections, the tests, the count and the draw; and it stops only when  *)
(* there was neither, or the count was overtaken.                          *)
THEOREM ActionChoice == Spec => ActionsChooseAsDocumented
<1>1. IInv /\ [Next]_vars => [(cur \notin Events) => Documented]_vars
  BY ChoiceStep
<1>2. QED BY <1>1, InvariantHolds, PTL DEF Spec, ActionsChooseAsDocumented
=============================================================================

-------------------------- MODULE EditorSyncProofs --------------------------
(***************************************************************************)
(* The page and the server with every request between them under way, in   *)
(* any order, for any names, kinds, first graph and sessions: types; what  *)
(* the file holds; what leaves the canvas; which nodes are busy; that page *)
(* and server have the same nodes; that the process lives; and that an     *)
(* arrow whose node is gone has a request under way.  Each invariant is    *)
(* stated before its proof, with what it adds to those before it.          *)
(***************************************************************************)
EXTENDS EditorSync, FiniteSetTheorems, SequenceTheorems, TLAPS

(* A set of naturals has a least member, and a bounded one a greatest.     *)
LEMMA MinIs ==
  ASSUME NEW S \in SUBSET Nat, S # {}
  PROVE  Min(S) \in S /\ \A y \in S : Min(S) <= y
<1> DEFINE T == {0 .. k : k \in S}
<1>1. T \subseteq FiniteSubsetsOf(Nat) /\ T # {}
  <2>1. \A k \in S : IsFiniteSet(0 .. k) /\ 0 .. k \in SUBSET Nat
    BY FS_Interval
  <2>2. QED BY <2>1 DEF FiniteSubsetsOf
<1>2. PICK x \in T : \A y \in T : <<y, x>> \notin StrictSubsetOrdering(Nat)
  BY <1>1, FS_StrictSubsetOrderingWellFounded, WFMin
<1>3. PICK k \in S : x = 0 .. k
  BY <1>2
<1>4. ASSUME NEW y \in S, ~(k <= y) PROVE FALSE
  <2>1. 0 .. y \subseteq 0 .. k /\ 0 .. y # 0 .. k
    <3>1. k \in 0 .. k /\ k \notin 0 .. y
      BY <1>4
    <3>2. QED BY <1>4, <3>1
  <2>2. 0 .. y \in T /\ 0 .. y \in SUBSET Nat /\ 0 .. k \in SUBSET Nat
    BY <1>4
  <2>3. QED BY <1>2, <1>3, <2>1, <2>2 DEF StrictSubsetOrdering
<1>5. QED BY <1>3, <1>4 DEF Min

LEMMA MaxIs ==
  ASSUME NEW S \in SUBSET Nat, S # {}, NEW n \in Nat, \A x \in S : x <= n
  PROVE  Max(S) \in S /\ \A y \in S : y <= Max(S)
<1> DEFINE D == {d \in 0 .. n : n - d \in S}
<1>1. D \in SUBSET Nat /\ D # {}
  <2>1. PICK x \in S : TRUE
    OBVIOUS
  <2>2. x \in Nat /\ x <= n /\ n - (n - x) = x /\ n - x \in 0 .. n
    OBVIOUS
  <2>3. QED BY <2>1, <2>2
<1>2. Min(D) \in D /\ \A d \in D : Min(D) <= d
  BY <1>1, MinIs
<1> DEFINE m == n - Min(D)
<1>3. m \in S
  BY <1>2
<1>4. ASSUME NEW y \in S PROVE y <= m
  <2>1. y \in Nat /\ y <= n /\ n - (n - y) = y /\ n - y \in 0 .. n
    OBVIOUS
  <2>2. n - y \in D
    BY <2>1
  <2>3. Min(D) <= n - y /\ Min(D) \in 0 .. n
    BY <1>2, <2>2
  <2>4. QED BY <2>1, <2>3
<1>5. \E z \in S : \A y \in S : z >= y
  <2>1. m \in Nat
    BY <1>3
  <2>2. QED BY <1>3, <1>4, <2>1
<1>6. Max(S) \in S /\ \A y \in S : Max(S) >= y
  BY <1>5 DEF Max
<1>7. QED BY <1>6

(* A finite set is listed, each member once.                               *)
LEMMA SetToSeqIs ==
  ASSUME NEW S, IsFiniteSet(S)
  PROVE  /\ SetToSeq(S) \in Seq(S)
         /\ \A x \in S : \E i \in DOMAIN SetToSeq(S) : SetToSeq(S)[i] = x
         /\ \A i, j \in DOMAIN SetToSeq(S) : SetToSeq(S)[i] = SetToSeq(S)[j] => i = j
<1> DEFINE n == Cardinality(S)
<1>1. n \in Nat /\ ExistsBijection(1 .. n, S)
  BY FS_CardinalityType
<1>2. PICK g \in Bijection(1 .. n, S) : TRUE
  BY <1>1 DEF ExistsBijection
<1>3. g \in [1 .. n -> S] /\ IsInjective(g)
  BY <1>2 DEF Bijection, Injection
<1>4. SetToSeq(S) \in [1 .. n -> S] /\ IsInjective(SetToSeq(S))
  BY <1>3 DEF SetToSeq
<1>5. SetToSeq(S) \in Injection(1 .. n, S)
  BY <1>4 DEF Injection
<1>6. Cardinality(1 .. n) = n
  BY <1>1, FS_Interval
<1>7. SetToSeq(S) \in Surjection(1 .. n, S)
  BY <1>5, <1>6, FS_Injection
<1>8. SetToSeq(S) \in Seq(S) /\ DOMAIN SetToSeq(S) = 1 .. n
  BY <1>1, <1>4
<1>9. QED BY <1>4, <1>7, <1>8 DEF Surjection, IsInjective

-----------------------------------------------------------------------------
(* What an edit posts.                                                     *)

(* A call that was posted with these fields and not served yet.            *)
Says(c, op, who, at, to) ==
  c = [op |-> op, who |-> who, at |-> at, to |-> to, copy |-> c.copy,
       status |-> "sent", name |-> NoName, view |-> NoView]
SaysDisconnect(c, a) ==
  Says(c, "disconnect", a, node[arrow[a].from].id, node[arrow[a].to].id)

LEMMA PostedUnion ==
  ASSUME NEW C, NEW D PROVE Posted(C \cup D) = Posted(C) \cup Posted(D)
BY DEF Posted

LEMMA NumberedSays ==
  ASSUME NEW op, NEW who, NEW at, NEW to
  PROVE  Says(Numbered(Call(op, who, at, to)), op, who, at, to)
<1>1. ASSUME NEW d PROVE \E k : Numbered(d) = [d EXCEPT !.copy = k]
  BY DEF Numbered
<1>2. PICK k : Numbered(Call(op, who, at, to)) = [Call(op, who, at, to) EXCEPT !.copy = k]
  BY <1>1
<1>3. Numbered(Call(op, who, at, to))
        = [op |-> op, who |-> who, at |-> at, to |-> to, copy |-> k,
           status |-> "sent", name |-> NoName, view |-> NoView]
  BY <1>2 DEF Call
<1>4. QED BY <1>3 DEF Says

LEMMA PostedThree ==
  ASSUME NEW A, NEW B, NEW C PROVE Posted(A \cup B \cup C) = Posted(A) \cup Posted(B) \cup Posted(C)
BY DEF Posted

LEMMA PostedCall ==
  ASSUME NEW op, NEW who, NEW at, NEW to
  PROVE  /\ Posted({Call(op, who, at, to)}) = {Numbered(Call(op, who, at, to))}
         /\ Says(Numbered(Call(op, who, at, to)), op, who, at, to)
BY NumberedSays DEF Posted

LEMMA PostedStop ==
  \A c \in Posted(StopIfRunning) : Says(c, "stop", 0, NoName, NoName)
BY PostedCall DEF StopIfRunning, Posted

LEMMA PostedDisconnects ==
  ASSUME NEW S
  PROVE  /\ \A c \in Posted({PostDisconnect(a) : a \in S}) : \E a \in S : SaysDisconnect(c, a)
         /\ \A a \in S : \E c \in Posted({PostDisconnect(b) : b \in S}) : SaysDisconnect(c, a)
<1>1. ASSUME NEW c \in Posted({PostDisconnect(a) : a \in S})
      PROVE  \E a \in S : SaysDisconnect(c, a)
  <2>1. PICK a \in S : c = Numbered(PostDisconnect(a))
    BY <1>1 DEF Posted
  <2>2. SaysDisconnect(c, a)
    BY <2>1, NumberedSays DEF PostDisconnect, SaysDisconnect
  <2>3. QED BY <2>2
<1>2. ASSUME NEW a \in S
      PROVE  \E c \in Posted({PostDisconnect(b) : b \in S}) : SaysDisconnect(c, a)
  <2>1. Numbered(PostDisconnect(a)) \in Posted({PostDisconnect(b) : b \in S})
    BY DEF Posted
  <2>2. SaysDisconnect(Numbered(PostDisconnect(a)), a)
    BY NumberedSays DEF PostDisconnect, SaysDisconnect
  <2>3. QED BY <2>1, <2>2
<1>3. QED BY <1>1, <1>2

-----------------------------------------------------------------------------
(* The types of the state, in full.                                        *)
NodeType ==
  [id : Names, kind : Kinds, active : BOOLEAN, drawn : BOOLEAN, label : Names \cup {NoName}]
ArrowType ==
  [from : Nat, to : Nat, name : Nat, mapped : BOOLEAN, drawn : BOOLEAN, leaving : BOOLEAN]
Ops == NodeOps \cup LinkOps \cup {"position", "save", "run", "stop"}

ViewOK(v) ==
  /\ IsFiniteSet(v.nodes) /\ v.nodes \subseteq [name : Names, kind : Kinds, made : Nat]
  /\ IsFiniteSet(v.links) /\ v.links \subseteq [id : Nat, from : Names, to : Names]

CallOK(c) ==
  /\ c = [op |-> c.op, who |-> c.who, at |-> c.at, to |-> c.to, copy |-> c.copy,
          status |-> c.status, name |-> c.name, view |-> c.view]
  /\ c.op \in Ops /\ c.status \in Status /\ ViewOK(c.view)
  /\ c.name \in Names \cup {NoName}
  /\ c.op \in {"create", "remove", "rename", "position"} => c.who \in DOMAIN node /\ c.at \in Names
  /\ c.op \in LinkOps => c.who \in DOMAIN arrow /\ c.at \in Names /\ c.to \in Names
  /\ c.op = "rename" => c.to \in Names
  /\ c.op = "refresh" => c.who \in {0, 1}
  /\ c.op = "create" /\ c.status = "ok" => c.name \in Names

NodesTyped == node \in Seq(NodeType)
StateTyped == DOMAIN state \subseteq Names /\ \A i \in DOMAIN state : state[i] \in DOMAIN node
ArrowsTyped ==
  arrow \in Seq(ArrowType) /\ \A a \in DOMAIN arrow : {arrow[a].from, arrow[a].to} \subseteq DOMAIN node
CallsTyped == \A c \in calls : CallOK(c)
EventType == [enter : BOOLEAN, name : Names \cup {NoName}]
EventsTyped == events \in Seq(EventType) /\ Len(events) <= RingSize /\ news \in Seq(EventType)
WriteOK(w) ==
  /\ w = [for |-> w.for, list |-> w.list, written |-> w.written, last |-> w.last]
  /\ w.for.op \in {"save", "refresh", "run"} /\ ViewOK(w.list)
  /\ w.written \in BOOLEAN /\ w.last \in BOOLEAN
DiskTyped ==
  /\ ViewOK(file) /\ \A w \in writing : WriteOK(w)
  /\ running \in {"off", "on", "stopping"}
KnownTyped ==
  /\ known \in Seq([name : Names, kind : Kinds])
  /\ live \subseteq DOMAIN known /\ visiting \in DOMAIN known \cup {0}
LinksTyped ==
  /\ IsFiniteSet(links) /\ links \subseteq [id : Nat, from : DOMAIN known, to : DOMAIN known]
  /\ linked \in Nat /\ named \in Nat
Types ==
  /\ NodesTyped /\ StateTyped /\ ArrowsTyped /\ CallsTyped /\ EventsTyped /\ KnownTyped /\ LinksTyped
  /\ DiskTyped
  /\ button \in {"play", "stop"} /\ count \in Nat

LEMMA NoViewOK == ViewOK(NoView)
BY FS_EmptySet DEF ViewOK, NoView

LEMMA SaysOK ==
  ASSUME NEW c, NEW op \in Ops, NEW who, NEW at, NEW to, Says(c, op, who, at, to),
         op \in {"create", "remove", "rename", "position"} => who \in DOMAIN node /\ at \in Names,
         op \in LinkOps => who \in DOMAIN arrow /\ at \in Names /\ to \in Names,
         op = "rename" => to \in Names,
         op = "refresh" => who \in {0, 1}
  PROVE  CallOK(c)
<1>1. /\ c.op = op /\ c.who = who /\ c.at = at /\ c.to = to
      /\ c.status = "sent" /\ c.name = NoName /\ c.view = NoView
  BY DEF Says
<1>2. c = [op |-> c.op, who |-> c.who, at |-> c.at, to |-> c.to, copy |-> c.copy,
           status |-> c.status, name |-> c.name, view |-> c.view]
  BY <1>1 DEF Says
<1>3. QED BY <1>1, <1>2, NoViewOK DEF CallOK, Status

LEMMA CallsStayOK ==
  ASSUME NEW c, CallOK(c), DOMAIN node \subseteq DOMAIN node', DOMAIN arrow \subseteq DOMAIN arrow'
  PROVE  CallOK(c)'
BY DEF CallOK

(* The answer of the server to a call.                                     *)
IsReply(r, c, s, m, v) ==
  r = [op |-> c.op, who |-> c.who, at |-> c.at, to |-> c.to, copy |-> c.copy,
       status |-> s, name |-> m, view |-> v]

LEMMA StatusSet ==
  ASSUME NEW c, NEW s, IsReply(c, c, c.status, c.name, c.view)
  PROVE  IsReply([c EXCEPT !.status = s], c, s, c.name, c.view)
<1> DEFINE e == [c EXCEPT !.status = s]
<1>1. e = [op |-> c.op, who |-> c.who, at |-> c.at, to |-> c.to, copy |-> c.copy,
           status |-> s, name |-> c.name, view |-> c.view]
  BY DEF IsReply
<1>2. QED BY <1>1 DEF IsReply

LEMMA NameSet ==
  ASSUME NEW c, NEW m, IsReply(c, c, c.status, c.name, c.view)
  PROVE  IsReply([c EXCEPT !.name = m], c, c.status, m, c.view)
<1> DEFINE e == [c EXCEPT !.name = m]
<1>1. e = [op |-> c.op, who |-> c.who, at |-> c.at, to |-> c.to, copy |-> c.copy,
           status |-> c.status, name |-> m, view |-> c.view]
  BY DEF IsReply
<1>2. QED BY <1>1 DEF IsReply

LEMMA ViewSet ==
  ASSUME NEW c, NEW v, IsReply(c, c, c.status, c.name, c.view)
  PROVE  IsReply([c EXCEPT !.view = v], c, c.status, c.name, v)
<1> DEFINE e == [c EXCEPT !.view = v]
<1>1. e = [op |-> c.op, who |-> c.who, at |-> c.at, to |-> c.to, copy |-> c.copy,
           status |-> c.status, name |-> c.name, view |-> v]
  BY DEF IsReply
<1>2. QED BY <1>1 DEF IsReply

LEMMA ReplyIs ==
  ASSUME NEW c, CallOK(c), NEW s, NEW m, NEW v
  PROVE  /\ IsReply([c EXCEPT !.status = s], c, s, c.name, c.view)
         /\ IsReply([c EXCEPT !.status = s, !.name = m], c, s, m, c.view)
         /\ IsReply([c EXCEPT !.status = s, !.view = v], c, s, c.name, v)
<1>1. IsReply(c, c, c.status, c.name, c.view)
  BY DEF CallOK, IsReply
<1>2. PICK d : d = [c EXCEPT !.status = s]
  OBVIOUS
<1>3. IsReply(d, c, s, c.name, c.view)
  BY <1>1, <1>2, StatusSet
<1>4. IsReply(d, d, d.status, d.name, d.view)
  BY <1>3 DEF IsReply
<1>5. IsReply([d EXCEPT !.name = m], d, d.status, m, d.view)
  BY <1>4, NameSet
<1>6. IsReply([d EXCEPT !.view = v], d, d.status, d.name, v)
  BY <1>4, ViewSet
<1>7. [c EXCEPT !.status = s, !.name = m] = [d EXCEPT !.name = m]
  BY <1>2
<1>8. [c EXCEPT !.status = s, !.view = v] = [d EXCEPT !.view = v]
  BY <1>2
<1>9. IsReply([d EXCEPT !.name = m], c, s, m, c.view)
  BY <1>3, <1>5 DEF IsReply
<1>10. IsReply([d EXCEPT !.view = v], c, s, c.name, v)
  BY <1>3, <1>6 DEF IsReply
<1>11. QED BY <1>2, <1>3, <1>7, <1>8, <1>9, <1>10

LEMMA ReplyOK ==
  ASSUME NEW r, NEW c, CallOK(c), NEW s \in Status, NEW m \in Names \cup {NoName}, NEW v, ViewOK(v),
         c.op = "create" /\ s = "ok" => m \in Names, IsReply(r, c, s, m, v)
  PROVE  CallOK(r)
<1>1. /\ r.op = c.op /\ r.who = c.who /\ r.at = c.at /\ r.to = c.to
      /\ r.status = s /\ r.name = m /\ r.view = v
  BY DEF IsReply
<1>2. r = [op |-> r.op, who |-> r.who, at |-> r.at, to |-> r.to, copy |-> r.copy,
           status |-> r.status, name |-> r.name, view |-> r.view]
  BY <1>1 DEF IsReply
<1>3. QED BY <1>1, <1>2 DEF CallOK

LEMMA StatusReply ==
  ASSUME NEW c \in calls, CallsTyped, NEW s \in {"ok", "error"}, Reply(c, s),
         s = "ok" => c.op # "create"
  PROVE  \E r : /\ calls' = (calls \ {c}) \cup {r} /\ IsReply(r, c, s, c.name, c.view)
                /\ CallOK(r)
<1>1. CallOK(c)
  BY DEF CallsTyped
<1> DEFINE r == [c EXCEPT !.status = s]
<1>2. IsReply(r, c, s, c.name, c.view)
  BY <1>1, ReplyIs
<1>3. CallOK(r)
  BY <1>1, <1>2, ReplyOK DEF CallOK, Status
<1>4. QED BY <1>2, <1>3 DEF Reply

LEMMA PostedEdit ==
  ASSUME NEW op, NEW who, NEW at, NEW to
  PROVE  LET P == Posted(StopIfRunning \cup {Call(op, who, at, to)})
         IN  /\ \A c \in P : Says(c, "stop", 0, NoName, NoName) \/ Says(c, op, who, at, to)
             /\ \E n \in P : /\ Says(n, op, who, at, to)
                            /\ \A c \in P : c = n \/ Says(c, "stop", 0, NoName, NoName)
<1> DEFINE n == Numbered(Call(op, who, at, to))
<1>1. Posted(StopIfRunning \cup {Call(op, who, at, to)}) = Posted(StopIfRunning) \cup {n}
  <2>1. \A A, B : Posted(A \cup B) = Posted(A) \cup Posted(B)
    BY PostedUnion
  <2>2. Posted({Call(op, who, at, to)}) = {n}
    BY PostedCall
  <2>3. QED BY <2>1, <2>2
<1>2. Says(n, op, who, at, to)
  BY PostedCall
<1> HIDE DEF n
<1>3. QED BY <1>1, <1>2, PostedStop

-----------------------------------------------------------------------------
(* What each action does to the types it touches.                          *)
LEMMA AddNodeDoes ==
  ASSUME Types, NEW k \in Kinds, AddNode(k)
  PROVE  LET id == TempId[k][count + 1]
             o == Len(node) + 1
         IN  /\ id \in Names /\ o \notin DOMAIN node /\ count' = count + 1
             /\ node' \in Seq(NodeType) /\ DOMAIN node' = DOMAIN node \cup {o}
             /\ \A p \in DOMAIN node : node'[p] = node[p]
             /\ node'[o] = [id |-> id, kind |-> k, active |-> FALSE, drawn |-> FALSE,
                            label |-> NoName]
             /\ DOMAIN state' = DOMAIN state \cup {id} /\ state'[id] = o
             /\ \A i \in DOMAIN state : i # id => state'[i] = state[i]
             /\ calls \subseteq calls'
             /\ \A c \in calls' : \/ c \in calls \/ Says(c, "stop", 0, NoName, NoName)
                                  \/ Says(c, "create", o, id, NoName)
             /\ \E n \in calls' :
                  /\ Says(n, "create", o, id, NoName)
                  /\ \A c \in calls' : c \in calls \/ c = n \/ Says(c, "stop", 0, NoName, NoName)
<1> DEFINE id == TempId[k][count + 1]
           o == Len(node) + 1
           new == [id |-> id, kind |-> k, active |-> FALSE, drawn |-> FALSE, label |-> NoName]
<1>1. TempId[k] \in Seq(Names) /\ count + 1 \in 1 .. Len(TempId[k])
  BY NamesAssumption DEF AddNode, Types
<1>2. id \in Names
  BY <1>1, ElementOfSeq
<1>3. new \in NodeType /\ node \in Seq(NodeType)
  BY <1>2 DEF NodeType, Types, NodesTyped
<1>4. node' = Append(node, new) /\ count' = count + 1
  BY DEF AddNode
<1> HIDE DEF new
<1>5. /\ node' \in Seq(NodeType) /\ DOMAIN node' = DOMAIN node \cup {o} /\ o \notin DOMAIN node
      /\ \A p \in DOMAIN node : node'[p] = node[p]
      /\ node'[o] = new
  <2>1. Len(node) \in Nat /\ DOMAIN node = 1 .. Len(node)
    BY <1>3, LenProperties
  <2>2. Append(node, new) \in Seq(NodeType) /\ Len(Append(node, new)) = o
    BY <1>3
  <2>3. DOMAIN Append(node, new) = 1 .. o
    BY <2>2, LenProperties
  <2>4. \A p \in 1 .. o : Append(node, new)[p] = IF p = o THEN new ELSE node[p]
    BY <1>3
  <2>5. 1 .. o = 1 .. Len(node) \cup {o} /\ o \notin 1 .. Len(node)
    BY <2>1
  <2>6. QED BY <1>4, <2>1, <2>2, <2>3, <2>4, <2>5
<1>6. /\ DOMAIN state' = DOMAIN state \cup {id} /\ state'[id] = o
      /\ \A i \in DOMAIN state : i # id => state'[i] = state[i]
  BY DEF AddNode, Assign
<1>7. calls' = calls \cup Posted(StopIfRunning \cup {Call("create", o, id, NoName)})
  BY DEF AddNode
<1>8. PICK P : /\ calls' = calls \cup P
               /\ \A c \in P : Says(c, "stop", 0, NoName, NoName) \/ Says(c, "create", o, id, NoName)
               /\ \E n \in P : /\ Says(n, "create", o, id, NoName)
                              /\ \A c \in P : c = n \/ Says(c, "stop", 0, NoName, NoName)
  BY <1>7, PostedEdit
<1>9. /\ calls \subseteq calls'
      /\ \A c \in calls' : \/ c \in calls \/ Says(c, "stop", 0, NoName, NoName)
                           \/ Says(c, "create", o, id, NoName)
      /\ \E n \in calls' :
           /\ Says(n, "create", o, id, NoName)
           /\ \A c \in calls' : c \in calls \/ c = n \/ Says(c, "stop", 0, NoName, NoName)
  BY <1>8
<1> HIDE DEF id, o
<1>10. QED BY <1>2, <1>4, <1>5, <1>6, <1>9 DEF new, id, o

LEMMA ServerTypesStay ==
  ASSUME EventsTyped, KnownTyped, LinksTyped, DiskTyped, UNCHANGED <<feed, server>>
  PROVE  EventsTyped' /\ KnownTyped' /\ LinksTyped' /\ DiskTyped'
<1>1. UNCHANGED <<events, news, known, live, visiting, links, linked, named, file, writing, running>>
  BY DEF server, feed, disk
<1>2. QED BY <1>1 DEF EventsTyped, KnownTyped, LinksTyped, DiskTyped

LEMMA CallsStayTyped ==
  ASSUME CallsTyped, DOMAIN node \subseteq DOMAIN node', DOMAIN arrow \subseteq DOMAIN arrow',
         \A c \in calls' : c \in calls \/ CallOK(c) \/ CallOK(c)'
  PROVE  CallsTyped'
<1>1. SUFFICES ASSUME NEW c \in calls' PROVE CallOK(c)'
  BY DEF CallsTyped
<1>2. CASE CallOK(c)
  BY <1>2, CallsStayOK
<1>3. CASE c \in calls
  BY <1>3, <1>2 DEF CallsTyped
<1>4. QED BY <1>2, <1>3

LEMMA AddNodeTyped ==
  ASSUME Types, NEW k \in Kinds, AddNode(k) PROVE Types'
<1> DEFINE id == TempId[k][count + 1]
           o == Len(node) + 1
<1>1. /\ id \in Names
      /\ node' \in Seq(NodeType) /\ DOMAIN node' = DOMAIN node \cup {o}
      /\ DOMAIN state' = DOMAIN state \cup {id} /\ state'[id] = o
      /\ \A i \in DOMAIN state : i # id => state'[i] = state[i]
      /\ \A c \in calls' : \/ c \in calls \/ Says(c, "stop", 0, NoName, NoName)
                           \/ Says(c, "create", o, id, NoName)
  BY AddNodeDoes
<1> HIDE DEF id, o
<1>2. arrow' = arrow /\ button' = button /\ count' \in Nat
  BY DEF AddNode, Types
<1>3. UNCHANGED <<feed, server>>
  BY DEF AddNode, SameServer
<1>4. CallsTyped'
  <2>1. SUFFICES ASSUME NEW c \in calls' PROVE CallOK(c)'
    BY DEF CallsTyped
  <2>2. CASE c \in calls
    BY <1>1, <1>2, <2>2, CallsStayOK DEF Types, CallsTyped
  <2>3. CASE Says(c, "stop", 0, NoName, NoName)
    <3>1. CallOK(c)
      BY <2>3, SaysOK DEF Ops, LinkOps
    <3>2. QED BY <1>1, <1>2, <3>1, CallsStayOK
  <2>4. CASE Says(c, "create", o, id, NoName)
    BY <1>1, <2>4, NoViewOK DEF Says, CallOK, Ops, NodeOps, LinkOps, Status
  <2>5. QED BY <1>1, <2>2, <2>3, <2>4
<1>5. NodesTyped' /\ StateTyped' /\ ArrowsTyped'
  BY <1>1, <1>2 DEF Types, NodesTyped, StateTyped, ArrowsTyped
<1>6. EventsTyped' /\ KnownTyped' /\ LinksTyped' /\ DiskTyped'
  BY <1>3, ServerTypesStay DEF Types
<1>7. QED BY <1>2, <1>4, <1>5, <1>6 DEF Types

(* A deletion: the arrows of the node are to leave, and everything about   *)
(* them is asked for at once.                                              *)
LEMMA PostDeleteDoes ==
  ASSUME Types, NEW o \in DOMAIN node, NEW X, PostDelete(o, X)
  PROVE  LET ends == {a \in Mapped : ~arrow[a].leaving /\ EndsAt(a, node[o].id)}
         IN  /\ arrow' \in Seq(ArrowType) /\ DOMAIN arrow' = DOMAIN arrow
             /\ \A a \in DOMAIN arrow :
                  /\ arrow'[a].from = arrow[a].from /\ arrow'[a].to = arrow[a].to
                  /\ arrow'[a].mapped = arrow[a].mapped
                  /\ arrow'[a].leaving <=> arrow[a].leaving \/ a \in ends
             /\ ~node[o].active
             /\ calls \ X \subseteq calls'
             /\ \A c \in calls' : \/ c \in calls \ X \/ Says(c, "stop", 0, NoName, NoName)
                                  \/ \E a \in ends : SaysDisconnect(c, a)
                                  \/ Says(c, "remove", o, node[o].id, NoName)
             /\ \E c \in calls' : Says(c, "remove", o, node[o].id, NoName)
             /\ \A a \in ends : \E c \in calls' : SaysDisconnect(c, a)
<1> DEFINE ends == {a \in Mapped : ~arrow[a].leaving /\ EndsAt(a, node[o].id)}
           n == Numbered(Call("remove", o, node[o].id, NoName))
           P == Posted({PostDisconnect(a) : a \in ends})
           new == [a \in DOMAIN arrow |->
                     IF a \in ends THEN [arrow[a] EXCEPT !.leaving = TRUE] ELSE arrow[a]]
<1>1. arrow' = new /\ ~node[o].active
  BY DEF PostDelete
<1>2. calls' = (calls \ X) \cup Posted(StopIfRunning \cup {PostDisconnect(a) : a \in ends}
                                        \cup {Call("remove", o, node[o].id, NoName)})
  BY DEF PostDelete
<1>3. calls' = (calls \ X) \cup (Posted(StopIfRunning) \cup P \cup {n})
  <2>1. Posted({Call("remove", o, node[o].id, NoName)}) = {n}
    BY PostedCall
  <2>2. QED BY <1>2, <2>1, PostedThree
<1>4. Says(n, "remove", o, node[o].id, NoName)
  BY PostedCall
<1>5. /\ \A c \in P : \E a \in ends : SaysDisconnect(c, a)
      /\ \A a \in ends : \E c \in P : SaysDisconnect(c, a)
  BY PostedDisconnects
<1>6. arrow \in Seq(ArrowType) /\ \A a \in DOMAIN arrow : arrow[a] \in ArrowType
  <2>1. arrow \in Seq(ArrowType)
    BY DEF Types, ArrowsTyped
  <2>2. QED BY <2>1, LenProperties
<1>7. \A a \in DOMAIN arrow :
        /\ new[a] \in ArrowType
        /\ new[a].from = arrow[a].from /\ new[a].to = arrow[a].to
        /\ new[a].mapped = arrow[a].mapped
        /\ new[a].leaving <=> arrow[a].leaving \/ a \in ends
  BY <1>6 DEF ArrowType
<1>8. new \in Seq(ArrowType) /\ DOMAIN new = DOMAIN arrow
  <2>1. new \in [DOMAIN arrow -> ArrowType]
    BY <1>7
  <2> HIDE DEF new
  <2>2. DOMAIN arrow = 1 .. Len(arrow) /\ Len(arrow) \in Nat
    BY <1>6, LenProperties
  <2>3. new \in Seq(ArrowType)
    BY <2>1, <2>2
  <2>4. QED BY <2>1, <2>3
<1> HIDE DEF n, P, ends, new
<1>9. QED BY <1>1, <1>3, <1>4, <1>5, <1>7, <1>8, PostedStop DEF ends

(* Calls that are posted by a deletion are of their types.                 *)
LEMMA DisconnectOK ==
  ASSUME Types, NEW a \in DOMAIN arrow, NEW c, SaysDisconnect(c, a) PROVE CallOK(c)
<1>1. node[arrow[a].from].id \in Names /\ node[arrow[a].to].id \in Names
  <2>1. arrow[a].from \in DOMAIN node /\ arrow[a].to \in DOMAIN node
    BY DEF Types, ArrowsTyped
  <2>2. \A o \in DOMAIN node : node[o] \in NodeType
    BY LenProperties DEF Types, NodesTyped
  <2>3. QED BY <2>1, <2>2 DEF NodeType
<1>2. Says(c, "disconnect", a, node[arrow[a].from].id, node[arrow[a].to].id)
  BY DEF SaysDisconnect
<1> DEFINE f == node[arrow[a].from].id
           g == node[arrow[a].to].id
<1> HIDE DEF f, g
<1>3. Says(c, "disconnect", a, f, g) /\ f \in Names /\ g \in Names
  BY <1>1, <1>2 DEF f, g
<1>4. "disconnect" \in Ops
  BY DEF Ops, LinkOps
<1>5. QED BY <1>3, <1>4, SaysOK

LEMMA StopOK ==
  ASSUME NEW c, Says(c, "stop", 0, NoName, NoName) PROVE CallOK(c)
BY SaysOK DEF Ops, LinkOps

LEMMA NodeIds ==
  ASSUME Types PROVE \A o \in DOMAIN node : node[o] \in NodeType /\ node[o].id \in Names
<1>1. node \in [1 .. Len(node) -> NodeType]
  BY LenProperties DEF Types, NodesTyped
<1>2. QED BY <1>1 DEF NodeType

LEMMA DeleteTyped ==
  ASSUME Types, NEW o \in DOMAIN node, NEW X, PostDelete(o, X),
         UNCHANGED <<node, state, count, button, feed, server>>
  PROVE  Types'
<1>1. /\ arrow' \in Seq(ArrowType) /\ DOMAIN arrow' = DOMAIN arrow
      /\ \A a \in DOMAIN arrow : arrow'[a].from = arrow[a].from /\ arrow'[a].to = arrow[a].to
  BY PostDeleteDoes
<1>2. \A c \in calls' : c \in calls \/ CallOK(c)
  <2>1. TAKE c \in calls'
  <2>2. \/ c \in calls \/ Says(c, "stop", 0, NoName, NoName)
        \/ \E a \in Mapped : SaysDisconnect(c, a)
        \/ Says(c, "remove", o, node[o].id, NoName)
    BY PostDeleteDoes
  <2>3. Mapped \subseteq DOMAIN arrow
    BY LenProperties DEF Mapped, Types, ArrowsTyped
  <2>4. ASSUME Says(c, "remove", o, node[o].id, NoName) PROVE CallOK(c)
    BY <2>4, NodeIds, SaysOK DEF Ops, NodeOps, LinkOps
  <2>5. QED BY <2>2, <2>3, <2>4, StopOK, DisconnectOK
<1>3. CallsTyped'
  BY <1>1, <1>2, CallsStayTyped DEF Types
<1>4. NodesTyped' /\ StateTyped' /\ ArrowsTyped'
  BY <1>1 DEF Types, NodesTyped, StateTyped, ArrowsTyped
<1>5. EventsTyped' /\ KnownTyped' /\ LinksTyped' /\ DiskTyped'
  BY ServerTypesStay DEF Types
<1>6. QED BY <1>3, <1>4, <1>5 DEF Types

LEMMA ConnectDoes ==
  ASSUME Types, NEW f \in Drawn, NEW g \in Drawn, Connect(f, g)
  PROVE  LET b == Len(arrow) + 1
         IN  /\ f \in DOMAIN node /\ g \in DOMAIN node
             /\ b \notin DOMAIN arrow
             /\ arrow' \in Seq(ArrowType) /\ DOMAIN arrow' = DOMAIN arrow \cup {b}
             /\ \A a \in DOMAIN arrow : arrow'[a] = arrow[a]
             /\ arrow'[b] = [from |-> f, to |-> g, name |-> 0, mapped |-> TRUE,
                             drawn |-> TRUE, leaving |-> FALSE]
             /\ calls \subseteq calls'
             /\ \A c \in calls' : \/ c \in calls \/ Says(c, "stop", 0, NoName, NoName)
                                  \/ Says(c, "connect", b, node[f].id, node[g].id)
             /\ \E n \in calls' :
                  /\ Says(n, "connect", b, node[f].id, node[g].id)
                  /\ \A c \in calls' : c \in calls \/ c = n \/ Says(c, "stop", 0, NoName, NoName)
<1> DEFINE b == Len(arrow) + 1
           new == [from |-> f, to |-> g, name |-> 0, mapped |-> TRUE,
                   drawn |-> TRUE, leaving |-> FALSE]
<1>1. node \in Seq(NodeType) /\ arrow \in Seq(ArrowType)
  BY DEF Types, NodesTyped, ArrowsTyped
<1>2. f \in DOMAIN node /\ g \in DOMAIN node /\ f \in Nat /\ g \in Nat
  BY <1>1, LenProperties DEF Drawn
<1>3. new \in ArrowType
  BY <1>2 DEF ArrowType
<1>4. arrow' = Append(arrow, new)
  BY DEF Connect
<1> HIDE DEF new
<1>5. /\ arrow' \in Seq(ArrowType) /\ DOMAIN arrow' = DOMAIN arrow \cup {b} /\ b \notin DOMAIN arrow
      /\ \A p \in DOMAIN arrow : arrow'[p] = arrow[p]
      /\ arrow'[b] = new
  <2>1. Len(arrow) \in Nat /\ DOMAIN arrow = 1 .. Len(arrow)
    BY <1>1, LenProperties
  <2>2. Append(arrow, new) \in Seq(ArrowType) /\ Len(Append(arrow, new)) = b
    BY <1>1, <1>3
  <2>3. DOMAIN Append(arrow, new) = 1 .. b
    BY <2>2, LenProperties
  <2>4. \A p \in 1 .. b : Append(arrow, new)[p] = IF p = b THEN new ELSE arrow[p]
    BY <1>1, <1>3
  <2>5. 1 .. b = 1 .. Len(arrow) \cup {b} /\ b \notin 1 .. Len(arrow)
    BY <2>1
  <2>6. QED BY <1>4, <2>1, <2>2, <2>3, <2>4, <2>5
<1>6. calls' = calls \cup Posted(StopIfRunning \cup {Call("connect", b, node[f].id, node[g].id)})
  BY DEF Connect
<1> DEFINE i == node[f].id
           j == node[g].id
<1>7. PICK P : /\ calls' = calls \cup P
               /\ \A c \in P : Says(c, "stop", 0, NoName, NoName) \/ Says(c, "connect", b, i, j)
               /\ \E n \in P : /\ Says(n, "connect", b, i, j)
                              /\ \A c \in P : c = n \/ Says(c, "stop", 0, NoName, NoName)
  BY <1>6, PostedEdit
<1>8. /\ calls \subseteq calls'
      /\ \A c \in calls' : \/ c \in calls \/ Says(c, "stop", 0, NoName, NoName)
                           \/ Says(c, "connect", b, i, j)
      /\ \E n \in calls' :
           /\ Says(n, "connect", b, i, j)
           /\ \A c \in calls' : c \in calls \/ c = n \/ Says(c, "stop", 0, NoName, NoName)
  BY <1>7
<1> HIDE DEF b, i, j
<1>9. QED BY <1>2, <1>5, <1>8 DEF new, b, i, j

LEMMA TypesFrom ==
  ASSUME Types, NodesTyped', StateTyped', ArrowsTyped', CallsTyped', UNCHANGED <<feed, server>>,
         button' \in {"play", "stop"}, count' \in Nat
  PROVE  Types'
BY ServerTypesStay DEF Types

LEMMA ConnectTyped ==
  ASSUME Types, NEW f \in Drawn, NEW g \in Drawn, Connect(f, g) PROVE Types'
<1> DEFINE b == Len(arrow) + 1
<1>1. /\ f \in DOMAIN node /\ g \in DOMAIN node
      /\ arrow' \in Seq(ArrowType) /\ DOMAIN arrow' = DOMAIN arrow \cup {b}
      /\ \A a \in DOMAIN arrow : arrow'[a] = arrow[a]
      /\ arrow'[b] = [from |-> f, to |-> g, name |-> 0, mapped |-> TRUE,
                      drawn |-> TRUE, leaving |-> FALSE]
      /\ \A c \in calls' : \/ c \in calls \/ Says(c, "stop", 0, NoName, NoName)
                           \/ Says(c, "connect", b, node[f].id, node[g].id)
  BY ConnectDoes
<1> HIDE DEF b
<1>2. UNCHANGED <<node, state, count, button, feed, server>>
  BY DEF Connect, SameServer
<1>3. ASSUME NEW c, Says(c, "connect", b, node[f].id, node[g].id) PROVE CallOK(c)'
  <2>1. node[f].id \in Names /\ node[g].id \in Names /\ b \in DOMAIN arrow'
    BY <1>1, NodeIds
  <2>2. QED BY <1>3, <2>1, NoViewOK DEF Says, CallOK, Ops, NodeOps, LinkOps, Status
<1>4. CallsTyped'
  BY <1>1, <1>2, <1>3, StopOK, CallsStayTyped DEF Types
<1>5. NodesTyped' /\ StateTyped' /\ ArrowsTyped'
  BY <1>1, <1>2 DEF Types, NodesTyped, StateTyped, ArrowsTyped
<1>6. QED BY <1>2, <1>4, <1>5, TypesFrom DEF Types

LEMMA SamePageTyped ==
  ASSUME Types, UNCHANGED <<node, state, arrow, feed, server>>,
         \A c \in calls' : c \in calls \/ CallOK(c), button' \in {"play", "stop"}, count' \in Nat
  PROVE  Types'
<1>1. CallsTyped'
  BY CallsStayTyped DEF Types
<1>2. NodesTyped' /\ StateTyped' /\ ArrowsTyped'
  BY DEF Types, NodesTyped, StateTyped, ArrowsTyped
<1>3. QED BY <1>1, <1>2, TypesFrom

LEMMA DisconnectDoes ==
  ASSUME Types, NEW f \in Drawn, NEW g \in Drawn, Disconnect(f, g)
  PROVE  \E a \in Connected(f, g) : \E c : calls' = calls \cup {c} /\ SaysDisconnect(c, a)
<1>1. PICK a \in Connected(f, g) : calls' = calls \cup Posted({PostDisconnect(a)})
  BY DEF Disconnect
<1>2. QED BY <1>1, PostedCall DEF PostDisconnect, SaysDisconnect

LEMMA DisconnectTyped ==
  ASSUME Types, NEW f \in Drawn, NEW g \in Drawn, Disconnect(f, g) PROVE Types'
<1>1. PICK a \in Connected(f, g) : \E c : calls' = calls \cup {c} /\ SaysDisconnect(c, a)
  BY DisconnectDoes
<1>2. a \in DOMAIN arrow
  BY LenProperties DEF Connected, Mapped, Types, ArrowsTyped
<1>3. \A c \in calls' : c \in calls \/ CallOK(c)
  BY <1>1, <1>2, DisconnectOK
<1>4. UNCHANGED <<page, feed, server>>
  BY DEF Disconnect, SameServer
<1>5. QED BY <1>3, <1>4, SamePageTyped DEF page, Types

LEMMA SetNameDoes ==
  ASSUME Types, NEW o \in Drawn, NEW new \in GivenNames, SetName(o, new)
  PROVE  /\ o \in DOMAIN node /\ new \in Names
         /\ \E c : calls' = calls \cup {c} /\ Says(c, "rename", o, node[o].id, new)
<1>1. o \in DOMAIN node
  BY LenProperties DEF Drawn, Types, NodesTyped
<1>2. calls' = calls \cup Posted({Call("rename", o, node[o].id, new)})
  BY DEF SetName
<1>3. QED BY <1>1, <1>2, PostedCall, NamesAssumption

LEMMA SetNameTyped ==
  ASSUME Types, NEW o \in Drawn, NEW new \in GivenNames, SetName(o, new) PROVE Types'
<1>1. PICK c : calls' = calls \cup {c} /\ Says(c, "rename", o, node[o].id, new)
  BY SetNameDoes
<1>2. CallOK(c)
  <2>1. o \in DOMAIN node /\ node[o].id \in Names /\ new \in Names
    BY SetNameDoes, NodeIds
  <2>2. QED BY <1>1, <2>1, SaysOK DEF Ops, NodeOps, LinkOps
<1>3. UNCHANGED <<page, feed, server>>
  BY DEF SetName, SameServer
<1>4. QED BY <1>1, <1>2, <1>3, SamePageTyped DEF page, Types

LEMMA RefreshDoes ==
  ASSUME Refresh
  PROVE  /\ calls \subseteq calls'
         /\ \A c \in calls' : \/ c \in calls \/ Says(c, "stop", 0, NoName, NoName)
                              \/ Says(c, "refresh", 1, NoName, NoName)
         /\ \E n \in calls' :
              /\ Says(n, "refresh", 1, NoName, NoName)
              /\ \A c \in calls' : c \in calls \/ c = n \/ Says(c, "stop", 0, NoName, NoName)
<1>1. calls' = calls \cup Posted(StopIfRunning \cup {Call("refresh", 1, NoName, NoName)})
  BY DEF Refresh
<1>2. QED BY <1>1, PostedEdit

LEMMA RefreshTyped == ASSUME Types, Refresh PROVE Types'
<1>1. \A c \in calls' : c \in calls \/ CallOK(c)
  BY RefreshDoes, StopOK, SaysOK DEF Ops, NodeOps, LinkOps
<1>2. UNCHANGED <<page, feed, server>>
  BY DEF Refresh, SameServer
<1>3. QED BY <1>1, <1>2, SamePageTyped DEF page, Types

LEMMA StartStopDoes ==
  ASSUME Types, StartStop
  PROVE  \E c : /\ calls' = calls \cup {c}
                /\ Says(c, "run", 0, NoName, NoName) \/ Says(c, "stop", 0, NoName, NoName)
BY PostedCall DEF StartStop

LEMMA StartStopTyped == ASSUME Types, StartStop PROVE Types'
<1>1. \A c \in calls' : c \in calls \/ CallOK(c)
  BY StartStopDoes, SaysOK DEF Ops, NodeOps, LinkOps
<1>2. UNCHANGED <<page, feed, server>>
  BY DEF StartStop, SameServer
<1>3. QED BY <1>1, <1>2, SamePageTyped DEF page, Types

LEMMA NodesWithoutIs ==
  ASSUME Types, NEW gone
  PROVE  LET B == NodesWithout(gone)
         IN  /\ B \in Seq(NodeType) /\ DOMAIN B = DOMAIN node /\ Len(B) = Len(node)
             /\ \A o \in DOMAIN node :
                  /\ B[o].id = node[o].id /\ B[o].active = node[o].active
                  /\ B[o].label = node[o].label
                  /\ B[o].drawn <=> node[o].drawn /\ node[o].label \notin Ids(gone)
<1> DEFINE B == NodesWithout(gone)
<1>1. \A o \in DOMAIN node : node[o] \in NodeType
  BY NodeIds
<1>2. \A o \in DOMAIN node :
        /\ B[o] \in NodeType
        /\ B[o].id = node[o].id /\ B[o].active = node[o].active
        /\ B[o].label = node[o].label
        /\ B[o].drawn <=> node[o].drawn /\ node[o].label \notin Ids(gone)
  BY <1>1 DEF NodesWithout, NodeType
<1>3. B \in [DOMAIN node -> NodeType]
  BY <1>2 DEF NodesWithout
<1>4. Len(node) \in Nat /\ DOMAIN node = 1 .. Len(node)
  BY LenProperties DEF Types, NodesTyped
<1> HIDE DEF B
<1>5. B \in Seq(NodeType) /\ DOMAIN B = DOMAIN node /\ Len(B) = Len(node)
  BY <1>3, <1>4
<1>6. QED BY <1>2, <1>5 DEF B

LEMMA ArrowsWithoutIs ==
  ASSUME Types, NEW gone
  PROVE  LET B == ArrowsWithout(gone)
         IN  /\ B \in Seq(ArrowType) /\ DOMAIN B = DOMAIN arrow /\ Len(B) = Len(arrow)
             /\ \A a \in DOMAIN arrow :
                  /\ B[a].from = arrow[a].from /\ B[a].to = arrow[a].to
                  /\ B[a].leaving = arrow[a].leaving
                  /\ B[a].mapped <=> /\ arrow[a].mapped
                                     /\ arrow[a].leaving \/ \A i \in Ids(gone) : ~EndsAt(a, i)
<1> DEFINE B == ArrowsWithout(gone)
<1>1. Len(arrow) \in Nat /\ DOMAIN arrow = 1 .. Len(arrow) /\ \A a \in DOMAIN arrow : arrow[a] \in ArrowType
  <2>1. arrow \in [1 .. Len(arrow) -> ArrowType] /\ Len(arrow) \in Nat
    BY LenProperties DEF Types, ArrowsTyped
  <2>2. QED BY <2>1
<1>2. \A a \in DOMAIN arrow :
        /\ B[a] \in ArrowType
        /\ B[a].from = arrow[a].from /\ B[a].to = arrow[a].to
        /\ B[a].leaving = arrow[a].leaving
        /\ B[a].mapped <=> /\ arrow[a].mapped
                           /\ arrow[a].leaving \/ \A i \in Ids(gone) : ~EndsAt(a, i)
  BY <1>1 DEF ArrowsWithout, ArrowType
<1>3. B \in [DOMAIN arrow -> ArrowType]
  BY <1>2 DEF ArrowsWithout
<1> HIDE DEF B
<1>4. B \in Seq(ArrowType) /\ DOMAIN B = DOMAIN arrow /\ Len(B) = Len(arrow)
  BY <1>1, <1>3
<1>5. QED BY <1>2, <1>4 DEF B

LEMMA StateWithoutIs ==
  ASSUME NEW gone
  PROVE  /\ DOMAIN StateWithout(gone) = DOMAIN state \ Ids(gone)
         /\ \A i \in DOMAIN state \ Ids(gone) : StateWithout(gone)[i] = state[i]
BY DEF StateWithout, Without

LEMMA WithoutTyped ==
  ASSUME Types, NEW gone,
         state' = StateWithout(gone), node' = NodesWithout(gone), arrow' = ArrowsWithout(gone)
  PROVE  /\ NodesTyped' /\ StateTyped' /\ ArrowsTyped'
         /\ DOMAIN node' = DOMAIN node /\ DOMAIN arrow' = DOMAIN arrow
<1>1. node' \in Seq(NodeType) /\ DOMAIN node' = DOMAIN node
  BY NodesWithoutIs
<1>2. /\ arrow' \in Seq(ArrowType) /\ DOMAIN arrow' = DOMAIN arrow
      /\ \A a \in DOMAIN arrow : arrow'[a].from = arrow[a].from /\ arrow'[a].to = arrow[a].to
  BY ArrowsWithoutIs
<1>3. DOMAIN state' \subseteq DOMAIN state /\ \A i \in DOMAIN state' : state'[i] = state[i]
  BY StateWithoutIs
<1>4. QED BY <1>1, <1>2, <1>3 DEF Types, NodesTyped, StateTyped, ArrowsTyped

LEMMA NewBehaviourDoes ==
  ASSUME NewBehaviour, Busy = {}
  PROVE  /\ state' = StateWithout(DOMAIN state) /\ node' = NodesWithout(DOMAIN state)
         /\ arrow' = ArrowsWithout(DOMAIN state) /\ count' = 0
         /\ calls \subseteq calls'
         /\ \A c \in calls' : \/ c \in calls \/ Says(c, "stop", 0, NoName, NoName)
                              \/ Says(c, "clear", 0, NoName, NoName)
         /\ \E n \in calls' :
              /\ Says(n, "clear", 0, NoName, NoName)
              /\ \A c \in calls' : c \in calls \/ c = n \/ Says(c, "stop", 0, NoName, NoName)
         /\ crossed' = crossed \cup Clash("clear", NoName, NoName)
<1>1. /\ state' = StateWithout(DOMAIN state) /\ node' = NodesWithout(DOMAIN state)
      /\ arrow' = ArrowsWithout(DOMAIN state) /\ count' = 0
      /\ calls' = calls \cup Posted(StopIfRunning \cup {Call("clear", 0, NoName, NoName)})
      /\ crossed' = crossed \cup Clash("clear", NoName, NoName)
  BY DEF NewBehaviour, ClearAborts
<1>2. QED BY <1>1, PostedEdit

LEMMA NewBehaviourTyped == ASSUME Types, NewBehaviour PROVE Types'
<1>1. UNCHANGED <<button, feed, server>>
  BY DEF NewBehaviour, SameServer
<1>2. CASE Busy = {}
  <2>1. /\ state' = StateWithout(DOMAIN state) /\ node' = NodesWithout(DOMAIN state)
        /\ arrow' = ArrowsWithout(DOMAIN state) /\ count' = 0
        /\ \A c \in calls' : \/ c \in calls \/ Says(c, "stop", 0, NoName, NoName)
                             \/ Says(c, "clear", 0, NoName, NoName)
    BY <1>2, NewBehaviourDoes
  <2>2. \A c \in calls' : c \in calls \/ CallOK(c)
    BY <2>1, StopOK, SaysOK DEF Ops, NodeOps, LinkOps
  <2>3. CallsTyped'
    BY <2>1, <2>2, WithoutTyped, CallsStayTyped DEF Types
  <2>4. QED BY <1>1, <2>1, <2>3, WithoutTyped, TypesFrom DEF Types
<1>3. CASE Busy # {}
  <2>1. PICK gone : /\ state' = StateWithout(gone) /\ node' = NodesWithout(gone)
                    /\ arrow' = ArrowsWithout(gone) /\ count' = count
                    /\ calls' = calls \cup Posted(StopIfRunning)
    BY <1>3 DEF NewBehaviour, ClearAborts
  <2>2. \A c \in calls' : c \in calls \/ CallOK(c)
    BY <2>1, StopOK, PostedStop
  <2>3. CallsTyped'
    BY <2>1, <2>2, WithoutTyped, CallsStayTyped DEF Types
  <2>4. QED BY <1>1, <2>1, <2>3, WithoutTyped, TypesFrom DEF Types
<1>4. QED BY <1>2, <1>3

-----------------------------------------------------------------------------
(* The answers.                                                            *)
LEMMA CreatedDoes ==
  ASSUME Types, NEW c \in calls, Created(c), c.status = "ok"
  PROVE  LET o == c.who
         IN  /\ o \in DOMAIN node /\ c.name \in Names
             /\ node' \in Seq(NodeType) /\ DOMAIN node' = DOMAIN node
             /\ \A p \in DOMAIN node : p # o => node'[p] = node[p]
             /\ node'[o].id = c.name /\ node'[o].drawn /\ node'[o].label = c.name
             /\ node'[o].active = node[o].active
             /\ DOMAIN state' = (DOMAIN state \ {node[o].id}) \cup {c.name} /\ state'[c.name] = o
             /\ \A i \in DOMAIN state \ {node[o].id} : i # c.name => state'[i] = state[i]
             /\ \E p : calls' = (calls \ {c}) \cup {p} /\ Says(p, "position", o, c.name, NoName)
             /\ arrow' = arrow
<1> DEFINE o == c.who
<1>1. c.op = "create"
  BY DEF Created
<1>2. o \in DOMAIN node /\ c.name \in Names
  BY <1>1 DEF Types, CallsTyped, CallOK
<1>3. node \in Seq(NodeType) /\ node[o] \in NodeType
  BY <1>2, NodeIds DEF Types, NodesTyped
<1>4. /\ node' = [node EXCEPT ![o].id = c.name, ![o].drawn = TRUE, ![o].label = c.name]
      /\ state' = Assign(Without(state, {node[o].id}), c.name, o)
      /\ calls' = (calls \ {c}) \cup Posted({Call("position", o, c.name, NoName)})
      /\ arrow' = arrow
  BY DEF Created, Adopt
<1>5. node' = [[[node EXCEPT ![o].id = c.name] EXCEPT ![o].drawn = TRUE] EXCEPT ![o].label = c.name]
  BY <1>4
<1>6. /\ DOMAIN node' = DOMAIN node
      /\ \A p \in DOMAIN node : p # o => node'[p] = node[p]
      /\ node'[o] \in NodeType
      /\ node'[o].id = c.name /\ node'[o].drawn /\ node'[o].label = c.name
      /\ node'[o].active = node[o].active
  BY <1>2, <1>3, <1>5 DEF NodeType
<1>7. node' \in Seq(NodeType)
  <2>1. \A p \in DOMAIN node : node'[p] \in NodeType
    BY <1>6, NodeIds
  <2>2. node' \in [DOMAIN node -> NodeType]
    BY <1>5, <2>1
  <2>3. Len(node) \in Nat /\ DOMAIN node = 1 .. Len(node)
    BY <1>3, LenProperties
  <2>4. QED BY <2>2, <2>3
<1>8. /\ DOMAIN state' = (DOMAIN state \ {node[o].id}) \cup {c.name} /\ state'[c.name] = o
      /\ \A i \in DOMAIN state \ {node[o].id} : i # c.name => state'[i] = state[i]
  BY <1>4 DEF Assign, Without
<1>9. \E p : calls' = (calls \ {c}) \cup {p} /\ Says(p, "position", o, c.name, NoName)
  BY <1>4, PostedCall
<1>10. QED BY <1>2, <1>4, <1>6, <1>7, <1>8, <1>9

LEMMA CreatedTyped ==
  ASSUME Types, NEW c \in calls, Created(c) PROVE Types'
<1>1. UNCHANGED <<count, button, feed, server>> /\ c.op = "create" /\ c.status \in {"ok", "error"}
  BY DEF Created, SamePage
<1>2. CASE c.status = "ok"
  <2> DEFINE o == c.who
  <2>1. /\ o \in DOMAIN node /\ c.name \in Names
        /\ node' \in Seq(NodeType) /\ DOMAIN node' = DOMAIN node
        /\ DOMAIN state' = (DOMAIN state \ {node[o].id}) \cup {c.name} /\ state'[c.name] = o
        /\ \A i \in DOMAIN state \ {node[o].id} : i # c.name => state'[i] = state[i]
        /\ arrow' = arrow
    BY <1>2, CreatedDoes
  <2>2. PICK p : calls' = (calls \ {c}) \cup {p} /\ Says(p, "position", o, c.name, NoName)
    BY <1>2, CreatedDoes
  <2>3. CallOK(p)
    BY <2>1, <2>2, SaysOK DEF Ops, LinkOps
  <2>4. CallsTyped'
    BY <2>1, <2>2, <2>3, CallsStayTyped DEF Types
  <2>5. NodesTyped' /\ StateTyped' /\ ArrowsTyped'
    BY <2>1 DEF Types, NodesTyped, StateTyped, ArrowsTyped
  <2>6. QED BY <1>1, <2>4, <2>5, TypesFrom DEF Types
<1>3. CASE c.status = "error"
  <2>1. PostDelete(c.who, {c}) /\ UNCHANGED <<node, state>>
    BY <1>3 DEF Created
  <2>2. c.who \in DOMAIN node
    BY <1>1 DEF Types, CallsTyped, CallOK
  <2>3. QED BY <1>1, <2>1, <2>2, DeleteTyped
<1>4. QED BY <1>1, <1>2, <1>3

LEMMA PositionedDoes ==
  ASSUME NEW c \in calls, Positioned(c)
  PROVE  /\ calls \ {c} \subseteq calls'
         /\ \A d \in calls' : d \in calls \ {c} \/ Says(d, "save", c.who, NoName, NoName)
         /\ c.status = "ok" => \E d \in calls' : Says(d, "save", c.who, NoName, NoName)
<1>1. CASE c.status = "ok"
  <2>1. calls' = (calls \ {c}) \cup Posted({Call("save", c.who, NoName, NoName)})
    BY <1>1 DEF Positioned, Save
  <2>2. QED BY <2>1, PostedCall
<1>2. CASE c.status # "ok"
  BY <1>2 DEF Positioned
<1>3. QED BY <1>1, <1>2

LEMMA SaveOK ==
  ASSUME NEW c, NEW who, Says(c, "save", who, NoName, NoName) PROVE CallOK(c)
BY SaysOK DEF Ops, LinkOps

LEMMA PositionedTyped ==
  ASSUME Types, NEW c \in calls, Positioned(c) PROVE Types'
<1>1. UNCHANGED <<page, feed, server>>
  BY DEF Positioned, SamePage
<1>2. \A d \in calls' : d \in calls \/ CallOK(d)
  BY PositionedDoes, SaveOK
<1>3. QED BY <1>1, <1>2, SamePageTyped DEF page, Types

LEMMA RemovedDoes ==
  ASSUME Types, NEW c \in calls, Removed(c), c.status = "ok"
  PROVE  LET id == node[c.who].id
         IN  /\ c.who \in DOMAIN node
             /\ DOMAIN state' = DOMAIN state \ {id}
             /\ \A i \in DOMAIN state \ {id} : state'[i] = state[i]
             /\ node' \in Seq(NodeType) /\ DOMAIN node' = DOMAIN node
             /\ \A o \in DOMAIN node :
                  /\ node'[o].id = node[o].id /\ node'[o].active = node[o].active
                  /\ node'[o].label = node[o].label
                  /\ node'[o].drawn <=> node[o].drawn /\ node[o].label # id
             /\ calls \ {c} \subseteq calls'
             /\ \A d \in calls' : d \in calls \ {c} \/ Says(d, "save", c.who, NoName, NoName)
             /\ \E d \in calls' : Says(d, "save", c.who, NoName, NoName)
<1> DEFINE id == node[c.who].id
<1>1. /\ c.op = "remove" /\ state' = Without(state, {id}) /\ node' = Undraw(id)
      /\ calls' = (calls \ {c}) \cup Posted({Call("save", c.who, NoName, NoName)})
  BY DEF Removed, Save
<1>2. c.who \in DOMAIN node
  BY <1>1 DEF Types, CallsTyped, CallOK
<1> HIDE DEF id
<1>3. DOMAIN state' = DOMAIN state \ {id} /\ \A i \in DOMAIN state \ {id} : state'[i] = state[i]
  BY <1>1 DEF Without
<1>4. \A o \in DOMAIN node :
        /\ Undraw(id)[o] \in NodeType
        /\ Undraw(id)[o].id = node[o].id /\ Undraw(id)[o].active = node[o].active
        /\ Undraw(id)[o].label = node[o].label
        /\ Undraw(id)[o].drawn <=> node[o].drawn /\ node[o].label # id
  BY NodeIds DEF Undraw, NodeType
<1>5. Undraw(id) \in [DOMAIN node -> NodeType]
  BY <1>4 DEF Undraw
<1>6. Undraw(id) \in Seq(NodeType) /\ DOMAIN Undraw(id) = DOMAIN node
  <2>1. Len(node) \in Nat /\ DOMAIN node = 1 .. Len(node)
    BY LenProperties DEF Types, NodesTyped
  <2>2. QED BY <1>5, <2>1
<1>7. /\ calls \ {c} \subseteq calls'
      /\ \A d \in calls' : d \in calls \ {c} \/ Says(d, "save", c.who, NoName, NoName)
      /\ \E d \in calls' : Says(d, "save", c.who, NoName, NoName)
  BY <1>1, PostedCall
<1>8. /\ node' \in Seq(NodeType) /\ DOMAIN node' = DOMAIN node
      /\ \A o \in DOMAIN node :
           /\ node'[o].id = node[o].id /\ node'[o].active = node[o].active
           /\ node'[o].label = node[o].label
           /\ node'[o].drawn <=> node[o].drawn /\ node[o].label # id
  BY <1>1, <1>4, <1>6
<1>9. QED BY <1>2, <1>3, <1>7, <1>8 DEF id

LEMMA RemovedTyped ==
  ASSUME Types, NEW c \in calls, Removed(c) PROVE Types'
<1>1. UNCHANGED <<arrow, count, button, feed, server>> /\ c.status \in {"ok", "error"}
  BY DEF Removed, SamePage
<1>2. CASE c.status = "ok"
  <2>1. DOMAIN state' \subseteq DOMAIN state /\ \A i \in DOMAIN state' : state'[i] = state[i]
    BY <1>2, RemovedDoes
  <2>2. node' \in Seq(NodeType) /\ DOMAIN node' = DOMAIN node
    BY <1>2, RemovedDoes
  <2>3. \A d \in calls' : d \in calls \/ CallOK(d)
    BY <1>2, RemovedDoes, SaveOK
  <2>4. CallsTyped'
    BY <1>1, <2>2, <2>3, CallsStayTyped DEF Types
  <2>5. NodesTyped' /\ StateTyped' /\ ArrowsTyped'
    BY <1>1, <2>1, <2>2 DEF Types, NodesTyped, StateTyped, ArrowsTyped
  <2>6. QED BY <1>1, <2>4, <2>5, TypesFrom DEF Types
<1>3. CASE c.status = "error"
  <2>1. UNCHANGED <<state, node>> /\ calls' = calls \ {c}
    BY <1>3 DEF Removed, Answered
  <2>2. QED BY <1>1, <2>1, SamePageTyped DEF Types
<1>4. QED BY <1>1, <1>2, <1>3

LEMMA LinkedDoes ==
  ASSUME Types, NEW c \in calls, Linked(c)
  PROVE  LET a == c.who
         IN  /\ a \in DOMAIN arrow
             /\ arrow' \in Seq(ArrowType) /\ DOMAIN arrow' = DOMAIN arrow
             /\ \A b \in DOMAIN arrow :
                  /\ arrow'[b].from = arrow[b].from /\ arrow'[b].to = arrow[b].to
                  /\ arrow'[b].leaving = arrow[b].leaving
                  /\ b # a => arrow'[b].mapped = arrow[b].mapped
             /\ \/ /\ c.op = "connect" /\ c.status = "ok"
                   /\ arrow' = arrow /\ calls' = calls \ {c}
                \/ /\ c.op = "disconnect" /\ c.status = "ok"
                   /\ ~arrow'[a].mapped /\ calls' = calls \ {c}
                \/ /\ c.status = "error" /\ arrow' = arrow
                   /\ \E d : calls' = (calls \ {c}) \cup {d} /\ SaysDisconnect(d, a)
<1> DEFINE a == c.who
<1>1. c.op \in LinkOps /\ c.status \in {"ok", "error"}
  BY DEF Linked
<1>2. a \in DOMAIN arrow
  BY <1>1 DEF Types, CallsTyped, CallOK
<1>3. arrow \in Seq(ArrowType) /\ Len(arrow) \in Nat /\ DOMAIN arrow = 1 .. Len(arrow)
      /\ \A b \in DOMAIN arrow : arrow[b] \in ArrowType
  <2>1. arrow \in Seq(ArrowType)
    BY DEF Types, ArrowsTyped
  <2>2. arrow \in [1 .. Len(arrow) -> ArrowType] /\ Len(arrow) \in Nat
    BY <2>1, LenProperties
  <2>3. QED BY <2>1, <2>2
<1>4. CASE c.op = "disconnect" /\ c.status = "ok"
  <2>1. arrow' = [arrow EXCEPT ![a].mapped = FALSE, ![a].drawn = FALSE] /\ calls' = calls \ {c}
    BY <1>4 DEF Linked, Answered
  <2>2. arrow' = [[arrow EXCEPT ![a].mapped = FALSE] EXCEPT ![a].drawn = FALSE]
    BY <2>1
  <2>3. /\ DOMAIN arrow' = DOMAIN arrow
        /\ \A b \in DOMAIN arrow : b # a => arrow'[b] = arrow[b]
        /\ arrow'[a] \in ArrowType /\ ~arrow'[a].mapped
        /\ arrow'[a].from = arrow[a].from /\ arrow'[a].to = arrow[a].to
        /\ arrow'[a].leaving = arrow[a].leaving
    BY <1>2, <1>3, <2>2 DEF ArrowType
  <2>4. arrow' \in [DOMAIN arrow -> ArrowType]
    <3>1. \A b \in DOMAIN arrow : arrow'[b] \in ArrowType
      BY <1>3, <2>3
    <3>2. QED BY <2>2, <3>1
  <2>5. arrow' \in Seq(ArrowType)
    BY <1>3, <2>4
  <2>6. QED BY <1>2, <1>4, <2>1, <2>3, <2>5
<1>5. CASE c.op = "connect" /\ c.status = "ok"
  <2>1. arrow' = arrow /\ calls' = calls \ {c}
    BY <1>5 DEF Linked, Answered
  <2>2. QED BY <1>2, <1>3, <1>5, <2>1
<1>6. CASE c.status = "error"
  <2>1. arrow' = arrow /\ calls' = (calls \ {c}) \cup Posted({PostDisconnect(a)})
    BY <1>6 DEF Linked, Retry
  <2>2. \E d : calls' = (calls \ {c}) \cup {d} /\ SaysDisconnect(d, a)
    BY <2>1, PostedCall DEF PostDisconnect, SaysDisconnect
  <2>3. QED BY <1>2, <1>3, <1>6, <2>1, <2>2
<1>7. QED BY <1>1, <1>4, <1>5, <1>6 DEF LinkOps

LEMMA LinkedTyped ==
  ASSUME Types, NEW c \in calls, Linked(c) PROVE Types'
<1>1. UNCHANGED <<node, state, count, button, feed, server>>
  BY DEF Linked, SamePage
<1>2. /\ arrow' \in Seq(ArrowType) /\ DOMAIN arrow' = DOMAIN arrow
      /\ \A b \in DOMAIN arrow : arrow'[b].from = arrow[b].from /\ arrow'[b].to = arrow[b].to
  BY LinkedDoes
<1>3. \A d \in calls' : d \in calls \/ CallOK(d)
  <2>1. c.who \in DOMAIN arrow
    BY LinkedDoes
  <2>2. \A d \in calls' : d \in calls \/ SaysDisconnect(d, c.who)
    BY LinkedDoes
  <2>3. QED BY <2>1, <2>2, DisconnectOK
<1>4. CallsTyped'
  BY <1>1, <1>2, <1>3, CallsStayTyped DEF Types
<1>5. NodesTyped' /\ StateTyped' /\ ArrowsTyped'
  BY <1>1, <1>2 DEF Types, NodesTyped, StateTyped, ArrowsTyped
<1>6. QED BY <1>1, <1>4, <1>5, TypesFrom DEF Types

LEMMA RenamedDoes ==
  ASSUME Types, NEW c \in calls, Renamed(c), c.status = "ok"
  PROVE  LET w == c.who
             old == node[w].id
             first == {o \in Drawn : node[o].label = old
                                       /\ \A p \in Drawn : node[p].label = old => o <= p}
         IN  /\ w \in DOMAIN node /\ c.to \in Names
             /\ node' \in Seq(NodeType) /\ DOMAIN node' = DOMAIN node
             /\ \A o \in DOMAIN node :
                  /\ o # w => node'[o].id = node[o].id
                  /\ node'[o].drawn = node[o].drawn /\ node'[o].active = node[o].active
                  /\ o \in first => node'[o].label = c.to
                  /\ o \notin first => node'[o].label = node[o].label
             /\ node'[w].id = c.to
             /\ DOMAIN state' = (DOMAIN state \ {old}) \cup {c.to} /\ state'[c.to] = w
             /\ \A i \in DOMAIN state \ {old} : i # c.to => state'[i] = state[i]
             /\ calls' = calls \ {c}
<1> DEFINE w == c.who
           old == node[w].id
           first == {o \in Drawn : node[o].label = old /\ \A p \in Drawn : node[p].label = old => o <= p}
           new == [o \in DOMAIN node |->
                     [node[o] EXCEPT !.id = IF o = w THEN c.to ELSE @,
                                     !.label = IF o \in first THEN c.to ELSE @]]
<1>1. /\ c.op = "rename" /\ node' = new
      /\ state' = Assign(Without(state, {old}), c.to, w)
      /\ calls' = calls \ {c}
  BY DEF Renamed, Answered
<1>2. w \in DOMAIN node /\ c.to \in Names
  BY <1>1 DEF Types, CallsTyped, CallOK
<1> HIDE DEF first, old
<1>3. /\ DOMAIN state' = (DOMAIN state \ {old}) \cup {c.to} /\ state'[c.to] = w
      /\ \A i \in DOMAIN state \ {old} : i # c.to => state'[i] = state[i]
  BY <1>1 DEF Assign, Without
<1>4. ASSUME NEW o \in DOMAIN node
      PROVE  /\ new[o] \in NodeType
             /\ o # w => new[o].id = node[o].id
             /\ o = w => new[o].id = c.to
             /\ new[o].drawn = node[o].drawn /\ new[o].active = node[o].active
             /\ o \in first => new[o].label = c.to
             /\ o \notin first => new[o].label = node[o].label
  <2> DEFINE i == IF o = w THEN c.to ELSE node[o].id
             l == IF o \in first THEN c.to ELSE node[o].label
  <2>1. node[o] \in NodeType
    BY NodeIds
  <2>2. i \in Names /\ l \in Names \cup {NoName}
    BY <1>2, <2>1 DEF NodeType
  <2>3. new[o] = [[node[o] EXCEPT !.id = i] EXCEPT !.label = l]
    BY <2>1 DEF NodeType
  <2> HIDE DEF new, i, l
  <2>4. /\ new[o] \in NodeType /\ new[o].id = i /\ new[o].label = l
        /\ new[o].drawn = node[o].drawn /\ new[o].active = node[o].active
    BY <2>1, <2>2, <2>3 DEF NodeType
  <2>5. QED BY <2>4 DEF i, l
<1>5. new \in [DOMAIN node -> NodeType]
  <2>1. \A o \in DOMAIN node : new[o] \in NodeType
    BY <1>4
  <2>2. QED BY <2>1
<1> HIDE DEF new
<1>6. new \in Seq(NodeType) /\ DOMAIN new = DOMAIN node
  <2>1. Len(node) \in Nat /\ DOMAIN node = 1 .. Len(node)
    BY LenProperties DEF Types, NodesTyped
  <2>2. QED BY <1>5, <2>1
<1>7. QED BY <1>1, <1>2, <1>3, <1>4, <1>6 DEF first, old

LEMMA RenamedTyped ==
  ASSUME Types, NEW c \in calls, Renamed(c) PROVE Types'
<1>1. UNCHANGED <<arrow, count, button, feed, server>> /\ c.status \in {"ok", "error"}
  BY DEF Renamed, SamePage
<1>2. CASE c.status = "ok"
  <2>1. /\ c.who \in DOMAIN node /\ c.to \in Names
        /\ node' \in Seq(NodeType) /\ DOMAIN node' = DOMAIN node
    BY <1>2, RenamedDoes
  <2>2. DOMAIN state' \subseteq DOMAIN state \cup {c.to} /\ state'[c.to] = c.who
    BY <1>2, RenamedDoes
  <2>3. \A i \in DOMAIN state' : i # c.to => state'[i] = state[i]
    BY <1>2, RenamedDoes
  <2>4. calls' = calls \ {c}
    BY <1>2, RenamedDoes
  <2>5. CallsTyped'
    BY <1>1, <2>1, <2>4, CallsStayTyped DEF Types
  <2>6. NodesTyped' /\ StateTyped' /\ ArrowsTyped'
    BY <1>1, <2>1, <2>2, <2>3 DEF Types, NodesTyped, StateTyped, ArrowsTyped
  <2>7. QED BY <1>1, <2>5, <2>6, TypesFrom DEF Types
<1>3. CASE c.status = "error"
  <2>1. UNCHANGED <<state, node>> /\ calls' = calls \ {c}
    BY <1>3 DEF Renamed, Answered
  <2>2. QED BY <1>1, <2>1, SamePageTyped DEF Types
<1>4. QED BY <1>1, <1>2, <1>3

LEMMA AcknowledgedTyped ==
  ASSUME Types, NEW c \in calls, Acknowledged(c) PROVE Types'
<1>1. UNCHANGED <<node, state, arrow, count, feed, server>> /\ calls' = calls \ {c}
  BY DEF Acknowledged, Answered, SamePage
<1>2. button' \in {"play", "stop"}
  BY DEF Acknowledged, Types
<1>3. QED BY <1>1, <1>2, SamePageTyped DEF Types

(* What a batch of events says of an object, and what it becomes.          *)
Heard(o) == {k \in DOMAIN news : news[k].name \in DOMAIN state /\ state[news[k].name] = o}

LEMMA HeardLast ==
  ASSUME Types, NEW o, Heard(o) # {}
  PROVE  /\ Max(Heard(o)) \in Heard(o) /\ news[Max(Heard(o))] \in EventType
         /\ \A k \in Heard(o) : k <= Max(Heard(o))
<1>1. Len(news) \in Nat /\ DOMAIN news = 1 .. Len(news) /\ news \in [1 .. Len(news) -> EventType]
  BY LenProperties DEF Types, EventsTyped
<1>2. Heard(o) \in SUBSET Nat /\ \A k \in Heard(o) : k <= Len(news)
  BY <1>1 DEF Heard
<1>3. Max(Heard(o)) \in Heard(o) /\ \A k \in Heard(o) : k <= Max(Heard(o))
  BY <1>1, <1>2, MaxIs
<1>4. Max(Heard(o)) \in 1 .. Len(news)
  BY <1>1, <1>3 DEF Heard
<1>5. QED BY <1>1, <1>3, <1>4

LEMMA ProcessEventsDoes ==
  ASSUME Types, ProcessEvents
  PROVE  /\ node' \in Seq(NodeType) /\ DOMAIN node' = DOMAIN node
         /\ \A o \in DOMAIN node :
              /\ node'[o].id = node[o].id /\ node'[o].drawn = node[o].drawn
              /\ node'[o].label = node[o].label
              /\ Heard(o) = {} => node'[o].active = node[o].active
              /\ Heard(o) # {} => node'[o].active = news[Max(Heard(o))].enter
         /\ UNCHANGED <<state, arrow, count, button, calls, events, server, crossed, bounds>>
         /\ news' = <<>> /\ polling' = polling
<1> DEFINE new(o) == IF Heard(o) = {} THEN node[o]
                     ELSE [node[o] EXCEPT !.active = news[Max(Heard(o))].enter]
<1>1. node' = [o \in DOMAIN node |-> new(o)]
  BY DEF ProcessEvents, Activity, Heard
<1>2. ASSUME NEW o \in DOMAIN node
      PROVE  /\ new(o) \in NodeType
             /\ new(o).id = node[o].id /\ new(o).drawn = node[o].drawn
             /\ new(o).label = node[o].label
             /\ Heard(o) = {} => new(o).active = node[o].active
             /\ Heard(o) # {} => new(o).active = news[Max(Heard(o))].enter
  <2>1. node[o] \in NodeType
    BY NodeIds
  <2>2. CASE Heard(o) = {}
    BY <2>1, <2>2
  <2>3. CASE Heard(o) # {}
    <3>1. news[Max(Heard(o))].enter \in BOOLEAN
      BY <2>3, HeardLast DEF EventType
    <3>2. PICK b \in BOOLEAN : b = news[Max(Heard(o))].enter
      BY <3>1
    <3>3. new(o) = [node[o] EXCEPT !.active = b]
      BY <2>3, <3>2
    <3>4. QED BY <2>1, <2>3, <3>2, <3>3 DEF NodeType
  <2>4. QED BY <2>2, <2>3
<1> HIDE DEF new
<1>3. DOMAIN node' = DOMAIN node /\ \A o \in DOMAIN node : node'[o] = new(o)
  BY <1>1
<1>4. node' \in Seq(NodeType)
  <2>1. Len(node) \in Nat /\ DOMAIN node = 1 .. Len(node)
    BY LenProperties DEF Types, NodesTyped
  <2>2. node' \in [1 .. Len(node) -> NodeType]
    BY <1>1, <1>2, <2>1
  <2>3. QED BY <2>1, <2>2
<1>5. /\ UNCHANGED <<state, arrow, count, button, calls, events, server, crossed, bounds>>
      /\ news' = <<>> /\ polling' = polling
  BY DEF ProcessEvents
<1>6. QED BY <1>2, <1>3, <1>4, <1>5

LEMMA ProcessEventsTyped == ASSUME Types, ProcessEvents PROVE Types'
<1>1. /\ UNCHANGED <<state, arrow, count, button, calls, events, server>> /\ news' = <<>>
      /\ node' \in Seq(NodeType) /\ DOMAIN node' = DOMAIN node
  BY ProcessEventsDoes
<1>2. CallsTyped'
  BY <1>1, CallsStayTyped DEF Types
<1>3. NodesTyped' /\ StateTyped' /\ ArrowsTyped'
  BY <1>1 DEF Types, NodesTyped, StateTyped, ArrowsTyped
<1>4. EventsTyped'
  BY <1>1, EmptySeq DEF Types, EventsTyped
<1>5. KnownTyped' /\ LinksTyped' /\ DiskTyped'
  BY <1>1 DEF Types, KnownTyped, LinksTyped, DiskTyped, server, disk
<1>6. QED BY <1>1, <1>2, <1>3, <1>4, <1>5 DEF Types

(* What a refresh reads: each node of the file, under its name; and where  *)
(* an id is found when it was read or, if not, was there before.           *)
LEMMA ReadIs ==
  ASSUME NEW v, ViewOK(v)
  PROVE  /\ Read(v) \in Seq(NodeType) /\ Len(Read(v)) \in Nat /\ DOMAIN Read(v) = 1 .. Len(Read(v))
         /\ \A i \in DOMAIN Read(v) :
              /\ Read(v)[i].drawn /\ ~Read(v)[i].active /\ Read(v)[i].label = Read(v)[i].id
              /\ \E n \in v.nodes : n.name = Read(v)[i].id
         /\ \A n \in v.nodes : \E i \in DOMAIN Read(v) : Read(v)[i].id = n.name
         /\ (\A m, n \in v.nodes : m.name = n.name => m = n) =>
              \A i, j \in DOMAIN Read(v) : Read(v)[i].id = Read(v)[j].id => i = j
<1> DEFINE order == SetToSeq(v.nodes)
           R(i) == [id |-> order[i].name, kind |-> order[i].kind, active |-> FALSE,
                    drawn |-> TRUE, label |-> order[i].name]
<1>1. /\ order \in Seq(v.nodes)
      /\ \A x \in v.nodes : \E i \in DOMAIN order : order[i] = x
      /\ \A i, j \in DOMAIN order : order[i] = order[j] => i = j
  BY SetToSeqIs DEF ViewOK
<1> HIDE DEF order
<1>2. order \in [1 .. Len(order) -> v.nodes] /\ Len(order) \in Nat /\ DOMAIN order = 1 .. Len(order)
  BY <1>1, LenProperties
<1>3. \A n \in v.nodes : n.name \in Names /\ n.kind \in Kinds
  BY DEF ViewOK
<1>4. Read(v) = [i \in 1 .. Len(order) |-> R(i)]
  BY <1>2 DEF Read, order
<1>5. \A i \in 1 .. Len(order) : order[i] \in v.nodes /\ R(i) \in NodeType
  BY <1>2, <1>3 DEF NodeType
<1>6. Read(v) \in [1 .. Len(order) -> NodeType]
  BY <1>4, <1>5
<1>7. Read(v) \in Seq(NodeType) /\ Len(Read(v)) = Len(order) /\ DOMAIN Read(v) = 1 .. Len(order)
  BY <1>2, <1>6
<1>8. \A i \in 1 .. Len(order) : Read(v)[i] = R(i)
  BY <1>4
<1>9. \A i \in 1 .. Len(order) :
        /\ Read(v)[i].drawn /\ ~Read(v)[i].active /\ Read(v)[i].label = Read(v)[i].id
        /\ Read(v)[i].id = order[i].name
  <2>1. TAKE i \in 1 .. Len(order)
  <2>2. PICK r : r = Read(v)[i]
    OBVIOUS
  <2>3. r = R(i)
    BY <1>8, <2>2
  <2>4. r.drawn = TRUE /\ r.active = FALSE /\ r.label = order[i].name /\ r.id = order[i].name
    BY <2>3
  <2>5. QED BY <2>2, <2>4
<1> DEFINE objects == Read(v)
<1>10. \A i \in DOMAIN objects : /\ objects[i].drawn /\ ~objects[i].active
                                 /\ objects[i].label = objects[i].id
                                 /\ order[i] \in v.nodes /\ objects[i].id = order[i].name
  BY <1>5, <1>7, <1>9
<1>11. objects \in Seq(NodeType) /\ Len(objects) \in Nat /\ DOMAIN objects = 1 .. Len(objects)
       /\ DOMAIN order = DOMAIN objects
  BY <1>2, <1>7
<1> HIDE DEF objects
<1>12. \A n \in v.nodes : \E i \in DOMAIN objects : objects[i].id = n.name
  BY <1>1, <1>10, <1>11
<1>13. (\A m, n \in v.nodes : m.name = n.name => m = n) =>
         \A i, j \in DOMAIN objects : objects[i].id = objects[j].id => i = j
  BY <1>1, <1>10, <1>11
<1>14. \A i \in DOMAIN objects : \E n \in v.nodes : n.name = objects[i].id
  BY <1>10
<1>15. QED BY <1>10, <1>11, <1>12, <1>13, <1>14 DEF objects

LEMMA PlacesAre ==
  ASSUME NEW objects \in Seq(NodeType), NEW s, Len(node) \in Nat
  PROVE  LET R == Places(objects, s)
         IN  /\ \A id : id \in DOMAIN R <=>
                  id \in DOMAIN s \/ \E i \in DOMAIN objects : objects[i].id = id
             /\ \A i \in DOMAIN objects : \E j \in DOMAIN objects :
                  objects[j].id = objects[i].id /\ R[objects[i].id] = Len(node) + j
             /\ \A id \in DOMAIN s :
                  (\A i \in DOMAIN objects : objects[i].id # id) => R[id] = s[id]
<1> DEFINE At(id) == {i \in DOMAIN objects : objects[i].id = id}
           R == Places(objects, s)
<1>1. Len(objects) \in Nat /\ DOMAIN objects = 1 .. Len(objects)
  BY LenProperties
<1> DEFINE D == DOMAIN s \cup {objects[i].id : i \in DOMAIN objects}
           V(id) == IF At(id) = {} THEN s[id] ELSE Len(node) + Max(At(id))
<1>6. R = [id \in D |-> V(id)]
  BY DEF Places, Index
<1>2. DOMAIN R = D /\ \A id \in D : R[id] = V(id)
  <2> HIDE DEF D, V, R
  <2>1. QED BY <1>6
<1> HIDE DEF R
<1>3. ASSUME NEW i \in DOMAIN objects
      PROVE  \E j \in DOMAIN objects : objects[j].id = objects[i].id /\ R[objects[i].id] = Len(node) + j
  <2> DEFINE id == objects[i].id
  <2>1. i \in At(id) /\ At(id) \in SUBSET Nat /\ \A x \in At(id) : x <= Len(objects)
    BY <1>1
  <2>2. Max(At(id)) \in At(id)
    BY <1>1, <2>1, MaxIs
  <2>3. id \in DOMAIN R /\ At(id) # {}
    BY <1>2, <2>1
  <2>4. QED BY <1>2, <2>2, <2>3
<1>4. ASSUME NEW id \in DOMAIN s, \A i \in DOMAIN objects : objects[i].id # id
      PROVE  R[id] = s[id]
  BY <1>2, <1>4
<1>5. QED BY <1>2, <1>3, <1>4 DEF R

LEMMA ReadLinksAre ==
  ASSUME NEW K, IsFiniteSet(K), K \subseteq [id : Nat, from : Names, to : Names], NEW s,
         \A l \in K : s[l.from] \in Nat /\ s[l.to] \in Nat
  PROVE  LET R == ReadLinks(K, s)
         IN  /\ R \in Seq(ArrowType) /\ Len(R) \in Nat /\ DOMAIN R = 1 .. Len(R)
             /\ \E o \in [DOMAIN R -> K] :
                  /\ \A i \in DOMAIN R :
                       /\ R[i].from = s[o[i].from] /\ R[i].to = s[o[i].to] /\ R[i].name = o[i].id
                       /\ R[i].mapped /\ ~R[i].leaving
                  /\ \A i, j \in DOMAIN R : o[i] = o[j] => i = j
                  /\ \A l \in K : \E i \in DOMAIN R : o[i] = l
<1> DEFINE order == SetToSeq(K)
           R == ReadLinks(K, s)
           E(i) == [from |-> s[order[i].from], to |-> s[order[i].to], name |-> order[i].id,
                    mapped |-> TRUE, drawn |-> TRUE, leaving |-> FALSE]
<1>1. /\ order \in Seq(K)
      /\ \A x \in K : \E i \in DOMAIN order : order[i] = x
      /\ \A i, j \in DOMAIN order : order[i] = order[j] => i = j
  BY SetToSeqIs
<1> HIDE DEF order
<1>2. order \in [1 .. Len(order) -> K] /\ Len(order) \in Nat /\ DOMAIN order = 1 .. Len(order)
  BY <1>1, LenProperties
<1>3. R = [i \in 1 .. Len(order) |-> E(i)]
  BY <1>2 DEF ReadLinks, order
<1>4. \A i \in 1 .. Len(order) : order[i] \in K /\ E(i) \in ArrowType
  <2>1. TAKE i \in 1 .. Len(order)
  <2>2. order[i] \in K /\ order[i].id \in Nat
    BY <1>2
  <2>3. QED BY <2>2 DEF ArrowType
<1> HIDE DEF R
<1>5. R \in [1 .. Len(order) -> ArrowType]
  BY <1>3, <1>4
<1>6. R \in Seq(ArrowType) /\ Len(R) = Len(order) /\ DOMAIN R = 1 .. Len(order)
  BY <1>2, <1>5
<1>7. \A i \in 1 .. Len(order) :
        /\ R[i].from = s[order[i].from] /\ R[i].to = s[order[i].to] /\ R[i].name = order[i].id
        /\ R[i].mapped /\ ~R[i].leaving
  BY <1>3
<1>8. DOMAIN R = DOMAIN order /\ order \in [DOMAIN R -> K]
  BY <1>2, <1>6
<1>9. \E o \in [DOMAIN R -> K] :
        /\ \A i \in DOMAIN R :
             /\ R[i].from = s[o[i].from] /\ R[i].to = s[o[i].to] /\ R[i].name = o[i].id
             /\ R[i].mapped /\ ~R[i].leaving
        /\ \A i, j \in DOMAIN R : o[i] = o[j] => i = j
        /\ \A l \in K : \E i \in DOMAIN R : o[i] = l
  <2>1. /\ \A i \in DOMAIN R :
             /\ R[i].from = s[order[i].from] /\ R[i].to = s[order[i].to] /\ R[i].name = order[i].id
             /\ R[i].mapped /\ ~R[i].leaving
        /\ \A i, j \in DOMAIN R : order[i] = order[j] => i = j
        /\ \A l \in K : \E i \in DOMAIN R : order[i] = l
    BY <1>1, <1>6, <1>7, <1>8
  <2>2. QED BY <1>8, <2>1
<1>10. QED BY <1>2, <1>6, <1>9 DEF R

(* A refresh that is not aborted.                                          *)
Refreshes(c) == c.op = "refresh" /\ c.status = "ok" /\ (c.who = 1 => Busy = {})
OldNodes(c) == IF c.who = 1 THEN NodesWithout(DOMAIN state) ELSE node
OldState(c) == IF c.who = 1 THEN StateWithout(DOMAIN state) ELSE state
OldArrows(c) == IF c.who = 1 THEN ArrowsWithout(DOMAIN state) ELSE arrow

LEMMA OldAre ==
  ASSUME Types, NEW c
  PROVE  /\ OldNodes(c) \in Seq(NodeType) /\ DOMAIN OldNodes(c) = DOMAIN node
         /\ Len(OldNodes(c)) = Len(node)
         /\ DOMAIN OldState(c) \subseteq DOMAIN state
         /\ \A i \in DOMAIN OldState(c) : OldState(c)[i] = state[i]
         /\ OldArrows(c) \in Seq(ArrowType) /\ DOMAIN OldArrows(c) = DOMAIN arrow
         /\ Len(OldArrows(c)) = Len(arrow)
         /\ \A a \in DOMAIN arrow : /\ OldArrows(c)[a].from = arrow[a].from
                                    /\ OldArrows(c)[a].to = arrow[a].to
                                    /\ OldArrows(c)[a].leaving = arrow[a].leaving
                                    /\ OldArrows(c)[a].mapped => arrow[a].mapped
<1>1. CASE c.who = 1
  BY <1>1, NodesWithoutIs, ArrowsWithoutIs, StateWithoutIs DEF OldNodes, OldState, OldArrows
<1>2. CASE c.who # 1
  BY <1>2 DEF OldNodes, OldState, OldArrows, Types, NodesTyped, ArrowsTyped
<1>3. QED BY <1>1, <1>2

LEMMA RefreshedIs ==
  ASSUME NEW c, Refreshed(c), Refreshes(c)
  PROVE  /\ calls' = calls \ {c}
         /\ state' = Places(Read(c.view), OldState(c))
         /\ node' = OldNodes(c) \o Read(c.view)
         /\ count' = (IF c.who = 1 THEN 0 ELSE count) + Len(Read(c.view))
         /\ \E K \in SUBSET {l \in c.view.links : {l.from, l.to} \subseteq DOMAIN state'} :
              /\ arrow' = [a \in DOMAIN arrow |-> [OldArrows(c)[a] EXCEPT
                             !.mapped = @ /\ OldArrows(c)[a].name \notin {l.id : l \in K}]]
                          \o ReadLinks(K, state')
              /\ (\A l \in c.view.links : {l.from, l.to} \subseteq DOMAIN state') => K = c.view.links
<1> DEFINE s == Places(Read(c.view), OldState(c))
           good == {l \in c.view.links : {l.from, l.to} \subseteq DOMAIN s}
           Kept(K) == [a \in DOMAIN arrow |-> [OldArrows(c)[a] EXCEPT
                        !.mapped = @ /\ OldArrows(c)[a].name \notin {l.id : l \in K}]]
<1>1. calls' = calls \ {c}
  BY DEF Refreshed, Answered
<1>2. /\ state' = s /\ node' = OldNodes(c) \o Read(c.view)
      /\ count' = (IF c.who = 1 THEN 0 ELSE count) + Len(Read(c.view))
      /\ \E K \in IF good = c.view.links THEN {good} ELSE SUBSET good :
           arrow' = Kept(K) \o ReadLinks(K, s)
  BY DEF Refreshed, Refreshes, ClearAborts, OldState, OldNodes, OldArrows
<1> HIDE DEF s, Kept
<1>3. PICK K \in SUBSET good : arrow' = Kept(K) \o ReadLinks(K, s) /\ (good = c.view.links => K = good)
  <2>1. PICK K \in IF good = c.view.links THEN {good} ELSE SUBSET good : arrow' = Kept(K) \o ReadLinks(K, s)
    BY <1>2
  <2>2. QED BY <2>1
<1>4. (\A l \in c.view.links : {l.from, l.to} \subseteq DOMAIN s) => good = c.view.links
  OBVIOUS
<1>5. \E J \in SUBSET good :
        arrow' = Kept(J) \o ReadLinks(J, s)
        /\ ((\A l \in c.view.links : {l.from, l.to} \subseteq DOMAIN s) => J = c.view.links)
  BY <1>3, <1>4
<1>6. \E J \in SUBSET {l \in c.view.links : {l.from, l.to} \subseteq DOMAIN state'} :
        /\ arrow' = Kept(J) \o ReadLinks(J, state')
        /\ (\A l \in c.view.links : {l.from, l.to} \subseteq DOMAIN state') => J = c.view.links
  <2>1. PICK J \in SUBSET good :
           arrow' = Kept(J) \o ReadLinks(J, s)
           /\ ((\A l \in c.view.links : {l.from, l.to} \subseteq DOMAIN s) => J = c.view.links)
    BY <1>5
  <2>2. state' = s
    BY <1>2
  <2>3. J \in SUBSET {l \in c.view.links : {l.from, l.to} \subseteq DOMAIN state'}
    BY <2>2
  <2>4. QED BY <2>1, <2>2, <2>3
<1>7. QED BY <1>1, <1>2, <1>6 DEF Kept, s

LEMMA RefreshedDoes ==
  ASSUME Types, NEW c \in calls, Refreshed(c), Refreshes(c)
  PROVE  LET objects == Read(c.view)
             n == Len(node)
         IN  /\ calls' = calls \ {c} /\ count' \in Nat /\ ViewOK(c.view) /\ n \in Nat
             /\ node' \in Seq(NodeType) /\ DOMAIN node' = 1 .. n + Len(objects)
             /\ DOMAIN node = 1 .. n
             /\ \A o \in DOMAIN node : node'[o] = OldNodes(c)[o]
             /\ \A i \in DOMAIN objects : node'[n + i] = objects[i]
             /\ \A id : id \in DOMAIN state' <=>
                  id \in DOMAIN OldState(c) \/ \E i \in DOMAIN objects : objects[i].id = id
             /\ \A i \in DOMAIN objects : \E j \in DOMAIN objects :
                  objects[j].id = objects[i].id /\ state'[objects[i].id] = n + j
             /\ \A id \in DOMAIN OldState(c) :
                  (\A i \in DOMAIN objects : objects[i].id # id) => state'[id] = state[id]
<1> DEFINE objects == Read(c.view)
           n == Len(node)
<1>1. ViewOK(c.view)
  BY DEF Types, CallsTyped, CallOK
<1>2. objects \in Seq(NodeType) /\ Len(objects) \in Nat /\ DOMAIN objects = 1 .. Len(objects)
  BY <1>1, ReadIs
<1>3. OldNodes(c) \in Seq(NodeType) /\ DOMAIN OldNodes(c) = DOMAIN node /\ Len(OldNodes(c)) = n
  BY OldAre
<1>4. n \in Nat /\ DOMAIN node = 1 .. n
  BY LenProperties DEF Types, NodesTyped
<1>5. /\ calls' = calls \ {c} /\ state' = Places(objects, OldState(c))
      /\ node' = OldNodes(c) \o objects
      /\ count' = (IF c.who = 1 THEN 0 ELSE count) + Len(objects)
  BY RefreshedIs
<1>6. count' \in Nat
  BY <1>2, <1>5 DEF Types
<1> HIDE DEF objects
<1>7. /\ node' \in Seq(NodeType) /\ DOMAIN node' = 1 .. n + Len(objects)
      /\ \A o \in 1 .. n : node'[o] = OldNodes(c)[o]
      /\ \A i \in DOMAIN objects : node'[n + i] = objects[i]
  <2> DEFINE old == OldNodes(c)
  <2> HIDE DEF old
  <2>1. old \in Seq(NodeType) /\ Len(old) = n /\ node' = old \o objects
    BY <1>3, <1>5 DEF old
  <2>2. /\ old \o objects \in Seq(NodeType) /\ Len(old \o objects) = n + Len(objects)
        /\ \A i \in 1 .. n + Len(objects) :
             (old \o objects)[i] = IF i <= n THEN old[i] ELSE objects[i - n]
    <3>1. /\ old \o objects \in Seq(NodeType) /\ Len(old \o objects) = Len(old) + Len(objects)
          /\ \A i \in 1 .. Len(old) + Len(objects) :
               (old \o objects)[i] = IF i <= Len(old) THEN old[i] ELSE objects[i - Len(old)]
      BY <1>2, <2>1, ConcatProperties
    <3>2. QED BY <2>1, <3>1
  <2>3. DOMAIN node' = 1 .. n + Len(objects)
    BY <2>1, <2>2, LenProperties
  <2>4. \A o \in 1 .. n : o \in 1 .. n + Len(objects) /\ o <= n
    BY <1>2, <1>4
  <2>5. \A i \in 1 .. Len(objects) :
          n + i \in 1 .. n + Len(objects) /\ ~(n + i <= n) /\ (n + i) - n = i
    BY <1>2, <1>4
  <2>6. QED BY <1>2, <2>1, <2>2, <2>3, <2>4, <2>5 DEF old
<1>8. /\ \A id : id \in DOMAIN state' <=>
           id \in DOMAIN OldState(c) \/ \E i \in DOMAIN objects : objects[i].id = id
      /\ \A i \in DOMAIN objects : \E j \in DOMAIN objects :
           objects[j].id = objects[i].id /\ state'[objects[i].id] = n + j
      /\ \A id \in DOMAIN OldState(c) :
           (\A i \in DOMAIN objects : objects[i].id # id) => state'[id] = OldState(c)[id]
  <2> DEFINE R == Places(objects, OldState(c))
  <2>1. /\ \A id : id \in DOMAIN R <=>
             id \in DOMAIN OldState(c) \/ \E i \in DOMAIN objects : objects[i].id = id
        /\ \A i \in DOMAIN objects : \E j \in DOMAIN objects :
             objects[j].id = objects[i].id /\ R[objects[i].id] = n + j
        /\ \A id \in DOMAIN OldState(c) :
             (\A i \in DOMAIN objects : objects[i].id # id) => R[id] = OldState(c)[id]
    <3>1. PICK s : s = OldState(c)
      OBVIOUS
    <3>2. objects \in Seq(NodeType) /\ Len(node) \in Nat
      BY <1>2, <1>4
    <3> DEFINE P == Places(objects, s)
    <3>3. /\ \A id : id \in DOMAIN P <=>
               id \in DOMAIN s \/ \E i \in DOMAIN objects : objects[i].id = id
          /\ \A i \in DOMAIN objects : \E j \in DOMAIN objects :
               objects[j].id = objects[i].id /\ P[objects[i].id] = Len(node) + j
          /\ \A id \in DOMAIN s :
               (\A i \in DOMAIN objects : objects[i].id # id) => P[id] = s[id]
      BY <3>2, PlacesAre
    <3>4. P = R
      BY <3>1
    <3> HIDE DEF P, R
    <3>5. QED BY <3>1, <3>3, <3>4
  <2>2. R = state'
    BY <1>5
  <2> HIDE DEF R
  <2>3. QED BY <2>1, <2>2
<1>9. \A id \in DOMAIN OldState(c) : OldState(c)[id] = state[id]
  BY OldAre
<1>10. QED BY <1>1, <1>4, <1>5, <1>6, <1>7, <1>8, <1>9 DEF objects

LEMMA RefreshedState ==
  ASSUME Types, NEW c \in calls, Refreshed(c), Refreshes(c)
  PROVE  StateTyped'
<1> DEFINE objects == Read(c.view)
           n == Len(node)
<1>1. /\ objects \in Seq(NodeType) /\ Len(objects) \in Nat /\ DOMAIN objects = 1 .. Len(objects)
  BY RefreshedDoes, ReadIs
<1>2. /\ n \in Nat /\ DOMAIN node = 1 .. n /\ DOMAIN node' = 1 .. n + Len(objects)
      /\ \A id : id \in DOMAIN state' <=>
           id \in DOMAIN OldState(c) \/ \E i \in DOMAIN objects : objects[i].id = id
      /\ \A i \in DOMAIN objects : \E j \in DOMAIN objects :
           objects[j].id = objects[i].id /\ state'[objects[i].id] = n + j
      /\ \A id \in DOMAIN OldState(c) :
           (\A i \in DOMAIN objects : objects[i].id # id) => state'[id] = state[id]
  BY RefreshedDoes
<1>3. DOMAIN OldState(c) \subseteq DOMAIN state
  BY OldAre
<1>4. \A i \in DOMAIN objects : objects[i].id \in Names
  <2>1. objects \in [1 .. Len(objects) -> NodeType]
    BY <1>1, LenProperties
  <2>2. QED BY <1>1, <2>1 DEF NodeType
<1> HIDE DEF objects, n
<1>5. ASSUME NEW id \in DOMAIN state' PROVE id \in Names /\ state'[id] \in DOMAIN node'
  <2>1. CASE \E i \in DOMAIN objects : objects[i].id = id
    <3>1. PICK j \in DOMAIN objects : state'[id] = n + j
      BY <1>2, <2>1
    <3>2. j \in 1 .. Len(objects) /\ n \in Nat /\ Len(objects) \in Nat
      BY <1>1, <1>2
    <3>3. n + j \in 1 .. n + Len(objects)
      BY <3>2
    <3>4. QED BY <1>2, <1>4, <2>1, <3>1, <3>3
  <2>2. CASE \A i \in DOMAIN objects : objects[i].id # id
    <3>1. id \in DOMAIN state /\ state'[id] = state[id]
      BY <1>2, <1>3, <1>5, <2>2
    <3>2. state[id] \in 1 .. n /\ id \in Names
      BY <1>2, <3>1 DEF Types, StateTyped
    <3>3. state[id] \in 1 .. n + Len(objects)
      BY <1>1, <1>2, <3>2
    <3>4. QED BY <1>2, <3>1, <3>2, <3>3
  <2>3. QED BY <2>1, <2>2
<1>6. QED BY <1>5 DEF StateTyped

LEMMA RefreshedArrows ==
  ASSUME Types, NEW c \in calls, Refreshed(c), Refreshes(c)
  PROVE  /\ arrow' \in Seq(ArrowType) /\ DOMAIN arrow \subseteq DOMAIN arrow'
         /\ \A a \in DOMAIN arrow :
              /\ arrow'[a].from = arrow[a].from /\ arrow'[a].to = arrow[a].to
              /\ arrow'[a].leaving = arrow[a].leaving
              /\ arrow'[a].mapped => OldArrows(c)[a].mapped
         /\ \A a \in DOMAIN arrow' \ DOMAIN arrow : \E l \in c.view.links :
              /\ {l.from, l.to} \subseteq DOMAIN state'
              /\ arrow'[a].from = state'[l.from] /\ arrow'[a].to = state'[l.to]
              /\ ~arrow'[a].leaving
         /\ \E o \in [DOMAIN arrow' \ DOMAIN arrow -> c.view.links] :
              /\ \A a \in DOMAIN arrow' \ DOMAIN arrow :
                   arrow'[a].mapped /\ arrow'[a].from = state'[o[a].from] /\ arrow'[a].to = state'[o[a].to]
              /\ \A a, b \in DOMAIN arrow' \ DOMAIN arrow : o[a] = o[b] => a = b
              /\ (\A l \in c.view.links : {l.from, l.to} \subseteq DOMAIN state') =>
                   \A l \in c.view.links : \E a \in DOMAIN arrow' \ DOMAIN arrow : o[a] = l
<1> DEFINE Kept(K) == [a \in DOMAIN arrow |-> [OldArrows(c)[a] EXCEPT
                        !.mapped = @ /\ OldArrows(c)[a].name \notin {l.id : l \in K}]]
<1>1. PICK K \in SUBSET {l \in c.view.links : {l.from, l.to} \subseteq DOMAIN state'} :
        /\ arrow' = Kept(K) \o ReadLinks(K, state')
        /\ (\A l \in c.view.links : {l.from, l.to} \subseteq DOMAIN state') => K = c.view.links
  BY RefreshedIs
<1>2. /\ IsFiniteSet(K) /\ K \subseteq [id : Nat, from : Names, to : Names]
      /\ K \subseteq c.view.links
  <2>1. IsFiniteSet(c.view.links) /\ c.view.links \subseteq [id : Nat, from : Names, to : Names]
    BY RefreshedDoes DEF ViewOK
  <2>2. K \in SUBSET c.view.links
    OBVIOUS
  <2>3. IsFiniteSet(K)
    BY <2>1, <2>2, FS_Subset
  <2>4. QED BY <2>1, <2>2, <2>3
<1>3. \A l \in K : state'[l.from] \in Nat /\ state'[l.to] \in Nat
  <2>1. \A i \in DOMAIN state' : state'[i] \in DOMAIN node'
    BY RefreshedState DEF StateTyped
  <2>2. \A o \in DOMAIN node' : o \in Nat
    BY RefreshedDoes
  <2>3. QED BY <2>1, <2>2
<1> DEFINE R == ReadLinks(K, state')
           old == OldArrows(c)
           n == Len(arrow)
           P == Kept(K)
<1>3a. R \in Seq(ArrowType) /\ Len(R) \in Nat /\ DOMAIN R = 1 .. Len(R)
  BY <1>2, <1>3, ReadLinksAre
<1>4. /\ R \in Seq(ArrowType) /\ Len(R) \in Nat /\ DOMAIN R = 1 .. Len(R)
      /\ \E o \in [DOMAIN R -> K] :
           /\ \A i \in DOMAIN R :
                /\ R[i].from = state'[o[i].from] /\ R[i].to = state'[o[i].to] /\ R[i].name = o[i].id
                /\ R[i].mapped /\ ~R[i].leaving
           /\ \A i, j \in DOMAIN R : o[i] = o[j] => i = j
           /\ \A l \in K : \E i \in DOMAIN R : o[i] = l
  BY <1>2, <1>3, ReadLinksAre
<1>5. /\ n \in Nat /\ DOMAIN arrow = 1 .. n
      /\ old \in Seq(ArrowType) /\ DOMAIN old = 1 .. n
      /\ \A a \in DOMAIN arrow : /\ old[a].from = arrow[a].from /\ old[a].to = arrow[a].to
                                 /\ old[a].leaving = arrow[a].leaving
  <2>1. n \in Nat /\ DOMAIN arrow = 1 .. n
    BY LenProperties DEF Types, ArrowsTyped
  <2>2. QED BY <2>1, OldAre
<1> HIDE DEF R, old
<1>6. \A a \in 1 .. n :
        /\ P[a] \in ArrowType
        /\ P[a].from = arrow[a].from /\ P[a].to = arrow[a].to
        /\ P[a].leaving = arrow[a].leaving
        /\ P[a].mapped => old[a].mapped
  <2>1. TAKE a \in 1 .. n
  <2>2. old[a] \in ArrowType
    BY <1>5, ElementOfSeq, LenProperties
  <2> DEFINE m == old[a].mapped /\ old[a].name \notin {l.id : l \in K}
  <2>3. m \in BOOLEAN /\ (m => old[a].mapped)
    BY <2>2
  <2>4. P[a] = [old[a] EXCEPT !.mapped = m]
    BY <1>5 DEF old
  <2> HIDE DEF m, P
  <2>5. /\ P[a] \in ArrowType /\ P[a].from = old[a].from /\ P[a].to = old[a].to
        /\ P[a].leaving = old[a].leaving /\ P[a].mapped = m
    BY <2>2, <2>3, <2>4 DEF ArrowType
  <2>6. QED BY <1>5, <2>3, <2>5
<1>7. P \in Seq(ArrowType) /\ Len(P) = n
  <2>1. P \in [1 .. n -> ArrowType]
    BY <1>5, <1>6
  <2> HIDE DEF P
  <2>2. QED BY <1>5, <2>1
<1>8. arrow' = P \o R
  BY <1>1 DEF R
<1> HIDE DEF P
<1>9. /\ arrow' \in Seq(ArrowType) /\ Len(arrow') = n + Len(R)
      /\ \A i \in 1 .. n + Len(R) : arrow'[i] = IF i <= n THEN P[i] ELSE R[i - n]
  <2>1. /\ P \o R \in Seq(ArrowType) /\ Len(P \o R) = Len(P) + Len(R)
        /\ \A i \in 1 .. Len(P) + Len(R) : (P \o R)[i] = IF i <= Len(P) THEN P[i] ELSE R[i - Len(P)]
    BY <1>3a, <1>7, ConcatProperties
  <2>2. QED BY <1>7, <1>8, <2>1
<1>10. DOMAIN arrow' = 1 .. n + Len(R)
  BY <1>9, LenProperties
<1>11. \A a \in 1 .. n : a \in 1 .. n + Len(R) /\ arrow'[a] = P[a]
  BY <1>4, <1>5, <1>9
<1>12. \A a \in DOMAIN arrow' \ DOMAIN arrow : a - n \in DOMAIN R /\ arrow'[a] = R[a - n]
  BY <1>4, <1>5, <1>9, <1>10
<1>13. \A a \in DOMAIN arrow' \ DOMAIN arrow : \E l \in c.view.links :
         /\ {l.from, l.to} \subseteq DOMAIN state'
         /\ arrow'[a].from = state'[l.from] /\ arrow'[a].to = state'[l.to]
         /\ ~arrow'[a].leaving
  BY <1>4, <1>12
<1> DEFINE N == DOMAIN arrow' \ DOMAIN arrow
<1>14. /\ \A a \in N : a \in Nat /\ a > n /\ a - n \in DOMAIN R /\ n + (a - n) = a
       /\ \A i \in DOMAIN R : n + i \in N /\ (n + i) - n = i
  BY <1>4, <1>5, <1>10
<1> HIDE DEF N
<1>15. \E q \in [N -> c.view.links] :
         /\ \A a \in N : arrow'[a].mapped /\ arrow'[a].from = state'[q[a].from] /\ arrow'[a].to = state'[q[a].to]
         /\ \A a, b \in N : q[a] = q[b] => a = b
         /\ (\A l \in c.view.links : {l.from, l.to} \subseteq DOMAIN state') =>
              \A l \in c.view.links : \E a \in N : q[a] = l
  <2>1. PICK o \in [DOMAIN R -> K] :
           /\ \A i \in DOMAIN R :
                /\ R[i].from = state'[o[i].from] /\ R[i].to = state'[o[i].to] /\ R[i].name = o[i].id
                /\ R[i].mapped /\ ~R[i].leaving
           /\ \A i, j \in DOMAIN R : o[i] = o[j] => i = j
           /\ \A l \in K : \E i \in DOMAIN R : o[i] = l
    BY <1>4
  <2>2. PICK q : q = [a \in N |-> o[a - n]]
    OBVIOUS
  <2>3. q \in [N -> c.view.links]
    BY <1>2, <1>14, <2>2
  <2>4. ASSUME NEW a \in N
        PROVE  arrow'[a].mapped /\ arrow'[a].from = state'[q[a].from] /\ arrow'[a].to = state'[q[a].to]
    <3>1. arrow'[a] = R[a - n] /\ a - n \in DOMAIN R /\ q[a] = o[a - n]
      BY <1>12, <1>14, <2>2 DEF N
    <3>2. QED BY <2>1, <3>1
  <2>5. ASSUME NEW a \in N, NEW b \in N, q[a] = q[b] PROVE a = b
    <3>1. a - n = b - n
      BY <1>14, <2>1, <2>2, <2>5
    <3>2. n + (a - n) = a /\ n + (b - n) = b
      BY <1>14
    <3>3. QED BY <3>1, <3>2
  <2>6. ASSUME NEW l \in K PROVE \E a \in N : q[a] = l
    <3>1. PICK i \in DOMAIN R : o[i] = l
      BY <2>1, <2>6
    <3>2. n + i \in N /\ (n + i) - n = i
      BY <1>14
    <3>3. q[n + i] = l
      BY <2>2, <3>1, <3>2
    <3>4. QED BY <3>2, <3>3
  <2>7. (\A l \in c.view.links : {l.from, l.to} \subseteq DOMAIN state') =>
          \A l \in c.view.links : \E a \in N : q[a] = l
    BY <1>1, <2>6
  <2>8. QED BY <2>3, <2>4, <2>5, <2>7
<1>16. /\ arrow' \in Seq(ArrowType) /\ DOMAIN arrow \subseteq DOMAIN arrow'
       /\ \A a \in DOMAIN arrow :
            /\ arrow'[a].from = arrow[a].from /\ arrow'[a].to = arrow[a].to
            /\ arrow'[a].leaving = arrow[a].leaving
            /\ arrow'[a].mapped => OldArrows(c)[a].mapped
  BY <1>5, <1>6, <1>9, <1>10, <1>11 DEF old
<1>17. QED BY <1>13, <1>15, <1>16, Zenon DEF N

LEMMA RefreshedTyped ==
  ASSUME Types, NEW c \in calls, Refreshed(c) PROVE Types'
<1>1. UNCHANGED <<button, feed, server>> /\ c.op = "refresh" /\ c.status \in {"ok", "error"}
      /\ calls' = calls \ {c}
  BY DEF Refreshed, SamePage, Answered
<1>2. CASE Refreshes(c)
  <2>1. /\ node' \in Seq(NodeType) /\ DOMAIN node \subseteq DOMAIN node' /\ count' \in Nat
    <3>1. /\ Len(node) \in Nat /\ DOMAIN node = 1 .. Len(node) /\ ViewOK(c.view)
          /\ DOMAIN node' = 1 .. Len(node) + Len(Read(c.view))
          /\ node' \in Seq(NodeType) /\ count' \in Nat
      BY <1>2, RefreshedDoes
    <3>2. Len(Read(c.view)) \in Nat
      BY <3>1, ReadIs
    <3>3. 1 .. Len(node) \subseteq 1 .. Len(node) + Len(Read(c.view))
      BY <3>1, <3>2
    <3>4. QED BY <3>1, <3>3
  <2>2. /\ arrow' \in Seq(ArrowType) /\ DOMAIN arrow \subseteq DOMAIN arrow'
        /\ \A a \in DOMAIN arrow : arrow'[a].from = arrow[a].from /\ arrow'[a].to = arrow[a].to
        /\ \A a \in DOMAIN arrow' \ DOMAIN arrow : \E f, g \in DOMAIN state' :
             arrow'[a].from = state'[f] /\ arrow'[a].to = state'[g]
    <3>1. ASSUME NEW a \in DOMAIN arrow' \ DOMAIN arrow
          PROVE  \E f, g \in DOMAIN state' : arrow'[a].from = state'[f] /\ arrow'[a].to = state'[g]
      <4>1. PICK l \in c.view.links : /\ {l.from, l.to} \subseteq DOMAIN state'
                                      /\ arrow'[a].from = state'[l.from] /\ arrow'[a].to = state'[l.to]
        BY <1>2, RefreshedArrows
      <4>2. QED BY <4>1
    <3>2. QED BY <1>2, <3>1, RefreshedArrows
  <2>3. StateTyped'
    BY <1>2, RefreshedState
  <2>4. ArrowsTyped'
    <3>1. \A i \in DOMAIN state' : state'[i] \in DOMAIN node'
      BY <2>3 DEF StateTyped
    <3>2. ASSUME NEW a \in DOMAIN arrow' PROVE {arrow'[a].from, arrow'[a].to} \subseteq DOMAIN node'
      <4>1. CASE a \in DOMAIN arrow
        <5>1. {arrow[a].from, arrow[a].to} \subseteq DOMAIN node
          BY <4>1 DEF Types, ArrowsTyped
        <5>2. QED BY <2>1, <2>2, <4>1, <5>1
      <4>2. CASE a \notin DOMAIN arrow
        <5>1. PICK f \in DOMAIN state', g \in DOMAIN state' :
                arrow'[a].from = state'[f] /\ arrow'[a].to = state'[g]
          BY <2>2, <3>2, <4>2
        <5>2. QED BY <3>1, <5>1
      <4>3. QED BY <4>1, <4>2
    <3>3. QED BY <2>2, <3>2 DEF ArrowsTyped
  <2>5. CallsTyped'
    BY <1>1, <2>1, <2>2, CallsStayTyped DEF Types
  <2>6. QED BY <1>1, <2>1, <2>3, <2>4, <2>5, TypesFrom DEF NodesTyped, Types
<1>3. CASE ~Refreshes(c) /\ c.status = "ok"
  <2>1. PICK gone : /\ state' = StateWithout(gone) /\ node' = NodesWithout(gone)
                    /\ arrow' = ArrowsWithout(gone) /\ count' = count
    <3>1. c.who = 1 /\ Busy # {}
      BY <1>1, <1>3 DEF Refreshes
    <3>2. ClearAborts
      BY <1>3, <3>1 DEF Refreshed
    <3>3. QED BY <3>2 DEF ClearAborts
  <2>2. CallsTyped'
    BY <1>1, <2>1, WithoutTyped, CallsStayTyped DEF Types
  <2>3. QED BY <1>1, <2>1, <2>2, WithoutTyped, TypesFrom DEF Types
<1>4. CASE c.status = "error"
  <2>1. UNCHANGED <<state, node, arrow, count>>
    BY <1>4 DEF Refreshed
  <2>2. QED BY <1>1, <2>1, SamePageTyped DEF Types
<1>5. QED BY <1>1, <1>2, <1>3, <1>4

-----------------------------------------------------------------------------
(* The server.                                                             *)
LEMMA KnownShape ==
  ASSUME KnownTyped
  PROVE  /\ Len(known) \in Nat /\ DOMAIN known = 1 .. Len(known)
         /\ \A n \in DOMAIN known : known[n] \in [name : Names, kind : Kinds]
<1>1. known \in [1 .. Len(known) -> [name : Names, kind : Kinds]] /\ Len(known) \in Nat
  BY LenProperties DEF KnownTyped
<1>2. QED BY <1>1

(* A step of the server that leaves the page as it is.                     *)
LEMMA SamePageStep ==
  ASSUME Types, UNCHANGED page, \A c \in calls' : c \in calls \/ CallOK(c)
  PROVE  NodesTyped' /\ StateTyped' /\ ArrowsTyped' /\ CallsTyped'
         /\ button' \in {"play", "stop"} /\ count' \in Nat
<1>1. UNCHANGED <<node, state, arrow, count, button>>
  BY DEF page
<1>2. CallsTyped'
  BY <1>1, CallsStayTyped DEF Types
<1>3. QED BY <1>1, <1>2 DEF Types, NodesTyped, StateTyped, ArrowsTyped

LEMMA ServeCreateDoes ==
  ASSUME Types, NEW c \in calls, ServeCreate(c)
  PROVE  \E name \in Names :
           /\ Named(name) = {} /\ c.op = "create" /\ c.status = "sent" /\ alive
           /\ known' \in Seq([name : Names, kind : Kinds])
           /\ DOMAIN known' = DOMAIN known \cup {Len(known) + 1} /\ Len(known) + 1 \notin DOMAIN known
           /\ \A n \in DOMAIN known : known'[n] = known[n]
           /\ known'[Len(known) + 1].name = name
           /\ live' = live \cup {Len(known) + 1}
           /\ \E r : calls' = (calls \ {c}) \cup {r} /\ IsReply(r, c, "ok", name, c.view) /\ CallOK(r)
           /\ crossed' = crossed \cup Reused(name)
           /\ named' \in Nat
<1> DEFINE fresh == {i \in DOMAIN ServerName : i > named /\ Named(ServerName[i]) = {}}
           name == ServerName[Min(fresh)]
           new == [name |-> name, kind |-> node[c.who].kind]
           r == [c EXCEPT !.status = "ok", !.name = name]
           m == Len(known) + 1
<1>1. /\ c.op = "create" /\ c.status = "sent" /\ alive /\ fresh # {}
      /\ named' = Min(fresh) /\ known' = Append(known, new) /\ live' = live \cup {m}
      /\ calls' = (calls \ {c}) \cup {r}
      /\ crossed' = crossed \cup Reused(name)
  BY DEF ServeCreate, Serving
<1>2. ServerName \in Seq(Names) /\ Len(ServerName) \in Nat /\ DOMAIN ServerName = 1 .. Len(ServerName)
  BY NamesAssumption, LenProperties
<1>3. Min(fresh) \in fresh
  <2>1. fresh \in SUBSET Nat
    BY <1>2
  <2>2. QED BY <1>1, <2>1, MinIs
<1>4. Min(fresh) \in Nat /\ name \in Names /\ Named(name) = {}
  <2>1. Min(fresh) \in 1 .. Len(ServerName) /\ Named(name) = {}
    BY <1>2, <1>3
  <2>2. QED BY <1>2, <2>1, ElementOfSeq
<1> HIDE DEF name, fresh
<1>5. CallOK(c) /\ c.who \in DOMAIN node
  BY <1>1 DEF Types, CallsTyped, CallOK
<1>6. IsReply(r, c, "ok", name, c.view)
  BY <1>5, ReplyIs
<1> HIDE DEF r
<1>7. CallOK(r)
  BY <1>4, <1>5, <1>6, ReplyOK DEF CallOK, Status
<1>8. new \in [name : Names, kind : Kinds] /\ new.name = name
  BY <1>4, <1>5, NodeIds DEF NodeType
<1> HIDE DEF new
<1>9. /\ known' \in Seq([name : Names, kind : Kinds]) /\ DOMAIN known' = DOMAIN known \cup {m}
      /\ m \notin DOMAIN known
      /\ \A n \in DOMAIN known : known'[n] = known[n]
      /\ known'[m] = new
  <2>1. Len(known) \in Nat /\ DOMAIN known = 1 .. Len(known)
    BY KnownShape DEF Types
  <2>2. known \in Seq([name : Names, kind : Kinds])
    BY DEF Types, KnownTyped
  <2>3. /\ Append(known, new) \in Seq([name : Names, kind : Kinds])
        /\ Len(Append(known, new)) = m
        /\ \A p \in 1 .. m : Append(known, new)[p] = IF p = m THEN new ELSE known[p]
    BY <1>8, <2>2
  <2>4. DOMAIN Append(known, new) = 1 .. m
    BY <2>3, LenProperties
  <2>5. 1 .. m = 1 .. Len(known) \cup {m} /\ m \notin 1 .. Len(known)
    BY <2>1
  <2>6. QED BY <1>1, <2>1, <2>3, <2>4, <2>5
<1>10. QED BY <1>1, <1>4, <1>6, <1>7, <1>8, <1>9

LEMMA ServeCreateTyped ==
  ASSUME Types, NEW c \in calls, ServeCreate(c) PROVE Types'
<1>1. UNCHANGED <<page, feed, links, linked, disk, running, visiting>>
  BY DEF ServeCreate, SameRun
<1>2. PICK r : calls' = (calls \ {c}) \cup {r} /\ CallOK(r)
  BY ServeCreateDoes
<1>3. /\ known' \in Seq([name : Names, kind : Kinds]) /\ named' \in Nat
      /\ DOMAIN known' = DOMAIN known \cup {Len(known) + 1} /\ live' = live \cup {Len(known) + 1}
  BY ServeCreateDoes
<1>4. KnownTyped'
  BY <1>1, <1>3 DEF Types, KnownTyped
<1>5. LinksTyped'
  BY <1>1, <1>3 DEF Types, LinksTyped
<1>6. EventsTyped' /\ DiskTyped'
  BY <1>1 DEF Types, EventsTyped, DiskTyped, feed, disk
<1>7. QED BY <1>1, <1>2, <1>4, <1>5, <1>6, SamePageStep DEF Types

(* Steps that only answer, start or stop, or save.                         *)
LEMMA SameNamesTyped ==
  ASSUME Types, UNCHANGED <<page, feed, known, links, linked, named, visiting>>,
         live' \subseteq live, DiskTyped', \A c \in calls' : c \in calls \/ CallOK(c)
  PROVE  Types'
<1>1. EventsTyped' /\ KnownTyped' /\ LinksTyped' /\ DiskTyped'
  BY DEF Types, EventsTyped, feed, KnownTyped, LinksTyped, DiskTyped
<1>2. QED BY <1>1, SamePageStep DEF Types

(* What a save that is under way looks like once a later edit came.        *)
Outdated(S) == {[w EXCEPT !.last = FALSE] : w \in S}
LEMMA OutdatedAre ==
  ASSUME NEW S, \A w \in S : WriteOK(w)
  PROVE  /\ \A w \in Outdated(S) :
              /\ WriteOK(w) /\ w.last = FALSE
              /\ \E v \in S : v.for = w.for /\ v.list = w.list /\ v.written = w.written
         /\ \A v \in S : \E w \in Outdated(S) :
              v.for = w.for /\ v.list = w.list /\ v.written = w.written
<1>1. ASSUME NEW v \in S
      PROVE  /\ WriteOK([v EXCEPT !.last = FALSE]) /\ [v EXCEPT !.last = FALSE].last = FALSE
             /\ [v EXCEPT !.last = FALSE].for = v.for /\ [v EXCEPT !.last = FALSE].list = v.list
             /\ [v EXCEPT !.last = FALSE].written = v.written
  <2>1. WriteOK(v)
    OBVIOUS
  <2>2. v = [for |-> v.for, list |-> v.list, written |-> v.written, last |-> v.last]
    BY <2>1 DEF WriteOK
  <2>3. PICK u : u = [v EXCEPT !.last = FALSE]
    OBVIOUS
  <2>4. u = [for |-> v.for, list |-> v.list, written |-> v.written, last |-> FALSE]
    BY <2>2, <2>3
  <2>5. /\ u.for = v.for /\ u.list = v.list /\ u.written = v.written /\ u.last = FALSE
        /\ WriteOK(u)
    BY <2>1, <2>4 DEF WriteOK
  <2>6. QED BY <2>3, <2>5
<1>2. QED BY <1>1 DEF Outdated

LEMMA DiskStays ==
  ASSUME Types, UNCHANGED <<disk, running>> \/ (NotSaved /\ UNCHANGED running) PROVE DiskTyped'
<1>1. CASE UNCHANGED <<disk, running>>
  BY <1>1 DEF Types, DiskTyped, disk
<1>2. CASE NotSaved /\ UNCHANGED running
  <2>1. writing' = Outdated(writing) /\ \A w \in writing : WriteOK(w)
    BY <1>2 DEF NotSaved, Outdated, Types, DiskTyped
  <2>2. \A w \in Outdated(writing) : WriteOK(w)
    BY <2>1, OutdatedAre
  <2>3. QED BY <1>2, <2>1, <2>2 DEF NotSaved, Types, DiskTyped
<1>3. QED BY <1>1, <1>2

LEMMA ServePositionTyped ==
  ASSUME Types, NEW c \in calls, ServePosition(c) PROVE Types'
<1>1. /\ UNCHANGED <<page, feed, known, live, links, linked, named, disk, running, visiting>>
      /\ c.op = "position" /\ (Reply(c, "ok") \/ Reply(c, "error"))
  BY DEF ServePosition, Serving, SameRun
<1>2. \A d \in calls' : d \in calls \/ CallOK(d)
  BY <1>1, StatusReply DEF Types
<1>3. DiskTyped'
  BY <1>1, DiskStays
<1>4. QED BY <1>1, <1>2, <1>3, SameNamesTyped

LEMMA ServeRemoveTyped ==
  ASSUME Types, NEW c \in calls, ServeRemove(c) PROVE Types'
<1>1. /\ UNCHANGED <<page, feed, known, linked, named, disk, running, visiting>>
      /\ c.op = "remove" /\ (Reply(c, "ok") \/ Reply(c, "error"))
      /\ links' \subseteq links /\ live' \subseteq live
  BY DEF ServeRemove, Serving, SameRun
<1>2. \A d \in calls' : d \in calls \/ CallOK(d)
  BY <1>1, StatusReply DEF Types
<1>3. IsFiniteSet(links')
  BY <1>1, FS_Subset DEF Types, LinksTyped
<1>4. EventsTyped' /\ KnownTyped' /\ LinksTyped' /\ DiskTyped'
  BY <1>1, <1>3, DiskStays DEF Types, EventsTyped, feed, KnownTyped, LinksTyped
<1>5. QED BY <1>1, <1>2, <1>4, SamePageStep DEF Types

LEMMA ServeConnectTyped ==
  ASSUME Types, NEW c \in calls, ServeConnect(c) PROVE Types'
<1>1. /\ UNCHANGED <<page, feed, known, live, named, disk, running, visiting>>
      /\ c.op = "connect" /\ (Reply(c, "ok") \/ Reply(c, "error"))
  BY DEF ServeConnect, Serving, SameRun
<1>2. \/ UNCHANGED <<links, linked>>
      \/ \E f, g \in live : /\ linked' = linked + 1
                            /\ links' = links \cup {[id |-> linked + 1, from |-> f, to |-> g]}
  BY DEF ServeConnect, Named
<1>3. \A d \in calls' : d \in calls \/ CallOK(d)
  BY <1>1, StatusReply DEF Types
<1>4. LinksTyped'
  <2>1. CASE UNCHANGED <<links, linked>>
    BY <1>1, <2>1 DEF Types, LinksTyped
  <2>2. ASSUME NEW f \in live, NEW g \in live, linked' = linked + 1,
               links' = links \cup {[id |-> linked + 1, from |-> f, to |-> g]}
        PROVE  LinksTyped'
    <3>1. IsFiniteSet(links')
      BY <2>2, FS_AddElement DEF Types, LinksTyped
    <3>2. f \in DOMAIN known /\ g \in DOMAIN known /\ linked + 1 \in Nat
      BY DEF Types, KnownTyped, LinksTyped
    <3>3. [id |-> linked + 1, from |-> f, to |-> g] \in [id : Nat, from : DOMAIN known, to : DOMAIN known]
      BY <3>2
    <3>4. QED BY <1>1, <2>2, <3>1, <3>2, <3>3 DEF Types, LinksTyped
  <2>3. QED BY <1>2, <2>1, <2>2
<1>5. EventsTyped' /\ KnownTyped' /\ DiskTyped'
  BY <1>1, DiskStays DEF Types, EventsTyped, feed, KnownTyped
<1>6. QED BY <1>1, <1>3, <1>4, <1>5, SamePageStep DEF Types

LEMMA ServeDisconnectTyped ==
  ASSUME Types, NEW c \in calls, ServeDisconnect(c) PROVE Types'
<1>1. /\ UNCHANGED <<page, feed, known, live, linked, named, disk, running, visiting>>
      /\ c.op = "disconnect" /\ (Reply(c, "ok") \/ Reply(c, "error"))
      /\ links' \subseteq links
  BY DEF ServeDisconnect, Serving, SameRun
<1>2. \A d \in calls' : d \in calls \/ CallOK(d)
  BY <1>1, StatusReply DEF Types
<1>3. IsFiniteSet(links')
  BY <1>1, FS_Subset DEF Types, LinksTyped
<1>4. EventsTyped' /\ KnownTyped' /\ LinksTyped' /\ DiskTyped'
  BY <1>1, <1>3, DiskStays DEF Types, EventsTyped, feed, KnownTyped, LinksTyped
<1>5. QED BY <1>1, <1>2, <1>4, SamePageStep DEF Types

LEMMA ServeRenameDoes ==
  ASSUME Types, NEW c \in calls, ServeRename(c)
  PROVE  /\ c.op = "rename" /\ c.status = "sent" /\ alive /\ c.to \in Names
         /\ UNCHANGED <<page, feed, live, links, linked, named, running, visiting, alive, bounds>>
         /\ \/ /\ Named(c.at) = {} /\ known' = known /\ crossed' = crossed /\ UNCHANGED disk
               /\ \E r : calls' = (calls \ {c}) \cup {r} /\ IsReply(r, c, "error", c.name, c.view)
                                                         /\ CallOK(r)
            \/ \E n \in Named(c.at) :
                 /\ DOMAIN known' = DOMAIN known /\ n \in DOMAIN known
                 /\ known' \in Seq([name : Names, kind : Kinds])
                 /\ \A m \in DOMAIN known : m # n => known'[m] = known[m]
                 /\ known'[n].name = (IF c.to = NullName THEN EmptyName ELSE c.to)
                 /\ NotSaved
                 /\ crossed' = crossed \cup
                      (IF visiting # 0 \/ events # <<>> \/ news # <<>> THEN {"visits"} ELSE {})
                 /\ \E r : calls' = (calls \ {c}) \cup {r} /\ IsReply(r, c, "ok", c.name, c.view)
                                                           /\ CallOK(r)
<1>1. /\ c.op = "rename" /\ c.status = "sent" /\ alive
      /\ UNCHANGED <<page, feed, live, links, linked, named, running, visiting, alive, bounds>>
  BY DEF ServeRename, Serving, SameRun
<1>2. c.to \in Names
  BY <1>1 DEF Types, CallsTyped, CallOK
<1>3. CASE Named(c.at) = {}
  <2>1. Reply(c, "error") /\ known' = known /\ crossed' = crossed /\ UNCHANGED disk
    BY <1>3 DEF ServeRename
  <2>2. QED BY <1>1, <1>2, <1>3, <2>1, StatusReply DEF Types
<1>4. CASE Named(c.at) # {}
  <2> DEFINE new == IF c.to = NullName THEN EmptyName ELSE c.to
  <2>1. PICK n \in Named(c.at) :
          /\ known' = [known EXCEPT ![n].name = new] /\ Reply(c, "ok") /\ NotSaved
          /\ crossed' = crossed \cup
               (IF visiting # 0 \/ events # <<>> \/ news # <<>> THEN {"visits"} ELSE {})
    BY <1>4 DEF ServeRename
  <2>2. n \in DOMAIN known /\ new \in Names
    BY <1>2, NamesAssumption DEF Named, Types, KnownTyped
  <2> HIDE DEF new
  <2>3. known \in Seq([name : Names, kind : Kinds]) /\ Len(known) \in Nat
        /\ DOMAIN known = 1 .. Len(known) /\ known[n] \in [name : Names, kind : Kinds]
    BY <2>2, KnownShape DEF Types, KnownTyped
  <2> DEFINE k == [known[n] EXCEPT !.name = new]
  <2>4. k \in [name : Names, kind : Kinds] /\ k.name = new
    BY <2>2, <2>3
  <2>5. known' = [known EXCEPT ![n] = k]
    BY <2>1
  <2> HIDE DEF k
  <2>6. /\ known' \in Seq([name : Names, kind : Kinds]) /\ DOMAIN known' = DOMAIN known
        /\ \A m \in DOMAIN known : m # n => known'[m] = known[m]
        /\ known'[n].name = new
    <3>1. n \in 1 .. Len(known)
      BY <2>2, <2>3
    <3>2. [known EXCEPT ![n] = k] \in Seq([name : Names, kind : Kinds])
      BY <2>3, <2>4, <3>1, ExceptSeq
    <3>3. QED BY <2>2, <2>4, <2>5, <3>2
  <2>7. \E r : calls' = (calls \ {c}) \cup {r} /\ IsReply(r, c, "ok", c.name, c.view) /\ CallOK(r)
    BY <1>1, <2>1, StatusReply DEF Types
  <2>8. QED BY <1>1, <1>2, <2>1, <2>2, <2>6, <2>7 DEF new
<1>5. QED BY <1>3, <1>4

LEMMA ServeRenameTyped ==
  ASSUME Types, NEW c \in calls, ServeRename(c) PROVE Types'
<1>1. UNCHANGED <<page, feed, live, links, linked, named, running, visiting>>
  BY ServeRenameDoes
<1>2. \A d \in calls' : d \in calls \/ CallOK(d)
  BY ServeRenameDoes
<1>3. known' \in Seq([name : Names, kind : Kinds]) /\ DOMAIN known' = DOMAIN known
  BY ServeRenameDoes DEF Types, KnownTyped
<1>4. NotSaved \/ UNCHANGED disk
  BY ServeRenameDoes
<1>5. EventsTyped' /\ KnownTyped' /\ LinksTyped' /\ DiskTyped'
  BY <1>1, <1>3, <1>4, DiskStays DEF Types, EventsTyped, feed, KnownTyped, LinksTyped
<1>6. QED BY <1>1, <1>2, <1>5, SamePageStep DEF Types

LEMMA ServeClearDoes ==
  ASSUME Types, NEW c \in calls, ServeClear(c)
  PROVE  /\ c.op = "clear" /\ c.status = "sent" /\ alive /\ live' = {} /\ NotSaved
         /\ UNCHANGED <<page, feed, known, links, linked, named, running, visiting, alive,
                        crossed, bounds>>
         /\ \E r : calls' = (calls \ {c}) \cup {r} /\ IsReply(r, c, "ok", c.name, c.view) /\ CallOK(r)
<1>1. /\ c.op = "clear" /\ c.status = "sent" /\ alive /\ live' = {} /\ NotSaved
      /\ UNCHANGED <<page, feed, known, links, linked, named, running, visiting, alive,
                     crossed, bounds>>
      /\ Reply(c, "ok")
  BY DEF ServeClear, Serving, SameRun, StaysUp
<1>2. QED BY <1>1, StatusReply DEF Types

LEMMA ServeClearTyped ==
  ASSUME Types, NEW c \in calls, ServeClear(c) PROVE Types'
<1>1. DiskTyped'
  BY ServeClearDoes, DiskStays
<1>2. QED BY <1>1, ServeClearDoes, SameNamesTyped

LEMMA ViewTyped == ASSUME KnownTyped, LinksTyped PROVE ViewOK(View)
<1> DEFINE N(n) == [name |-> known[n].name, kind |-> known[n].kind, made |-> n]
           L(l) == [id |-> l.id, from |-> known[l.from].name, to |-> known[l.to].name]
           nodes == {N(n) : n \in live}
           arrows == {L(l) : l \in links}
<1>1. View = [nodes |-> nodes, links |-> arrows]
  BY DEF View
<1>2. live \subseteq DOMAIN known /\ DOMAIN known = 1 .. Len(known) /\ Len(known) \in Nat
      /\ \A n \in DOMAIN known : known[n] \in [name : Names, kind : Kinds]
  BY KnownShape DEF KnownTyped
<1>3. IsFiniteSet(live)
  <2>1. IsFiniteSet(1 .. Len(known))
    BY <1>2, FS_Interval
  <2>2. QED BY <1>2, <2>1, FS_Subset
<1>4. IsFiniteSet(nodes)
  <2> DEFINE f == [n \in live |-> N(n)]
  <2>1. f \in Surjection(live, nodes)
    BY DEF Surjection
  <2>2. QED BY <1>3, <2>1, FS_Surjection
<1>5. IsFiniteSet(arrows)
  <2> DEFINE f == [l \in links |-> L(l)]
  <2>1. f \in Surjection(links, arrows)
    BY DEF Surjection
  <2>2. IsFiniteSet(links)
    BY DEF LinksTyped
  <2>3. QED BY <2>1, <2>2, FS_Surjection
<1>6. nodes \subseteq [name : Names, kind : Kinds, made : Nat]
  <2>1. SUFFICES ASSUME NEW n \in live PROVE N(n) \in [name : Names, kind : Kinds, made : Nat]
    OBVIOUS
  <2>2. n \in Nat /\ known[n].name \in Names /\ known[n].kind \in Kinds
    BY <1>2
  <2>3. QED BY <2>2
<1>7. arrows \subseteq [id : Nat, from : Names, to : Names]
  <2>1. SUFFICES ASSUME NEW l \in links PROVE L(l) \in [id : Nat, from : Names, to : Names]
    OBVIOUS
  <2>2. l.id \in Nat /\ l.from \in DOMAIN known /\ l.to \in DOMAIN known
    BY DEF LinksTyped
  <2>3. known[l.from].name \in Names /\ known[l.to].name \in Names
    BY <1>2, <2>2
  <2>4. QED BY <2>2, <2>3
<1> HIDE DEF nodes, arrows
<1>8. View.nodes = nodes /\ View.links = arrows
  BY <1>1
<1>9. QED BY <1>4, <1>5, <1>6, <1>7, <1>8 DEF ViewOK

(* The steps of a save: those that only deal with the list, and those that *)
(* answer.                                                                 *)
DiskStep(c) == ListFile(c) \/ (WriteFile(c) /\ c.op = "refresh")
ServeFile(c) == (WriteFile(c) /\ c.op # "refresh") \/ ReadFile(c) \/ ServeStop(c)

LEMMA WriteFileDoes ==
  ASSUME Types, NEW c \in calls, WriteFile(c)
  PROVE  /\ c.op \in {"save", "refresh", "run"} /\ c.status = "sent" /\ alive
         /\ \E w \in writing :
              /\ w.for = c /\ ~w.written /\ file' = w.list /\ unsaved' = ~w.last
              /\ IF c.op = "refresh"
                 THEN /\ calls' = calls
                      /\ \E v : writing' = (writing \ {w}) \cup {v} /\ WriteOK(v) /\ v.written
                                /\ v.for = w.for /\ v.list = w.list /\ v.last = w.last
                 ELSE writing' = writing \ {w} /\ Reply(c, "ok")
         /\ running' \in {"off", "on", "stopping"}
         /\ UNCHANGED <<page, feed, known, live, links, linked, named, visiting, alive, crossed, bounds>>
<1>1. /\ c.status = "sent" /\ alive
      /\ UNCHANGED <<page, feed, known, live, links, linked, named, visiting, alive, crossed, bounds>>
  BY DEF WriteFile, StaysUp
<1>2. running' \in {"off", "on", "stopping"}
  BY DEF WriteFile, Types, DiskTyped
<1>3. PICK w \in writing :
        /\ w.for = c /\ ~w.written /\ file' = w.list /\ unsaved' = ~w.last
        /\ IF c.op = "refresh"
           THEN writing' = (writing \ {w}) \cup {[w EXCEPT !.written = TRUE]} /\ UNCHANGED calls
           ELSE writing' = writing \ {w} /\ Reply(c, "ok")
  BY DEF WriteFile
<1>4. WriteOK(w)
  BY DEF Types, DiskTyped
<1>5. PICK v : v = [w EXCEPT !.written = TRUE]
  OBVIOUS
<1>6. WriteOK(v) /\ v.written /\ v.for = w.for /\ v.list = w.list /\ v.last = w.last
  <2>1. w = [for |-> w.for, list |-> w.list, written |-> w.written, last |-> w.last]
    BY <1>4 DEF WriteOK
  <2>2. v = [for |-> w.for, list |-> w.list, written |-> TRUE, last |-> w.last]
    BY <1>5, <2>1
  <2>3. QED BY <1>4, <2>2 DEF WriteOK
<1>7. c.op \in {"save", "refresh", "run"}
  BY <1>3, <1>4 DEF WriteOK
<1>8. CASE c.op = "refresh"
  BY <1>1, <1>2, <1>3, <1>5, <1>6, <1>7, <1>8
<1>9. CASE c.op # "refresh"
  BY <1>1, <1>2, <1>3, <1>7, <1>9
<1>10. QED BY <1>8, <1>9

LEMMA DiskStepDoes ==
  ASSUME Types, NEW c \in calls, DiskStep(c)
  PROVE  /\ c.op \in {"save", "refresh", "run"} /\ c.status = "sent" /\ alive
         /\ UNCHANGED <<page, calls, feed, known, live, links, linked, named, visiting, alive,
                        crossed, bounds>>
<1>1. CASE ListFile(c)
  BY <1>1 DEF ListFile, SameRun, StaysUp
<1>2. CASE WriteFile(c) /\ c.op = "refresh"
  BY <1>2, WriteFileDoes
<1>3. QED BY <1>1, <1>2 DEF DiskStep

LEMMA DiskStepTyped ==
  ASSUME Types, NEW c \in calls, DiskStep(c) PROVE Types'
<1>1. UNCHANGED <<page, calls, feed, known, live, links, linked, named, visiting>>
  BY DiskStepDoes
<1>2. DiskTyped'
  <2>1. CASE ListFile(c)
    <3> DEFINE v == [for |-> c, list |-> View, written |-> FALSE, last |-> TRUE]
    <3>1. /\ writing' = Outdated(writing) \cup {v} /\ UNCHANGED <<file, running>>
          /\ c.op \in {"save", "refresh", "run"}
      BY <2>1 DEF ListFile, Outdated, SameRun
    <3>2. WriteOK(v)
      BY <3>1, ViewTyped DEF WriteOK, Types
    <3>3. \A w \in Outdated(writing) : WriteOK(w)
      BY OutdatedAre DEF Types, DiskTyped
    <3> HIDE DEF v
    <3>4. QED BY <3>1, <3>2, <3>3 DEF Types, DiskTyped
  <2>2. CASE WriteFile(c) /\ c.op = "refresh"
    <3>1. PICK w \in writing :
            /\ file' = w.list
            /\ \E v : writing' = (writing \ {w}) \cup {v} /\ WriteOK(v)
      BY <2>2, WriteFileDoes
    <3>2. running' \in {"off", "on", "stopping"} /\ WriteOK(w)
      BY <2>2, WriteFileDoes DEF Types, DiskTyped
    <3>3. QED BY <3>1, <3>2 DEF Types, DiskTyped, WriteOK
  <2>3. QED BY <2>1, <2>2 DEF DiskStep
<1>3. QED BY <1>1, <1>2, SameNamesTyped

LEMMA ReadFileDoes ==
  ASSUME Types, NEW c \in calls, ReadFile(c)
  PROVE  /\ c.op = "refresh" /\ c.status = "sent" /\ alive
         /\ UNCHANGED <<page, feed, known, live, links, linked, named, file, unsaved, running, visiting,
                        alive, bounds>>
         /\ \E w \in writing : w.for = c /\ w.written /\ writing' = writing \ {w}
         /\ crossed \subseteq crossed'
         /\ ~({"nodes", "links"} \subseteq crossed') => file = View
         /\ "links" \notin crossed' => \A l \in links : l.from \in live /\ l.to \in live
         /\ \E r : calls' = (calls \ {c}) \cup {r} /\ CallOK(r) /\ IsReply(r, c, "ok", c.name, file)
<1> DEFINE r == [c EXCEPT !.status = "ok", !.view = file]
<1>1. /\ c.op = "refresh" /\ c.status = "sent" /\ alive
      /\ UNCHANGED <<page, feed, known, live, links, linked, named, file, unsaved, running, visiting,
                     alive, bounds>>
      /\ \E w \in writing : w.for = c /\ w.written /\ writing' = writing \ {w}
      /\ calls' = (calls \ {c}) \cup {r}
  BY DEF ReadFile, Serving, SameRun
<1>2. /\ crossed \subseteq crossed'
      /\ ~({"nodes", "links"} \subseteq crossed') => file = View
      /\ "links" \notin crossed' => \A l \in links : l.from \in live /\ l.to \in live
  BY DEF ReadFile
<1>3. CallOK(c) /\ ViewOK(file)
  BY DEF Types, CallsTyped, DiskTyped
<1>4. IsReply(r, c, "ok", c.name, file)
  BY <1>3, ReplyIs
<1> HIDE DEF r
<1>5. CallOK(r)
  BY <1>1, <1>3, <1>4, ReplyOK DEF CallOK, Status
<1>6. \E s : calls' = (calls \ {c}) \cup {s} /\ CallOK(s) /\ IsReply(s, c, "ok", c.name, file)
  BY <1>1, <1>4, <1>5
<1>7. QED BY <1>1, <1>2, <1>6

LEMMA ServeFileDoes ==
  ASSUME Types, NEW c \in calls, ServeFile(c)
  PROVE  /\ c.op \in {"save", "refresh", "run", "stop"} /\ c.status = "sent" /\ alive
         /\ UNCHANGED <<page, feed, known, live, links, linked, named, visiting, alive, bounds>>
         /\ crossed \subseteq crossed'
         /\ c.op = "refresh" /\ "links" \notin crossed' => \A l \in links : l.from \in live /\ l.to \in live
         /\ \E r : \E v :
              /\ calls' = (calls \ {c}) \cup {r} /\ CallOK(r) /\ IsReply(r, c, "ok", c.name, v)
              /\ ~({"nodes", "links"} \subseteq crossed') => v = IF c.op = "refresh" THEN View ELSE c.view
<1>1. CASE WriteFile(c) /\ c.op # "refresh"
  <2>1. /\ c.op \in {"save", "run"} /\ c.status = "sent" /\ alive /\ Reply(c, "ok")
        /\ UNCHANGED <<page, feed, known, live, links, linked, named, visiting, alive, crossed, bounds>>
    BY <1>1, WriteFileDoes
  <2>2. PICK r : calls' = (calls \ {c}) \cup {r} /\ IsReply(r, c, "ok", c.name, c.view) /\ CallOK(r)
    BY <2>1, StatusReply DEF Types
  <2>3. QED BY <2>1, <2>2
<1>2. CASE ReadFile(c)
  <2>1. PICK r : calls' = (calls \ {c}) \cup {r} /\ CallOK(r) /\ IsReply(r, c, "ok", c.name, file)
    BY <1>2, ReadFileDoes
  <2>2. QED BY <1>2, <2>1, ReadFileDoes
<1>3. CASE ServeStop(c)
  <2>1. /\ c.op = "stop" /\ c.status = "sent" /\ alive /\ Reply(c, "ok")
        /\ UNCHANGED <<page, feed, known, live, links, linked, named, visiting, alive, crossed, bounds>>
    BY <1>3 DEF ServeStop, Serving, StaysUp
  <2>2. PICK r : calls' = (calls \ {c}) \cup {r} /\ IsReply(r, c, "ok", c.name, c.view) /\ CallOK(r)
    BY <2>1, StatusReply DEF Types
  <2>3. QED BY <2>1, <2>2
<1>4. QED BY <1>1, <1>2, <1>3 DEF ServeFile

LEMMA ServeFileTyped ==
  ASSUME Types, NEW c \in calls, ServeFile(c) PROVE Types'
<1>1. /\ UNCHANGED <<page, feed, known, live, links, linked, named, visiting>>
      /\ \A d \in calls' : d \in calls \/ CallOK(d)
  BY ServeFileDoes
<1>2. DiskTyped'
  <2>1. CASE WriteFile(c) /\ c.op # "refresh"
    <3>1. PICK w \in writing : file' = w.list /\ writing' = writing \ {w}
      BY <2>1, WriteFileDoes
    <3>2. running' \in {"off", "on", "stopping"} /\ WriteOK(w)
      BY <2>1, WriteFileDoes DEF Types, DiskTyped
    <3>3. QED BY <3>1, <3>2 DEF Types, DiskTyped, WriteOK
  <2>2. CASE ReadFile(c)
    <3>1. writing' \subseteq writing /\ UNCHANGED <<file, running>>
      BY <2>2, ReadFileDoes
    <3>2. QED BY <3>1 DEF Types, DiskTyped
  <2>3. CASE ServeStop(c)
    <3>1. UNCHANGED disk /\ running' \in {running, "stopping"}
      BY <2>3 DEF ServeStop
    <3>2. QED BY <3>1 DEF Types, DiskTyped, disk
  <2>4. QED BY <2>1, <2>2, <2>3 DEF ServeFile
<1>3. QED BY <1>1, <1>2, SameNamesTyped

LEMMA PushDoes ==
  ASSUME Types, NEW e \in EventType, Push(e)
  PROVE  /\ events' \in Seq(EventType) /\ Len(events') <= RingSize
         /\ crossed \subseteq crossed' /\ crossed' \subseteq crossed \cup {"missed"}
         /\ "missed" \notin crossed' => events' = Append(events, e)
<1> DEFINE all == Append(events, e)
           full == Len(events) >= RingSize
<1>1. events' = (IF full THEN Tail(all) ELSE all) /\ crossed' = crossed \cup (IF full THEN {"missed"} ELSE {})
  BY DEF Push
<1>2. events \in Seq(EventType) /\ Len(events) \in Nat /\ Len(events) <= RingSize /\ RingSize \in Nat
  BY RingAssumption, LenProperties DEF Types, EventsTyped
<1>3. all \in Seq(EventType) /\ all # <<>> /\ Len(all) = Len(events) + 1
  BY <1>2, AppendProperties
<1> HIDE DEF all
<1>4. Tail(all) \in Seq(EventType) /\ Len(Tail(all)) = Len(all) - 1
  BY <1>3, HeadTailProperties
<1>5. events' \in Seq(EventType) /\ Len(events') <= RingSize
  <2>1. CASE full
    <3>1. events' = Tail(all)
      BY <1>1, <2>1
    <3>2. QED BY <1>2, <1>3, <1>4, <3>1
  <2>2. CASE ~full
    <3>1. events' = all
      BY <1>1, <2>2
    <3>2. QED BY <1>2, <1>3, <2>2, <3>1
  <2>3. QED BY <2>1, <2>2
<1>6. "missed" \notin crossed' => ~full
  BY <1>1
<1>7. QED BY <1>1, <1>5, <1>6 DEF all

(* The steps of the executor that leave the graph as it is, and those of   *)
(* the poll.                                                               *)
Visits == EnterNode \/ Prints \/ LeaveNode \/ ExecEnds
Polls == FetchEvents \/ PollFails

LEMMA VisitsDo ==
  ASSUME Types, Visits
  PROVE  /\ UNCHANGED <<page, calls, news, polling, known, live, links, linked, named, disk, alive, lossy>>
         /\ crossed \subseteq crossed' /\ crossed' \subseteq crossed \cup {"missed"}
         /\ EventsTyped' /\ visiting' \in DOMAIN known \cup {0} /\ alive
         /\ running' \in {"off", "on", "stopping"}
<1>1. UNCHANGED <<page, calls, news, polling, known, live, links, linked, named, disk, alive, lossy>> /\ alive
  BY DEF Visits, EnterNode, Prints, LeaveNode, ExecEnds, SameGraph, Executes
<1>2. running' \in {"off", "on", "stopping"}
  BY DEF Visits, EnterNode, Prints, LeaveNode, ExecEnds, Types, DiskTyped
<1>3. \A n \in DOMAIN known : known[n].name \in Names
  BY KnownShape DEF Types
<1>4. ASSUME NEW e \in EventType, Push(e)
      PROVE  /\ crossed \subseteq crossed' /\ crossed' \subseteq crossed \cup {"missed"}
             /\ EventsTyped'
  BY <1>1, <1>4, PushDoes DEF EventsTyped, Types
<1>5. CASE EnterNode
  <2>1. PICK n \in live : visiting' = n /\ Push([enter |-> TRUE, name |-> known[n].name])
    BY <1>5 DEF EnterNode
  <2>2. n \in DOMAIN known
    BY DEF Types, KnownTyped
  <2>3. [enter |-> TRUE, name |-> known[n].name] \in EventType
    BY <1>3, <2>2 DEF EventType
  <2>4. QED BY <1>1, <1>2, <1>4, <2>1, <2>2, <2>3
<1>6. CASE Prints
  <2>1. UNCHANGED visiting /\ Push([enter |-> FALSE, name |-> NoName])
    BY <1>6 DEF Prints
  <2>2. [enter |-> FALSE, name |-> NoName] \in EventType
    BY DEF EventType
  <2>3. QED BY <1>1, <1>2, <1>4, <2>1, <2>2 DEF Types, KnownTyped
<1>7. CASE LeaveNode
  <2>1. visiting # 0 /\ visiting' = 0 /\ Push([enter |-> FALSE, name |-> known[visiting].name])
    BY <1>7 DEF LeaveNode
  <2>2. [enter |-> FALSE, name |-> known[visiting].name] \in EventType
    BY <1>3, <2>1 DEF EventType, Types, KnownTyped
  <2>3. QED BY <1>1, <1>2, <1>4, <2>1, <2>2
<1>8. CASE ExecEnds
  <2>1. UNCHANGED <<visiting, events, crossed>>
    BY <1>8 DEF ExecEnds
  <2>2. QED BY <1>1, <1>2, <2>1 DEF Types, KnownTyped, EventsTyped
<1>9. QED BY <1>5, <1>6, <1>7, <1>8 DEF Visits

LEMMA VisitsTyped == ASSUME Types, Visits PROVE Types'
<1>1. UNCHANGED <<page, calls, known, live, links, linked, named, disk>>
  BY VisitsDo
<1>2. EventsTyped' /\ KnownTyped' /\ LinksTyped' /\ DiskTyped'
  BY <1>1, VisitsDo DEF Types, KnownTyped, LinksTyped, DiskTyped, disk
<1>3. QED BY <1>1, <1>2, SamePageStep DEF Types, CallsTyped

LEMMA PollsDo ==
  ASSUME Types, Polls
  PROVE UNCHANGED <<page, calls, server, crossed, lossy>> /\ EventsTyped'
<1>1. CASE FetchEvents
  <2>1. news' = events /\ events' = <<>> /\ UNCHANGED <<page, calls, server, crossed, lossy>>
    BY <1>1 DEF FetchEvents, bounds
  <2>2. QED BY <2>1, EmptySeq, RingAssumption DEF Types, EventsTyped
<1>2. CASE PollFails
  <2>1. news' = <<>> /\ UNCHANGED <<page, calls, events, server, crossed, lossy>>
    BY <1>2 DEF PollFails
  <2>2. QED BY <2>1, EmptySeq DEF Types, EventsTyped
<1>3. QED BY <1>1, <1>2 DEF Polls

LEMMA PollsTyped == ASSUME Types, Polls PROVE Types'
<1>1. UNCHANGED <<page, calls, known, live, visiting, links, linked, named, file, writing, running>>
      /\ EventsTyped'
  BY PollsDo DEF server, disk
<1>2. KnownTyped' /\ LinksTyped' /\ DiskTyped'
  BY <1>1 DEF Types, KnownTyped, LinksTyped, DiskTyped
<1>3. QED BY <1>1, <1>2, SamePageStep DEF Types, CallsTyped

(* The behaviour a server starts with, and a Load reads.                   *)
LEMMA FirstShape ==
  /\ Len(FirstNodes) \in Nat /\ DOMAIN FirstNodes = 1 .. Len(FirstNodes)
  /\ FirstKnown \in Seq([name : Names, kind : Kinds]) /\ Len(FirstKnown) = Len(FirstNodes)
  /\ \A i \in 1 .. Len(FirstNodes) : FirstKnown[i].name = ServerName[i]
<1> DEFINE n == Len(FirstNodes)
           R == [name : Names, kind : Kinds]
<1>1. /\ FirstNodes \in [1 .. n -> Kinds] /\ n \in Nat /\ DOMAIN FirstNodes = 1 .. n
      /\ ServerName \in [1 .. Len(ServerName) -> Names] /\ Len(ServerName) \in Nat
      /\ n <= Len(ServerName)
  BY FirstAssumption, NamesAssumption, LenProperties
<1>2. FirstKnown = [i \in 1 .. n |-> [name |-> ServerName[i], kind |-> FirstNodes[i]]]
  BY <1>1 DEF FirstKnown
<1>3. \A i \in 1 .. n : [name |-> ServerName[i], kind |-> FirstNodes[i]] \in R
  BY <1>1
<1>4. FirstKnown \in [1 .. n -> R] /\ \A i \in 1 .. n : FirstKnown[i].name = ServerName[i]
  BY <1>2, <1>3
<1> HIDE DEF n, R
<1>5. FirstKnown \in Seq(R) /\ Len(FirstKnown) = n
  BY <1>1, <1>4
<1>6. QED BY <1>1, <1>4, <1>5 DEF n, R

LEMMA FirstJoinedShape ==
  ASSUME NEW m \in Nat, NEW k \in Nat
  PROVE  /\ IsFiniteSet(FirstJoined(m, k)) /\ Cardinality(FirstLinks) \in Nat
         /\ \A l \in FirstJoined(m, k) :
              /\ l \in [id : Nat, from : Nat, to : Nat]
              /\ m + 1 <= l.from /\ l.from <= m + Len(FirstNodes)
              /\ m + 1 <= l.to /\ l.to <= m + Len(FirstNodes)
<1> DEFINE n == Len(FirstNodes)
           order == SetToSeq(FirstLinks)
           L(i) == [id |-> k + i, from |-> m + order[i][1], to |-> m + order[i][2]]
<1>1. n \in Nat
  BY FirstShape
<1>2. IsFiniteSet(FirstLinks) /\ FirstLinks \subseteq (1 .. n) \X (1 .. n)
  <2>1. IsFiniteSet((1 .. n) \X (1 .. n))
    <3> DEFINE S == 1 .. n
    <3>1. IsFiniteSet(S)
      BY <1>1, FS_Interval
    <3> HIDE DEF S
    <3>2. QED BY <3>1, FS_Product DEF S
  <2>2. QED BY <2>1, FirstShape, FirstAssumption, FS_Subset
<1>3. order \in Seq(FirstLinks)
  BY <1>2, SetToSeqIs
<1>4. FirstJoined(m, k) = {L(i) : i \in DOMAIN order}
  BY DEF FirstJoined
<1> HIDE DEF order
<1>5. order \in [1 .. Len(order) -> FirstLinks] /\ Len(order) \in Nat /\ DOMAIN order = 1 .. Len(order)
  BY <1>3, LenProperties
<1>6. IsFiniteSet(FirstJoined(m, k))
  <2> DEFINE f == [i \in 1 .. Len(order) |-> L(i)]
  <2>1. f \in Surjection(1 .. Len(order), FirstJoined(m, k))
    BY <1>4, <1>5 DEF Surjection
  <2>2. IsFiniteSet(1 .. Len(order))
    BY <1>5, FS_Interval
  <2>3. QED BY <2>1, <2>2, FS_Surjection
<1>7. ASSUME NEW l \in FirstJoined(m, k)
      PROVE  /\ l \in [id : Nat, from : Nat, to : Nat]
             /\ m + 1 <= l.from /\ l.from <= m + n /\ m + 1 <= l.to /\ l.to <= m + n
  <2>1. PICK i \in 1 .. Len(order) : l = L(i)
    BY <1>4, <1>5
  <2>2. order[i] \in (1 .. n) \X (1 .. n) /\ i \in Nat
    BY <1>2, <1>5
  <2>3. PICK p \in 1 .. n : p = order[i][1]
    BY <2>2
  <2>4. PICK q \in 1 .. n : q = order[i][2]
    BY <2>2
  <2>5. l = [id |-> k + i, from |-> m + p, to |-> m + q]
    BY <2>1, <2>3, <2>4
  <2>6. k + i \in Nat /\ p \in Nat /\ q \in Nat /\ 1 <= p /\ p <= n /\ 1 <= q /\ q <= n
    BY <1>1, <2>2, <2>3, <2>4
  <2>7. /\ m + p \in Nat /\ m + q \in Nat /\ m + 1 <= m + p /\ m + p <= m + n
        /\ m + 1 <= m + q /\ m + q <= m + n
    BY <1>1, <2>6
  <2>8. QED BY <2>5, <2>6, <2>7
<1>8. Cardinality(FirstLinks) \in Nat
  BY <1>2, FS_CardinalityType
<1>9. QED BY <1>6, <1>7, <1>8

LEMMA LoadDoes ==
  ASSUME Types, LoadBehaviour
  PROVE  /\ UNCHANGED <<page, calls, feed, named, running, visiting, alive, lossy>>
         /\ crossed' = crossed \cup {"nodes", "links"} /\ NotSaved
         /\ KnownTyped' /\ LinksTyped'
<1> DEFINE m == Len(known)
           n == Len(FirstNodes)
           R == [name : Names, kind : Kinds]
<1>1. /\ UNCHANGED <<page, calls, feed, named, running, visiting, alive, lossy>>
      /\ crossed' = crossed \cup {"nodes", "links"} /\ NotSaved
      /\ known' = known \o FirstKnown /\ live' = {m + i : i \in DOMAIN FirstNodes}
      /\ links' = links \cup FirstJoined(m, linked) /\ linked' = linked + Cardinality(FirstLinks)
  BY DEF LoadBehaviour
<1>2. /\ known \in Seq(R) /\ m \in Nat /\ DOMAIN known = 1 .. m /\ linked \in Nat
      /\ FirstKnown \in Seq(R) /\ Len(FirstKnown) = n /\ n \in Nat /\ DOMAIN FirstNodes = 1 .. n
  BY KnownShape, FirstShape DEF Types, KnownTyped, LinksTyped
<1>3. known' \in Seq(R) /\ Len(known') = m + n /\ DOMAIN known' = 1 .. m + n
  <2>1. known' \in Seq(R) /\ Len(known') = m + n
    <3>1. known' = known \o FirstKnown
      BY <1>1
    <3> HIDE DEF R
    <3>2. /\ known \o FirstKnown \in Seq(R)
          /\ Len(known \o FirstKnown) = Len(known) + Len(FirstKnown)
      BY <1>2, ConcatProperties
    <3>3. QED BY <1>2, <3>1, <3>2
  <2>2. QED BY <2>1, LenProperties
<1> HIDE DEF m, n
<1>4. KnownTyped'
  <2>1. live' \subseteq DOMAIN known'
    BY <1>1, <1>2, <1>3
  <2>2. visiting' \in DOMAIN known' \cup {0}
    BY <1>1, <1>2, <1>3 DEF Types, KnownTyped
  <2>3. QED BY <1>3, <2>1, <2>2 DEF KnownTyped
<1>5. LinksTyped'
  <2>1. /\ IsFiniteSet(FirstJoined(m, linked)) /\ Cardinality(FirstLinks) \in Nat
        /\ \A l \in FirstJoined(m, linked) :
              /\ l \in [id : Nat, from : Nat, to : Nat]
              /\ m + 1 <= l.from /\ l.from <= m + n
              /\ m + 1 <= l.to /\ l.to <= m + n
    BY <1>2, FirstJoinedShape DEF m, n
  <2>2. IsFiniteSet(links')
    BY <1>1, <2>1, FS_Union DEF Types, LinksTyped
  <2>3. ASSUME NEW l \in links' PROVE l \in [id : Nat, from : DOMAIN known', to : DOMAIN known']
    <3>1. CASE l \in links
      <4>1. l \in [id : Nat, from : DOMAIN known, to : DOMAIN known]
        BY <3>1 DEF Types, LinksTyped
      <4>2. DOMAIN known \subseteq DOMAIN known'
        BY <1>2, <1>3
      <4>3. QED BY <4>1, <4>2
    <3>2. CASE l \in FirstJoined(m, linked)
      <4>1. l.from \in 1 .. m + n /\ l.to \in 1 .. m + n /\ l \in [id : Nat, from : Nat, to : Nat]
        BY <1>2, <2>1, <3>2
      <4>2. QED BY <1>3, <4>1
    <3>3. QED BY <1>1, <3>1, <3>2
  <2>4. linked' \in Nat /\ named' \in Nat
    BY <1>1, <1>2, <2>1 DEF Types, LinksTyped
  <2>5. QED BY <2>2, <2>3, <2>4 DEF LinksTyped
<1>6. QED BY <1>1, <1>4, <1>5

LEMMA LoadTyped == ASSUME Types, LoadBehaviour PROVE Types'
<1>1. /\ UNCHANGED <<page, calls, feed, running>> /\ NotSaved
      /\ KnownTyped' /\ LinksTyped'
  BY LoadDoes
<1>2. EventsTyped' /\ DiskTyped'
  BY <1>1, DiskStays DEF Types, EventsTyped, feed
<1>3. QED BY <1>1, <1>2, SamePageStep DEF Types, CallsTyped

LEMMA FailsDoes ==
  ASSUME Types, NEW c \in calls, Fails(c)
  PROVE  /\ UNCHANGED <<page, feed, server, crossed>>
         /\ alive => lossy' = TRUE
         /\ ~alive => lossy' = lossy
         /\ \E r : calls' = (calls \ {c}) \cup {r} /\ IsReply(r, c, "error", c.name, c.view) /\ CallOK(r)
<1>1. Reply(c, "error") /\ UNCHANGED <<page, feed, server, crossed>>
  BY DEF Fails
<1>2. (alive => lossy' = TRUE) /\ (~alive => lossy' = lossy)
  BY DEF Fails, bounds
<1>3. QED BY <1>1, <1>2, StatusReply DEF Types

LEMMA FailsTyped ==
  ASSUME Types, NEW c \in calls, Fails(c) PROVE Types'
<1>1. UNCHANGED <<page, feed, server>> /\ \A d \in calls' : d \in calls \/ CallOK(d)
  BY FailsDoes
<1>2. EventsTyped' /\ KnownTyped' /\ LinksTyped' /\ DiskTyped'
  BY <1>1, ServerTypesStay DEF Types
<1>3. QED BY <1>1, <1>2, SamePageStep DEF Types

LEMMA DeleteNodeTyped ==
  ASSUME Types, NEW o \in Drawn, DeleteNode(o) PROVE Types'
<1>1. o \in DOMAIN node
  BY LenProperties DEF Drawn, Types, NodesTyped
<1>2. PostDelete(o, {}) /\ UNCHANGED <<node, state, count, button, feed, server>>
  BY DEF DeleteNode, SameServer
<1>3. QED BY <1>1, <1>2, DeleteTyped

LEMMA TypesStart == Init => Types
<1>1. SUFFICES ASSUME Init PROVE Types
  OBVIOUS
<1> DEFINE n == Len(FirstNodes)
<1>2. /\ n \in Nat /\ DOMAIN FirstNodes = 1 .. n /\ FirstKnown \in Seq([name : Names, kind : Kinds])
      /\ Len(FirstKnown) = n
  BY FirstShape
<1>3. NodesTyped /\ StateTyped /\ ArrowsTyped /\ button \in {"play", "stop"} /\ count \in Nat
  BY <1>1, EmptySeq DEF Init, NodesTyped, StateTyped, ArrowsTyped
<1>4. CallsTyped
  <2>1. CallOK(Call("refresh", 0, NoName, NoName))
    BY NoViewOK DEF Call, CallOK, Ops, NodeOps, LinkOps, Status
  <2>2. QED BY <1>1, <2>1 DEF Init, CallsTyped
<1>5. EventsTyped
  BY <1>1, EmptySeq, RingAssumption DEF Init, EventsTyped
<1>6. KnownTyped /\ DOMAIN known = 1 .. n
  <2>1. known = FirstKnown /\ live = DOMAIN FirstNodes /\ visiting = 0
    BY <1>1 DEF Init
  <2>2. DOMAIN known = 1 .. n
    BY <1>2, <2>1, LenProperties
  <2>3. QED BY <1>2, <2>1, <2>2 DEF KnownTyped
<1>7. LinksTyped
  <2>1. links = FirstJoined(0, 0) /\ linked = Cardinality(FirstLinks) /\ named = n
    BY <1>1 DEF Init
  <2>2. /\ IsFiniteSet(FirstJoined(0, 0)) /\ Cardinality(FirstLinks) \in Nat
        /\ \A l \in FirstJoined(0, 0) :
             /\ l \in [id : Nat, from : Nat, to : Nat]
             /\ 0 + 1 <= l.from /\ l.from <= 0 + n /\ 0 + 1 <= l.to /\ l.to <= 0 + n
    BY FirstJoinedShape
  <2> HIDE DEF n
  <2>3. links \subseteq [id : Nat, from : 1 .. n, to : 1 .. n]
    <3>1. SUFFICES ASSUME NEW l \in links PROVE l \in [id : Nat, from : 1 .. n, to : 1 .. n]
      OBVIOUS
    <3>2. l.from \in 1 .. n /\ l.to \in 1 .. n /\ l \in [id : Nat, from : Nat, to : Nat]
      BY <1>2, <2>1, <2>2
    <3>3. QED BY <3>2
  <2>4. QED BY <1>2, <1>6, <2>1, <2>2, <2>3 DEF LinksTyped
<1>8. DiskTyped
  <2>1. ViewOK(View)
    BY <1>6, <1>7, ViewTyped
  <2>2. QED BY <1>1, <2>1 DEF Init, DiskTyped
<1>9. QED BY <1>3, <1>4, <1>5, <1>6, <1>7, <1>8 DEF Types

LEMMA ServeTyped ==
  ASSUME Types, NEW c \in calls, Serve(c) PROVE Types'
<1>1. CASE ServeCreate(c) BY <1>1, ServeCreateTyped
<1>2. CASE ServePosition(c) BY <1>2, ServePositionTyped
<1>3. CASE ServeRemove(c) BY <1>3, ServeRemoveTyped
<1>4. CASE ServeConnect(c) BY <1>4, ServeConnectTyped
<1>5. CASE ServeDisconnect(c) BY <1>5, ServeDisconnectTyped
<1>6. CASE ServeRename(c) BY <1>6, ServeRenameTyped
<1>7. CASE ServeClear(c) BY <1>7, ServeClearTyped
<1>8. CASE ServeFile(c) BY <1>8, ServeFileTyped
<1>9. CASE DiskStep(c) BY <1>9, DiskStepTyped
<1>10. QED BY <1>1, <1>2, <1>3, <1>4, <1>5, <1>6, <1>7, <1>8, <1>9 DEF Serve, ServeFile, DiskStep

LEMMA AnswerTyped ==
  ASSUME Types, NEW c \in calls, Answer(c) PROVE Types'
<1>1. CASE Created(c) BY <1>1, CreatedTyped
<1>2. CASE Positioned(c) BY <1>2, PositionedTyped
<1>3. CASE Removed(c) BY <1>3, RemovedTyped
<1>4. CASE Linked(c) BY <1>4, LinkedTyped
<1>5. CASE Renamed(c) BY <1>5, RenamedTyped
<1>6. CASE Refreshed(c) BY <1>6, RefreshedTyped
<1>7. CASE Acknowledged(c) BY <1>7, AcknowledgedTyped
<1>8. QED BY <1>1, <1>2, <1>3, <1>4, <1>5, <1>6, <1>7 DEF Answer

LEMMA EditTyped ==
  ASSUME Types, Edit PROVE Types'
<1>1. ASSUME NEW k \in Kinds, AddNode(k) PROVE Types'
  BY <1>1, AddNodeTyped
<1>2. ASSUME NEW o \in Drawn, DeleteNode(o) PROVE Types'
  BY <1>2, DeleteNodeTyped
<1>3. ASSUME NEW o \in Drawn, NEW new \in GivenNames, SetName(o, new) PROVE Types'
  BY <1>3, SetNameTyped
<1>4. ASSUME NEW f \in Drawn, NEW g \in Drawn, Connect(f, g) PROVE Types'
  BY <1>4, ConnectTyped
<1>5. ASSUME NEW f \in Drawn, NEW g \in Drawn, Disconnect(f, g) PROVE Types'
  BY <1>5, DisconnectTyped
<1>6. QED BY <1>1, <1>2, <1>3, <1>4, <1>5, NewBehaviourTyped, RefreshTyped, StartStopTyped DEF Edit

LEMMA TypesKeep == Types /\ [Next]_vars => Types'
<1>1. SUFFICES ASSUME Types, [Next]_vars PROVE Types'
  OBVIOUS
<1>2. CASE Next
  <2>1. ASSUME NEW c \in calls, Serve(c) \/ Answer(c) \/ Fails(c) PROVE Types'
    BY <1>1, <2>1, ServeTyped, AnswerTyped, FailsTyped
  <2>2. QED BY <1>1, <1>2, <2>1, EditTyped, VisitsTyped, PollsTyped, LoadTyped, ProcessEventsTyped
           DEF Next, Visits, Polls
<1>3. CASE UNCHANGED vars
  BY <1>1, <1>3 DEF Types, NodesTyped, StateTyped, ArrowsTyped, CallsTyped, CallOK, EventsTyped, feed,
                    KnownTyped, LinksTyped, DiskTyped, vars, page, server, disk
<1>4. QED BY <1>1, <1>2, <1>3

LEMMA TypesHold == Spec => []Types
BY TypesStart, TypesKeep, PTL DEF Spec

(* The objects of the page and the nodes of the server keep their shape,   *)
(* and whatever Behaviour.state, a connection, a call or a link refers to  *)
(* is one of them, however the calls are answered.                         *)
THEOREM EditorTyped == Spec => []TypeOK
<1>1. Types => TypeOK
  BY DEF Types, TypeOK, NodesTyped, StateTyped, ArrowsTyped, CallsTyped, CallOK, KnownTyped,
         LinksTyped, NodeType, EventsTyped, DiskTyped, Ops
<1>2. QED BY <1>1, TypesHold, PTL

-----------------------------------------------------------------------------
(* There are finitely many calls at any time, so that a call that is       *)
(* posted gets a number no other of its kind has.                          *)
CallsFinite == IsFiniteSet(calls)

LEMMA PostedFinite ==
  ASSUME NEW C, IsFiniteSet(C) PROVE IsFiniteSet(Posted(C))
<1> DEFINE f == [c \in C |-> Numbered(c)]
<1>1. f \in Surjection(C, Posted(C))
  BY DEF Surjection, Posted
<1>2. QED BY <1>1, FS_Surjection

LEMMA FewCalls ==
  /\ IsFiniteSet(Posted(StopIfRunning))
  /\ \A op, who, at, to : IsFiniteSet(Posted({Call(op, who, at, to)}))
  /\ \A a : IsFiniteSet(Posted({PostDisconnect(a)}))
<1>1. IsFiniteSet(StopIfRunning)
  BY FS_EmptySet, FS_Singleton DEF StopIfRunning
<1>2. QED BY <1>1, PostedFinite, FS_Singleton

LEMMA FiniteFrom ==
  ASSUME CallsFinite, NEW C, IsFiniteSet(C), calls' \subseteq calls \cup C
  PROVE  CallsFinite'
BY FS_Union, FS_Subset DEF CallsFinite

LEMMA PostDeleteFinite ==
  ASSUME Types, CallsFinite, NEW o, NEW C, PostDelete(o, C) PROVE CallsFinite'
<1> DEFINE ends == {a \in Mapped : ~arrow[a].leaving /\ EndsAt(a, node[o].id)}
           P == {PostDisconnect(a) : a \in ends}
           R == {Call("remove", o, node[o].id, NoName)}
<1>1. calls' = (calls \ C) \cup Posted(StopIfRunning \cup P \cup R)
  BY DEF PostDelete
<1>2. IsFiniteSet(ends)
  <2>1. Len(arrow) \in Nat
    BY LenProperties DEF Types, ArrowsTyped
  <2>2. IsFiniteSet(1 .. Len(arrow)) /\ ends \subseteq 1 .. Len(arrow)
    BY <2>1, FS_Interval DEF Mapped
  <2>3. QED BY <2>2, FS_Subset
<1> HIDE DEF ends
<1>3. IsFiniteSet(P)
  <2> DEFINE f == [a \in ends |-> PostDisconnect(a)]
  <2>1. f \in Surjection(ends, P)
    BY DEF Surjection
  <2>2. QED BY <1>2, <2>1, FS_Surjection
<1> HIDE DEF P
<1>4. IsFiniteSet(Posted(P)) /\ IsFiniteSet(Posted(R)) /\ IsFiniteSet(Posted(StopIfRunning))
  BY <1>3, PostedFinite, FewCalls
<1> HIDE DEF R
<1>5. IsFiniteSet(Posted(StopIfRunning) \cup Posted(P) \cup Posted(R))
  BY <1>4, FS_Union
<1>6. calls' \subseteq calls \cup (Posted(StopIfRunning) \cup Posted(P) \cup Posted(R))
  BY <1>1, PostedThree
<1>7. QED BY <1>5, <1>6, FiniteFrom

LEMMA EditFinite == ASSUME Types, CallsFinite, Edit PROVE CallsFinite'
<1>1. ASSUME NEW op, NEW who, NEW at, NEW to,
             calls' = calls \cup Posted(StopIfRunning \cup {Call(op, who, at, to)})
      PROVE  CallsFinite'
  <2>1. calls' \subseteq calls \cup (Posted(StopIfRunning) \cup Posted({Call(op, who, at, to)}))
    BY <1>1, PostedUnion
  <2>2. IsFiniteSet(Posted(StopIfRunning) \cup Posted({Call(op, who, at, to)}))
    BY FewCalls, FS_Union
  <2>3. QED BY <2>1, <2>2, FiniteFrom
<1>2. ASSUME NEW op, NEW who, NEW at, NEW to, calls' = calls \cup Posted({Call(op, who, at, to)})
      PROVE  CallsFinite'
  BY <1>2, FewCalls, FiniteFrom
<1>3. ASSUME NEW k \in Kinds, AddNode(k) PROVE CallsFinite'
  BY <1>1, <1>3 DEF AddNode
<1>4. ASSUME NEW o \in Drawn, DeleteNode(o) PROVE CallsFinite'
  BY <1>4, PostDeleteFinite DEF DeleteNode
<1>5. ASSUME NEW o \in Drawn, NEW new \in GivenNames, SetName(o, new) PROVE CallsFinite'
  BY <1>2, <1>5 DEF SetName
<1>6. ASSUME NEW f \in Drawn, NEW g \in Drawn, Connect(f, g) PROVE CallsFinite'
  BY <1>1, <1>6 DEF Connect
<1>7. ASSUME NEW f \in Drawn, NEW g \in Drawn, Disconnect(f, g) PROVE CallsFinite'
  <2>1. PICK a : calls' = calls \cup Posted({PostDisconnect(a)})
    BY <1>7 DEF Disconnect
  <2>2. QED BY <2>1, FewCalls, FiniteFrom
<1>8. CASE NewBehaviour
  <2>1. \/ calls' = calls \cup Posted(StopIfRunning \cup {Call("clear", 0, NoName, NoName)})
        \/ calls' = calls \cup Posted(StopIfRunning)
    BY <1>8 DEF NewBehaviour
  <2>2. QED BY <1>1, <2>1, FewCalls, FiniteFrom
<1>9. CASE Refresh
  BY <1>1, <1>9 DEF Refresh
<1>10. CASE StartStop
  BY <1>2, <1>10 DEF StartStop
<1>11. QED BY <1>3, <1>4, <1>5, <1>6, <1>7, <1>8, <1>9, <1>10 DEF Edit

LEMMA ServeFinite == ASSUME Types, CallsFinite, NEW c \in calls, Serve(c) PROVE CallsFinite'
<1>1. \E r : calls' \subseteq calls \cup {r}
  <2>1. ASSUME NEW s, Reply(c, s) PROVE \E r : calls' \subseteq calls \cup {r}
    BY <2>1 DEF Reply
  <2>2. CASE ServePosition(c) \/ ServeRemove(c) \/ ServeConnect(c) \/ ServeDisconnect(c)
    BY <2>1, <2>2 DEF ServePosition, ServeRemove, ServeConnect, ServeDisconnect
  <2>3. CASE ServeRename(c) \/ ServeClear(c) \/ ServeStop(c)
    BY <2>1, <2>3 DEF ServeRename, ServeClear, ServeStop
  <2>4. CASE ServeCreate(c)
    BY <2>4, ServeCreateDoes
  <2>5. CASE ReadFile(c)
    BY <2>5, ReadFileDoes
  <2>6. CASE ListFile(c)
    BY <2>6 DEF ListFile
  <2>7. CASE WriteFile(c)
    BY <2>1, <2>7, WriteFileDoes
  <2>8. QED BY <2>2, <2>3, <2>4, <2>5, <2>6, <2>7 DEF Serve
<1>2. PICK r : calls' \subseteq calls \cup {r}
  BY <1>1
<1>3. IsFiniteSet({r})
  BY FS_Singleton
<1>4. QED BY <1>2, <1>3, FiniteFrom

LEMMA AnswerFinite == ASSUME Types, CallsFinite, NEW c \in calls, Answer(c) PROVE CallsFinite'
<1>1. ASSUME calls' \subseteq calls PROVE CallsFinite'
  BY <1>1, FS_Subset DEF CallsFinite
<1>2. CASE Created(c)
  <2>1. CASE c.status = "ok"
    <3>1. calls' = (calls \ {c}) \cup Posted({Call("position", c.who, c.name, NoName)})
      BY <1>2, <2>1 DEF Created
    <3>2. QED BY <3>1, FewCalls, FiniteFrom
  <2>2. CASE c.status = "error"
    BY <1>2, <2>2, PostDeleteFinite DEF Created
  <2>3. QED BY <1>2, <2>1, <2>2 DEF Created
<1>3. CASE Positioned(c) \/ Removed(c)
  <2>1. calls' = (calls \ {c}) \cup Posted({Call("save", c.who, NoName, NoName)}) \/ calls' \subseteq calls
    BY <1>3 DEF Positioned, Removed, Save, Answered
  <2>2. QED BY <1>1, <2>1, FewCalls, FiniteFrom
<1>4. CASE Linked(c)
  <2>1. CASE c.status = "error"
    <3> DEFINE P == Posted({PostDisconnect(c.who)})
    <3>1. calls' \subseteq calls \cup P
      BY <1>4, <2>1 DEF Linked, Retry
    <3>2. IsFiniteSet(P)
      BY FewCalls
    <3> HIDE DEF P
    <3>3. QED BY <3>1, <3>2, FiniteFrom
  <2>2. CASE c.status = "ok"
    BY <1>1, <1>4, <2>2 DEF Linked, Answered
  <2>3. QED BY <1>4, <2>1, <2>2 DEF Linked
<1>5. CASE Renamed(c) \/ Refreshed(c) \/ Acknowledged(c)
  BY <1>1, <1>5 DEF Renamed, Refreshed, Acknowledged, Answered
<1>6. QED BY <1>2, <1>3, <1>4, <1>5 DEF Answer

LEMMA FiniteKeep == Types /\ CallsFinite /\ [Next]_vars => CallsFinite'
<1>1. SUFFICES ASSUME Types, CallsFinite, [Next]_vars PROVE CallsFinite'
  OBVIOUS
<1>2. ASSUME NEW c \in calls, Fails(c) PROVE CallsFinite'
  <2>1. PICK r : calls' = (calls \ {c}) \cup {r}
    BY <1>1, <1>2, FailsDoes
  <2>2. IsFiniteSet({r})
    BY FS_Singleton
  <2>3. QED BY <1>1, <2>1, <2>2, FiniteFrom
<1>3. ASSUME UNCHANGED calls PROVE CallsFinite'
  BY <1>1, <1>3 DEF CallsFinite
<1>4. CASE Visits \/ Polls \/ LoadBehaviour \/ ProcessEvents \/ UNCHANGED vars
  <2>1. UNCHANGED calls
    BY <1>1, <1>4, VisitsDo, PollsDo, LoadDoes, ProcessEventsDoes DEF vars
  <2>2. QED BY <1>3, <2>1
<1>5. QED BY <1>1, <1>2, <1>4, EditFinite, ServeFinite, AnswerFinite DEF Next, Visits, Polls

LEMMA FiniteHold == Spec => []CallsFinite
<1>1. Init => CallsFinite
  BY FS_Singleton DEF Init, CallsFinite
<1>2. QED BY <1>1, FiniteKeep, TypesHold, PTL DEF Spec

(* A call that is posted is none of those under way.                       *)
LEMMA FreshCall ==
  ASSUME CallsFinite, NEW op, NEW who, NEW at, NEW to
  PROVE  Numbered(Call(op, who, at, to)) \notin calls
<1> DEFINE c == Call(op, who, at, to)
           n == Cardinality(calls)
           Same == {d \in calls : d.op = c.op /\ d.who = c.who}
           used == {d.copy : d \in Same}
           Free(k) == /\ \A d \in calls : d.op = c.op /\ d.who = c.who => d.copy # k
                      /\ \A j \in 0 .. k - 1 : \E d \in calls : d.op = c.op /\ d.who = c.who /\ d.copy = j
<1>1. n \in Nat
  BY FS_CardinalityType DEF CallsFinite
<1>2. IsFiniteSet(Same) /\ Cardinality(Same) <= n
  BY FS_Subset DEF CallsFinite
<1> HIDE DEF Same
<1>3. IsFiniteSet(used) /\ Cardinality(used) <= Cardinality(Same) /\ Cardinality(used) \in Nat
  <2> DEFINE f == [d \in Same |-> d.copy]
  <2>1. f \in Surjection(Same, used)
    BY DEF Surjection
  <2>2. QED BY <1>2, <2>1, FS_Surjection, FS_CardinalityType
<1> HIDE DEF used
<1> DEFINE free == {k \in 0 .. n : k \notin used}
<1>4. free # {}
  <2>1. SUFFICES ASSUME free = {} PROVE FALSE
    OBVIOUS
  <2> DEFINE I == 0 .. n
  <2>2. I \subseteq used
    BY <2>1
  <2>3. Cardinality(I) = n + 1 /\ IsFiniteSet(I)
    BY <1>1, FS_Interval
  <2> HIDE DEF I
  <2>4. Cardinality(I) <= Cardinality(used)
    BY <1>3, <2>2, FS_Subset
  <2>5. Cardinality(Same) \in Nat
    BY <1>2, FS_CardinalityType
  <2> HIDE DEF n
  <2>6. QED BY <1>1, <1>2, <1>3, <2>3, <2>4, <2>5
<1>5. Min(free) \in free /\ \A y \in free : Min(free) <= y
  <2>1. free \in SUBSET Nat
    BY <1>1
  <2> HIDE DEF free
  <2>2. QED BY <1>4, <2>1, MinIs
<1>6. \E k \in 0 .. n : Free(k)
  <2> DEFINE m == Min(free)
  <2>1. m \in 0 .. n /\ m \notin used
    BY <1>5
  <2>2. \A d \in calls : d.op = c.op /\ d.who = c.who => d.copy # m
    BY <2>1 DEF used, Same
  <2>3. ASSUME NEW j \in 0 .. m - 1
        PROVE  \E d \in calls : d.op = c.op /\ d.who = c.who /\ d.copy = j
    <3>1. j \in 0 .. n /\ ~(m <= j)
      BY <1>1, <2>1
    <3>2. j \in used
      BY <1>5, <3>1
    <3>3. QED BY <3>2 DEF used, Same
  <2> HIDE DEF m
  <2>4. Free(m)
    BY <2>2, <2>3
  <2>5. QED BY <2>1, <2>4
<1> DEFINE k == CHOOSE j \in 0 .. n : Free(j)
<1>7. k \in 0 .. n /\ Free(k)
  BY <1>6
<1>8. Numbered(c) = [c EXCEPT !.copy = k]
  BY DEF Numbered
<1> HIDE DEF k
<1>9. [c EXCEPT !.copy = k] = [op |-> op, who |-> who, at |-> at, to |-> to, copy |-> k,
                               status |-> "sent", name |-> NoName, view |-> NoView]
  BY DEF Call
<1>10. PICK e : e = Numbered(c)
  OBVIOUS
<1>11. e.op = op /\ e.who = who /\ e.copy = k /\ c.op = op /\ c.who = who
  BY <1>8, <1>9, <1>10 DEF Call
<1>12. QED BY <1>7, <1>10, <1>11

(* What is saved: a call that ends in a save; that a save which lists the  *)
(* behaviour last holds its nodes, or such a call is under way; and that   *)
(* the file does, unless such a save is still to be written or an edit the *)
(* code leaves unsaved came after.                                         *)
Saving(c) ==
  \/ c.op = "remove" /\ c.status = "ok"
  \/ c.op = "save" /\ c.status = "sent" /\ \A w \in writing : w.for # c
  \/ c.op = "create" /\ c.status = "ok" /\ c.name \in LiveNames
  \/ c.op = "position" /\ c.status = "sent" /\ c.at \in LiveNames
  \/ c.op = "position" /\ c.status = "ok"
SavesPending == \E c \in calls : Saving(c)
Owned ==
  \A w \in writing :
    /\ w.for \in calls /\ w.for.status = "sent"
    /\ \A v \in writing : v.for = w.for => v = w
Listed ==
  \A w \in writing : w.last /\ ~w.written => w.list.nodes = View.nodes \/ SavesPending
Filed ==
  \/ unsaved \/ file.nodes = View.nodes \/ SavesPending
  \/ \E w \in writing : w.last /\ ~w.written
SavedRight == alive => Owned /\ (~lossy => Listed /\ Filed)

LEMMA SavedStays ==
  ASSUME SavedRight, alive, UNCHANGED <<known, live, disk, alive, lossy>>,
         \A c \in calls \ calls' : /\ \A w \in writing : w.for # c
                                   /\ Saving(c) => SavesPending'
  PROVE  SavedRight'
<1>1. /\ View'.nodes = View.nodes /\ LiveNames' = LiveNames
      /\ UNCHANGED <<file, writing, unsaved>>
  BY DEF View, LiveNames, disk
<1>2. \A c : Saving(c)' <=> Saving(c)
  BY <1>1 DEF Saving
<1>3. SavesPending => SavesPending'
  BY <1>2 DEF SavesPending
<1>4. Owned'
  BY <1>1 DEF SavedRight, Owned
<1>5. Owned /\ (~lossy => Listed /\ Filed)
  BY DEF SavedRight
<1>6. ~lossy => Listed' /\ Filed'
  BY <1>1, <1>3, <1>5 DEF Listed, Filed
<1>7. QED BY <1>4, <1>6 DEF SavedRight

LEMMA EditOnlyPosts == ASSUME Edit PROVE calls \subseteq calls' /\ UNCHANGED <<feed, server, lossy>>
<1>1. ASSUME NEW k \in Kinds, AddNode(k) PROVE calls \subseteq calls' /\ SameServer
  BY <1>1 DEF AddNode
<1>2. ASSUME NEW o \in Drawn, DeleteNode(o) PROVE calls \subseteq calls' /\ SameServer
  BY <1>2 DEF DeleteNode, PostDelete
<1>3. ASSUME NEW o \in Drawn, NEW new \in GivenNames, SetName(o, new)
      PROVE  calls \subseteq calls' /\ SameServer
  BY <1>3 DEF SetName
<1>4. ASSUME NEW f \in Drawn, NEW g \in Drawn, Connect(f, g)
      PROVE  calls \subseteq calls' /\ SameServer
  BY <1>4 DEF Connect
<1>5. ASSUME NEW f \in Drawn, NEW g \in Drawn, Disconnect(f, g)
      PROVE  calls \subseteq calls' /\ SameServer
  BY <1>5 DEF Disconnect
<1>6. NewBehaviour \/ Refresh \/ StartStop => calls \subseteq calls' /\ SameServer
  BY DEF NewBehaviour, Refresh, StartStop
<1>7. calls \subseteq calls' /\ SameServer
  BY <1>1, <1>2, <1>3, <1>4, <1>5, <1>6 DEF Edit
<1>8. QED BY <1>7 DEF SameServer

LEMMA AnswerSaved ==
  ASSUME Types, CallsFinite, SavedRight, alive, NEW c \in calls, Answer(c) PROVE SavedRight'
<1>1. UNCHANGED <<server, bounds>>
  BY DEF Answer, Created, Positioned, Removed, Linked, Renamed, Refreshed, Acknowledged, SamePage
<1>2. UNCHANGED <<known, live, disk, alive, lossy>>
  BY <1>1 DEF server, bounds
<1>3. c.status # "sent" /\ \A w \in writing : w.for # c /\ w.for \in calls
  <2>1. c.status # "sent"
    BY DEF Answer, Created, Positioned, Removed, Linked, Renamed, Refreshed, Acknowledged
  <2>2. QED BY <2>1 DEF SavedRight, Owned
<1>4. ASSUME calls \ {c} \subseteq calls', Saving(c) => SavesPending'
      PROVE  SavedRight'
  BY <1>2, <1>3, <1>4, SavedStays
<1>5. ASSUME calls' = (calls \ {c}) \cup Posted({Call("save", c.who, NoName, NoName)})
      PROVE  SavedRight'
  <2>1. PICK d : d \in calls' /\ d \notin calls /\ Says(d, "save", c.who, NoName, NoName)
    BY <1>5, PostedCall, FreshCall
  <2>2. d.op = "save" /\ d.status = "sent" /\ \A w \in writing' : w.for # d
    BY <1>2, <1>3, <2>1 DEF Says, disk
  <2>3. Saving(d)'
    BY <2>2 DEF Saving
  <2>4. QED BY <1>4, <1>5, <2>1, <2>3 DEF SavesPending
<1>6. CASE Created(c)
  <2>1. CASE c.status = "ok"
    <3>1. PICK p : calls' = (calls \ {c}) \cup {p} /\ Says(p, "position", c.who, c.name, NoName)
      BY <1>6, <2>1, CreatedDoes
    <3>2. c.op = "create" /\ LiveNames' = LiveNames
      BY <1>2, <1>6 DEF Created, LiveNames
    <3>3. Saving(c) => Saving(p)'
      BY <2>1, <3>1, <3>2 DEF Saving, Says
    <3>4. QED BY <1>4, <3>1, <3>3 DEF SavesPending
  <2>2. CASE c.status = "error"
    <3>1. c.op = "create" /\ PostDelete(c.who, {c})
      BY <1>6, <2>2 DEF Created
    <3>2. calls \ {c} \subseteq calls'
      BY <3>1 DEF PostDelete
    <3>3. ~Saving(c)
      BY <2>2, <3>1 DEF Saving
    <3>4. QED BY <1>4, <3>2, <3>3
  <2>3. QED BY <1>6, <2>1, <2>2 DEF Created
<1>7. CASE Positioned(c)
  <2>1. c.op = "position" /\ c.status # "sent"
    BY <1>7 DEF Positioned
  <2>2. CASE c.status = "ok"
    BY <1>5, <1>7, <2>2 DEF Positioned, Save
  <2>3. CASE c.status # "ok"
    BY <1>4, <1>7, <2>1, <2>3 DEF Positioned, Saving
  <2>4. QED BY <2>2, <2>3
<1>8. CASE Removed(c)
  <2>1. CASE c.status = "ok"
    BY <1>5, <1>8, <2>1 DEF Removed, Save
  <2>2. CASE c.status = "error"
    <3>1. c.op = "remove" /\ calls' = calls \ {c}
      BY <1>8, <2>2 DEF Removed, Answered
    <3>2. QED BY <1>4, <2>2, <3>1 DEF Saving
  <2>3. QED BY <1>8, <2>1, <2>2 DEF Removed
<1>9. CASE Linked(c)
  <2>1. c.op \in LinkOps /\ calls \ {c} \subseteq calls'
    BY <1>9 DEF Linked, Answered
  <2>2. QED BY <1>4, <2>1 DEF Saving, LinkOps
<1>10. CASE Renamed(c) \/ Refreshed(c) \/ Acknowledged(c)
  <2>1. /\ c.op \in {"rename", "refresh", "clear", "run", "stop", "save"}
        /\ calls' = calls \ {c}
    BY <1>10 DEF Renamed, Refreshed, Acknowledged, Answered
  <2>2. QED BY <1>3, <1>4, <2>1 DEF Saving
<1>11. QED BY <1>6, <1>7, <1>8, <1>9, <1>10 DEF Answer

(* A save is of a call that was sent, so no other step of the server       *)
(* answers one that lists.                                                 *)
LEMMA UnlistedServed ==
  ASSUME Types, NEW c \in calls, c.op \notin {"save", "refresh", "run"}
  PROVE  \A w \in writing : w.for # c
BY DEF Types, DiskTyped, WriteOK

LEMMA OutdatedOwned ==
  ASSUME NEW S, \A w \in S : WriteOK(w), \A v, w \in S : v.for = w.for => v = w,
         NEW w \in Outdated(S), NEW u \in Outdated(S), u.for = w.for
  PROVE  u = w
<1>1. PICK s \in S : w = [s EXCEPT !.last = FALSE]
  BY DEF Outdated
<1>2. PICK t \in S : u = [t EXCEPT !.last = FALSE]
  BY DEF Outdated
<1>3. /\ s = [for |-> s.for, list |-> s.list, written |-> s.written, last |-> s.last]
      /\ t = [for |-> t.for, list |-> t.list, written |-> t.written, last |-> t.last]
  BY DEF WriteOK
<1>4. /\ w = [for |-> s.for, list |-> s.list, written |-> s.written, last |-> FALSE]
      /\ u = [for |-> t.for, list |-> t.list, written |-> t.written, last |-> FALSE]
  BY <1>1, <1>2, <1>3
<1>5. s.for = w.for /\ t.for = u.for
  BY <1>4
<1>6. QED BY <1>1, <1>2, <1>5

(* After a change that nothing saves there is nothing to show.             *)
LEMMA NotSavedRight ==
  ASSUME Types, SavedRight, alive, NotSaved, \A w \in writing : w.for \in calls'
  PROVE  SavedRight'
<1>1. writing' = Outdated(writing) /\ unsaved' = TRUE /\ \A w \in writing : WriteOK(w)
  BY DEF NotSaved, Outdated, Types, DiskTyped
<1>2. \A w \in writing' : /\ ~w.last
                          /\ \E v \in writing : v.for = w.for /\ v.list = w.list /\ v.written = w.written
  BY <1>1, OutdatedAre
<1>3. Owned
  BY DEF SavedRight
<1>4. \A w, v \in writing' : v.for = w.for => v = w
  BY <1>1, <1>3, OutdatedOwned DEF Owned
<1>5. \A w \in writing' : w.for \in calls' /\ w.for.status = "sent"
  BY <1>2, <1>3 DEF Owned
<1>6. Owned'
  BY <1>4, <1>5 DEF Owned
<1>7. Listed' /\ Filed'
  BY <1>1, <1>2 DEF Listed, Filed
<1>8. QED BY <1>6, <1>7 DEF SavedRight

(* A step of the server after which a call that ends in a save is under    *)
(* way.                                                                    *)
LEMMA PendingRight ==
  ASSUME Types, SavedRight, alive, NEW c \in calls, calls \ {c} \subseteq calls', UNCHANGED writing,
         c.op \notin {"save", "refresh", "run"}, SavesPending'
  PROVE  SavedRight'
<1>1. Owned /\ \A w \in writing : w.for # c
  BY UnlistedServed DEF SavedRight
<1>2. Owned'
  BY <1>1 DEF Owned
<1>3. Listed' /\ Filed'
  BY DEF Listed, Filed
<1>4. QED BY <1>2, <1>3 DEF SavedRight

LEMMA ListFileSaved ==
  ASSUME Types, SavedRight, alive, NEW c \in calls, ListFile(c) PROVE SavedRight'
<1> DEFINE v == [for |-> c, list |-> View, written |-> FALSE, last |-> TRUE]
<1>1. /\ writing' = Outdated(writing) \cup {v} /\ c.status = "sent" /\ \A w \in writing : w.for # c
      /\ UNCHANGED <<calls, known, live>>
  BY DEF ListFile, Outdated
<1>2. v.for = c /\ v.list = View /\ ~v.written /\ v.last
  OBVIOUS
<1> HIDE DEF v
<1>3. View' = View
  <2>1. UNCHANGED <<known, live, links>>
    BY DEF ListFile
  <2>2. QED BY <2>1 DEF View
<1>4. Owned /\ \A w \in writing : WriteOK(w)
  BY DEF SavedRight, Types, DiskTyped
<1>5. \A w \in Outdated(writing) :
         ~w.last /\ \E u \in writing : u.for = w.for /\ u.list = w.list /\ u.written = w.written
  BY <1>4, OutdatedAre
<1>6. \A w, u \in Outdated(writing) : u.for = w.for => u = w
  BY <1>4, OutdatedOwned DEF Owned
<1>7. \A w \in Outdated(writing) : w.for # c /\ w.for \in calls /\ w.for.status = "sent"
  BY <1>1, <1>4, <1>5 DEF Owned
<1>8. Owned'
  BY <1>1, <1>2, <1>6, <1>7 DEF Owned
<1>9. Listed'
  BY <1>1, <1>2, <1>3, <1>5 DEF Listed
<1>10. Filed'
  BY <1>1, <1>2 DEF Filed
<1>11. QED BY <1>8, <1>9, <1>10 DEF SavedRight

LEMMA WriteFileSaved ==
  ASSUME Types, SavedRight, alive, NEW c \in calls, WriteFile(c) PROVE SavedRight'
<1>1. PICK w \in writing :
        /\ w.for = c /\ ~w.written /\ file' = w.list /\ unsaved' = ~w.last
        /\ IF c.op = "refresh"
           THEN /\ calls' = calls
                /\ \E v : writing' = (writing \ {w}) \cup {v} /\ WriteOK(v) /\ v.written
                          /\ v.for = w.for /\ v.list = w.list /\ v.last = w.last
           ELSE writing' = writing \ {w} /\ Reply(c, "ok")
  BY WriteFileDoes
<1>2. UNCHANGED <<known, live, links, alive, lossy>>
  BY WriteFileDoes DEF bounds
<1>3. View' = View /\ LiveNames' = LiveNames
  BY <1>2 DEF View, LiveNames
<1>4. Owned /\ (~lossy => Listed /\ Filed)
  BY DEF SavedRight
<1>5. \A d \in writing' : \E u \in writing : u.for = d.for
  BY <1>1
<1>6. calls \ {c} \subseteq calls'
  BY <1>1 DEF Reply
<1>7. ASSUME NEW d \in calls, Saving(d) PROVE Saving(d)' /\ d \in calls'
  <2>1. \A x \in writing' : d.op = "save" => x.for # d
    BY <1>5, <1>7 DEF Saving
  <2>2. Saving(d)'
    BY <1>3, <1>7, <2>1 DEF Saving
  <2>3. c.op \in {"save", "refresh", "run"} /\ c.status = "sent"
    BY WriteFileDoes
  <2>4. d # c
    BY <1>1, <1>7, <2>3 DEF Saving
  <2>5. QED BY <1>6, <2>2, <2>4
<1>8. SavesPending => SavesPending'
  BY <1>7 DEF SavesPending
<1>9. Owned'
  <2>1. ASSUME NEW x \in writing \ {w} PROVE x.for \in calls' /\ x.for.status = "sent" /\ x.for # c
    <3>1. x.for # c /\ x.for \in calls /\ x.for.status = "sent"
      BY <1>1, <1>4, <2>1 DEF Owned
    <3>2. QED BY <1>6, <3>1
  <2>2. \A x, y \in writing \ {w} : x.for = y.for => x = y
    BY <1>4 DEF Owned
  <2>3. CASE c.op = "refresh"
    <3>1. PICK v : writing' = (writing \ {w}) \cup {v} /\ v.for = c
      BY <1>1, <2>3
    <3>2. c \in calls' /\ c.status = "sent"
      BY <1>1, <2>3, WriteFileDoes
    <3>3. QED BY <2>1, <2>2, <3>1, <3>2 DEF Owned
  <2>4. CASE c.op # "refresh"
    <3>1. writing' = writing \ {w}
      BY <1>1, <2>4
    <3>2. QED BY <2>1, <2>2, <3>1 DEF Owned
  <2>5. QED BY <2>3, <2>4
<1>10. ASSUME ~lossy PROVE Listed'
  <2>1. ASSUME NEW x \in writing', x.last, ~x.written
        PROVE  x.list.nodes = View.nodes \/ SavesPending
    <3>1. x \in writing
      BY <1>1, <2>1
    <3>2. QED BY <1>4, <1>10, <2>1, <3>1 DEF Listed
  <2>2. QED BY <1>3, <1>8, <2>1 DEF Listed
<1>11. ASSUME ~lossy PROVE Filed'
  <2>1. CASE w.last
    <3>1. w.list.nodes = View.nodes \/ SavesPending
      BY <1>1, <1>4, <1>11, <2>1 DEF Listed
    <3>2. QED BY <1>1, <1>3, <1>8, <3>1 DEF Filed
  <2>2. CASE ~w.last
    BY <1>1, <2>2 DEF Filed
  <2>3. QED BY <2>1, <2>2
<1>12. QED BY <1>2, <1>9, <1>10, <1>11 DEF SavedRight

LEMMA ReadFileSaved ==
  ASSUME Types, SavedRight, alive, NEW c \in calls, ReadFile(c) PROVE SavedRight'
<1>1. PICK w \in writing : w.for = c /\ w.written /\ writing' = writing \ {w}
  BY ReadFileDoes
<1>2. /\ UNCHANGED <<known, live, links, file, unsaved, alive, lossy>> /\ c.op = "refresh"
      /\ calls \ {c} \subseteq calls'
  BY ReadFileDoes DEF bounds
<1>3. View' = View /\ LiveNames' = LiveNames
  BY <1>2 DEF View, LiveNames
<1>4. Owned /\ (~lossy => Listed /\ Filed)
  BY DEF SavedRight
<1>5. ASSUME NEW d \in calls, Saving(d) PROVE Saving(d)' /\ d \in calls'
  BY <1>1, <1>2, <1>3, <1>5 DEF Saving
<1>6. SavesPending => SavesPending'
  BY <1>5 DEF SavesPending
<1>7. Owned'
  <2>1. ASSUME NEW x \in writing' PROVE x.for \in calls' /\ x.for.status = "sent"
    <3>1. x.for # c /\ x.for \in calls /\ x.for.status = "sent"
      BY <1>1, <1>4, <2>1 DEF Owned
    <3>2. QED BY <1>2, <3>1
  <2>2. QED BY <1>1, <1>4, <2>1 DEF Owned
<1>8. ~lossy => Listed' /\ Filed'
  BY <1>1, <1>2, <1>3, <1>4, <1>6 DEF Listed, Filed
<1>9. QED BY <1>2, <1>7, <1>8 DEF SavedRight

LEMMA ServeSaved ==
  ASSUME Types, SavedRight, alive, NEW c \in calls, Serve(c) PROVE SavedRight'
<1>1. lossy' = lossy
  BY DEF Serve, ServeCreate, ServePosition, ServeRemove, ServeConnect, ServeDisconnect, ServeRename,
         ServeClear, ListFile, WriteFile, ReadFile, ServeStop, SameRun, bounds
<1>2. ASSUME UNCHANGED <<known, live, disk, alive>>, calls \ {c} \subseteq calls', ~Saving(c),
             c.op \notin {"save", "refresh", "run"}
      PROVE  SavedRight'
  <2>1. \A w \in writing : w.for # c
    BY <1>2, UnlistedServed
  <2>2. QED BY <1>1, <1>2, <2>1, SavedStays
<1>3. CASE ServeCreate(c)
  <2>1. PICK name \in Names : ServeCreate(c) /\ live' = live \cup {Len(known) + 1}
                              /\ known'[Len(known) + 1].name = name /\ c.op = "create"
                              /\ \E r : /\ calls' = (calls \ {c}) \cup {r}
                                        /\ IsReply(r, c, "ok", name, c.view)
    BY <1>3, ServeCreateDoes
  <2>2. name \in LiveNames' /\ UNCHANGED writing
    BY <2>1 DEF LiveNames, ServeCreate, disk
  <2>3. SavesPending' /\ calls \ {c} \subseteq calls'
    BY <2>1, <2>2 DEF SavesPending, Saving, IsReply
  <2>4. QED BY <2>1, <2>2, <2>3, PendingRight
<1>4. CASE ServePosition(c)
  <2>1. /\ UNCHANGED <<known, live, disk, alive>> /\ c.op = "position" /\ c.status = "sent"
        /\ Reply(c, IF Named(c.at) = {} THEN "error" ELSE "ok")
    BY <1>4 DEF ServePosition, StaysUp, Serving
  <2>2. CASE Named(c.at) = {}
    <3>1. ~Saving(c) /\ calls \ {c} \subseteq calls'
      BY <2>1, <2>2 DEF Saving, Reply, Named, LiveNames
    <3>2. QED BY <1>2, <2>1, <3>1
  <2>3. CASE Named(c.at) # {}
    <3>1. PICK r : calls' = (calls \ {c}) \cup {r} /\ IsReply(r, c, "ok", c.name, c.view)
      BY <2>1, <2>3, StatusReply DEF Types
    <3>2. Saving(r)' /\ UNCHANGED writing
      BY <2>1, <3>1 DEF Saving, IsReply, disk
    <3>3. QED BY <2>1, <3>1, <3>2, PendingRight DEF SavesPending
  <2>4. QED BY <2>2, <2>3
<1>5. CASE ServeRemove(c)
  <2>1. /\ UNCHANGED <<known, disk>> /\ c.op = "remove" /\ c.status = "sent"
        /\ calls \ {c} \subseteq calls'
        /\ \/ UNCHANGED <<live, alive>>
           \/ alive' = FALSE
           \/ Reply(c, "ok")
    BY <1>5 DEF ServeRemove, StaysUp, Serving, Reply
  <2>2. CASE UNCHANGED <<live, alive>>
    BY <1>2, <2>1, <2>2 DEF Saving
  <2>3. CASE alive' = FALSE
    BY <2>3 DEF SavedRight
  <2>4. CASE Reply(c, "ok")
    <3>1. PICK r : calls' = (calls \ {c}) \cup {r} /\ IsReply(r, c, "ok", c.name, c.view)
      BY <2>1, <2>4, StatusReply DEF Types
    <3>2. Saving(r)' /\ UNCHANGED writing
      BY <2>1, <3>1 DEF Saving, IsReply, disk
    <3>3. QED BY <2>1, <3>1, <3>2, PendingRight DEF SavesPending
  <2>5. QED BY <2>1, <2>2, <2>3, <2>4
<1>6. CASE ServeConnect(c)
  <2>1. UNCHANGED <<known, live, disk>> /\ c.op = "connect" /\ calls \ {c} \subseteq calls'
    BY <1>6 DEF ServeConnect, Serving, Reply
  <2>2. CASE UNCHANGED alive
    BY <1>2, <2>1, <2>2 DEF Saving
  <2>3. CASE alive' = FALSE
    BY <2>3 DEF SavedRight
  <2>4. UNCHANGED alive \/ alive' = FALSE
    BY <1>6, Zenon DEF ServeConnect
  <2>5. QED BY <2>2, <2>3, <2>4
<1>7. CASE ServeDisconnect(c)
  <2>1. /\ UNCHANGED <<known, live, disk, alive>> /\ c.op = "disconnect"
        /\ calls \ {c} \subseteq calls'
    BY <1>7 DEF ServeDisconnect, StaysUp, Serving, Reply
  <2>2. QED BY <1>2, <2>1 DEF Saving
<1>8. ASSUME NotSaved, calls \ {c} \subseteq calls', c.op \notin {"save", "refresh", "run"}
      PROVE  SavedRight'
  <2>1. \A w \in writing : w.for \in calls'
    BY <1>8, UnlistedServed DEF SavedRight, Owned
  <2>2. QED BY <1>8, <2>1, NotSavedRight
<1>8a. CASE ServeRename(c)
  <2>1. /\ c.op = "rename" /\ calls \ {c} \subseteq calls' /\ UNCHANGED <<live, alive>>
        /\ NotSaved \/ UNCHANGED <<known, disk>>
    BY <1>8a DEF ServeRename, Serving, Reply
  <2>2. QED BY <1>2, <1>8, <2>1 DEF Saving
<1>9. CASE ServeClear(c)
  <2>1. c.op = "clear" /\ calls \ {c} \subseteq calls' /\ NotSaved
    BY <1>9 DEF ServeClear, Serving, Reply
  <2>2. QED BY <1>8, <2>1
<1>10. CASE ServeStop(c)
  <2>1. /\ UNCHANGED <<known, live, disk, alive>> /\ c.op = "stop"
        /\ calls \ {c} \subseteq calls'
    BY <1>10 DEF ServeStop, StaysUp, Serving, Reply
  <2>2. QED BY <1>2, <2>1 DEF Saving
<1>11. QED BY <1>3, <1>4, <1>5, <1>6, <1>7, <1>8a, <1>9, <1>10, ListFileSaved, WriteFileSaved, ReadFileSaved
       DEF Serve

LEMMA SavedKeep == Types /\ CallsFinite /\ SavedRight /\ [Next]_vars => SavedRight'
<1>1. SUFFICES ASSUME Types, CallsFinite, SavedRight, alive, [Next]_vars PROVE SavedRight'
  <2>1. ~alive /\ [Next]_vars /\ Types => ~alive'
    <3>1. SUFFICES ASSUME ~alive, [Next]_vars, Types PROVE ~alive'
      OBVIOUS
    <3>2. ASSUME NEW c \in calls, Serve(c) PROVE FALSE
      BY <3>1, <3>2 DEF Serve, ServeCreate, ServePosition, ServeRemove, ServeConnect, ServeDisconnect,
            ServeRename, ServeClear, ListFile, WriteFile, ReadFile, ServeStop, Serving
    <3>3. ASSUME NEW c \in calls, Answer(c) \/ Fails(c) PROVE ~alive'
      BY <3>1, <3>3 DEF Answer, Created, Positioned, Removed, Linked, Renamed, Refreshed, Acknowledged,
            SamePage, Fails, server
    <3>4. Edit \/ Visits \/ Polls \/ LoadBehaviour \/ ProcessEvents \/ UNCHANGED vars => ~alive'
      BY <3>1, EditOnlyPosts, VisitsDo, PollsDo, LoadDoes, ProcessEventsDoes DEF server, vars
    <3>5. QED BY <3>1, <3>2, <3>3, <3>4 DEF Next, Visits, Polls
  <2>2. QED BY <2>1 DEF SavedRight
<1>2. ASSUME UNCHANGED <<known, live, disk, alive, lossy>>, calls \subseteq calls'
      PROVE  SavedRight'
  BY <1>1, <1>2, SavedStays
<1>3. CASE Edit
  <2>1. calls \subseteq calls' /\ UNCHANGED <<server, lossy>>
    BY <1>3, EditOnlyPosts
  <2>2. QED BY <1>2, <2>1 DEF server
<1>4. ASSUME NEW c \in calls, Fails(c) PROVE SavedRight'
  <2>1. alive' = alive /\ lossy' = TRUE /\ writing' = writing
    BY <1>1, <1>4, FailsDoes DEF server, disk
  <2>2. (\A w \in writing : w.for # c) /\ calls \ {c} \subseteq calls'
    BY <1>1, <1>4 DEF Fails, Reply
  <2>3. Owned'
    BY <1>1, <2>1, <2>2 DEF SavedRight, Owned
  <2>4. QED BY <2>1, <2>3 DEF SavedRight
<1>5. CASE LoadBehaviour
  <2>1. UNCHANGED calls /\ NotSaved /\ alive'
    BY <1>1, <1>5, LoadDoes
  <2>2. QED BY <1>1, <2>1, NotSavedRight DEF SavedRight, Owned
<1>6. CASE Visits \/ Polls \/ ProcessEvents \/ UNCHANGED vars
  <2>1. UNCHANGED <<known, live, disk, alive, lossy, calls>>
    BY <1>1, <1>6, VisitsDo, PollsDo, ProcessEventsDoes DEF server, bounds, vars
  <2>2. QED BY <1>2, <2>1
<1>7. QED BY <1>1, <1>3, <1>4, <1>5, <1>6, AnswerSaved, ServeSaved DEF Next, Visits, Polls

(* Whatever the order in which the calls are served and answered and the   *)
(* saves list and write, once the last answer is in, current.ab holds the  *)
(* nodes of the server, but for those a rename, a clear or a Load changed  *)
(* after the last list, or when an older list was written last.            *)
THEOREM EditorNodesSaved == Spec => []NodesSaved
<1>1. Init => SavedRight
  BY DEF Init, SavedRight, Owned, Listed, Filed
<1>2. Spec => []SavedRight
  BY <1>1, SavedKeep, TypesHold, FiniteHold, PTL DEF Spec
<1>3. SavedRight => NodesSaved
  BY DEF SavedRight, Owned, Filed, SavesPending, NodesSaved, Quiet
<1>4. QED BY <1>2, <1>3, PTL

-----------------------------------------------------------------------------
(* The ids, as long as no edits that the page does not keep apart overtook *)
(* one another: an object is listed in Behaviour.state under its id, what  *)
(* is drawn is labelled with it and listed, no two nodes of the server     *)
(* share a name, and every call about nodes that is under way fits the     *)
(* page, the server and every other one.                                   *)
Ordered == "nodes" \notin crossed

LEMMA ServeLeaves ==
  ASSUME NEW c \in calls, Serve(c)
  PROVE  UNCHANGED <<page, feed, visiting, bounds>> /\ alive /\ crossed \subseteq crossed'
BY DEF Serve, ServeCreate, ServePosition, ServeRemove, ServeConnect, ServeDisconnect, ServeRename,
       ServeClear, ListFile, WriteFile, ReadFile, ServeStop, Serving, SameRun, StaysUp

(* The steps outside the page and the handlers of the server that leave    *)
(* the graph as it is.                                                     *)
Outside == Visits \/ Polls \/ UNCHANGED vars

LEMMA OutsideDo ==
  ASSUME Types, Outside
  PROVE  /\ UNCHANGED <<page, calls, known, live, links, linked, named, alive, lossy>>
         /\ crossed \subseteq crossed'
BY VisitsDo, PollsDo DEF Outside, vars, server, bounds

Lists(i, o) == i \in DOMAIN state /\ state[i] = o

Placed == \A i \in DOMAIN state : node[state[i]].id = i
Shown == \A o \in Drawn : node[o].label = node[o].id /\ Lists(node[o].id, o)
NamedOnce == \A m, n \in live : known[m].name = known[n].name => m = n

CreateFits(c) ==
  /\ Lists(c.at, c.who) /\ ~node[c.who].drawn /\ c.at \notin LiveNames
  /\ c.status = "sent" => c.name = NoName
  /\ c.name # NoName => c.name \in LiveNames /\ c.name \notin DOMAIN state
RenameFits(c) ==
  /\ c.to \notin {NullName, NoName} /\ c.to \notin DOMAIN state
  /\ c.status = "sent" =>
       /\ c.to \notin LiveNames
       /\ (Lists(c.at, c.who) /\ c.who \in Drawn) \/ c.at \notin LiveNames
  /\ c.status = "ok" =>
       /\ Lists(c.at, c.who) /\ c.who \in Drawn /\ c.at \notin LiveNames /\ c.to \in LiveNames
RemoveFits(c) ==
  /\ c.status = "sent" => Lists(c.at, c.who) \/ c.at \notin LiveNames
  /\ c.status = "ok" => Lists(c.at, c.who) /\ c.at \notin LiveNames
ClearFits(c) == DOMAIN state = {}
RefreshFits(c) ==
  /\ c.who = 0 => DOMAIN node = {} /\ DOMAIN state = {}
  /\ c.status = "ok" =>
       /\ \A x : x \in LiveNames <=> \E v \in c.view.nodes : v.name = x
       /\ \A v, w \in c.view.nodes : v.name = w.name => v = w
Fits(c) ==
  /\ c.op = "create" => CreateFits(c)
  /\ c.op = "rename" => RenameFits(c)
  /\ c.op = "remove" => RemoveFits(c)
  /\ c.op = "clear" => ClearFits(c)
  /\ c.op = "refresh" => RefreshFits(c)

KeptApart(c, d) ==
  /\ c.op \notin {"clear", "refresh"}
  /\ c.op = "create" /\ d.op = "create" => c.who # d.who
  /\ c.op = "create" /\ c.name # NoName => c.name \notin {d.at, d.to, d.name}
  /\ c.op = "rename" => d.op # "rename" /\ c.to \notin {d.at, d.to, d.name}
  /\ c.op = "remove" /\ c.status = "ok" =>
       (d.op = "create" \/ (d.op \in {"remove", "rename"} /\ d.status = "ok") => d.at # c.at)

CallsFit == \A c \in calls : c.op \in NodeOps => Fits(c)
CallsApart ==
  \A c, d \in calls : c.op \in NodeOps /\ d.op \in NodeOps /\ c # d => KeptApart(c, d)
NamesOK == Placed /\ Shown /\ NamedOnce /\ CallsFit /\ CallsApart
NamesRight == Ordered => NamesOK

LEMMA DrawnIs ==
  ASSUME NodesTyped PROVE \A o : o \in Drawn <=> o \in DOMAIN node /\ node[o].drawn
BY LenProperties DEF Drawn, NodesTyped

LEMMA DrawnNext ==
  ASSUME NodesTyped' PROVE \A o : o \in Drawn' <=> o \in DOMAIN node' /\ node'[o].drawn
BY LenProperties DEF Drawn, NodesTyped

LEMMA NoClash ==
  ASSUME NEW op \in NodeOps, NEW f, NEW g, "nodes" \notin Clash(op, f, g)
  PROVE  \A c \in calls : c.op \in NodeOps =>
           /\ c.op \notin {"clear", "refresh"} /\ op \notin {"clear", "refresh"}
           /\ op = "rename" => c.op # "rename"
BY DEF Clash

LEMMA NotReused ==
  ASSUME NEW id, "nodes" \notin Reused(id)
  PROVE  /\ id \notin DOMAIN state /\ id \notin LiveNames
         /\ \A c \in calls : id \notin {c.at, c.to, c.name}
         /\ visiting # 0 => known[visiting].name # id
         /\ \A i \in DOMAIN events : events[i].name # id
         /\ \A i \in DOMAIN news : news[i].name # id
BY DEF Reused, Taken

LEMMA Joined ==
  ASSUME NEW r, NEW S \in SUBSET calls, CallsApart,
         \A d \in calls' : d.op \in NodeOps => d = r \/ d \in S,
         \A d \in S : d.op \in NodeOps => KeptApart(d, r) /\ KeptApart(r, d)
  PROVE  CallsApart'
<1>1. SUFFICES ASSUME NEW c \in calls', NEW d \in calls', c.op \in NodeOps, d.op \in NodeOps, c # d
               PROVE  KeptApart(c, d)
  BY DEF CallsApart, KeptApart
<1>2. QED BY <1>1 DEF CallsApart

LEMMA FewerApart ==
  ASSUME CallsApart, \A d \in calls' : d.op \in NodeOps => d \in calls
  PROVE  CallsApart'
<1>1. SUFFICES ASSUME NEW c \in calls', NEW d \in calls', c.op \in NodeOps, d.op \in NodeOps, c # d
               PROVE  KeptApart(c, d)
  BY DEF CallsApart, KeptApart
<1>2. QED BY <1>1 DEF CallsApart

(* What a step leaves alone that changes no id, drawing or name.           *)
SameIds ==
  /\ UNCHANGED <<state, known, live>> /\ DOMAIN node' = DOMAIN node
  /\ \A o \in DOMAIN node : /\ node'[o].id = node[o].id /\ node'[o].label = node[o].label
                            /\ node'[o].drawn = node[o].drawn

LEMMA IdsStay ==
  ASSUME Types, Types', SameIds
  PROVE  /\ LiveNames' = LiveNames /\ \A o : o \in Drawn' <=> o \in Drawn
         /\ Placed => Placed'
         /\ Shown => Shown'
         /\ NamedOnce => NamedOnce'
<1>1. LiveNames' = LiveNames
  BY DEF LiveNames, SameIds
<1>2. \A o : o \in Drawn' <=> o \in Drawn
  BY DrawnIs DEF SameIds, Types, NodesTyped, Drawn
<1>3. \A i \in DOMAIN state : state[i] \in DOMAIN node
  BY DEF Types, StateTyped
<1>4. \A o \in Drawn : o \in DOMAIN node
  BY DrawnIs DEF Types
<1>5. QED BY <1>1, <1>2, <1>3, <1>4 DEF SameIds, Placed, Shown, NamedOnce, Lists

LEMMA FitsStay ==
  ASSUME Types, Types', SameIds, NEW c \in calls, Fits(c)
  PROVE  Fits(c)'
<1>1. LiveNames' = LiveNames /\ \A o : o \in Drawn' <=> o \in Drawn
  BY IdsStay
<1>2. c.op = "create" => c.who \in DOMAIN node
  BY DEF Types, CallsTyped, CallOK
<1>3. QED BY <1>1, <1>2 DEF SameIds, Fits, CreateFits, RenameFits, RemoveFits, ClearFits, RefreshFits, Lists

LEMMA NamesStay ==
  ASSUME Types, Types', NamesOK, SameIds, \A d \in calls' : d.op \in NodeOps => d \in calls
  PROVE  NamesOK'
<1>1. CallsFit'
  BY FitsStay DEF NamesOK, CallsFit
<1>2. QED BY <1>1, IdsStay, FewerApart DEF NamesOK

(* A call that fails is not forgotten by the others.                       *)
LEMMA NamesFail ==
  ASSUME Types, Types', NamesOK, SameIds, NEW c \in calls, NEW r, NEW s \in {"ok", "error"},
         s = "error" \/ c.op \notin NodeOps,
         calls' = (calls \ {c}) \cup {r}, r.op = c.op,
         c.op \in NodeOps => IsReply(r, c, s, c.name, c.view)
  PROVE  NamesOK'
<1>1. CASE c.op \notin NodeOps
  BY <1>1, NamesStay
<1>2. CASE c.op \in NodeOps
  <2>1. /\ r.who = c.who /\ r.at = c.at /\ r.to = c.to /\ r.name = c.name /\ r.status = "error"
    BY <1>2 DEF IsReply
  <2>2. Fits(c) /\ Fits(c)'
    BY <1>2, FitsStay DEF NamesOK, CallsFit
  <2>3. Fits(r)'
    BY <2>1, <2>2 DEF Fits, CreateFits, RenameFits, RemoveFits, ClearFits, RefreshFits
  <2>4. CallsFit'
    BY <2>3, FitsStay DEF NamesOK, CallsFit
  <2>5. ASSUME NEW d \in calls \ {c}, d.op \in NodeOps PROVE KeptApart(d, r) /\ KeptApart(r, d)
    <3>1. KeptApart(d, c) /\ KeptApart(c, d)
      BY <1>2, <2>5 DEF NamesOK, CallsApart
    <3>2. QED BY <2>1, <3>1 DEF KeptApart
  <2>6. CallsApart'
    <3> DEFINE S == calls \ {c}
    <3>1. /\ \A d \in calls' : d.op \in NodeOps => d = r \/ d \in S
          /\ \A d \in S : d.op \in NodeOps => KeptApart(d, r) /\ KeptApart(r, d)
          /\ S \in SUBSET calls /\ CallsApart
      BY <2>5 DEF NamesOK
    <3> HIDE DEF S
    <3>2. QED BY <3>1, Joined
  <2>7. QED BY <2>4, <2>6, IdsStay DEF NamesOK
<1>3. QED BY <1>1, <1>2

LEMMA ConnectNames ==
  ASSUME Types, Types', NamesOK, NEW f \in Drawn, NEW g \in Drawn, Connect(f, g) PROVE NamesOK'
<1>1. \A c \in calls' : c.op \in NodeOps => c \in calls
  <2>1. \A c \in calls' : \/ c \in calls \/ Says(c, "stop", 0, NoName, NoName)
                          \/ Says(c, "connect", Len(arrow) + 1, node[f].id, node[g].id)
    BY ConnectDoes
  <2>2. QED BY <2>1 DEF Says, NodeOps
<1>2. SameIds
  BY DEF Connect, SameServer, server, SameIds
<1>3. QED BY <1>1, <1>2, NamesStay

LEMMA DisconnectNames ==
  ASSUME Types, Types', NamesOK, NEW f \in Drawn, NEW g \in Drawn, Disconnect(f, g) PROVE NamesOK'
<1>1. \A c \in calls' : c.op \in NodeOps => c \in calls
  <2>1. PICK a, c : calls' = calls \cup {c} /\ SaysDisconnect(c, a)
    BY DisconnectDoes
  <2>2. c.op = "disconnect"
    BY <2>1 DEF SaysDisconnect, Says
  <2>3. QED BY <2>1, <2>2 DEF NodeOps
<1>2. SameIds
  BY DEF Disconnect, SameServer, server, page, SameIds
<1>3. QED BY <1>1, <1>2, NamesStay

LEMMA StartStopNames == ASSUME Types, Types', NamesOK, StartStop PROVE NamesOK'
<1>1. \A c \in calls' : c.op \in NodeOps => c \in calls
  <2>1. PICK c : /\ calls' = calls \cup {c}
                 /\ Says(c, "run", 0, NoName, NoName) \/ Says(c, "stop", 0, NoName, NoName)
    BY StartStopDoes
  <2>2. QED BY <2>1 DEF Says, NodeOps
<1>2. SameIds
  BY DEF StartStop, SameServer, server, page, SameIds
<1>3. QED BY <1>1, <1>2, NamesStay

LEMMA PositionedNames ==
  ASSUME Types, Types', NamesOK, NEW c \in calls, Positioned(c) PROVE NamesOK'
<1>1. \A d \in calls' : d.op \in NodeOps => d \in calls
  BY PositionedDoes DEF Says, NodeOps
<1>2. SameIds
  BY DEF Positioned, SamePage, server, page, SameIds
<1>3. QED BY <1>1, <1>2, NamesStay

LEMMA LinkedNames ==
  ASSUME Types, Types', NamesOK, NEW c \in calls, Linked(c) PROVE NamesOK'
<1>1. \A d \in calls' : d.op \in NodeOps => d \in calls
  <2>1. calls' = calls \ {c} \/ \E d : calls' = (calls \ {c}) \cup {d} /\ SaysDisconnect(d, c.who)
    BY LinkedDoes
  <2>2. \A d : SaysDisconnect(d, c.who) => d.op \notin NodeOps
    BY DEF SaysDisconnect, Says, NodeOps
  <2>3. QED BY <2>1, <2>2
<1>2. SameIds
  BY DEF Linked, SamePage, server, SameIds
<1>3. QED BY <1>1, <1>2, NamesStay

LEMMA AcknowledgedNames ==
  ASSUME Types, Types', NamesOK, NEW c \in calls, Acknowledged(c) PROVE NamesOK'
<1>1. SameIds /\ calls' = calls \ {c}
  BY DEF Acknowledged, Answered, SamePage, server, SameIds
<1>2. QED BY <1>1, NamesStay

LEMMA ProcessEventsNames ==
  ASSUME Types, Types', NamesOK, ProcessEvents PROVE NamesOK'
<1>1. UNCHANGED <<state, known, live, calls>>
  BY DEF ProcessEvents, server
<1>2. SameIds
  BY <1>1, ProcessEventsDoes DEF SameIds
<1>3. QED BY <1>1, <1>2, NamesStay

LEMMA OutsideNames ==
  ASSUME Types, Types', NamesOK, Outside PROVE NamesOK'
<1>1. SameIds /\ calls' = calls
  BY OutsideDo DEF page, SameIds
<1>2. QED BY <1>1, NamesStay

LEMMA FailsNames ==
  ASSUME Types, Types', NamesOK, NEW c \in calls, Fails(c) PROVE NamesOK'
<1>1. SameIds
  BY FailsDoes DEF server, page, SameIds
<1>2. PICK r : calls' = (calls \ {c}) \cup {r} /\ IsReply(r, c, "error", c.name, c.view)
  BY FailsDoes
<1>3. r.op = c.op
  BY <1>2 DEF IsReply
<1>4. QED BY <1>1, <1>2, <1>3, NamesFail

(* Services that change no name.                                           *)
LEMMA ServeOtherNames ==
  ASSUME Types, Types', NamesOK, NEW c \in calls,
         \/ ServePosition(c) \/ ServeConnect(c) \/ ServeDisconnect(c)
         \/ ServeFile(c) /\ c.op # "refresh"
  PROVE  NamesOK'
<1>1. SameIds /\ c.op \notin NodeOps
  <2>1. CASE ServePosition(c) \/ ServeConnect(c) \/ ServeDisconnect(c)
    BY <2>1 DEF ServePosition, ServeConnect, ServeDisconnect, Serving, SameRun, page, SameIds, NodeOps
  <2>2. CASE ServeFile(c) /\ c.op # "refresh"
    BY <2>2, ServeFileDoes DEF page, SameIds, NodeOps
  <2>3. QED BY <2>1, <2>2
<1>2. PICK r : calls' = (calls \ {c}) \cup {r} /\ r.op = c.op
  <2>1. CASE ServePosition(c) \/ ServeConnect(c) \/ ServeDisconnect(c)
    <3>1. (Reply(c, "ok") \/ Reply(c, "error")) /\ c.op # "create"
      BY <2>1 DEF ServePosition, ServeConnect, ServeDisconnect, Serving
    <3>2. PICK s \in {"ok", "error"} : Reply(c, s)
      BY <3>1
    <3>3. QED BY <3>1, <3>2, StatusReply DEF IsReply, Types
  <2>2. CASE ServeFile(c) /\ c.op # "refresh"
    <3>1. PICK r : \E v : calls' = (calls \ {c}) \cup {r} /\ IsReply(r, c, "ok", c.name, v)
      BY <2>2, ServeFileDoes
    <3>2. QED BY <3>1 DEF IsReply
  <2>3. QED BY <2>1, <2>2
<1>3. QED BY <1>1, <1>2, NamesFail

(* A removal is posted of a node that is listed.                           *)
LEMMA RemovalNames ==
  ASSUME Types, Types', NamesOK, SameIds, NEW o, NEW i, Lists(i, o),
         \A c \in calls : c.op \in NodeOps => c.op \notin {"clear", "refresh"},
         \A c \in calls' : c.op \in NodeOps => c \in calls \/ Says(c, "remove", o, i, NoName)
  PROVE  NamesOK'
<1>1. \A c : Says(c, "remove", o, i, NoName) =>
        c.op = "remove" /\ c.at = i /\ c.who = o /\ c.to = NoName /\ c.name = NoName /\ c.status = "sent"
  BY DEF Says
<1>2. Lists(i, o)'
  BY DEF Lists, SameIds
<1>3. CallsFit'
  <2>1. SUFFICES ASSUME NEW c \in calls', c.op \in NodeOps PROVE Fits(c)'
    BY DEF CallsFit
  <2>2. CASE c \in calls
    BY <2>1, <2>2, FitsStay DEF NamesOK, CallsFit
  <2>3. CASE Says(c, "remove", o, i, NoName)
    BY <1>1, <1>2, <2>3 DEF Fits, RemoveFits
  <2>4. QED BY <2>1, <2>2, <2>3
<1>4. CallsApart'
  <2>1. SUFFICES ASSUME NEW c \in calls', NEW d \in calls', c.op \in NodeOps, d.op \in NodeOps, c # d
                 PROVE  KeptApart(c, d)
    BY DEF CallsApart, KeptApart
  <2>2. CASE c \in calls /\ d \in calls
    BY <2>1, <2>2 DEF NamesOK, CallsApart
  <2>3. CASE c \in calls /\ Says(d, "remove", o, i, NoName)
    <3>1. Fits(c)
      BY <2>1, <2>3 DEF NamesOK, CallsFit
    <3>2. d.op = "remove" /\ d.at = i /\ d.to = NoName /\ d.name = NoName /\ d.status = "sent"
      BY <1>1, <2>3
    <3>3. i \in DOMAIN state
      BY DEF Lists
    <3>4. QED BY <2>1, <2>3, <3>1, <3>2, <3>3 DEF KeptApart, Fits, CreateFits, RenameFits
  <2>4. CASE Says(c, "remove", o, i, NoName)
    BY <1>1, <2>4 DEF KeptApart
  <2>5. QED BY <2>1, <2>2, <2>3, <2>4
<1>5. QED BY <1>3, <1>4, IdsStay DEF NamesOK

LEMMA PostDeleteNames ==
  ASSUME Types, Types', NamesOK, NEW o \in DOMAIN node, NEW X, PostDelete(o, X), Lists(node[o].id, o),
         UNCHANGED <<node, state, server>>,
         \A c \in calls : c.op \in NodeOps => c.op \notin {"clear", "refresh"}
  PROVE  NamesOK'
<1> DEFINE i == node[o].id
<1>1. SameIds
  BY DEF SameIds, server
<1>2. \A c \in calls' : c.op \in NodeOps => c \in calls \/ Says(c, "remove", o, i, NoName)
  <2>1. \A c \in calls' : \/ c \in calls \/ Says(c, "stop", 0, NoName, NoName)
                          \/ \E a \in Mapped : SaysDisconnect(c, a)
                          \/ Says(c, "remove", o, i, NoName)
    BY PostDeleteDoes
  <2>2. \A c, a : SaysDisconnect(c, a) => c.op \notin NodeOps
    BY DEF SaysDisconnect, Says, NodeOps
  <2>3. \A c : Says(c, "stop", 0, NoName, NoName) => c.op \notin NodeOps
    BY DEF Says, NodeOps
  <2>4. QED BY <2>1, <2>2, <2>3
<1> HIDE DEF i
<1>3. Lists(i, o)
  BY DEF i
<1>4. QED BY <1>1, <1>2, <1>3, RemovalNames

LEMMA DeleteNodeNames ==
  ASSUME Types, Types', NamesOK, NEW o \in Drawn, DeleteNode(o), Ordered' PROVE NamesOK'
<1>1. o \in DOMAIN node /\ Lists(node[o].id, o)
  BY DrawnIs DEF NamesOK, Shown, Types
<1>2. PostDelete(o, {}) /\ UNCHANGED <<node, state, server>>
  BY DEF DeleteNode, SameServer
<1>3. \A c \in calls : c.op \in NodeOps => c.op \notin {"clear", "refresh"}
  <2>1. "nodes" \notin Clash("remove", node[o].id, NoName)
    BY DEF DeleteNode, Ordered
  <2>2. QED BY <2>1, NoClash DEF NodeOps
<1>4. QED BY <1>1, <1>2, <1>3, PostDeleteNames

LEMMA SetNameNames ==
  ASSUME Types, Types', NamesOK, NEW o \in Drawn, NEW new \in GivenNames, SetName(o, new), Ordered'
  PROVE  NamesOK'
<1>0. PICK i : i = node[o].id
  OBVIOUS
<1>1. o \in DOMAIN node /\ Lists(i, o) /\ new \in Names
  BY <1>0, DrawnIs, NamesAssumption DEF NamesOK, Shown, Types
<1>2. PICK r : calls' = calls \cup {r} /\ Says(r, "rename", o, i, new)
  BY <1>0, SetNameDoes
<1>3. SameIds
  BY DEF SetName, SameServer, server, page, SameIds
<1>4. /\ "nodes" \notin Clash("rename", i, new) /\ "nodes" \notin Reused(new) /\ new # NullName
  BY <1>0 DEF SetName, Ordered
<1>5. \A c \in calls : c.op \in NodeOps => c.op \notin {"clear", "refresh", "rename"}
  BY <1>4, NoClash DEF NodeOps
<1>6. /\ new \notin DOMAIN state /\ new \notin LiveNames
      /\ \A c \in calls : new \notin {c.at, c.to, c.name}
  BY <1>4, NotReused
<1>7. /\ r.op = "rename" /\ r.who = o /\ r.at = i /\ r.to = new /\ r.name = NoName /\ r.status = "sent"
  BY <1>2 DEF Says
<1>8. new # NoName
  BY <1>1, NamesAssumption
<1>9. LiveNames' = LiveNames /\ o \in Drawn' /\ Lists(i, o)'
  BY <1>1, <1>3, IdsStay DEF SameIds, Lists
<1>10. Fits(r)'
  BY <1>3, <1>4, <1>6, <1>7, <1>8, <1>9 DEF Fits, RenameFits, SameIds
<1>11. CallsFit'
  BY <1>2, <1>3, <1>10, FitsStay DEF NamesOK, CallsFit
<1>12. ASSUME NEW d \in calls, d.op \in NodeOps PROVE KeptApart(d, r) /\ KeptApart(r, d)
  <2>1. KeptApart(r, d)
    BY <1>5, <1>6, <1>7, <1>12 DEF KeptApart
  <2>2. Fits(d)
    BY <1>12 DEF NamesOK, CallsFit
  <2>3. i \in DOMAIN state
    BY <1>1 DEF Lists
  <2>4. d.op = "create" /\ d.name # NoName => d.name \notin {i, new, NoName}
    BY <1>6, <2>2, <2>3 DEF Fits, CreateFits
  <2>5. QED BY <1>5, <1>7, <1>12, <2>1, <2>4 DEF KeptApart
<1>13. CallsApart'
  BY <1>2, <1>12, Joined DEF NamesOK
<1>14. QED BY <1>3, <1>11, <1>13, IdsStay DEF NamesOK

LEMMA AddNodeNames ==
  ASSUME Types, Types', NamesOK, NEW k \in Kinds, AddNode(k), Ordered' PROVE NamesOK'
<1>0. PICK id, o : id = TempId[k][count + 1] /\ o = Len(node) + 1
  OBVIOUS
<1>1. /\ id \in Names /\ o \notin DOMAIN node /\ DOMAIN node' = DOMAIN node \cup {o}
      /\ \A p \in DOMAIN node : node'[p] = node[p]
      /\ DOMAIN state' = DOMAIN state \cup {id} /\ state'[id] = o
      /\ \A i \in DOMAIN state : i # id => state'[i] = state[i]
  BY <1>0, AddNodeDoes
<1>2. node'[o].id = id /\ ~node'[o].drawn
  <2>1. PICK n : n = node'[o]
    OBVIOUS
  <2>2. n = [id |-> id, kind |-> k, active |-> FALSE, drawn |-> FALSE, label |-> NoName]
    BY <1>0, <2>1, AddNodeDoes
  <2>3. QED BY <2>1, <2>2
<1>3. "nodes" \notin Clash("create", id, NoName) /\ "nodes" \notin Reused(id)
  BY <1>0 DEF AddNode, Ordered
<1>4. UNCHANGED <<known, live>>
  BY DEF AddNode, SameServer, server
<1>5. PICK r \in calls' :
        /\ Says(r, "create", o, id, NoName)
        /\ \A c \in calls' : c \in calls \/ c = r \/ Says(c, "stop", 0, NoName, NoName)
  BY <1>0, AddNodeDoes
<1>6. /\ r.op = "create" /\ r.who = o /\ r.at = id /\ r.to = NoName /\ r.name = NoName
      /\ r.status = "sent"
  BY <1>5 DEF Says
<1>7. \A c \in calls' : c.op \in NodeOps => c = r \/ c \in calls
  BY <1>5 DEF Says, NodeOps
<1>8. \A c \in calls : c.op \in NodeOps => c.op \notin {"clear", "refresh"}
  BY <1>3, NoClash DEF NodeOps
<1>9. /\ id \notin DOMAIN state /\ id \notin LiveNames
      /\ \A c \in calls : id \notin {c.at, c.to, c.name}
  BY <1>3, NotReused
<1>10. /\ LiveNames' = LiveNames
       /\ \A p : p \in Drawn' <=> p \in Drawn
       /\ \A i, p : i # id => (Lists(i, p)' <=> Lists(i, p))
       /\ Lists(id, o)'
  <2>1. LiveNames' = LiveNames
    BY <1>4 DEF LiveNames
  <2>2. \A p : p \in Drawn' <=> p \in Drawn
    BY <1>1, <1>2, DrawnIs, DrawnNext DEF Types
  <2>3. QED BY <1>1, <2>1, <2>2 DEF Lists
<1>11. Placed' /\ Shown' /\ NamedOnce'
  <2>1. \A i \in DOMAIN state : state[i] \in DOMAIN node
    BY DEF Types, StateTyped
  <2>2. Placed'
    BY <1>1, <1>2, <1>9, <2>1 DEF NamesOK, Placed
  <2>3. \A p \in Drawn : p \in DOMAIN node /\ node[p].id \in DOMAIN state
    BY DrawnIs DEF NamesOK, Shown, Lists, Types
  <2>4. Shown'
    BY <1>1, <1>9, <1>10, <2>3 DEF NamesOK, Shown
  <2>5. QED BY <1>4, <2>2, <2>4 DEF NamesOK, NamedOnce
<1>12. CallsFit'
  <2>1. SUFFICES ASSUME NEW c \in calls', c.op \in NodeOps PROVE Fits(c)'
    BY DEF CallsFit
  <2>2. CASE c = r
    <3>1. id # NoName
      BY <1>1, NamesAssumption
    <3>2. QED BY <1>2, <1>6, <1>9, <1>10, <2>2 DEF Fits, CreateFits
  <2>3. CASE c \in calls
    <3>1. Fits(c) /\ c.op \notin {"clear", "refresh"} /\ id \notin {c.at, c.to, c.name}
      BY <1>8, <1>9, <2>1, <2>3 DEF NamesOK, CallsFit
    <3>2. c.op = "create" => c.who \in DOMAIN node
      BY <2>3 DEF Types, CallsTyped, CallOK
    <3>3. QED BY <1>1, <1>10, <3>1, <3>2 DEF Fits, CreateFits, RenameFits, RemoveFits
  <2>4. QED BY <1>7, <2>1, <2>2, <2>3
<1>13. ASSUME NEW d \in calls, d.op \in NodeOps PROVE KeptApart(d, r) /\ KeptApart(r, d)
  <2>1. Fits(d) /\ d.op \notin {"clear", "refresh"} /\ id \notin {d.at, d.to, d.name}
    BY <1>8, <1>9, <1>13 DEF NamesOK, CallsFit
  <2>2. d.op = "create" => d.who \in DOMAIN node
    BY <1>13 DEF Types, CallsTyped, CallOK
  <2>3. KeptApart(r, d)
    BY <1>1, <1>6, <2>1, <2>2 DEF KeptApart
  <2>4. KeptApart(d, r)
    BY <1>1, <1>6, <2>1, <2>2 DEF KeptApart, Fits, RenameFits
  <2>5. QED BY <2>3, <2>4
<1>14. CallsApart'
  BY <1>7, <1>13, Joined DEF NamesOK
<1>15. QED BY <1>11, <1>12, <1>14 DEF NamesOK

(* The answer to a creation or to a renaming: the object takes its name.   *)
LEMMA AdoptedNames ==
  ASSUME Types, Types', NamesOK, NEW c \in calls, c.op \in {"create", "rename"}, c.status = "ok",
         NEW old, old = c.at, NEW o \in DOMAIN node, o = c.who, NEW new,
         new \notin DOMAIN state,
         \A d \in calls \ {c} : d.op \in NodeOps => new \notin {d.at, d.to, d.name},
         UNCHANGED <<known, live>>, DOMAIN node' = DOMAIN node,
         \A p \in DOMAIN node \ {o} :
           node'[p].id = node[p].id /\ node'[p].label = node[p].label /\ node'[p].drawn = node[p].drawn,
         node'[o].id = new /\ node'[o].label = new /\ node'[o].drawn,
         DOMAIN state' = (DOMAIN state \ {old}) \cup {new}, state'[new] = o,
         \A i \in DOMAIN state \ {old} : state'[i] = state[i],
         \A d \in calls' : d.op \in NodeOps => d \in calls \ {c}
  PROVE  NamesOK'
<1>1. Lists(old, o) /\ old \notin LiveNames
  BY DEF NamesOK, CallsFit, Fits, CreateFits, RenameFits, NodeOps
<1>2. LiveNames' = LiveNames
  BY DEF LiveNames
<1>3. \A p \in DOMAIN node \ {o} : p \in Drawn' <=> p \in Drawn
  BY DrawnIs, DrawnNext DEF Types
<1>4. \A p \in Drawn' : p \in DOMAIN node
  BY DrawnNext DEF Types
<1>5. o \in Drawn'
  BY DrawnNext DEF Types
<1>6. Lists(new, o)'
  BY DEF Lists
<1>7. ASSUME NEW i, NEW p, Lists(i, p), i # old \/ p # o PROVE Lists(i, p)' /\ i # old
  BY <1>1, <1>7 DEF Lists
<1>8. Placed'
  <2>1. SUFFICES ASSUME NEW i \in DOMAIN state' PROVE node'[state'[i]].id = i
    BY DEF Placed
  <2>2. CASE i = new
    BY <2>2
  <2>3. CASE i # new
    <3>1. i \in DOMAIN state /\ i # old /\ state'[i] = state[i]
      BY <2>3
    <3>2. node[state[i]].id = i /\ node[state[old]].id = old /\ state[old] = o
      BY <1>1, <3>1 DEF NamesOK, Placed, Lists
    <3>3. state[i] \in DOMAIN node \ {o}
      BY <3>1, <3>2 DEF Types, StateTyped
    <3>4. QED BY <3>1, <3>2, <3>3
  <2>4. QED BY <2>2, <2>3
<1>9. Shown'
  <2>1. SUFFICES ASSUME NEW p \in Drawn' PROVE node'[p].label = node'[p].id /\ Lists(node[p].id, p)'
    BY DEF Shown, Lists
  <2>2. CASE p = o
    BY <1>6, <2>2 DEF Lists
  <2>3. CASE p # o
    <3>1. p \in DOMAIN node \ {o} /\ p \in Drawn
      BY <1>3, <1>4, <2>3
    <3>2. node[p].label = node[p].id /\ Lists(node[p].id, p)
      BY <3>1 DEF NamesOK, Shown
    <3>3. PICK i : i = node[p].id
      OBVIOUS
    <3>4. node'[p].id = i /\ node'[p].label = i
      BY <3>1, <3>2, <3>3
    <3>5. Lists(i, p)'
      BY <1>7, <2>3, <3>2, <3>3
    <3>6. QED BY <3>4, <3>5 DEF Lists
  <2>4. QED BY <2>2, <2>3
<1>10. NamedOnce'
  BY DEF NamesOK, NamedOnce
<1>11. CallsFit'
  <2>1. SUFFICES ASSUME NEW d \in calls', d.op \in NodeOps PROVE Fits(d)'
    BY DEF CallsFit
  <2>2. d \in calls /\ d # c /\ new \notin {d.at, d.to, d.name}
    BY <2>1
  <2>3. Fits(d) /\ KeptApart(c, d) /\ KeptApart(d, c)
    BY <2>1, <2>2 DEF NamesOK, CallsFit, CallsApart, NodeOps
  <2>4. Fits(c)
    BY DEF NamesOK, CallsFit, NodeOps
  <2>5. d.op \notin {"clear", "refresh"}
    BY <2>3 DEF KeptApart
  <2>6. CASE d.op = "create"
    <3>1. d.who \in DOMAIN node /\ ~node[d.who].drawn /\ Lists(d.at, d.who)
      BY <2>2, <2>3, <2>6 DEF Types, CallsTyped, CallOK, Fits, CreateFits
    <3>2. d.who # o
      <4>1. CASE c.op = "create"
        BY <2>3, <2>6, <4>1 DEF KeptApart
      <4>2. CASE c.op = "rename"
        BY <2>4, <3>1, <4>2, DrawnIs DEF Fits, RenameFits, Types
      <4>3. QED BY <4>1, <4>2
    <3>3. Lists(d.at, d.who)'
      BY <1>7, <3>1, <3>2
    <3>4. ~node'[d.who].drawn
      BY <3>1, <3>2
    <3>5. QED BY <1>2, <2>2, <2>3, <2>6, <3>3, <3>4 DEF Fits, CreateFits
  <2>7. CASE d.op = "rename"
    <3>1. c.op = "create" /\ ~node[o].drawn /\ o \notin Drawn
      BY <2>3, <2>4, <2>7, DrawnIs DEF KeptApart, Fits, CreateFits, Types
    <3>2. RenameFits(d)
      BY <2>3, <2>7 DEF Fits
    <3>3. d.who \in Drawn /\ Lists(d.at, d.who) => d.who \in Drawn' /\ Lists(d.at, d.who)'
      BY <1>3, <1>7, <3>1, DrawnIs DEF Types
    <3>4. RenameFits(d)'
      BY <1>2, <2>2, <3>2, <3>3 DEF RenameFits
    <3>5. QED BY <2>7, <3>4 DEF Fits
  <2>8. CASE d.op = "remove"
    <3>1. RemoveFits(d)
      BY <2>3, <2>8 DEF Fits
    <3>2. d.status = "ok" => d.at # old
      BY <2>3, <2>8 DEF KeptApart
    <3>3. Lists(d.at, d.who) /\ d.at # old => Lists(d.at, d.who)'
      BY <1>7
    <3>4. RemoveFits(d)'
      BY <1>1, <1>2, <3>1, <3>2, <3>3 DEF RemoveFits
    <3>5. QED BY <2>8, <3>4 DEF Fits
  <2>9. QED BY <2>1, <2>5, <2>6, <2>7, <2>8 DEF NodeOps
<1>12. CallsApart'
  BY FewerApart DEF NamesOK
<1>13. QED BY <1>8, <1>9, <1>10, <1>11, <1>12 DEF NamesOK

LEMMA CreatedNames ==
  ASSUME Types, Types', NamesOK, NEW c \in calls, Created(c) PROVE NamesOK'
<1>1. c.op = "create" /\ c.op \in NodeOps /\ UNCHANGED <<known, live>>
  BY DEF Created, SamePage, server, NodeOps
<1>2. Fits(c) /\ CreateFits(c)
  BY <1>1 DEF NamesOK, CallsFit, Fits
<1>3. PICK o, old : o = c.who /\ old = c.at
  OBVIOUS
<1>4. o \in DOMAIN node /\ node[o].id = old /\ Lists(old, o)
  BY <1>1, <1>2, <1>3 DEF CreateFits, Lists, NamesOK, Placed, Types, CallsTyped, CallOK
<1>5. CASE c.status = "ok"
  <2>1. PICK new : new = c.name /\ new \in Names
    BY <1>5, CreatedDoes
  <2>2. /\ DOMAIN node' = DOMAIN node
        /\ \A p \in DOMAIN node : p # o => node'[p] = node[p]
        /\ node'[o].id = new /\ node'[o].label = new /\ node'[o].drawn
        /\ DOMAIN state' = (DOMAIN state \ {old}) \cup {new} /\ state'[new] = o
        /\ \A i \in DOMAIN state \ {old} : i # new => state'[i] = state[i]
    BY <1>3, <1>4, <1>5, <2>1, CreatedDoes
  <2>3. PICK p : calls' = (calls \ {c}) \cup {p} /\ Says(p, "position", o, new, NoName)
    BY <1>3, <1>5, <2>1, CreatedDoes
  <2>4. p.op = "position"
    BY <2>3 DEF Says
  <2>5. new # NoName
    BY <2>1, NamesAssumption
  <2>6. new \notin DOMAIN state
    BY <1>2, <2>1, <2>5 DEF CreateFits
  <2>7. \A d \in calls \ {c} : d.op \in NodeOps => new \notin {d.at, d.to, d.name}
    BY <1>1, <2>1, <2>5 DEF NamesOK, CallsApart, KeptApart
  <2>8. \A d \in calls' : d.op \in NodeOps => d \in calls \ {c}
    BY <2>3, <2>4 DEF NodeOps
  <2>9. \A i \in DOMAIN state \ {old} : state'[i] = state[i]
    BY <2>2, <2>6
  <2>10. QED BY <1>1, <1>3, <1>4, <1>5, <2>2, <2>6, <2>7, <2>8, <2>9, AdoptedNames
<1>6. CASE c.status = "error"
  <2>1. PostDelete(o, {c}) /\ UNCHANGED <<node, state, server>>
    BY <1>3, <1>6 DEF Created, SamePage
  <2>2. \A d \in calls : d.op \in NodeOps => d.op \notin {"clear", "refresh"}
    BY <1>1 DEF NamesOK, CallsApart, KeptApart
  <2>3. QED BY <1>4, <2>1, <2>2, PostDeleteNames
<1>7. QED BY <1>5, <1>6 DEF Created

LEMMA RenamedNames ==
  ASSUME Types, Types', NamesOK, NEW c \in calls, Renamed(c) PROVE NamesOK'
<1>1. c.op = "rename" /\ c.op \in NodeOps /\ UNCHANGED <<known, live>>
  BY DEF Renamed, SamePage, server, NodeOps
<1>2. RenameFits(c)
  BY <1>1 DEF NamesOK, CallsFit, Fits
<1>3. CASE c.status = "ok"
  <2>1. PICK o, old, new : o = c.who /\ old = c.at /\ new = c.to
    OBVIOUS
  <2>2. o \in DOMAIN node /\ o \in Nat /\ node[o].id = old /\ Lists(old, o) /\ o \in Drawn
    <3>1. o \in DOMAIN node
      BY <1>1, <2>1 DEF Types, CallsTyped, CallOK
    <3>2. o \in Nat
      BY <3>1, LenProperties DEF Types, NodesTyped
    <3>3. Lists(old, o) /\ o \in Drawn
      BY <1>2, <1>3, <2>1 DEF RenameFits
    <3>4. QED BY <3>1, <3>2, <3>3 DEF Lists, NamesOK, Placed
  <2>3. node[o].label = old /\ \A p \in Drawn : node[p].label = old => p = o
    BY <2>2 DEF NamesOK, Shown, Lists
  <2> DEFINE first == {x \in Drawn : /\ node[x].label = node[c.who].id
                                    /\ \A p \in Drawn : node[p].label = node[c.who].id => x <= p}
  <2>4. o \in first /\ \A p \in DOMAIN node \ {o} : p \notin first
    BY <2>1, <2>2, <2>3
  <2>5. /\ DOMAIN node' = DOMAIN node
        /\ \A p \in DOMAIN node :
             /\ p # o => node'[p].id = node[p].id
             /\ node'[p].drawn = node[p].drawn
             /\ p \in first => node'[p].label = new
             /\ p \notin first => node'[p].label = node[p].label
        /\ node'[o].id = new
        /\ DOMAIN state' = (DOMAIN state \ {old}) \cup {new} /\ state'[new] = o
        /\ \A i \in DOMAIN state \ {old} : i # new => state'[i] = state[i]
        /\ calls' = calls \ {c}
    <3>1. /\ DOMAIN node' = DOMAIN node
          /\ \A p \in DOMAIN node :
               /\ p # c.who => node'[p].id = node[p].id
               /\ node'[p].drawn = node[p].drawn
               /\ p \in first => node'[p].label = c.to
               /\ p \notin first => node'[p].label = node[p].label
          /\ node'[c.who].id = c.to
          /\ DOMAIN state' = (DOMAIN state \ {node[c.who].id}) \cup {c.to} /\ state'[c.to] = c.who
          /\ \A i \in DOMAIN state \ {node[c.who].id} : i # c.to => state'[i] = state[i]
          /\ calls' = calls \ {c}
      BY <1>3, RenamedDoes
    <3> HIDE DEF first
    <3>2. QED BY <2>1, <2>2, <3>1
  <2> HIDE DEF first
  <2>6. /\ \A p \in DOMAIN node \ {o} :
             node'[p].id = node[p].id /\ node'[p].label = node[p].label /\ node'[p].drawn = node[p].drawn
        /\ node'[o].label = new /\ node'[o].drawn
    BY <2>2, <2>4, <2>5, DrawnIs DEF Types
  <2>7. new \notin DOMAIN state
    BY <1>2, <2>1 DEF RenameFits
  <2>8. \A d \in calls \ {c} : d.op \in NodeOps => new \notin {d.at, d.to, d.name}
    BY <1>1, <2>1 DEF NamesOK, CallsApart, KeptApart
  <2>9. \A i \in DOMAIN state \ {old} : state'[i] = state[i]
    BY <2>5, <2>7
  <2>10. QED BY <1>1, <1>3, <2>1, <2>2, <2>5, <2>6, <2>7, <2>8, <2>9, AdoptedNames
<1>4. CASE c.status = "error"
  <2>1. SameIds /\ calls' = calls \ {c}
    BY <1>1, <1>4 DEF Renamed, Answered, SameIds
  <2>2. QED BY <2>1, NamesStay
<1>5. QED BY <1>3, <1>4 DEF Renamed

LEMMA RemovedNames ==
  ASSUME Types, Types', NamesOK, NEW c \in calls, Removed(c) PROVE NamesOK'
<1>1. c.op = "remove" /\ c.op \in NodeOps /\ UNCHANGED <<known, live>>
  BY DEF Removed, SamePage, server, NodeOps
<1>2. CASE c.status = "ok"
  <2>1. PICK id, w : id = c.at /\ w = c.who
    OBVIOUS
  <2>2. Lists(id, w) /\ id \notin LiveNames /\ node[w].id = id
    BY <1>1, <1>2, <2>1 DEF NamesOK, CallsFit, Fits, RemoveFits, Lists, Placed
  <2>3. /\ DOMAIN state' = DOMAIN state \ {id}
        /\ \A i \in DOMAIN state \ {id} : state'[i] = state[i]
        /\ DOMAIN node' = DOMAIN node
        /\ \A o \in DOMAIN node :
             /\ node'[o].id = node[o].id /\ node'[o].label = node[o].label
             /\ node'[o].drawn <=> node[o].drawn /\ node[o].label # id
    BY <1>2, <2>1, <2>2, RemovedDoes
  <2>4. \A d \in calls' : d \in calls \ {c} \/ Says(d, "save", c.who, NoName, NoName)
    BY <1>2, RemovedDoes
  <2>5. \A d \in calls' : d.op \in NodeOps => d \in calls \ {c}
    BY <2>4 DEF Says, NodeOps
  <2>6. LiveNames' = LiveNames
    BY <1>1 DEF LiveNames
  <2>7. \A o : o \in Drawn' <=> o \in Drawn /\ node[o].label # id
    BY <2>3, DrawnIs, DrawnNext DEF Types
  <2>8. \A i, o : Lists(i, o) /\ i # id => Lists(i, o)'
    BY <2>3 DEF Lists
  <2>9. \A i \in DOMAIN state : state[i] \in DOMAIN node
    BY DEF Types, StateTyped
  <2>10. Placed'
    BY <2>3, <2>9 DEF NamesOK, Placed
  <2>11. Shown'
    <3>1. SUFFICES ASSUME NEW p \in Drawn' PROVE node'[p].label = node'[p].id /\ Lists(node[p].id, p)'
      BY DEF Shown, Lists
    <3>2. p \in Drawn /\ p \in DOMAIN node /\ node[p].label # id
      BY <2>7, DrawnIs DEF Types
    <3>3. PICK i : i = node[p].id
      OBVIOUS
    <3>4. node[p].label = i /\ Lists(i, p) /\ i # id
      BY <3>2, <3>3 DEF NamesOK, Shown
    <3>5. Lists(i, p)' /\ node'[p].id = i /\ node'[p].label = i
      BY <2>3, <2>8, <3>2, <3>3, <3>4
    <3>6. QED BY <3>5 DEF Lists
  <2>12. NamedOnce'
    BY <1>1 DEF NamesOK, NamedOnce
  <2>13. CallsFit'
    <3>1. SUFFICES ASSUME NEW d \in calls', d.op \in NodeOps PROVE Fits(d)'
      BY DEF CallsFit
    <3>2. d \in calls /\ d # c
      BY <2>5, <3>1
    <3>3. Fits(d) /\ KeptApart(c, d) /\ KeptApart(d, c)
      BY <1>1, <3>1, <3>2 DEF NamesOK, CallsFit, CallsApart
    <3>4. d.op \notin {"clear", "refresh"}
      BY <3>3 DEF KeptApart
    <3>5. d.op = "create" \/ (d.op \in {"remove", "rename"} /\ d.status = "ok") => d.at # id
      BY <1>1, <1>2, <2>1, <3>3 DEF KeptApart
    <3>6. CASE d.op = "create"
      <4>1. d.who \in DOMAIN node
        BY <3>2, <3>6 DEF Types, CallsTyped, CallOK
      <4>2. QED BY <2>3, <2>6, <2>8, <3>3, <3>5, <3>6, <4>1 DEF Fits, CreateFits
    <3>7. CASE d.op = "rename"
      <4>1. RenameFits(d)
        BY <3>3, <3>7 DEF Fits
      <4>2. d.at # id /\ Lists(d.at, d.who) /\ d.who \in Drawn => Lists(d.at, d.who)' /\ d.who \in Drawn'
        BY <2>7, <2>8 DEF NamesOK, Shown, Placed, Lists
      <4>3. RenameFits(d)'
        BY <2>2, <2>3, <2>6, <3>5, <3>7, <4>1, <4>2 DEF RenameFits
      <4>4. QED BY <3>7, <4>3 DEF Fits
    <3>8. CASE d.op = "remove"
      <4>1. RemoveFits(d)
        BY <3>3, <3>8 DEF Fits
      <4>2. RemoveFits(d)'
        BY <2>2, <2>6, <2>8, <3>5, <3>8, <4>1 DEF RemoveFits
      <4>3. QED BY <3>8, <4>2 DEF Fits
    <3>9. QED BY <3>1, <3>4, <3>6, <3>7, <3>8 DEF NodeOps
  <2>14. CallsApart'
    BY <2>5, FewerApart DEF NamesOK
  <2>15. QED BY <2>10, <2>11, <2>12, <2>13, <2>14 DEF NamesOK
<1>3. CASE c.status = "error"
  <2>1. SameIds /\ calls' = calls \ {c}
    BY <1>1, <1>3 DEF Removed, Answered, SameIds
  <2>2. QED BY <2>1, NamesStay
<1>4. QED BY <1>2, <1>3 DEF Removed

(* A clear or a refresh is alone among the calls about nodes.              *)
LEMMA AloneNames ==
  ASSUME Placed', Shown', NamedOnce', NEW r, Fits(r)',
         \A d \in calls' : d.op \in NodeOps => d = r
  PROVE  NamesOK'
<1>1. CallsFit'
  BY DEF CallsFit
<1>2. CallsApart'
  BY DEF CallsApart
<1>3. QED BY <1>1, <1>2 DEF NamesOK

LEMMA NoneNames ==
  ASSUME Placed', Shown', NamedOnce', \A d \in calls' : d.op \notin NodeOps PROVE NamesOK'
<1>1. CallsFit'
  BY DEF CallsFit
<1>2. CallsApart'
  BY DEF CallsApart
<1>3. QED BY <1>1, <1>2 DEF NamesOK

LEMMA RefreshNames ==
  ASSUME Types, Types', NamesOK, Refresh, Ordered' PROVE NamesOK'
<1>1. SameIds
  BY DEF Refresh, SameServer, server, page, SameIds
<1>2. \A c \in calls : c.op \notin NodeOps
  <2>1. "nodes" \notin Clash("refresh", NoName, NoName)
    BY DEF Refresh, Ordered
  <2>2. QED BY <2>1, NoClash DEF NodeOps
<1>3. PICK r \in calls' : /\ Says(r, "refresh", 1, NoName, NoName)
                          /\ \A c \in calls' : c \in calls \/ c = r \/ Says(c, "stop", 0, NoName, NoName)
  BY RefreshDoes
<1>4. \A d \in calls' : d.op \in NodeOps => d = r
  BY <1>2, <1>3 DEF Says, NodeOps
<1>5. r.op = "refresh" /\ r.who = 1 /\ r.status = "sent"
  BY <1>3 DEF Says
<1>6. Fits(r)'
  BY <1>5 DEF Fits, RefreshFits
<1>7. QED BY <1>1, <1>4, <1>6, IdsStay, AloneNames DEF NamesOK

(* Everything the page lists goes when it clears itself.                   *)
LEMMA Emptied ==
  ASSUME Types, Placed, Shown
  PROVE  /\ DOMAIN StateWithout(DOMAIN state) = {}
         /\ \A o \in DOMAIN node : ~NodesWithout(DOMAIN state)[o].drawn
<1>1. Ids(DOMAIN state) = DOMAIN state
  BY DEF Ids, Placed
<1>2. DOMAIN StateWithout(DOMAIN state) = {}
  BY <1>1, StateWithoutIs
<1>3. ASSUME NEW o \in DOMAIN node PROVE ~NodesWithout(DOMAIN state)[o].drawn
  <2>1. NodesWithout(DOMAIN state)[o].drawn <=> node[o].drawn /\ node[o].label \notin DOMAIN state
    BY <1>1, NodesWithoutIs
  <2>2. node[o].drawn => node[o].label \in DOMAIN state
    BY DrawnIs DEF Shown, Lists, Types
  <2>3. QED BY <2>1, <2>2
<1>4. QED BY <1>2, <1>3

LEMMA NewBehaviourNames ==
  ASSUME Types, Types', NamesOK, NewBehaviour, Ordered' PROVE NamesOK'
<1>1. UNCHANGED <<known, live>>
  BY DEF NewBehaviour, SameServer, server
<1>2. Busy = {}
  BY DEF NewBehaviour, ClearAborts, Ordered
<1>3. /\ state' = StateWithout(DOMAIN state) /\ node' = NodesWithout(DOMAIN state)
      /\ crossed' = crossed \cup Clash("clear", NoName, NoName)
  BY <1>2, NewBehaviourDoes
<1>4. DOMAIN state' = {} /\ \A o : o \notin Drawn'
  <2>1. DOMAIN node' = DOMAIN node
    BY <1>3, NodesWithoutIs
  <2>2. DOMAIN state' = {} /\ \A o \in DOMAIN node : ~node'[o].drawn
    BY <1>3, Emptied DEF NamesOK
  <2>3. QED BY <2>1, <2>2, DrawnNext DEF Types
<1>5. \A c \in calls : c.op \notin NodeOps
  <2>1. "nodes" \notin Clash("clear", NoName, NoName)
    BY <1>3 DEF Ordered
  <2>2. QED BY <2>1, NoClash DEF NodeOps
<1>6. PICK r \in calls' : /\ Says(r, "clear", 0, NoName, NoName)
                          /\ \A c \in calls' : c \in calls \/ c = r \/ Says(c, "stop", 0, NoName, NoName)
  BY <1>2, NewBehaviourDoes
<1>7. \A d \in calls' : d.op \in NodeOps => d = r
  BY <1>5, <1>6 DEF Says, NodeOps
<1>8. r.op = "clear"
  BY <1>6 DEF Says
<1>9. Fits(r)'
  BY <1>4, <1>8 DEF Fits, ClearFits
<1>10. Placed' /\ Shown' /\ NamedOnce'
  BY <1>1, <1>4 DEF Placed, Shown, NamesOK, NamedOnce
<1>11. QED BY <1>7, <1>9, <1>10, AloneNames

LEMMA RefreshedNames ==
  ASSUME Types, Types', NamesOK, NEW c \in calls, Refreshed(c), Ordered' PROVE NamesOK'
<1>1. /\ c.op = "refresh" /\ c.op \in NodeOps /\ c.who \in {0, 1} /\ calls' = calls \ {c}
      /\ UNCHANGED <<known, live>> /\ c.status \in {"ok", "error"}
  BY DEF Refreshed, Answered, SamePage, server, NodeOps, Types, CallsTyped, CallOK
<1>2. CASE c.status = "error"
  <2>1. SameIds
    BY <1>1, <1>2 DEF Refreshed, SameIds
  <2>2. QED BY <1>1, <2>1, NamesStay
<1>3. CASE c.status = "ok"
  <2>1. Refreshes(c)
    BY <1>1, <1>3 DEF Refreshed, Refreshes, ClearAborts, Ordered
  <2>2. RefreshFits(c)
    BY <1>1 DEF NamesOK, CallsFit, Fits
  <2>3. \A d \in calls' : d.op \notin NodeOps
    BY <1>1 DEF NamesOK, CallsApart, KeptApart
  <2>4. DOMAIN OldState(c) = {} /\ \A o \in DOMAIN node : ~OldNodes(c)[o].drawn
    <3>1. CASE c.who = 1
      BY <3>1, Emptied DEF OldState, OldNodes, NamesOK
    <3>2. CASE c.who = 0
      BY <2>2, <3>2 DEF OldState, OldNodes, RefreshFits
    <3>3. QED BY <1>1, <3>1, <3>2
  <2>5. PICK objects, n : objects = Read(c.view) /\ n = Len(node)
    OBVIOUS
  <2>6. /\ ViewOK(c.view) /\ n \in Nat /\ DOMAIN node' = 1 .. n + Len(objects)
        /\ DOMAIN node = 1 .. n
        /\ \A o \in DOMAIN node : ~node'[o].drawn
        /\ \A i \in DOMAIN objects : node'[n + i] = objects[i]
        /\ \A id : id \in DOMAIN state' <=> \E i \in DOMAIN objects : objects[i].id = id
        /\ \A i \in DOMAIN objects : \E j \in DOMAIN objects :
             objects[j].id = objects[i].id /\ state'[objects[i].id] = n + j
    <3>1. /\ ViewOK(c.view) /\ Len(node) \in Nat /\ DOMAIN node' = 1 .. Len(node) + Len(Read(c.view))
          /\ DOMAIN node = 1 .. Len(node)
          /\ \A o \in DOMAIN node : node'[o] = OldNodes(c)[o]
          /\ \A i \in DOMAIN Read(c.view) : node'[Len(node) + i] = Read(c.view)[i]
          /\ \A id : id \in DOMAIN state' <=>
               id \in DOMAIN OldState(c) \/ \E i \in DOMAIN Read(c.view) : Read(c.view)[i].id = id
          /\ \A i \in DOMAIN Read(c.view) : \E j \in DOMAIN Read(c.view) :
               Read(c.view)[j].id = Read(c.view)[i].id /\ state'[Read(c.view)[i].id] = Len(node) + j
      BY <2>1, RefreshedDoes
    <3>2. QED BY <2>4, <2>5, <3>1
  <2>7. /\ Len(objects) \in Nat /\ DOMAIN objects = 1 .. Len(objects)
        /\ \A i \in DOMAIN objects : objects[i].label = objects[i].id
        /\ \A i, j \in DOMAIN objects : objects[i].id = objects[j].id => i = j
    <3>1. \A v, w \in c.view.nodes : v.name = w.name => v = w
      BY <1>3, <2>2 DEF RefreshFits
    <3>2. PICK view : view = c.view
      OBVIOUS
    <3>3. /\ Len(Read(view)) \in Nat /\ DOMAIN Read(view) = 1 .. Len(Read(view))
          /\ \A i \in DOMAIN Read(view) :
               /\ Read(view)[i].drawn /\ ~Read(view)[i].active /\ Read(view)[i].label = Read(view)[i].id
               /\ \E m \in view.nodes : m.name = Read(view)[i].id
          /\ (\A v, w \in view.nodes : v.name = w.name => v = w) =>
               \A i, j \in DOMAIN Read(view) : Read(view)[i].id = Read(view)[j].id => i = j
      BY <2>6, <3>2, ReadIs
    <3>4. QED BY <2>5, <3>1, <3>2, <3>3
  <2>8. \A i \in DOMAIN objects : state'[objects[i].id] = n + i
    BY <2>6, <2>7
  <2>9. Placed'
    <3>1. SUFFICES ASSUME NEW id \in DOMAIN state' PROVE node'[state'[id]].id = id
      BY DEF Placed
    <3>2. PICK i \in DOMAIN objects : objects[i].id = id
      BY <2>6
    <3>3. QED BY <2>6, <2>8, <3>2
  <2>10. Shown'
    <3>1. SUFFICES ASSUME NEW o \in Drawn'
                   PROVE  /\ node'[o].label = node'[o].id
                          /\ node'[o].id \in DOMAIN state' /\ state'[node'[o].id] = o
      BY DEF Shown, Lists
    <3>2. o \in 1 .. n + Len(objects) /\ node'[o].drawn
      BY <2>6, DrawnNext DEF Types
    <3>3. o \notin 1 .. n
      BY <2>6, <3>2
    <3>4. PICK i : i = o - n
      OBVIOUS
    <3>5. i \in DOMAIN objects /\ o = n + i
      BY <2>6, <2>7, <3>2, <3>3, <3>4
    <3>6. node'[o] = objects[i] /\ state'[objects[i].id] = o /\ objects[i].id \in DOMAIN state'
      BY <2>6, <2>8, <3>5
    <3>7. QED BY <2>7, <3>5, <3>6
  <2>11. NamedOnce'
    BY <1>1 DEF NamesOK, NamedOnce
  <2>12. QED BY <2>3, <2>9, <2>10, <2>11, NoneNames
<1>4. QED BY <1>1, <1>2, <1>3

(* The services of the server that change its names.                       *)
LEMMA ServeClearNames ==
  ASSUME Types, Types', NamesOK, NEW c \in calls, ServeClear(c) PROVE NamesOK'
<1>1. c.op = "clear" /\ c.op \in NodeOps /\ live' = {} /\ UNCHANGED page
  BY ServeClearDoes DEF NodeOps
<1>2. PICK r : calls' = (calls \ {c}) \cup {r} /\ IsReply(r, c, "ok", c.name, c.view)
  BY ServeClearDoes
<1>3. r.op = "clear"
  BY <1>1, <1>2 DEF IsReply
<1>4. \A d \in calls' : d.op \in NodeOps => d = r
  BY <1>1, <1>2 DEF NamesOK, CallsApart, KeptApart
<1>5. DOMAIN state = {}
  BY <1>1 DEF NamesOK, CallsFit, Fits, ClearFits
<1>6. Fits(r)'
  BY <1>1, <1>3, <1>5 DEF Fits, ClearFits, page
<1>7. Placed' /\ Shown' /\ NamedOnce'
  BY <1>1 DEF NamesOK, Placed, Shown, Lists, NamedOnce, page, Drawn
<1>8. QED BY <1>4, <1>6, <1>7, AloneNames

LEMMA ServeFileNames ==
  ASSUME Types, Types', NamesOK, NEW c \in calls, ServeFile(c), Ordered' PROVE NamesOK'
<1>1. CASE c.op # "refresh"
  BY <1>1, ServeOtherNames
<1>2. CASE c.op = "refresh"
  <2>1. PICK r : calls' = (calls \ {c}) \cup {r} /\ IsReply(r, c, "ok", c.name, View)
    BY <1>2, ServeFileDoes DEF Ordered
  <2>2. r.op = "refresh" /\ r.who = c.who /\ r.status = "ok" /\ r.view = View
    BY <1>2, <2>1 DEF IsReply
  <2>3. UNCHANGED <<node, state, known, live>> /\ c.op \in NodeOps
    BY <1>2, ServeFileDoes DEF page, NodeOps
  <2>4. \A d \in calls' : d.op \in NodeOps => d = r
    BY <1>2, <2>1, <2>3 DEF NamesOK, CallsApart, KeptApart
  <2>5. /\ \A x : x \in LiveNames <=> \E v \in View.nodes : v.name = x
        /\ \A v, w \in View.nodes : v.name = w.name => v = w
    <3> DEFINE N(n) == [name |-> known[n].name, kind |-> known[n].kind, made |-> n]
    <3>1. View.nodes = {N(n) : n \in live}
      BY DEF View
    <3>2. \A n : N(n).name = known[n].name
      OBVIOUS
    <3>3. \A m, n \in live : N(m).name = N(n).name => m = n
      BY <3>2 DEF NamesOK, NamedOnce
    <3> HIDE DEF N
    <3>4. QED BY <3>1, <3>2, <3>3 DEF LiveNames
  <2>6. LiveNames' = LiveNames
    BY <2>3 DEF LiveNames
  <2>7. RefreshFits(c)
    BY <1>2, <2>3 DEF NamesOK, CallsFit, Fits
  <2>8. Fits(r)'
    <3>1. PICK v : v = View
      OBVIOUS
    <3>2. QED BY <2>2, <2>3, <2>5, <2>6, <2>7, <3>1 DEF Fits, RefreshFits
  <2>9. Placed' /\ Shown' /\ NamedOnce'
    BY <2>3 DEF NamesOK, Placed, Shown, Lists, NamedOnce, Drawn
  <2>10. QED BY <2>4, <2>8, <2>9, AloneNames
<1>3. QED BY <1>1, <1>2

LEMMA ServeCreateNames ==
  ASSUME Types, Types', NamesOK, NEW c \in calls, ServeCreate(c), Ordered' PROVE NamesOK'
<1>1. PICK name \in Names :
        /\ c.op = "create" /\ c.status = "sent"
        /\ DOMAIN known' = DOMAIN known \cup {Len(known) + 1} /\ Len(known) + 1 \notin DOMAIN known
        /\ \A n \in DOMAIN known : known'[n] = known[n]
        /\ known'[Len(known) + 1].name = name
        /\ live' = live \cup {Len(known) + 1}
        /\ \E r : calls' = (calls \ {c}) \cup {r} /\ IsReply(r, c, "ok", name, c.view)
        /\ crossed' = crossed \cup Reused(name)
  BY ServeCreateDoes
<1>2. PICK r : calls' = (calls \ {c}) \cup {r} /\ IsReply(r, c, "ok", name, c.view)
  BY <1>1
<1>3. r.op = "create" /\ r.who = c.who /\ r.at = c.at /\ r.to = c.to /\ r.name = name /\ r.status = "ok"
  BY <1>1, <1>2 DEF IsReply
<1>4. UNCHANGED <<node, state>>
  BY DEF ServeCreate, SameRun, page
<1>5. /\ name \notin DOMAIN state /\ name \notin LiveNames
      /\ \A d \in calls : name \notin {d.at, d.to, d.name}
  <2>1. "nodes" \notin Reused(name)
    BY <1>1 DEF Ordered
  <2>2. QED BY <2>1, NotReused
<1>6. live \subseteq DOMAIN known
  BY DEF Types, KnownTyped
<1>7. \A x : x \in LiveNames' <=> x \in LiveNames \/ x = name
  BY <1>1, <1>6 DEF LiveNames
<1>8. Placed' /\ Shown' /\ NamedOnce'
  <2>1. NamedOnce'
    BY <1>1, <1>5, <1>6 DEF NamesOK, NamedOnce, LiveNames
  <2>2. QED BY <1>4, <2>1 DEF NamesOK, Placed, Shown, Lists, Drawn
<1>9. CreateFits(c) /\ \A d \in calls \ {c} : d.op \in NodeOps => Fits(d) /\ KeptApart(d, c) /\ KeptApart(c, d)
  BY <1>1 DEF NamesOK, CallsFit, CallsApart, Fits, NodeOps
<1>10. \A d \in calls' : d.op \in NodeOps => Fits(d)'
  <2>1. SUFFICES ASSUME NEW d \in calls', d.op \in NodeOps PROVE Fits(d)'
    OBVIOUS
  <2>2. CASE d = r
    <3>1. CreateFits(d)'
      BY <1>3, <1>4, <1>5, <1>7, <1>9, <2>2 DEF CreateFits, Lists
    <3>2. QED BY <1>3, <2>2, <3>1 DEF Fits
  <2>3. CASE d \in calls \ {c}
    <3>1. Fits(d) /\ d.op \notin {"clear", "refresh"} /\ d.at # name /\ d.to # name
      BY <1>5, <1>9, <2>1, <2>3 DEF KeptApart
    <3>2. (d.op = "create" => CreateFits(d)') /\ (d.op = "remove" => RemoveFits(d)')
      BY <1>4, <1>7, <3>1 DEF Fits, CreateFits, RemoveFits, Lists
    <3>3. d.op = "rename" => RenameFits(d)'
      BY <1>4, <1>7, <3>1 DEF Fits, RenameFits, Lists, Drawn
    <3>4. QED BY <3>1, <3>2, <3>3 DEF Fits
  <2>4. QED BY <1>2, <2>2, <2>3
<1>11. CallsApart'
  <2>1. \A d \in calls \ {c} : d.op \in NodeOps => KeptApart(d, r) /\ KeptApart(r, d)
    BY <1>1, <1>3, <1>5, <1>9 DEF KeptApart
  <2>2. \A d \in calls' : d.op \in NodeOps => d = r \/ d \in calls \ {c}
    BY <1>2
  <2>3. QED BY <2>1, <2>2, Joined DEF NamesOK
<1>12. QED BY <1>8, <1>10, <1>11 DEF NamesOK, CallsFit

LEMMA ServeRemoveNames ==
  ASSUME Types, Types', NamesOK, NEW c \in calls, ServeRemove(c) PROVE NamesOK'
<1>1. c.op = "remove" /\ c.status = "sent" /\ UNCHANGED <<node, state, known>>
  BY DEF ServeRemove, Serving, SameRun, page
<1>2. CASE Reply(c, "error") /\ UNCHANGED live
  <2>1. PICK r : calls' = (calls \ {c}) \cup {r} /\ IsReply(r, c, "error", c.name, c.view)
    BY <1>2, StatusReply DEF Types
  <2>2. SameIds
    BY <1>1, <1>2 DEF SameIds
  <2>3. r.op = c.op
    BY <2>1 DEF IsReply
  <2>4. QED BY <2>1, <2>2, <2>3, NamesFail
<1>3. CASE \E n \in Named(c.at) : live' = live \ {n} /\ Reply(c, "ok")
  <2>1. PICK n \in Named(c.at) : live' = live \ {n} /\ Reply(c, "ok")
    BY <1>3
  <2>2. PICK r : calls' = (calls \ {c}) \cup {r} /\ IsReply(r, c, "ok", c.name, c.view)
    BY <1>1, <2>1, StatusReply DEF Types
  <2>3. r.op = "remove" /\ r.who = c.who /\ r.at = c.at /\ r.to = c.to /\ r.name = c.name /\ r.status = "ok"
    BY <1>1, <2>2 DEF IsReply
  <2>4. n \in live /\ known[n].name = c.at /\ c.at \in LiveNames
    BY DEF Named, LiveNames
  <2>5. \A x : x \in LiveNames' <=> x \in LiveNames /\ x # c.at
    BY <1>1, <2>1, <2>4 DEF LiveNames, NamesOK, NamedOnce
  <2>6. Placed' /\ Shown' /\ NamedOnce'
    BY <1>1, <2>1 DEF NamesOK, Placed, Shown, Lists, Drawn, NamedOnce
  <2>7. RemoveFits(c) /\ \A d \in calls \ {c} : d.op \in NodeOps => Fits(d) /\ KeptApart(d, c) /\ KeptApart(c, d)
    BY <1>1 DEF NamesOK, CallsFit, CallsApart, Fits, NodeOps
  <2>8. \A d \in calls' : d.op \in NodeOps => Fits(d)'
    <3>1. SUFFICES ASSUME NEW d \in calls', d.op \in NodeOps PROVE Fits(d)'
      OBVIOUS
    <3>2. CASE d = r
      <4>1. RemoveFits(d)'
        BY <1>1, <2>3, <2>4, <2>5, <2>7, <3>2 DEF RemoveFits, Lists
      <4>2. QED BY <2>3, <3>2, <4>1 DEF Fits
    <3>3. CASE d \in calls \ {c}
      <4>1. /\ Fits(d) /\ d.op \notin {"clear", "refresh"}
            /\ d.op = "create" /\ d.name # NoName => d.name # c.at
            /\ d.op = "rename" => d.to # c.at
        BY <2>7, <3>1, <3>3 DEF KeptApart
      <4>2. (d.op = "create" => CreateFits(d)') /\ (d.op = "remove" => RemoveFits(d)')
        BY <1>1, <2>5, <4>1 DEF Fits, CreateFits, RemoveFits, Lists
      <4>3. d.op = "rename" => RenameFits(d)'
        BY <1>1, <2>5, <4>1 DEF Fits, RenameFits, Lists, Drawn
      <4>4. QED BY <4>1, <4>2, <4>3 DEF Fits
    <3>4. QED BY <2>2, <3>2, <3>3
  <2>9. CallsApart'
    <3>1. \A d \in calls \ {c} : d.op \in NodeOps => KeptApart(d, r) /\ KeptApart(r, d)
      <4>1. SUFFICES ASSUME NEW d \in calls \ {c}, d.op \in NodeOps PROVE KeptApart(d, r) /\ KeptApart(r, d)
        OBVIOUS
      <4>2. Fits(d) /\ KeptApart(d, c) /\ KeptApart(c, d)
        BY <2>7, <4>1
      <4>3. d.op = "create" \/ (d.op \in {"remove", "rename"} /\ d.status = "ok") => d.at # c.at
        BY <2>4, <4>2 DEF Fits, CreateFits, RemoveFits, RenameFits
      <4>4. QED BY <1>1, <2>3, <4>2, <4>3 DEF KeptApart
    <3>2. \A d \in calls' : d.op \in NodeOps => d = r \/ d \in calls \ {c}
      BY <2>2
    <3>3. QED BY <3>1, <3>2, Joined DEF NamesOK
  <2>10. QED BY <2>6, <2>8, <2>9 DEF NamesOK, CallsFit
<1>4. \/ Reply(c, "error") /\ UNCHANGED live
      \/ \E n \in Named(c.at) : live' = live \ {n} /\ Reply(c, "ok")
  BY DEF ServeRemove
<1>5. QED BY <1>2, <1>3, <1>4

LEMMA ServeRenameNames ==
  ASSUME Types, Types', NamesOK, NEW c \in calls, ServeRename(c) PROVE NamesOK'
<1>1. c.op = "rename" /\ c.status = "sent" /\ UNCHANGED <<node, state, live>>
  BY ServeRenameDoes DEF page
<1>2. CASE known' = known /\ \E r : calls' = (calls \ {c}) \cup {r} /\ IsReply(r, c, "error", c.name, c.view)
  <2>1. PICK r : calls' = (calls \ {c}) \cup {r} /\ IsReply(r, c, "error", c.name, c.view)
    BY <1>2
  <2>2. SameIds
    BY <1>1, <1>2 DEF SameIds
  <2>3. r.op = c.op
    BY <2>1 DEF IsReply
  <2>4. QED BY <2>1, <2>2, <2>3, NamesFail
<1>3. CASE \E n \in Named(c.at) :
             /\ \A m \in DOMAIN known : m # n => known'[m] = known[m]
             /\ known'[n].name = (IF c.to = NullName THEN EmptyName ELSE c.to)
             /\ \E r : calls' = (calls \ {c}) \cup {r} /\ IsReply(r, c, "ok", c.name, c.view)
  <2>1. PICK n \in Named(c.at) :
             /\ \A m \in DOMAIN known : m # n => known'[m] = known[m]
             /\ known'[n].name = (IF c.to = NullName THEN EmptyName ELSE c.to)
             /\ \E r : calls' = (calls \ {c}) \cup {r} /\ IsReply(r, c, "ok", c.name, c.view)
    BY <1>3
  <2>2. PICK r : calls' = (calls \ {c}) \cup {r} /\ IsReply(r, c, "ok", c.name, c.view)
    BY <2>1
  <2>3. r.op = "rename" /\ r.who = c.who /\ r.at = c.at /\ r.to = c.to /\ r.name = c.name /\ r.status = "ok"
    BY <1>1, <2>2 DEF IsReply
  <2>4. n \in live /\ known[n].name = c.at /\ c.at \in LiveNames
    BY DEF Named, LiveNames
  <2>5. RenameFits(c) /\ \A d \in calls \ {c} : d.op \in NodeOps => Fits(d) /\ KeptApart(d, c) /\ KeptApart(c, d)
    BY <1>1 DEF NamesOK, CallsFit, CallsApart, Fits, NodeOps
  <2>6. /\ c.to # NullName /\ c.to # NoName /\ c.to \notin DOMAIN state /\ c.to \notin LiveNames
        /\ Lists(c.at, c.who) /\ c.who \in Drawn
    BY <1>1, <2>4, <2>5 DEF RenameFits
  <2>7. live \subseteq DOMAIN known
    BY DEF Types, KnownTyped
  <2>8. known'[n].name = c.to
    BY <2>1, <2>6
  <2>9. \A x : x \in LiveNames' <=> (x \in LiveNames /\ x # c.at) \/ x = c.to
    BY <1>1, <2>1, <2>4, <2>6, <2>7, <2>8 DEF LiveNames, NamesOK, NamedOnce
  <2>10. NamedOnce'
    BY <1>1, <2>1, <2>4, <2>6, <2>7, <2>8 DEF LiveNames, NamesOK, NamedOnce
  <2>11. Placed' /\ Shown'
    BY <1>1 DEF NamesOK, Placed, Shown, Lists, Drawn
  <2>12. \A d \in calls' : d.op \in NodeOps => Fits(d)'
    <3>1. SUFFICES ASSUME NEW d \in calls', d.op \in NodeOps PROVE Fits(d)'
      OBVIOUS
    <3>2. CASE d = r
      <4>1. RenameFits(d)'
        BY <1>1, <2>3, <2>4, <2>6, <2>9, <3>2 DEF RenameFits, Lists, Drawn
      <4>2. QED BY <2>3, <3>2, <4>1 DEF Fits
    <3>3. CASE d \in calls \ {c}
      <4>1. /\ Fits(d) /\ d.op \notin {"clear", "refresh", "rename"}
            /\ d.op = "create" /\ d.name # NoName => d.name # c.at
            /\ d.at # c.to /\ d.name # c.to
        BY <1>1, <2>5, <3>1, <3>3 DEF KeptApart
      <4>2. (d.op = "create" => CreateFits(d)') /\ (d.op = "remove" => RemoveFits(d)')
        BY <1>1, <2>9, <4>1 DEF Fits, CreateFits, RemoveFits, Lists
      <4>3. QED BY <4>1, <4>2 DEF Fits
    <3>4. QED BY <2>2, <3>2, <3>3
  <2>13. CallsApart'
    <3>1. \A d \in calls \ {c} : d.op \in NodeOps => KeptApart(d, r) /\ KeptApart(r, d)
      <4>1. SUFFICES ASSUME NEW d \in calls \ {c}, d.op \in NodeOps PROVE KeptApart(d, r) /\ KeptApart(r, d)
        OBVIOUS
      <4>2. Fits(d) /\ KeptApart(d, c) /\ KeptApart(c, d)
        BY <2>5, <4>1
      <4>3. d.op = "remove" /\ d.status = "ok" => d.at # c.at
        BY <2>4, <4>2 DEF Fits, RemoveFits
      <4>4. QED BY <1>1, <2>3, <4>2, <4>3 DEF KeptApart
    <3>2. \A d \in calls' : d.op \in NodeOps => d = r \/ d \in calls \ {c}
      BY <2>2
    <3>3. QED BY <3>1, <3>2, Joined DEF NamesOK
  <2>14. QED BY <2>10, <2>11, <2>12, <2>13 DEF NamesOK, CallsFit
<1>4. QED BY <1>2, <1>3, ServeRenameDoes

LEMMA NamesStart == ASSUME Init, Types PROVE NamesRight
<1>1. \A c \in calls : c.op = "refresh" /\ c.who = 0 /\ c.status = "sent"
  BY DEF Init, Call
<1>2. DOMAIN node = {} /\ DOMAIN state = {}
  BY DEF Init
<1>3. \A c \in calls : Fits(c)
  BY <1>1, <1>2 DEF Fits, RefreshFits
<1>4. \A c, d \in calls : c = d
  BY DEF Init
<1>5. Placed /\ Shown
  BY <1>2, DrawnIs DEF Placed, Shown, Types
<1>6. NamedOnce
  <2>1. DOMAIN FirstNodes \subseteq 1 .. Len(ServerName) /\ DOMAIN ServerName = 1 .. Len(ServerName)
    BY FirstAssumption, NamesAssumption, LenProperties
  <2>2. live = DOMAIN FirstNodes /\ known = FirstKnown
    BY DEF Init
  <2>3. \A i \in DOMAIN FirstNodes : known[i].name = ServerName[i]
    BY <2>2, FirstShape
  <2>4. QED BY <2>1, <2>2, <2>3, NamesAssumption DEF NamedOnce
<1>7. QED BY <1>3, <1>4, <1>5, <1>6 DEF NamesRight, NamesOK, CallsFit, CallsApart

LEMMA ServeNames ==
  ASSUME Types, Types', NamesOK, NEW c \in calls, Serve(c), Ordered' PROVE NamesOK'
<1>1. CASE ServeCreate(c) BY <1>1, ServeCreateNames
<1>2. CASE ServeRemove(c) BY <1>2, ServeRemoveNames
<1>3. CASE ServeRename(c) BY <1>3, ServeRenameNames
<1>4. CASE ServeClear(c) BY <1>4, ServeClearNames
<1>5. CASE ServeFile(c) BY <1>5, ServeFileNames
<1>6. CASE ServePosition(c) \/ ServeConnect(c) \/ ServeDisconnect(c) BY <1>6, ServeOtherNames
<1>7. CASE DiskStep(c)
  <2>1. SameIds /\ calls' = calls
    BY <1>7, DiskStepDoes DEF page, SameIds
  <2>2. QED BY <2>1, NamesStay
<1>8. QED BY <1>1, <1>2, <1>3, <1>4, <1>5, <1>6, <1>7 DEF Serve, ServeFile, DiskStep

LEMMA AnswerNames ==
  ASSUME Types, Types', NamesOK, NEW c \in calls, Answer(c), Ordered' PROVE NamesOK'
<1>1. CASE Created(c) BY <1>1, CreatedNames
<1>2. CASE Positioned(c) BY <1>2, PositionedNames
<1>3. CASE Removed(c) BY <1>3, RemovedNames
<1>4. CASE Linked(c) BY <1>4, LinkedNames
<1>5. CASE Renamed(c) BY <1>5, RenamedNames
<1>6. CASE Refreshed(c) BY <1>6, RefreshedNames
<1>7. CASE Acknowledged(c) BY <1>7, AcknowledgedNames
<1>8. QED BY <1>1, <1>2, <1>3, <1>4, <1>5, <1>6, <1>7 DEF Answer

LEMMA EditNames ==
  ASSUME Types, Types', NamesOK, Edit, Ordered' PROVE NamesOK'
<1>1. ASSUME NEW k \in Kinds, AddNode(k) PROVE NamesOK'
  BY <1>1, AddNodeNames
<1>2. ASSUME NEW o \in Drawn, DeleteNode(o) PROVE NamesOK'
  BY <1>2, DeleteNodeNames
<1>3. ASSUME NEW o \in Drawn, NEW new \in GivenNames, SetName(o, new) PROVE NamesOK'
  BY <1>3, SetNameNames
<1>4. ASSUME NEW f \in Drawn, NEW g \in Drawn, Connect(f, g) PROVE NamesOK'
  BY <1>4, ConnectNames
<1>5. ASSUME NEW f \in Drawn, NEW g \in Drawn, Disconnect(f, g) PROVE NamesOK'
  BY <1>5, DisconnectNames
<1>6. QED BY <1>1, <1>2, <1>3, <1>4, <1>5, NewBehaviourNames, RefreshNames, StartStopNames DEF Edit

(* What overtook is never forgotten.                                       *)
LEMMA CrossedGrows == ASSUME [Next]_vars PROVE crossed \subseteq crossed'
<1>1. CASE Edit
  <2>1. ASSUME NEW k \in Kinds, AddNode(k) PROVE crossed \subseteq crossed'
    BY <2>1 DEF AddNode
  <2>2. ASSUME NEW o \in Drawn, DeleteNode(o) PROVE crossed \subseteq crossed'
    BY <2>2 DEF DeleteNode
  <2>3. ASSUME NEW o \in Drawn, NEW new \in GivenNames, SetName(o, new) PROVE crossed \subseteq crossed'
    BY <2>3 DEF SetName
  <2>4. ASSUME NEW f \in Drawn, NEW g \in Drawn, Connect(f, g) \/ Disconnect(f, g)
        PROVE  crossed \subseteq crossed'
    BY <2>4 DEF Connect, Disconnect
  <2>5. NewBehaviour => crossed \subseteq crossed'
    BY DEF NewBehaviour, ClearAborts
  <2>6. Refresh \/ StartStop => crossed \subseteq crossed'
    BY DEF Refresh, StartStop
  <2>7. QED BY <1>1, <2>1, <2>2, <2>3, <2>4, <2>5, <2>6 DEF Edit
<1>2. ASSUME NEW c \in calls, Serve(c) PROVE crossed \subseteq crossed'
  BY <1>2, ServeLeaves
<1>3. ASSUME NEW c \in calls, Answer(c) PROVE crossed \subseteq crossed'
  BY <1>3 DEF Answer, Created, Positioned, Removed, Linked, Renamed, Refreshed, Acknowledged, ClearAborts
<1>4. ASSUME NEW c \in calls, Fails(c) PROVE crossed \subseteq crossed'
  BY <1>4 DEF Fails
<1>5. /\ EnterNode \/ Prints \/ LoadBehaviour \/ LeaveNode \/ ExecEnds => crossed \subseteq crossed'
      /\ FetchEvents \/ PollFails \/ ProcessEvents \/ UNCHANGED vars => crossed \subseteq crossed'
  BY DEF EnterNode, Prints, LoadBehaviour, LeaveNode, ExecEnds, Push, FetchEvents, PollFails,
         ProcessEvents, vars
<1>6. QED BY <1>1, <1>2, <1>3, <1>4, <1>5 DEF Next

LEMMA NamesKeep == Types /\ Types' /\ NamesRight /\ [Next]_vars => NamesRight'
<1>1. SUFFICES ASSUME Types, Types', NamesRight, [Next]_vars, Ordered' PROVE NamesOK'
  BY DEF NamesRight
<1>2. NamesOK
  BY <1>1, CrossedGrows DEF NamesRight, Ordered
<1>3. CASE Edit BY <1>1, <1>2, <1>3, EditNames
<1>4. ASSUME NEW c \in calls, Serve(c) \/ Answer(c) \/ Fails(c) PROVE NamesOK'
  BY <1>1, <1>2, <1>4, ServeNames, AnswerNames, FailsNames
<1>5. CASE Outside BY <1>1, <1>2, <1>5, OutsideNames
<1>6. CASE ProcessEvents BY <1>1, <1>2, <1>6, ProcessEventsNames
<1>7. ~LoadBehaviour
  BY <1>1, LoadDoes DEF Ordered
<1>8. QED BY <1>1, <1>3, <1>4, <1>5, <1>6, <1>7 DEF Next, Outside, Visits, Polls

LEMMA NamesHold == Spec => []NamesRight
<1>1. Init => NamesRight
  BY NamesStart, TypesStart
<1>2. QED BY <1>1, NamesKeep, TypesHold, PTL DEF Spec

(* What leaves the canvas is gone at the server, unless the page clears or *)
(* loads everything anew.                                                  *)
LEMMA GoneStep ==
  ASSUME Types, Types', NamesOK, Ordered', [Next]_vars, ~Anew,
         NEW o \in Drawn, ~node'[o].drawn
  PROVE  node[o].label \notin LiveNames
<1>1. o \in DOMAIN node /\ node[o].drawn
  BY DrawnIs DEF Types
<1>2. ASSUME UNCHANGED node PROVE FALSE
  BY <1>1, <1>2
<1>3. CASE Edit
  <2>1. ASSUME NEW k \in Kinds, AddNode(k) PROVE FALSE
    BY <1>1, <2>1, AddNodeDoes
  <2>2. CASE NewBehaviour
    <3>1. Busy = {}
      BY <2>2 DEF NewBehaviour, ClearAborts, Ordered
    <3>2. "nodes" \notin Clash("clear", NoName, NoName)
      BY <2>2, <3>1, NewBehaviourDoes DEF Ordered
    <3>3. \A c \in calls : c.op # "clear"
      BY <3>2, NoClash DEF NodeOps
    <3>4. \E n \in calls' : n.op = "clear"
      BY <2>2, <3>1, NewBehaviourDoes DEF Says
    <3>5. QED BY <3>3, <3>4 DEF Anew
  <2>3. ASSUME NEW p \in Drawn, DeleteNode(p) PROVE FALSE
    BY <1>2, <2>3 DEF DeleteNode
  <2>4. ASSUME NEW p \in Drawn, NEW new \in GivenNames, SetName(p, new) PROVE FALSE
    BY <1>2, <2>4 DEF SetName, page
  <2>5. ASSUME NEW f \in Drawn, NEW g \in Drawn, Connect(f, g) \/ Disconnect(f, g) PROVE FALSE
    BY <1>2, <2>5 DEF Connect, Disconnect, page
  <2>6. ~Refresh /\ ~StartStop
    BY <1>2 DEF Refresh, StartStop, page
  <2>7. QED BY <1>3, <2>1, <2>2, <2>3, <2>4, <2>5, <2>6 DEF Edit
<1>4. ASSUME NEW c \in calls, Serve(c) \/ Fails(c) PROVE FALSE
  BY <1>2, <1>4, ServeLeaves DEF Fails, page
<1>5. ASSUME NEW c \in calls, Answer(c) PROVE node[o].label \notin LiveNames
  <2>1. CASE Created(c)
    <3>1. c.status = "ok"
      BY <1>2, <2>1 DEF Created
    <3>2. QED BY <1>1, <2>1, <3>1, CreatedDoes
  <2>2. CASE Removed(c)
    <3>1. c.status = "ok" /\ c.op = "remove"
      BY <1>2, <2>2 DEF Removed
    <3>2. node[o].label = node[c.who].id
      BY <1>1, <2>2, <3>1, RemovedDoes
    <3>3. Lists(c.at, c.who) /\ c.at \notin LiveNames
      BY <3>1 DEF NamesOK, CallsFit, Fits, RemoveFits, NodeOps
    <3>4. node[c.who].id = c.at
      BY <3>3 DEF NamesOK, Placed, Lists
    <3>5. QED BY <3>2, <3>3, <3>4
  <2>3. CASE Renamed(c)
    <3>1. c.status = "ok"
      BY <1>2, <2>3 DEF Renamed
    <3>2. \A p \in DOMAIN node : node'[p].drawn = node[p].drawn
      BY <2>3, <3>1, RenamedDoes
    <3>3. QED BY <1>1, <3>2
  <2>4. CASE Refreshed(c)
    <3>1. c.op = "refresh" /\ c \notin calls'
      BY <2>4 DEF Refreshed, Answered
    <3>2. QED BY <3>1 DEF Anew
  <2>5. CASE Positioned(c) \/ Linked(c) \/ Acknowledged(c)
    BY <1>2, <2>5 DEF Positioned, Linked, Acknowledged, page
  <2>6. QED BY <1>5, <2>1, <2>2, <2>3, <2>4, <2>5 DEF Answer
<1>6. CASE ProcessEvents
  <2>1. \A p \in DOMAIN node : node'[p].drawn = node[p].drawn
    BY <1>6, ProcessEventsDoes
  <2>2. QED BY <1>1, <2>1
<1>7. ~Outside /\ ~LoadBehaviour
  BY <1>2, OutsideDo, LoadDoes DEF page
<1>8. QED BY <1>3, <1>4, <1>5, <1>6, <1>7 DEF Next, Outside, Visits, Polls

THEOREM EditorGoneWhenAcknowledged == Spec => GoneWhenAcknowledged
<1> DEFINE Step == \A o \in Drawn : "nodes" \notin crossed' /\ ~node'[o].drawn /\ ~Anew =>
                     node[o].label \notin LiveNames
<1>1. Types /\ Types' /\ NamesRight /\ [Next]_vars => [Step]_vars
  <2>1. SUFFICES ASSUME Types, Types', NamesRight, [Next]_vars, NEW o \in Drawn,
                        "nodes" \notin crossed', ~node'[o].drawn, ~Anew
                 PROVE  node[o].label \notin LiveNames
    OBVIOUS
  <2>2. Ordered' /\ NamesOK
    BY <2>1, CrossedGrows DEF NamesRight, Ordered
  <2>3. QED BY <2>1, <2>2, GoneStep
<1>2. QED BY <1>1, TypesHold, NamesHold, PTL DEF Spec, GoneWhenAcknowledged

-----------------------------------------------------------------------------
(* What the page holds busy: as long as no node was renamed while one was  *)
(* visited and nothing about nodes overtook, a node that is active is the  *)
(* one being visited or an event that says it was left is on its way; so   *)
(* is it with every event that says one was entered; and nothing on its    *)
(* way is about a node that is to get its name.                            *)
Executing(i) == visiting # 0 /\ known[visiting].name = i
Unread == news \o events
About(i) == Executing(i) \/ \E k \in DOMAIN Unread : Unread[k].name = i
Ends(i, j) ==
  Executing(i) \/ \E k \in DOMAIN Unread : k > j /\ ~Unread[k].enter /\ Unread[k].name = i
Renaming(c) == c.op = "create" \/ (c.op = "rename" /\ c.status = "ok")

BusyEnds == \A i \in DOMAIN state : node[state[i]].active => Ends(i, 0)
VisitsEnd == \A j \in DOMAIN Unread : Unread[j].enter => Ends(Unread[j].name, j)
RenamedIdle == \A c \in calls : Renaming(c) => ~About(c.at)
BusyOK == BusyEnds /\ VisitsEnd /\ RenamedIdle
Unvisited == crossed \subseteq {"links", "removal"}
BusyRight == Unvisited /\ polling => BusyOK

LEMMA UnreadIs ==
  ASSUME EventsTyped
  PROVE  /\ Len(news) \in Nat /\ DOMAIN news = 1 .. Len(news)
         /\ Len(events) \in Nat /\ DOMAIN events = 1 .. Len(events)
         /\ DOMAIN Unread = 1 .. Len(news) + Len(events)
         /\ \A k \in DOMAIN news : Unread[k] = news[k]
         /\ \A k \in DOMAIN events : Unread[Len(news) + k] = events[k]
<1> DEFINE S == EventType
<1>1. events \in Seq(S) /\ news \in Seq(S)
  BY DEF EventsTyped
<1> HIDE DEF S
<1>2. /\ Len(news) \in Nat /\ DOMAIN news = 1 .. Len(news)
      /\ Len(events) \in Nat /\ DOMAIN events = 1 .. Len(events)
  BY <1>1, LenProperties
<1>3. /\ Unread \in Seq(S) /\ Len(Unread) = Len(news) + Len(events)
      /\ \A k \in 1 .. Len(news) + Len(events) :
           Unread[k] = IF k <= Len(news) THEN news[k] ELSE events[k - Len(news)]
  BY <1>1, ConcatProperties DEF Unread
<1>4. DOMAIN Unread = 1 .. Len(news) + Len(events)
  BY <1>3, LenProperties
<1>5. \A k \in DOMAIN news : Unread[k] = news[k]
  BY <1>2, <1>3
<1>6. \A k \in DOMAIN events : Unread[Len(news) + k] = events[k]
  BY <1>2, <1>3
<1>7. QED BY <1>2, <1>4, <1>5, <1>6

(* Each is in one of the two.                                              *)
LEMMA UnreadOf ==
  ASSUME EventsTyped, NEW k \in DOMAIN Unread
  PROVE  \/ k \in DOMAIN news /\ Unread[k] = news[k]
         \/ \E m \in DOMAIN events : k = Len(news) + m /\ Unread[k] = events[m]
<1>1. CASE k <= Len(news)
  BY <1>1, UnreadIs
<1>2. CASE ~(k <= Len(news))
  <2>1. k - Len(news) \in DOMAIN events /\ k = Len(news) + (k - Len(news))
    BY <1>2, UnreadIs
  <2>2. QED BY <2>1, UnreadIs
<1>3. QED BY <1>1, <1>2

LEMMA EmptyUnread ==
  ASSUME Types, events = <<>>, news = <<>> PROVE DOMAIN Unread = {}
BY UnreadIs, EmptySeq DEF Types

LEMMA BusyStays ==
  ASSUME BusyOK, UNCHANGED <<feed, visiting>>, visiting # 0 => known'[visiting].name = known[visiting].name,
         \A i \in DOMAIN state' : node'[state'[i]].active => Ends(i, 0),
         \A c \in calls' : Renaming(c) => ~About(c.at)
  PROVE  BusyOK'
<1>0. Unread' = Unread
  BY DEF Unread, feed
<1>1. \A i : Executing(i)' <=> Executing(i)
  BY DEF Executing
<1>2. \A i, j : Ends(i, j)' <=> Ends(i, j)
  BY <1>0, <1>1 DEF Ends
<1>3. \A i : About(i)' <=> About(i)
  BY <1>0, <1>1 DEF About
<1>4. BusyEnds'
  BY <1>2 DEF BusyEnds
<1>5. VisitsEnd'
  BY <1>0, <1>2 DEF BusyOK, VisitsEnd
<1>6. RenamedIdle'
  BY <1>3 DEF RenamedIdle, Renaming
<1>7. QED BY <1>4, <1>5, <1>6 DEF BusyOK

LEMMA BusySameNodes ==
  ASSUME BusyOK, UNCHANGED <<feed, visiting, known, state>>,
         \A i \in DOMAIN state : node'[state[i]].active => node[state[i]].active,
         \A c \in calls' : Renaming(c) => c \in calls
  PROVE  BusyOK'
<1>1. \A i \in DOMAIN state' : node'[state'[i]].active => Ends(i, 0)
  BY DEF BusyOK, BusyEnds
<1>2. \A c \in calls' : Renaming(c) => ~About(c.at)
  BY DEF BusyOK, RenamedIdle
<1>3. QED BY <1>1, <1>2, BusyStays

LEMMA AddNodeBusy ==
  ASSUME Types, BusyOK, NEW k \in Kinds, AddNode(k), Ordered' PROVE BusyOK'
<1> DEFINE id == TempId[k][count + 1]
           o == Len(node) + 1
<1>1. /\ o \notin DOMAIN node
      /\ \A p \in DOMAIN node : node'[p] = node[p]
      /\ node'[o] = [id |-> id, kind |-> k, active |-> FALSE, drawn |-> FALSE, label |-> NoName]
      /\ DOMAIN state' = DOMAIN state \cup {id} /\ state'[id] = o
      /\ \A i \in DOMAIN state : i # id => state'[i] = state[i]
      /\ \A c \in calls' : \/ c \in calls \/ Says(c, "stop", 0, NoName, NoName)
                           \/ Says(c, "create", o, id, NoName)
  BY AddNodeDoes
<1>2. "nodes" \notin Reused(id)
  BY <1>1 DEF AddNode, Ordered
<1>3. ~About(id)
  <2> HIDE DEF id
  <2>1. /\ visiting # 0 => known[visiting].name # id
        /\ \A j \in DOMAIN events : events[j].name # id
        /\ \A j \in DOMAIN news : news[j].name # id
    BY <1>2, NotReused
  <2>2. \A j \in DOMAIN Unread : Unread[j].name # id
    BY <2>1, UnreadOf DEF Types
  <2>3. QED BY <2>1, <2>2 DEF About, Executing
<1> HIDE DEF id, o
<1>4. \A i \in DOMAIN state' : node'[state'[i]].active => Ends(i, 0)
  BY <1>1 DEF BusyOK, BusyEnds, Types, StateTyped
<1>5. \A c \in calls' : Renaming(c) => ~About(c.at)
  BY <1>1, <1>3 DEF BusyOK, RenamedIdle, Renaming, Says
<1>6. UNCHANGED <<feed, visiting, known>>
  BY DEF AddNode, SameServer, server
<1>7. QED BY <1>4, <1>5, <1>6, BusyStays

LEMMA EditBusy ==
  ASSUME Types, BusyOK, Edit, Ordered' PROVE BusyOK'
<1>1. UNCHANGED <<feed, visiting, known>>
  BY EditOnlyPosts DEF server
<1>2. ASSUME UNCHANGED <<node, state>>, \A c \in calls' : c \in calls \/ ~Renaming(c) PROVE BusyOK'
  BY <1>1, <1>2, BusySameNodes
<1>3. ASSUME NEW k \in Kinds, AddNode(k) PROVE BusyOK'
  BY <1>3, AddNodeBusy
<1>4. ASSUME NEW o \in Drawn, DeleteNode(o) PROVE BusyOK'
  <2>1. o \in DOMAIN node
    BY DrawnIs DEF Types
  <2>2. \A c \in calls' : c \in calls \/ ~Renaming(c)
    BY <1>4, <2>1, PostDeleteDoes DEF DeleteNode, SaysDisconnect, Says, Renaming
  <2>3. QED BY <1>2, <1>4, <2>2 DEF DeleteNode
<1>5. ASSUME NEW o \in Drawn, NEW new \in GivenNames, SetName(o, new) PROVE BusyOK'
  <2>1. \A c \in calls' : c \in calls \/ ~Renaming(c)
    BY <1>5, SetNameDoes DEF Says, Renaming
  <2>2. QED BY <1>2, <1>5, <2>1 DEF SetName, page
<1>6. ASSUME NEW f \in Drawn, NEW g \in Drawn, Connect(f, g) PROVE BusyOK'
  <2>1. \A c \in calls' : \/ c \in calls \/ Says(c, "stop", 0, NoName, NoName)
                           \/ Says(c, "connect", Len(arrow) + 1, node[f].id, node[g].id)
    BY <1>6, ConnectDoes
  <2>2. \A c \in calls' : c \in calls \/ ~Renaming(c)
    BY <2>1 DEF Says, Renaming
  <2>3. QED BY <1>2, <1>6, <2>2 DEF Connect
<1>7. ASSUME NEW f \in Drawn, NEW g \in Drawn, Disconnect(f, g) PROVE BusyOK'
  <2>1. \A c \in calls' : c \in calls \/ ~Renaming(c)
    BY <1>7, DisconnectDoes DEF SaysDisconnect, Says, Renaming
  <2>2. QED BY <1>2, <1>7, <2>1 DEF Disconnect, page
<1>8. CASE NewBehaviour
  <2>1. Busy = {}
    BY <1>8 DEF NewBehaviour, ClearAborts, Ordered
  <2>2. /\ state' = StateWithout(DOMAIN state) /\ node' = NodesWithout(DOMAIN state)
        /\ \A c \in calls' : \/ c \in calls \/ Says(c, "stop", 0, NoName, NoName)
                             \/ Says(c, "clear", 0, NoName, NoName)
    BY <1>8, <2>1, NewBehaviourDoes
  <2>3. \A i \in DOMAIN state' : ~node'[state'[i]].active
    <3>1. \A o \in DOMAIN node : NodesWithout(DOMAIN state)[o].active = node[o].active
      BY NodesWithoutIs
    <3>2. \A i \in DOMAIN state' : i \in DOMAIN state /\ state'[i] = state[i]
      BY <2>2, StateWithoutIs
    <3>3. \A i \in DOMAIN state : state[i] \in DOMAIN node /\ ~node[state[i]].active
      BY <2>1 DEF Busy, Types, StateTyped
    <3>4. QED BY <2>2, <3>1, <3>2, <3>3
  <2>4. \A c \in calls' : Renaming(c) => ~About(c.at)
    BY <2>2 DEF Renaming, Says, BusyOK, RenamedIdle
  <2>5. QED BY <1>1, <2>3, <2>4, BusyStays
<1>9. CASE Refresh
  <2>1. \A c \in calls' : c \in calls \/ ~Renaming(c)
    BY <1>9, RefreshDoes DEF Says, Renaming
  <2>2. QED BY <1>2, <1>9, <2>1 DEF Refresh, page
<1>10. CASE StartStop
  <2>1. \A c \in calls' : c \in calls \/ ~Renaming(c)
    BY <1>10, StartStopDoes DEF Says, Renaming
  <2>2. QED BY <1>2, <1>10, <2>1 DEF StartStop, page
<1>11. QED BY <1>3, <1>4, <1>5, <1>6, <1>7, <1>8, <1>9, <1>10 DEF Edit

LEMMA ServeBusy ==
  ASSUME Types, BusyOK, NEW c \in calls, Serve(c), "visits" \notin crossed' PROVE BusyOK'
<1>1. UNCHANGED <<node, state, feed, visiting>>
  BY ServeLeaves DEF page
<1>2. CASE ServeCreate(c)
  <2>1. PICK name \in Names :
          /\ c.op = "create" /\ \A n \in DOMAIN known : known'[n] = known[n]
          /\ \E r : calls' = (calls \ {c}) \cup {r} /\ IsReply(r, c, "ok", name, c.view)
    BY <1>2, ServeCreateDoes
  <2>2. PICK r : calls' = (calls \ {c}) \cup {r} /\ IsReply(r, c, "ok", name, c.view)
    BY <2>1
  <2>3. r.at = c.at
    BY <2>2 DEF IsReply
  <2>4. visiting # 0 => known'[visiting].name = known[visiting].name
    BY <2>1 DEF Types, KnownTyped
  <2>5. \A d \in calls' : Renaming(d) => ~About(d.at)
    BY <2>1, <2>2, <2>3 DEF BusyOK, RenamedIdle, Renaming
  <2>6. \A i \in DOMAIN state' : node'[state'[i]].active => Ends(i, 0)
    BY <1>1 DEF BusyOK, BusyEnds
  <2>7. QED BY <1>1, <2>4, <2>5, <2>6, BusyStays
<1>3. CASE ServeRename(c) /\ known' # known
  <2>1. visiting = 0 /\ events = <<>> /\ news = <<>>
    BY <1>3, ServeRenameDoes
  <2>2. \A i : ~Ends(i, 0) /\ ~About(i)
    BY <2>1, EmptyUnread DEF Ends, About, Executing
  <2>3. \A i \in DOMAIN state' : node'[state'[i]].active => Ends(i, 0)
    BY <1>1 DEF BusyOK, BusyEnds
  <2>4. QED BY <1>1, <2>1, <2>2, <2>3, BusyStays
<1>4. ASSUME UNCHANGED known, NEW r, calls' = (calls \ {c}) \cup {r}, ~Renaming(r) PROVE BusyOK'
  BY <1>1, <1>4, BusySameNodes
<1>5. CASE ServeRename(c) /\ known' = known
  <2>1. CASE \E n \in Named(c.at) : known'[n].name = (IF c.to = NullName THEN EmptyName ELSE c.to)
                                     /\ crossed' = crossed \cup (IF visiting # 0 \/ events # <<>> \/ news # <<>> THEN {"visits"} ELSE {})
    <3>1. visiting = 0 /\ events = <<>> /\ news = <<>>
      BY <2>1
    <3>2. \A i : ~Ends(i, 0) /\ ~About(i)
      BY <3>1, EmptyUnread DEF Ends, About, Executing
    <3>3. \A i \in DOMAIN state' : node'[state'[i]].active => Ends(i, 0)
      BY <1>1 DEF BusyOK, BusyEnds
    <3>4. QED BY <1>1, <3>1, <3>2, <3>3, BusyStays
  <2>2. CASE \E r : calls' = (calls \ {c}) \cup {r} /\ IsReply(r, c, "error", c.name, c.view)
    <3>1. PICK r : calls' = (calls \ {c}) \cup {r} /\ IsReply(r, c, "error", c.name, c.view)
      BY <2>2
    <3>2. c.op = "rename"
      BY <1>5, ServeRenameDoes
    <3>3. ~Renaming(r)
      BY <3>1, <3>2 DEF IsReply, Renaming
    <3>4. QED BY <1>4, <1>5, <3>1, <3>3
  <2>3. QED BY <1>5, <2>1, <2>2, ServeRenameDoes
<1>6. CASE ServePosition(c) \/ ServeRemove(c) \/ ServeConnect(c) \/ ServeDisconnect(c)
  <2>1. /\ c.op \in {"position", "remove", "connect", "disconnect"} /\ known' = known
        /\ \E s \in {"ok", "error"} : Reply(c, s)
    BY <1>6 DEF ServePosition, ServeRemove, ServeConnect, ServeDisconnect, Serving
  <2>2. PICK r, s : calls' = (calls \ {c}) \cup {r} /\ IsReply(r, c, s, c.name, c.view)
    BY <2>1, StatusReply DEF Types
  <2>3. ~Renaming(r)
    BY <2>1, <2>2 DEF IsReply, Renaming
  <2>4. QED BY <1>4, <2>1, <2>2, <2>3
<1>7. CASE ServeClear(c)
  <2>1. PICK r : calls' = (calls \ {c}) \cup {r} /\ IsReply(r, c, "ok", c.name, c.view)
    BY <1>7, ServeClearDoes
  <2>2. c.op = "clear" /\ known' = known
    BY <1>7, ServeClearDoes
  <2>3. ~Renaming(r)
    BY <2>1, <2>2 DEF IsReply, Renaming
  <2>4. QED BY <1>4, <2>1, <2>2, <2>3
<1>8. CASE ServeFile(c)
  <2>1. PICK r, v : calls' = (calls \ {c}) \cup {r} /\ IsReply(r, c, "ok", c.name, v)
    BY <1>8, ServeFileDoes
  <2>2. c.op \in {"save", "refresh", "run", "stop"} /\ known' = known
    BY <1>8, ServeFileDoes
  <2>3. r.op = c.op
    BY <2>1 DEF IsReply
  <2>4. ~Renaming(r)
    BY <2>2, <2>3 DEF Renaming
  <2>5. QED BY <1>4, <2>1, <2>2, <2>4
<1>9. CASE DiskStep(c)
  <2>1. calls' = calls /\ known' = known
    BY <1>9, DiskStepDoes
  <2>2. QED BY <1>1, <2>1, BusySameNodes
<1>10. QED BY <1>2, <1>3, <1>5, <1>6, <1>7, <1>8, <1>9 DEF Serve, ServeFile, DiskStep

LEMMA FailsBusy ==
  ASSUME Types, BusyOK, NEW c \in calls, Fails(c) PROVE BusyOK'
<1>1. PICK r : calls' = (calls \ {c}) \cup {r} /\ IsReply(r, c, "error", c.name, c.view)
  BY FailsDoes
<1>2. UNCHANGED <<node, state, feed, visiting, known>>
  BY FailsDoes DEF page, server
<1>3. \A d \in calls' : Renaming(d) => ~About(d.at)
  BY <1>1 DEF IsReply, Renaming, BusyOK, RenamedIdle
<1>4. \A i \in DOMAIN state' : node'[state'[i]].active => Ends(i, 0)
  BY <1>2 DEF BusyOK, BusyEnds
<1>5. QED BY <1>2, <1>3, <1>4, BusyStays

(* An event that is pushed ends what it is about, unless it says that a    *)
(* node was entered.                                                       *)
LEMMA PushBusy ==
  ASSUME Types, NEW e \in EventType, Push(e), UNCHANGED news, "missed" \notin crossed',
         \A i : Executing(i) => Executing(i)' \/ (~e.enter /\ e.name = i)
  PROVE  /\ DOMAIN Unread' = 1 .. Len(Unread) + 1 /\ Len(Unread) \in Nat
         /\ DOMAIN Unread = 1 .. Len(Unread)
         /\ \A k \in DOMAIN Unread : Unread'[k] = Unread[k]
         /\ Unread'[Len(Unread) + 1] = e
         /\ \A i, j : j \in Nat /\ j <= Len(Unread) /\ Ends(i, j) => Ends(i, j)'
<1> DEFINE S == EventType
           L == Len(Unread)
<1>1. events' = Append(events, e)
  BY PushDoes
<1>2. events \in Seq(S) /\ news \in Seq(S) /\ e \in S
  BY DEF Types, EventsTyped
<1> HIDE DEF S
<1>3. Unread \in Seq(S) /\ Unread' = Append(Unread, e)
  <2>1. Unread \in Seq(S)
    BY <1>2, ConcatProperties DEF Unread
  <2>2. news \o Append(events, e) = Append(news \o events, e)
    BY <1>2
  <2>3. QED BY <1>1, <2>1, <2>2 DEF Unread
<1>4. /\ L \in Nat /\ DOMAIN Unread = 1 .. L /\ DOMAIN Unread' = 1 .. L + 1
      /\ \A k \in DOMAIN Unread : Unread'[k] = Unread[k]
      /\ Unread'[L + 1] = e
  BY <1>2, <1>3, AppendProperties, LenProperties
<1> HIDE DEF L
<1>5. \A i, j : j \in Nat /\ j <= L /\ Ends(i, j) => Ends(i, j)'
  BY <1>4 DEF Ends
<1>6. QED BY <1>4, <1>5 DEF L

LEMMA EnterNodeBusy ==
  ASSUME Types, BusyOK, NamesOK, EnterNode, "missed" \notin crossed' PROVE BusyOK'
<1>1. /\ UNCHANGED <<node, state, calls, known, news>> /\ visiting = 0
  BY DEF EnterNode, SameGraph, page
<1>2. PICK n \in live : visiting' = n /\ Push([enter |-> TRUE, name |-> known[n].name])
  BY DEF EnterNode
<1>3. PICK e : e = [enter |-> TRUE, name |-> known[n].name]
  OBVIOUS
<1>4. e.enter /\ e.name = known[n].name /\ n # 0 /\ e \in EventType
  BY <1>3, KnownShape DEF Types, KnownTyped, EventType
<1>5. Executing(e.name)' /\ \A i : ~Executing(i)
  BY <1>1, <1>2, <1>4 DEF Executing
<1>6. /\ DOMAIN Unread' = 1 .. Len(Unread) + 1 /\ Len(Unread) \in Nat
      /\ DOMAIN Unread = 1 .. Len(Unread)
      /\ \A k \in DOMAIN Unread : Unread'[k] = Unread[k]
      /\ Unread'[Len(Unread) + 1] = e
      /\ \A i, j : j \in Nat /\ j <= Len(Unread) /\ Ends(i, j) => Ends(i, j)'
  BY <1>1, <1>2, <1>3, <1>4, <1>5, PushBusy
<1>7. BusyEnds'
  BY <1>1, <1>6 DEF BusyOK, BusyEnds
<1>8. VisitsEnd'
  <2>1. SUFFICES ASSUME NEW j \in DOMAIN Unread', Unread'[j].enter, NEW i, i = Unread'[j].name
                 PROVE  Ends(i, j)'
    BY DEF VisitsEnd, Ends, Executing
  <2>2. CASE j \in DOMAIN Unread
    BY <1>6, <2>1, <2>2 DEF BusyOK, VisitsEnd
  <2>3. CASE j = Len(Unread) + 1
    BY <1>5, <1>6, <2>1, <2>3 DEF Ends, Executing
  <2>4. QED BY <1>6, <2>1, <2>2, <2>3
<1>9. RenamedIdle'
  <2>1. SUFFICES ASSUME NEW c \in calls', Renaming(c), About(c.at)' PROVE FALSE
    BY DEF RenamedIdle, Renaming
  <2>2. ~About(c.at)
    BY <1>1, <2>1 DEF BusyOK, RenamedIdle
  <2>3. c.at \notin LiveNames
    BY <1>1, <2>1 DEF Renaming, NamesOK, CallsFit, Fits, CreateFits, RenameFits, NodeOps
  <2>4. c.at # e.name
    BY <1>4, <2>3 DEF LiveNames
  <2>5. ~Executing(c.at)'
    BY <1>1, <1>2, <1>4, <2>4 DEF Executing
  <2>6. PICK k \in DOMAIN Unread' : Unread'[k].name = c.at
    BY <2>1, <2>5 DEF About
  <2>7. k \in DOMAIN Unread
    BY <1>6, <2>4, <2>6
  <2>8. QED BY <1>6, <2>2, <2>6, <2>7 DEF About
<1>10. QED BY <1>7, <1>8, <1>9 DEF BusyOK

(* Leaving a node and printing push an event that enters none.             *)
LEMMA LeavingBusy ==
  ASSUME Types, BusyOK, NEW e \in EventType, Push(e), "missed" \notin crossed',
         UNCHANGED <<node, state, calls, news>>, ~e.enter,
         \A i : Executing(i) => Executing(i)' \/ e.name = i,
         \A i : Executing(i)' => Executing(i),
         \A c \in calls : Renaming(c) /\ c.at = e.name => About(e.name)
  PROVE  BusyOK'
<1>1. /\ DOMAIN Unread' = 1 .. Len(Unread) + 1 /\ Len(Unread) \in Nat
      /\ DOMAIN Unread = 1 .. Len(Unread)
      /\ \A k \in DOMAIN Unread : Unread'[k] = Unread[k]
      /\ Unread'[Len(Unread) + 1] = e
      /\ \A i, j : j \in Nat /\ j <= Len(Unread) /\ Ends(i, j) => Ends(i, j)'
  BY PushBusy
<1>2. BusyEnds'
  BY <1>1 DEF BusyOK, BusyEnds
<1>3. VisitsEnd'
  <2>1. SUFFICES ASSUME NEW j \in DOMAIN Unread', Unread'[j].enter, NEW i, i = Unread'[j].name
                 PROVE  Ends(i, j)'
    BY DEF VisitsEnd, Ends, Executing
  <2>2. j \in DOMAIN Unread /\ j \in Nat /\ j <= Len(Unread)
    BY <1>1, <2>1
  <2>3. Ends(i, j)
    BY <1>1, <2>1, <2>2 DEF BusyOK, VisitsEnd
  <2>4. QED BY <1>1, <2>2, <2>3
<1>4. RenamedIdle'
  <2>1. SUFFICES ASSUME NEW c \in calls, Renaming(c), About(c.at)' PROVE FALSE
    BY DEF RenamedIdle, Renaming
  <2>2. ~About(c.at) /\ c.at # e.name
    BY <2>1 DEF BusyOK, RenamedIdle
  <2>3. ~Executing(c.at)'
    BY <2>2 DEF About
  <2>4. PICK k \in DOMAIN Unread' : Unread'[k].name = c.at
    BY <2>1, <2>3 DEF About
  <2>5. k \in DOMAIN Unread
    BY <1>1, <2>2, <2>4
  <2>6. QED BY <1>1, <2>2, <2>4, <2>5 DEF About
<1>5. QED BY <1>2, <1>3, <1>4 DEF BusyOK

LEMMA LeaveNodeBusy ==
  ASSUME Types, BusyOK, LeaveNode, "missed" \notin crossed' PROVE BusyOK'
<1>1. /\ UNCHANGED <<node, state, calls, known, news>> /\ visiting # 0 /\ visiting' = 0
      /\ Push([enter |-> FALSE, name |-> known[visiting].name])
  BY DEF LeaveNode, SameGraph, page
<1>2. PICK e : e = [enter |-> FALSE, name |-> known[visiting].name]
  OBVIOUS
<1>3. ~e.enter /\ e.name = known[visiting].name /\ e \in EventType
  BY <1>1, <1>2, KnownShape DEF Types, KnownTyped, EventType
<1>4. Executing(e.name) /\ \A i : Executing(i) => e.name = i
  BY <1>1, <1>3 DEF Executing
<1>5. \A i : ~Executing(i)'
  BY <1>1 DEF Executing
<1>6. Push(e) /\ About(e.name)
  BY <1>1, <1>2, <1>4 DEF About
<1>7. QED BY <1>1, <1>3, <1>4, <1>5, <1>6, LeavingBusy

LEMMA PrintsBusy ==
  ASSUME Types, BusyOK, NamesOK, Prints, "missed" \notin crossed' PROVE BusyOK'
<1>1. /\ UNCHANGED <<node, state, calls, known, news, visiting>>
      /\ Push([enter |-> FALSE, name |-> NoName])
  BY DEF Prints, SameGraph, page
<1>2. PICK e : e = [enter |-> FALSE, name |-> NoName]
  OBVIOUS
<1>3. ~e.enter /\ e.name = NoName /\ e \in EventType
  BY <1>2 DEF EventType
<1>4. \A i : Executing(i)' <=> Executing(i)
  BY <1>1 DEF Executing
<1>5. \A c \in calls : Renaming(c) => c.at # NoName
  <2>1. \A c \in calls : Renaming(c) => c.at \in DOMAIN state
    BY DEF Renaming, NamesOK, CallsFit, Fits, CreateFits, RenameFits, NodeOps, Lists
  <2>2. QED BY <2>1, NamesAssumption DEF Types, StateTyped
<1>6. Push(e)
  BY <1>1, <1>2
<1>7. QED BY <1>1, <1>3, <1>4, <1>5, <1>6, LeavingBusy

(* The page fetches what is unread, and then processes all it fetched.     *)
LEMMA FetchBusy ==
  ASSUME Types, BusyOK, FetchEvents PROVE BusyOK'
<1>1. news = <<>> /\ news' = events /\ events' = <<>> /\ UNCHANGED <<node, state, calls, known, visiting>>
  BY DEF FetchEvents, page, server
<1>2. Unread' = Unread
  <2> DEFINE S == EventType
  <2>1. events \in Seq(S)
    BY DEF Types, EventsTyped
  <2> HIDE DEF S
  <2>2. events \o <<>> = events /\ <<>> \o events = events
    BY <2>1, ConcatEmptySeq
  <2>3. QED BY <1>1, <2>2 DEF Unread
<1>3. \A i : Executing(i)' <=> Executing(i)
  BY <1>1 DEF Executing
<1>4. \A i, j : Ends(i, j)' <=> Ends(i, j)
  BY <1>2, <1>3 DEF Ends
<1>5. \A i : About(i)' <=> About(i)
  BY <1>2, <1>3 DEF About
<1>6. BusyEnds' /\ RenamedIdle'
  BY <1>1, <1>4, <1>5 DEF BusyOK, BusyEnds, RenamedIdle, Renaming
<1>7. VisitsEnd'
  BY <1>2, <1>4 DEF BusyOK, VisitsEnd
<1>8. QED BY <1>6, <1>7 DEF BusyOK

LEMMA ProcessEventsBusy ==
  ASSUME Types, Types', BusyOK, Placed, ProcessEvents PROVE BusyOK'
<1> DEFINE L == Len(news)
<1>1. /\ UNCHANGED <<state, calls, known, visiting, events>> /\ news' = <<>>
      /\ \A o \in DOMAIN node :
           /\ Heard(o) = {} => node'[o].active = node[o].active
           /\ Heard(o) # {} => node'[o].active = news[Max(Heard(o))].enter
  BY ProcessEventsDoes DEF server
<1>2. /\ L \in Nat /\ DOMAIN news = 1 .. L /\ Len(events) \in Nat /\ DOMAIN events = 1 .. Len(events)
      /\ DOMAIN Unread = 1 .. L + Len(events)
      /\ \A k \in DOMAIN news : Unread[k] = news[k]
      /\ \A k \in DOMAIN events : Unread[L + k] = events[k]
  BY UnreadIs DEF Types
<1>3. DOMAIN Unread' = DOMAIN events /\ \A k \in DOMAIN events : Unread'[k] = events[k]
  <2> DEFINE S == EventType
  <2>1. events \in Seq(S)
    BY DEF Types, EventsTyped
  <2> HIDE DEF S
  <2>2. <<>> \o events = events
    BY <2>1, ConcatEmptySeq
  <2>3. QED BY <1>1, <2>2 DEF Unread
<1> HIDE DEF L
<1>4. ASSUME NEW i, NEW j \in Nat, Ends(i, L + j) PROVE Ends(i, j)'
  <2>1. CASE Executing(i)
    BY <1>1, <2>1 DEF Ends, Executing
  <2>2. CASE \E k \in DOMAIN Unread : k > L + j /\ ~Unread[k].enter /\ Unread[k].name = i
    <3>1. PICK k \in DOMAIN Unread : k > L + j /\ ~Unread[k].enter /\ Unread[k].name = i
      BY <2>2
    <3>2. k - L \in DOMAIN events /\ k - L > j /\ k = L + (k - L)
      BY <1>2, <3>1
    <3>3. Unread'[k - L] = Unread[k]
      BY <1>2, <1>3, <3>2
    <3>4. QED BY <1>3, <3>1, <3>2, <3>3 DEF Ends
  <2>3. QED BY <1>4, <2>1, <2>2 DEF Ends
<1>5. \A i : About(i)' => About(i)
  <2>1. ASSUME NEW k \in DOMAIN Unread' PROVE L + k \in DOMAIN Unread /\ Unread'[k] = Unread[L + k]
    BY <1>2, <1>3
  <2>2. QED BY <1>1, <2>1 DEF About, Executing
<1>6. BusyEnds'
  <2>1. SUFFICES ASSUME NEW i \in DOMAIN state, node'[state[i]].active PROVE Ends(i, 0)'
    BY <1>1 DEF BusyEnds
  <2>2. PICK o \in DOMAIN node : o = state[i]
    BY DEF Types, StateTyped
  <2>3. \A k \in DOMAIN news : news[k].name = i <=> k \in Heard(o)
    BY <2>2 DEF Heard, Placed
  <2>4. Ends(i, L)
    <3>1. CASE Heard(o) = {}
      <4>1. Ends(i, 0)
        BY <1>1, <2>1, <2>2, <3>1 DEF BusyOK, BusyEnds
      <4>2. ASSUME NEW k \in DOMAIN Unread, Unread[k].name = i PROVE k > L
        BY <1>2, <2>3, <3>1, <4>2
      <4>3. QED BY <4>1, <4>2 DEF Ends
    <3>2. CASE Heard(o) # {}
      <4>1. PICK last : last = Max(Heard(o))
        OBVIOUS
      <4>2. last \in Heard(o) /\ \A k \in Heard(o) : k <= last
        BY <3>2, <4>1, HeardLast
      <4>3. last \in DOMAIN news /\ news[last].name = i /\ news[last].enter
        BY <1>1, <2>1, <2>2, <2>3, <3>2, <4>1, <4>2 DEF Heard
      <4>4. last \in DOMAIN Unread /\ Unread[last] = news[last]
        BY <1>2, <4>3
      <4>5. Ends(i, last)
        BY <4>3, <4>4 DEF BusyOK, VisitsEnd
      <4>6. ASSUME NEW k \in DOMAIN Unread, Unread[k].name = i, k > last PROVE k > L
        <5>1. k \in DOMAIN news => news[k].name = i
          BY <1>2, <4>6
        <5>2. k \in DOMAIN news => k <= last
          BY <2>3, <4>2, <5>1
        <5>3. QED BY <1>2, <4>3, <4>6, <5>2
      <4>7. QED BY <4>5, <4>6 DEF Ends
    <3>3. QED BY <3>1, <3>2
  <2>5. 0 \in Nat /\ L + 0 = L
    BY <1>2
  <2>6. Ends(i, L + 0) => Ends(i, 0)'
    BY <1>4, <2>5
  <2>7. QED BY <2>4, <2>5, <2>6
<1>7. VisitsEnd'
  <2>1. SUFFICES ASSUME NEW j \in DOMAIN Unread', Unread'[j].enter, NEW i, i = Unread'[j].name
                 PROVE  Ends(i, j)'
    BY DEF VisitsEnd, Ends, Executing
  <2>2. L + j \in DOMAIN Unread /\ Unread'[j] = Unread[L + j] /\ j \in Nat
    BY <1>2, <1>3
  <2>3. Ends(i, L + j)
    BY <2>1, <2>2 DEF BusyOK, VisitsEnd
  <2>4. Ends(i, L + j) => Ends(i, j)'
    BY <1>4, <2>2
  <2>5. QED BY <2>3, <2>4
<1>8. RenamedIdle'
  BY <1>1, <1>5 DEF BusyOK, RenamedIdle, Renaming
<1>9. QED BY <1>6, <1>7, <1>8 DEF BusyOK

(* A node that takes its new name takes no one's activity with it.         *)
LEMMA AdoptedBusy ==
  ASSUME Types, BusyOK, Placed, NEW c \in calls, Renaming(c), NEW o \in DOMAIN node, NEW new,
         Lists(c.at, o), UNCHANGED <<feed, visiting, known>>,
         \A p \in DOMAIN node : node'[p].active = node[p].active,
         DOMAIN state' = (DOMAIN state \ {c.at}) \cup {new}, state'[new] = o,
         \A i \in DOMAIN state \ {c.at} : i # new => state'[i] = state[i],
         \A d \in calls' : Renaming(d) => d \in calls
  PROVE  BusyOK'
<1>1. ~About(c.at)
  BY DEF BusyOK, RenamedIdle
<1>2. ~node[o].active
  <2>1. node[state[c.at]].active => Ends(c.at, 0)
    BY DEF BusyOK, BusyEnds, Lists
  <2>2. ~Ends(c.at, 0)
    BY <1>1 DEF Ends, About
  <2>3. QED BY <2>1, <2>2 DEF Lists
<1>3. \A i \in DOMAIN state' : node'[state'[i]].active => Ends(i, 0)
  BY <1>2 DEF BusyOK, BusyEnds, Types, StateTyped
<1>4. \A d \in calls' : Renaming(d) => ~About(d.at)
  BY DEF BusyOK, RenamedIdle
<1>5. QED BY <1>3, <1>4, BusyStays

LEMMA CreatedBusy ==
  ASSUME Types, BusyOK, NamesOK, NEW c \in calls, Created(c) PROVE BusyOK'
<1>1. c.op = "create" /\ UNCHANGED <<feed, visiting, known>>
  BY DEF Created, SamePage, server
<1>2. Lists(c.at, c.who) /\ node[c.who].id = c.at
  BY <1>1 DEF NamesOK, CallsFit, Fits, CreateFits, NodeOps, Placed, Lists
<1>3. CASE c.status = "ok"
  <2>1. PICK o, new : o = c.who /\ new = c.name
    OBVIOUS
  <2>2. /\ c.who \in DOMAIN node
        /\ \A p \in DOMAIN node : p # c.who => node'[p] = node[p]
        /\ node'[c.who].active = node[c.who].active
        /\ DOMAIN state' = (DOMAIN state \ {node[c.who].id}) \cup {c.name} /\ state'[c.name] = c.who
        /\ \A i \in DOMAIN state \ {node[c.who].id} : i # c.name => state'[i] = state[i]
        /\ \E p : calls' = (calls \ {c}) \cup {p} /\ Says(p, "position", c.who, c.name, NoName)
    BY <1>3, CreatedDoes
  <2>3. \A p \in DOMAIN node : node'[p].active = node[p].active
    BY <2>2
  <2>4. \A d \in calls' : Renaming(d) => d \in calls
    BY <2>2 DEF Says, Renaming
  <2>5. Renaming(c)
    BY <1>1 DEF Renaming
  <2>6. /\ o \in DOMAIN node /\ Lists(c.at, o)
        /\ DOMAIN state' = (DOMAIN state \ {c.at}) \cup {new} /\ state'[new] = o
        /\ \A i \in DOMAIN state \ {c.at} : i # new => state'[i] = state[i]
    BY <1>2, <2>1, <2>2
  <2>7. QED BY <1>1, <2>3, <2>4, <2>5, <2>6, AdoptedBusy DEF NamesOK
<1>4. CASE c.status = "error"
  <2>1. PostDelete(c.who, {c}) /\ UNCHANGED <<node, state>>
    BY <1>3, <1>4 DEF Created
  <2>2. c.who \in DOMAIN node
    BY <1>1 DEF Types, CallsTyped, CallOK
  <2>3. \A d \in calls' : Renaming(d) => d \in calls
    BY <2>1, <2>2, PostDeleteDoes DEF SaysDisconnect, Says, Renaming
  <2>4. QED BY <1>1, <2>1, <2>3, BusySameNodes
<1>5. QED BY <1>3, <1>4 DEF Created

LEMMA RenamedBusy ==
  ASSUME Types, BusyOK, NamesOK, NEW c \in calls, Renamed(c) PROVE BusyOK'
<1>1. c.op = "rename" /\ UNCHANGED <<feed, visiting, known>> /\ calls' = calls \ {c}
  BY DEF Renamed, SamePage, server, Answered
<1>2. CASE c.status = "ok"
  <2>1. Lists(c.at, c.who) /\ node[c.who].id = c.at /\ Renaming(c)
    BY <1>1, <1>2 DEF NamesOK, CallsFit, Fits, RenameFits, NodeOps, Placed, Lists, Renaming
  <2>2. PICK o, new : o = c.who /\ new = c.to
    OBVIOUS
  <2>3. /\ c.who \in DOMAIN node
        /\ \A p \in DOMAIN node : node'[p].active = node[p].active
        /\ DOMAIN state' = (DOMAIN state \ {node[c.who].id}) \cup {c.to} /\ state'[c.to] = c.who
        /\ \A i \in DOMAIN state \ {node[c.who].id} : i # c.to => state'[i] = state[i]
    BY <1>2, RenamedDoes
  <2>4. /\ o \in DOMAIN node /\ Lists(c.at, o)
        /\ DOMAIN state' = (DOMAIN state \ {c.at}) \cup {new} /\ state'[new] = o
        /\ \A i \in DOMAIN state \ {c.at} : i # new => state'[i] = state[i]
    BY <2>1, <2>2, <2>3
  <2>5. QED BY <1>1, <2>1, <2>3, <2>4, AdoptedBusy DEF NamesOK
<1>3. CASE c.status = "error"
  BY <1>1, <1>3, BusySameNodes DEF Renamed
<1>4. QED BY <1>2, <1>3 DEF Renamed

LEMMA RemovedBusy ==
  ASSUME Types, BusyOK, NEW c \in calls, Removed(c) PROVE BusyOK'
<1>1. c.op = "remove" /\ UNCHANGED <<feed, visiting, known>>
  BY DEF Removed, SamePage, server
<1>2. CASE c.status = "ok"
  <2>1. /\ \A i \in DOMAIN state' : i \in DOMAIN state /\ state'[i] = state[i]
        /\ \A p \in DOMAIN node : node'[p].active = node[p].active
        /\ \A d \in calls' : d \in calls \/ Says(d, "save", c.who, NoName, NoName)
    BY <1>2, RemovedDoes
  <2>2. \A i \in DOMAIN state' : node'[state'[i]].active => Ends(i, 0)
    BY <2>1 DEF BusyOK, BusyEnds, Types, StateTyped
  <2>3. \A d \in calls' : Renaming(d) => ~About(d.at)
    BY <2>1 DEF BusyOK, RenamedIdle, Renaming, Says
  <2>4. QED BY <1>1, <2>2, <2>3, BusyStays
<1>3. CASE c.status = "error"
  BY <1>1, <1>3, BusySameNodes DEF Removed, Answered
<1>4. QED BY <1>2, <1>3 DEF Removed

(* What a page that shows the file it asked for lists are the nodes it     *)
(* just made.                                                              *)
LEMMA RefreshedAnew ==
  ASSUME Types, NamesOK, NEW c \in calls, Refreshed(c), c.status = "ok", Ordered'
  PROVE  /\ Refreshes(c)
         /\ DOMAIN OldState(c) = {}
         /\ \A o \in DOMAIN node : ~OldNodes(c)[o].drawn
<1>1. c.op = "refresh" /\ c.op \in NodeOps /\ c.who \in {0, 1}
  BY DEF Refreshed, NodeOps, Types, CallsTyped, CallOK
<1>2. Refreshes(c)
  BY <1>1 DEF Refreshed, Refreshes, ClearAborts, Ordered
<1>3. CASE c.who = 1
  BY <1>2, <1>3, Emptied DEF OldState, OldNodes, NamesOK
<1>4. CASE c.who = 0
  <2>1. RefreshFits(c)
    BY <1>1 DEF NamesOK, CallsFit, Fits
  <2>2. QED BY <1>2, <1>4, <2>1 DEF OldState, OldNodes, RefreshFits
<1>5. QED BY <1>1, <1>3, <1>4

LEMMA RefreshedBusy ==
  ASSUME Types, BusyOK, NamesOK, NEW c \in calls, Refreshed(c), Ordered' PROVE BusyOK'
<1>1. calls' = calls \ {c} /\ UNCHANGED <<feed, visiting, known>>
  BY DEF Refreshed, SamePage, server, Answered
<1>2. CASE c.status = "ok"
  <2>1. Refreshes(c) /\ DOMAIN OldState(c) = {}
    BY <1>2, RefreshedAnew
  <2>2. /\ ViewOK(c.view)
        /\ \A i \in DOMAIN Read(c.view) : node'[Len(node) + i] = Read(c.view)[i]
        /\ \A id : id \in DOMAIN state' <=>
             id \in DOMAIN OldState(c) \/ \E i \in DOMAIN Read(c.view) : Read(c.view)[i].id = id
        /\ \A i \in DOMAIN Read(c.view) : \E j \in DOMAIN Read(c.view) :
             Read(c.view)[j].id = Read(c.view)[i].id /\ state'[Read(c.view)[i].id] = Len(node) + j
    BY <2>1, RefreshedDoes
  <2>3. PICK view : view = c.view
    OBVIOUS
  <2>4. \A i \in DOMAIN Read(view) :
          /\ Read(view)[i].drawn /\ ~Read(view)[i].active /\ Read(view)[i].label = Read(view)[i].id
          /\ \E m \in view.nodes : m.name = Read(view)[i].id
    <3>1. ViewOK(view)
      BY <2>2, <2>3
    <3>2. QED BY <3>1, ReadIs
  <2>5. ASSUME NEW i \in DOMAIN state' PROVE ~node'[state'[i]].active
    <3>1. PICK j \in DOMAIN Read(view) : state'[i] = Len(node) + j
      BY <2>1, <2>2, <2>3
    <3>2. node'[state'[i]] = Read(view)[j]
      BY <2>2, <2>3, <3>1
    <3>3. QED BY <2>4, <3>2
  <2>6. \A d \in calls' : Renaming(d) => ~About(d.at)
    BY <1>1 DEF BusyOK, RenamedIdle
  <2>7. QED BY <1>1, <2>5, <2>6, BusyStays
<1>3. CASE c.status = "error"
  BY <1>1, <1>3, BusySameNodes DEF Refreshed
<1>4. QED BY <1>2, <1>3 DEF Refreshed

LEMMA AnswerBusy ==
  ASSUME Types, BusyOK, NamesOK, NEW c \in calls, Answer(c), Ordered' PROVE BusyOK'
<1>1. CASE Created(c) BY <1>1, CreatedBusy
<1>2. CASE Removed(c) BY <1>2, RemovedBusy
<1>3. CASE Renamed(c) BY <1>3, RenamedBusy
<1>4. CASE Refreshed(c) BY <1>4, RefreshedBusy
<1>5. UNCHANGED <<feed, visiting, known>>
  BY DEF Answer, Created, Positioned, Removed, Linked, Renamed, Refreshed, Acknowledged, SamePage, server
<1>6. ASSUME UNCHANGED <<node, state>>, \A d \in calls' : d \in calls \/ ~Renaming(d) PROVE BusyOK'
  BY <1>5, <1>6, BusySameNodes
<1>7. CASE Positioned(c)
  <2>1. \A d \in calls' : d \in calls \/ ~Renaming(d)
    BY <1>7, PositionedDoes DEF Says, Renaming
  <2>2. QED BY <1>6, <1>7, <2>1 DEF Positioned, page
<1>8. CASE Linked(c)
  <2>1. PICK a : a = c.who
    OBVIOUS
  <2>2. calls' = calls \ {c} \/ \E d : calls' = (calls \ {c}) \cup {d} /\ SaysDisconnect(d, a)
    BY <1>8, <2>1, LinkedDoes
  <2>3. \A d \in calls' : d \in calls \/ ~Renaming(d)
    BY <2>2 DEF SaysDisconnect, Says, Renaming
  <2>4. QED BY <1>6, <1>8, <2>3 DEF Linked
<1>9. CASE Acknowledged(c)
  BY <1>6, <1>9 DEF Acknowledged, Answered
<1>10. QED BY <1>1, <1>2, <1>3, <1>4, <1>7, <1>8, <1>9 DEF Answer

LEMMA BusyKeep == Types /\ Types' /\ NamesRight /\ BusyRight /\ [Next]_vars => BusyRight'
<1>1. SUFFICES ASSUME Types, Types', NamesRight, BusyRight, [Next]_vars, Unvisited', polling' PROVE BusyOK'
  BY DEF BusyRight
<1>2. crossed \subseteq crossed' /\ Ordered' /\ "visits" \notin crossed' /\ "missed" \notin crossed'
  BY <1>1, CrossedGrows DEF Unvisited, Ordered
<1>3. polling
  <2>1. Edit => polling' = polling
    BY EditOnlyPosts DEF feed
  <2>2. ASSUME NEW c \in calls, Serve(c) \/ Answer(c) \/ Fails(c) PROVE polling' = polling
    BY <1>1, <2>2, ServeLeaves, FailsDoes DEF Answer, Created, Positioned, Removed, Linked, Renamed,
       Refreshed, Acknowledged, SamePage, feed
  <2>3. Visits \/ LoadBehaviour \/ ProcessEvents \/ FetchEvents \/ UNCHANGED vars => polling' = polling
    BY <1>1, VisitsDo, LoadDoes, ProcessEventsDoes DEF FetchEvents, vars, feed
  <2>4. ~PollFails
    BY <1>1 DEF PollFails
  <2>5. QED BY <1>1, <2>1, <2>2, <2>3, <2>4 DEF Next, Visits
<1>4. BusyOK /\ NamesOK
  BY <1>1, <1>2, <1>3 DEF BusyRight, NamesRight, Ordered, Unvisited
<1>5. CASE Edit BY <1>1, <1>2, <1>4, <1>5, EditBusy
<1>6. ASSUME NEW c \in calls, Serve(c) \/ Answer(c) \/ Fails(c) PROVE BusyOK'
  BY <1>1, <1>2, <1>4, <1>6, ServeBusy, AnswerBusy, FailsBusy
<1>7. CASE Visits
  <2>1. CASE ExecEnds
    <3>1. UNCHANGED <<feed, visiting, known, state, node, calls>>
      BY <2>1 DEF ExecEnds, SameGraph, page, feed
    <3>2. QED BY <1>4, <3>1, BusySameNodes
  <2>2. QED BY <1>1, <1>2, <1>4, <1>7, <2>1, EnterNodeBusy, LeaveNodeBusy, PrintsBusy DEF Visits
<1>8. CASE FetchEvents BY <1>1, <1>4, <1>8, FetchBusy
<1>9. CASE ProcessEvents BY <1>1, <1>4, <1>9, ProcessEventsBusy DEF NamesOK
<1>10. ~PollFails /\ ~LoadBehaviour
  BY <1>1, <1>2, LoadDoes DEF PollFails, Ordered
<1>11. CASE UNCHANGED vars
  BY <1>4, <1>11, BusySameNodes DEF vars, page, server
<1>12. QED BY <1>1, <1>5, <1>6, <1>7, <1>8, <1>9, <1>10, <1>11 DEF Next, Visits

(* Once the executor is idle and the page has processed its events, no     *)
(* node is held busy, and so every one can be deleted again: unless the    *)
(* page gave up polling, an event was dropped, a node was renamed while    *)
(* one was visited, or edits overtook one another.                         *)
THEOREM EditorBusyIsExecuting == Spec => []BusyIsExecuting
<1>1. Init => BusyRight
  <2>1. SUFFICES ASSUME Init PROVE BusyOK
    BY DEF BusyRight
  <2>2. DOMAIN state = {} /\ DOMAIN Unread = {}
    <3>1. DOMAIN state = {} /\ events = <<>> /\ news = <<>>
      BY <2>1 DEF Init
    <3>2. QED BY <2>1, <3>1, TypesStart, EmptyUnread
  <2>3. \A c \in calls : c.op = "refresh"
    BY <2>1 DEF Init, Call
  <2>4. \A c \in calls : ~Renaming(c)
    BY <2>3 DEF Renaming
  <2>5. QED BY <2>2, <2>4 DEF BusyOK, BusyEnds, VisitsEnd, RenamedIdle
<1>2. Spec => []BusyRight
  BY <1>1, BusyKeep, TypesHold, NamesHold, PTL DEF Spec
<1>3. Types /\ BusyRight => BusyIsExecuting
  <2>1. SUFFICES ASSUME Types, BusyOK, visiting = 0, events = <<>>, news = <<>> PROVE Busy = {}
    BY DEF BusyRight, Unvisited, BusyIsExecuting
  <2>2. \A i : ~Ends(i, 0)
    BY <2>1, EmptyUnread DEF Ends, Executing
  <2>3. QED BY <2>1, <2>2 DEF BusyOK, BusyEnds, Busy
<1>4. QED BY <1>2, <1>3, TypesHold, PTL

-----------------------------------------------------------------------------
(* What the page and the server have in common: as long as no call fails   *)
(* on the way, a node of the page is drawn and one of the server, or the   *)
(* call that makes, removes or renames it is under way; and a node of the  *)
(* server is one of the page, or the answer that says so is.  The server   *)
(* refuses only what was removed before.                                   *)
Creating(i) == \E c \in calls : c.op = "create" /\ c.at = i
Going(i) == \E c \in calls : c.op \in {"remove", "rename"} /\ c.status = "ok" /\ c.at = i
Tells(c, x) ==
  \/ c.op = "create" /\ c.status = "ok" /\ c.name = x
  \/ c.op = "rename" /\ c.status = "ok" /\ c.to = x
  \/ c.op = "clear" /\ c.status = "sent"
  \/ c.op = "refresh"
RefusedGone ==
  \A c \in calls : c.op \in NodeOps /\ c.status = "error" =>
    c.op \in {"remove", "rename"} /\ c.at \notin LiveNames
ListedKnown ==
  \A i \in DOMAIN state : Creating(i) \/ (state[i] \in Drawn /\ (i \in LiveNames \/ Going(i)))
LiveListed == \A x \in LiveNames : x \in DOMAIN state \/ \E c \in calls : Tells(c, x)
AgreeOK == RefusedGone /\ ListedKnown /\ LiveListed
Reliable == Ordered /\ ~lossy /\ alive
AgreeRight == Reliable => AgreeOK

(* The calls by which the two differ.                                      *)
Counts(c) ==
  \/ c.op \in {"create", "refresh"} \/ (c.op \in {"remove", "rename"} /\ c.status = "ok")
  \/ (c.op = "clear" /\ c.status = "sent")

LEMMA CountsIs ==
  /\ \A c, x : Tells(c, x) => Counts(c)
  /\ \A c : c.op = "create" \/ (c.op \in {"remove", "rename"} /\ c.status = "ok") => Counts(c)
BY DEF Tells, Counts

LEMMA AgreeStays ==
  ASSUME Types, Types', AgreeOK, SameIds,
         \A c \in calls : Counts(c) => c \in calls',
         \A c \in calls' : c.op \in NodeOps /\ c.status = "error" =>
           c \in calls \/ (c.op \in {"remove", "rename"} /\ c.at \notin LiveNames)
  PROVE  AgreeOK'
<1>1. LiveNames' = LiveNames /\ \A o : o \in Drawn' <=> o \in Drawn
  BY IdsStay
<1>2. state' = state
  BY DEF SameIds
<1>3. \A i : (Creating(i) => Creating(i)') /\ (Going(i) => Going(i)')
  BY CountsIs DEF Creating, Going
<1>4. RefusedGone'
  BY <1>1 DEF AgreeOK, RefusedGone
<1>5. ListedKnown'
  BY <1>1, <1>2, <1>3 DEF AgreeOK, ListedKnown
<1>6. LiveListed'
  <2>1. \A x : (\E c \in calls : Tells(c, x)) => \E c \in calls' : Tells(c, x)
    BY CountsIs
  <2>2. QED BY <1>1, <1>2, <2>1 DEF AgreeOK, LiveListed, Tells
<1>7. QED BY <1>4, <1>5, <1>6 DEF AgreeOK

LEMMA AddNodeMakes ==
  ASSUME Types, NEW k \in Kinds, AddNode(k)
  PROVE  \E id, o :
           /\ o \notin DOMAIN node /\ DOMAIN node' = DOMAIN node \cup {o}
           /\ \A p \in DOMAIN node : node'[p] = node[p]
           /\ ~node'[o].drawn
           /\ DOMAIN state' = DOMAIN state \cup {id} /\ state'[id] = o
           /\ \A i \in DOMAIN state : i # id => state'[i] = state[i]
           /\ calls \subseteq calls'
           /\ \A c \in calls' : \/ c \in calls \/ Says(c, "stop", 0, NoName, NoName)
                                \/ Says(c, "create", o, id, NoName)
           /\ \E n \in calls' : Says(n, "create", o, id, NoName)
           /\ crossed' = crossed \cup Clash("create", id, NoName) \cup Reused(id)
<1> DEFINE id == TempId[k][count + 1]
           o == Len(node) + 1
<1>1. /\ o \notin DOMAIN node /\ DOMAIN node' = DOMAIN node \cup {o}
      /\ \A p \in DOMAIN node : node'[p] = node[p]
      /\ node'[o] = [id |-> id, kind |-> k, active |-> FALSE, drawn |-> FALSE, label |-> NoName]
      /\ DOMAIN state' = DOMAIN state \cup {id} /\ state'[id] = o
      /\ \A i \in DOMAIN state : i # id => state'[i] = state[i]
      /\ calls \subseteq calls'
      /\ \A c \in calls' : \/ c \in calls \/ Says(c, "stop", 0, NoName, NoName)
                           \/ Says(c, "create", o, id, NoName)
      /\ \E n \in calls' : Says(n, "create", o, id, NoName)
  BY AddNodeDoes
<1>2. crossed' = crossed \cup Clash("create", id, NoName) \cup Reused(id)
  BY DEF AddNode
<1> HIDE DEF id, o
<1>3. QED BY <1>1, <1>2

LEMMA AddNodeAgree ==
  ASSUME Types, Types', AgreeOK, NEW k \in Kinds, AddNode(k) PROVE AgreeOK'
<1>1. PICK id, o :
        /\ o \notin DOMAIN node /\ DOMAIN node' = DOMAIN node \cup {o}
        /\ \A p \in DOMAIN node : node'[p] = node[p]
        /\ DOMAIN state' = DOMAIN state \cup {id}
        /\ \A i \in DOMAIN state : i # id => state'[i] = state[i]
        /\ calls \subseteq calls'
        /\ \A c \in calls' : \/ c \in calls \/ Says(c, "stop", 0, NoName, NoName)
                             \/ Says(c, "create", o, id, NoName)
        /\ \E n \in calls' : Says(n, "create", o, id, NoName)
  BY AddNodeMakes
<1>2. LiveNames' = LiveNames
  BY DEF AddNode, SameServer, server, LiveNames
<1>3. \A p \in Drawn : p \in Drawn'
  BY <1>1, DrawnIs, DrawnNext DEF Types
<1>4. Creating(id)' /\ \A i : (Creating(i) => Creating(i)') /\ (Going(i) => Going(i)')
  BY <1>1 DEF Creating, Going, Says
<1>5. RefusedGone'
  BY <1>1, <1>2 DEF AgreeOK, RefusedGone, Says
<1>6. ListedKnown'
  BY <1>1, <1>2, <1>3, <1>4 DEF AgreeOK, ListedKnown
<1>7. LiveListed'
  BY <1>1, <1>2 DEF AgreeOK, LiveListed, Tells
<1>8. QED BY <1>5, <1>6, <1>7 DEF AgreeOK

LEMMA SameDrawing ==
  ASSUME UNCHANGED <<node, state, known, live>> PROVE SameIds
BY DEF SameIds

LEMMA EditAgree ==
  ASSUME Types, Types', AgreeOK, Placed, Shown, Edit, Ordered' PROVE AgreeOK'
<1>1. UNCHANGED <<known, live>> /\ calls \subseteq calls'
  BY EditOnlyPosts DEF server
<1>2. ASSUME UNCHANGED <<node, state>>, \A c \in calls' : c \in calls \/ c.status = "sent" PROVE AgreeOK'
  <2>1. SameIds
    BY <1>1, <1>2, SameDrawing
  <2>2. \A c \in calls : Counts(c) => c \in calls'
    BY <1>1
  <2>3. \A c \in calls' : c.op \in NodeOps /\ c.status = "error" =>
          c \in calls \/ (c.op \in {"remove", "rename"} /\ c.at \notin LiveNames)
    BY <1>2
  <2>4. QED BY <2>1, <2>2, <2>3, AgreeStays
<1>3. ASSUME NEW k \in Kinds, AddNode(k) PROVE AgreeOK'
  BY <1>3, AddNodeAgree
<1>4. ASSUME NEW o \in Drawn, DeleteNode(o) PROVE AgreeOK'
  <2>1. o \in DOMAIN node
    BY DrawnIs DEF Types
  <2>2. \A c \in calls' : c \in calls \/ c.status = "sent"
    BY <1>4, <2>1, PostDeleteDoes DEF DeleteNode, SaysDisconnect, Says
  <2>3. QED BY <1>2, <1>4, <2>2 DEF DeleteNode
<1>5. ASSUME NEW o \in Drawn, NEW new \in GivenNames, SetName(o, new) PROVE AgreeOK'
  <2>1. \A c \in calls' : c \in calls \/ c.status = "sent"
    BY <1>5, SetNameDoes DEF Says
  <2>2. QED BY <1>2, <1>5, <2>1 DEF SetName, page
<1>6. ASSUME NEW f \in Drawn, NEW g \in Drawn, Connect(f, g) PROVE AgreeOK'
  <2>1. \A c \in calls' : \/ c \in calls \/ Says(c, "stop", 0, NoName, NoName)
                           \/ Says(c, "connect", Len(arrow) + 1, node[f].id, node[g].id)
    BY <1>6, ConnectDoes
  <2>2. \A c \in calls' : c \in calls \/ c.status = "sent"
    BY <2>1 DEF Says
  <2>3. QED BY <1>2, <1>6, <2>2 DEF Connect
<1>7. ASSUME NEW f \in Drawn, NEW g \in Drawn, Disconnect(f, g) PROVE AgreeOK'
  <2>1. \A c \in calls' : c \in calls \/ c.status = "sent"
    BY <1>7, DisconnectDoes DEF SaysDisconnect, Says
  <2>2. QED BY <1>2, <1>7, <2>1 DEF Disconnect, page
<1>8. CASE NewBehaviour
  <2>1. Busy = {}
    BY <1>8 DEF NewBehaviour, ClearAborts, Ordered
  <2>2. /\ state' = StateWithout(DOMAIN state)
        /\ \A c \in calls' : \/ c \in calls \/ Says(c, "stop", 0, NoName, NoName)
                             \/ Says(c, "clear", 0, NoName, NoName)
        /\ \E n \in calls' : Says(n, "clear", 0, NoName, NoName)
        /\ crossed' = crossed \cup Clash("clear", NoName, NoName)
    BY <1>8, <2>1, NewBehaviourDoes
  <2>3. \A c \in calls : c.op \notin NodeOps
    <3>1. "nodes" \notin Clash("clear", NoName, NoName)
      BY <2>2 DEF Ordered
    <3>2. QED BY <3>1, NoClash DEF NodeOps
  <2>4. RefusedGone'
    BY <2>2, <2>3 DEF RefusedGone, Says
  <2>5. ListedKnown'
    BY <2>2, Emptied DEF ListedKnown
  <2>6. LiveListed'
    BY <2>2 DEF LiveListed, Tells, Says
  <2>7. QED BY <2>4, <2>5, <2>6 DEF AgreeOK
<1>9. CASE Refresh
  <2>1. \A c \in calls' : c \in calls \/ c.status = "sent"
    BY <1>9, RefreshDoes DEF Says
  <2>2. QED BY <1>2, <1>9, <2>1 DEF Refresh, page
<1>10. CASE StartStop
  <2>1. \A c \in calls' : c \in calls \/ c.status = "sent"
    BY <1>10, StartStopDoes DEF Says
  <2>2. QED BY <1>2, <1>10, <2>1 DEF StartStop, page
<1>11. QED BY <1>3, <1>4, <1>5, <1>6, <1>7, <1>8, <1>9, <1>10 DEF Edit

(* What the server does to its names.                                      *)
CallReplied(c, s) == \E r : calls' = (calls \ {c}) \cup {r} /\ IsReply(r, c, s, c.name, c.view)

LEMMA CreateServed ==
  ASSUME Types, NEW c \in calls, ServeCreate(c)
  PROVE  \E name \in Names :
           /\ c.op = "create" /\ c.status = "sent" /\ UNCHANGED <<node, state, visiting, lossy>>
           /\ \E r : calls' = (calls \ {c}) \cup {r} /\ IsReply(r, c, "ok", name, c.view)
           /\ \A x : x \in LiveNames' <=> x \in LiveNames \/ x = name
           /\ crossed' = crossed \cup Reused(name)
<1>1. PICK name \in Names :
        /\ c.op = "create" /\ c.status = "sent" /\ crossed' = crossed \cup Reused(name)
        /\ \A n \in DOMAIN known : known'[n] = known[n]
        /\ known'[Len(known) + 1].name = name
        /\ live' = live \cup {Len(known) + 1}
        /\ \E r : calls' = (calls \ {c}) \cup {r} /\ IsReply(r, c, "ok", name, c.view)
  BY ServeCreateDoes
<1>2. live \subseteq DOMAIN known
  BY DEF Types, KnownTyped
<1>3. \A x : x \in LiveNames' <=> x \in LiveNames \/ x = name
  BY <1>1, <1>2 DEF LiveNames
<1>4. UNCHANGED <<node, state, visiting, lossy>>
  BY ServeLeaves DEF Serve, page, bounds
<1>5. QED BY <1>1, <1>3, <1>4

LEMMA RemoveServed ==
  ASSUME Types, NamedOnce, NEW c \in calls, ServeRemove(c)
  PROVE  /\ c.op = "remove" /\ c.status = "sent" /\ UNCHANGED <<node, state, known, lossy>>
         /\ \/ CallReplied(c, "error") /\ live' = live /\ c.at \notin LiveNames
            \/ CallReplied(c, "error") /\ live' = live /\ ~alive' /\ "removal" \in crossed'
            \/ /\ CallReplied(c, "ok") /\ c.at \in LiveNames
               /\ \A x : x \in LiveNames' <=> x \in LiveNames /\ x # c.at
<1>1. c.op = "remove" /\ c.status = "sent" /\ UNCHANGED <<node, state, known, lossy>>
  BY DEF ServeRemove, Serving, SameRun, page, bounds
<1>2. CASE Named(c.at) = {} /\ Reply(c, "error") /\ UNCHANGED live
  <2>1. CallReplied(c, "error")
    BY <1>2, StatusReply DEF Types, CallReplied
  <2>2. QED BY <1>1, <1>2, <2>1 DEF Named, LiveNames
<1>3. CASE \E n \in Named(c.at) : live' = live \ {n} /\ Reply(c, "ok")
  <2>1. PICK n \in Named(c.at) : live' = live \ {n} /\ Reply(c, "ok")
    BY <1>3
  <2>2. CallReplied(c, "ok")
    BY <1>1, <2>1, StatusReply DEF Types, CallReplied
  <2>3. n \in live /\ known[n].name = c.at /\ c.at \in LiveNames
    BY DEF Named, LiveNames
  <2>4. \A x : x \in LiveNames' <=> x \in LiveNames /\ x # c.at
    BY <1>1, <2>1, <2>3 DEF LiveNames, NamedOnce
  <2>5. QED BY <1>1, <2>2, <2>3, <2>4
<1>4. CASE Reply(c, "error") /\ UNCHANGED live /\ alive' = FALSE /\ "removal" \in crossed'
  <2>1. CallReplied(c, "error")
    BY <1>4, StatusReply DEF Types, CallReplied
  <2>2. ~alive'
    BY <1>4, Zenon
  <2>3. QED BY <1>1, <1>4, <2>1, <2>2, Zenon
<1>5. \/ Named(c.at) = {} /\ Reply(c, "error") /\ UNCHANGED live
      \/ \E n \in Named(c.at) : live' = live \ {n} /\ Reply(c, "ok")
      \/ Reply(c, "error") /\ UNCHANGED live /\ alive' = FALSE /\ "removal" \in crossed'
  BY DEF ServeRemove
<1>6. QED BY <1>2, <1>3, <1>4, <1>5

LEMMA RenameServed ==
  ASSUME Types, NamesOK, NEW c \in calls, ServeRename(c)
  PROVE  /\ c.op = "rename" /\ c.status = "sent" /\ UNCHANGED <<node, state, live, lossy>>
         /\ \/ CallReplied(c, "error") /\ known' = known /\ c.at \notin LiveNames
            \/ /\ CallReplied(c, "ok") /\ c.at \in LiveNames
               /\ \A x : x \in LiveNames' <=> (x \in LiveNames /\ x # c.at) \/ x = c.to
<1>1. c.op = "rename" /\ c.status = "sent" /\ UNCHANGED <<node, state, live, lossy>>
  BY ServeRenameDoes DEF page, ServeRename, bounds
<1>2. CASE Named(c.at) = {} /\ known' = known /\ CallReplied(c, "error")
  BY <1>1, <1>2 DEF Named, LiveNames
<1>3. CASE \E n \in Named(c.at) :
             /\ \A m \in DOMAIN known : m # n => known'[m] = known[m]
             /\ known'[n].name = (IF c.to = NullName THEN EmptyName ELSE c.to)
             /\ CallReplied(c, "ok")
  <2>1. PICK n \in Named(c.at) :
             /\ \A m \in DOMAIN known : m # n => known'[m] = known[m]
             /\ known'[n].name = (IF c.to = NullName THEN EmptyName ELSE c.to)
             /\ CallReplied(c, "ok")
    BY <1>3
  <2>2. c.to # NullName
    BY <1>1 DEF NamesOK, CallsFit, Fits, RenameFits, NodeOps
  <2>3. known'[n].name = c.to
    BY <2>1, <2>2
  <2>4. n \in live /\ known[n].name = c.at /\ c.at \in LiveNames /\ live \subseteq DOMAIN known
    BY DEF Named, LiveNames, Types, KnownTyped
  <2>5. \A x : x \in LiveNames' <=> (x \in LiveNames /\ x # c.at) \/ x = c.to
    BY <1>1, <2>1, <2>3, <2>4 DEF LiveNames, NamesOK, NamedOnce
  <2>6. QED BY <1>1, <2>1, <2>4, <2>5
<1>4. QED BY <1>2, <1>3, ServeRenameDoes DEF CallReplied

(* A reply about nodes that changes no name: it was refused, or it says    *)
(* what is in the file.                                                    *)
LEMMA RepliedAgree ==
  ASSUME Types, Types', AgreeOK, UNCHANGED <<node, state, known, live>>, NEW c \in calls, NEW s, NEW m, NEW v, NEW r,
         calls' = (calls \ {c}) \cup {r}, IsReply(r, c, s, m, v), ~Counts(c),
         c.op \in NodeOps /\ s = "error" => c.op \in {"remove", "rename"} /\ c.at \notin LiveNames
  PROVE  AgreeOK'
<1>1. SameIds
  BY SameDrawing
<1>2. \A d \in calls : Counts(d) => d \in calls'
  OBVIOUS
<1>3. r.op = c.op /\ r.status = s /\ r.at = c.at
  BY DEF IsReply
<1>4. \A d \in calls' : d.op \in NodeOps /\ d.status = "error" =>
          d \in calls \/ (d.op \in {"remove", "rename"} /\ d.at \notin LiveNames)
  BY <1>3
<1>5. QED BY <1>1, <1>2, <1>4, AgreeStays

LEMMA ServeCreateAgree ==
  ASSUME Types, Types', AgreeOK, NEW c \in calls, ServeCreate(c), Ordered' PROVE AgreeOK'
<1>1. PICK name \in Names :
        /\ c.op = "create" /\ c.status = "sent" /\ UNCHANGED <<node, state>>
        /\ \E r : calls' = (calls \ {c}) \cup {r} /\ IsReply(r, c, "ok", name, c.view)
        /\ \A x : x \in LiveNames' <=> x \in LiveNames \/ x = name
        /\ crossed' = crossed \cup Reused(name)
  BY CreateServed
<1>2. PICK r : calls' = (calls \ {c}) \cup {r} /\ IsReply(r, c, "ok", name, c.view)
  BY <1>1
<1>3. r.op = "create" /\ r.status = "ok" /\ r.at = c.at /\ r.name = name
  BY <1>1, <1>2 DEF IsReply
<1>4. \A i : (Creating(i) => Creating(i)') /\ (Going(i) => Going(i)')
  BY <1>1, <1>2, <1>3 DEF Creating, Going
<1>5. RefusedGone'
  <2>1. "nodes" \notin Reused(name)
    BY <1>1 DEF Ordered
  <2>2. \A d \in calls : d.at # name
    BY <2>1, NotReused
  <2>3. QED BY <1>1, <1>2, <1>3, <2>2 DEF AgreeOK, RefusedGone
<1>6. ListedKnown'
  BY <1>1, <1>4 DEF AgreeOK, ListedKnown, Drawn
<1>7. LiveListed'
  <2>1. \A x : Tells(c, x) => FALSE
    BY <1>1 DEF Tells
  <2>2. Tells(r, name)
    BY <1>3 DEF Tells
  <2>3. QED BY <1>1, <1>2, <2>1, <2>2 DEF AgreeOK, LiveListed, Tells
<1>8. QED BY <1>5, <1>6, <1>7 DEF AgreeOK

LEMMA ServeRemoveAgree ==
  ASSUME Types, Types', AgreeOK, NamesOK, NEW c \in calls, ServeRemove(c), alive' PROVE AgreeOK'
<1>1. c.op = "remove" /\ c.status = "sent" /\ UNCHANGED <<node, state, known>> /\ ~Counts(c)
  BY RemoveServed DEF NamesOK, Counts
<1>2. CASE CallReplied(c, "error") /\ live' = live /\ c.at \notin LiveNames
  BY <1>1, <1>2, RepliedAgree DEF CallReplied
<1>3. CASE /\ CallReplied(c, "ok") /\ c.at \in LiveNames
           /\ \A x : x \in LiveNames' <=> x \in LiveNames /\ x # c.at
  <2>1. PICK r : calls' = (calls \ {c}) \cup {r} /\ IsReply(r, c, "ok", c.name, c.view)
    BY <1>3 DEF CallReplied
  <2>2. r.op = "remove" /\ r.status = "ok" /\ r.at = c.at
    BY <1>1, <2>1 DEF IsReply
  <2>3. Going(c.at)' /\ \A i : (Creating(i) => Creating(i)') /\ (Going(i) => Going(i)')
    <3>1. \E d \in calls' : d.op \in {"remove", "rename"} /\ d.status = "ok" /\ d.at = c.at
      BY <2>1, <2>2
    <3>2. QED BY <1>1, <2>1, <3>1 DEF Creating, Going
  <2>4. RefusedGone'
    BY <1>3, <2>1, <2>2 DEF AgreeOK, RefusedGone
  <2>5. ListedKnown'
    BY <1>1, <1>3, <2>3 DEF AgreeOK, ListedKnown, Drawn
  <2>6. LiveListed'
    <3>1. \A x : ~Tells(c, x)
      BY <1>1 DEF Tells
    <3>2. QED BY <1>1, <1>3, <2>1, <3>1 DEF AgreeOK, LiveListed, Tells
  <2>7. QED BY <2>4, <2>5, <2>6 DEF AgreeOK
<1>4. QED BY <1>2, <1>3, RemoveServed DEF NamesOK

LEMMA ServeRenameAgree ==
  ASSUME Types, Types', AgreeOK, NamesOK, NEW c \in calls, ServeRename(c) PROVE AgreeOK'
<1>1. c.op = "rename" /\ c.status = "sent" /\ UNCHANGED <<node, state, live>> /\ ~Counts(c)
  BY RenameServed DEF Counts
<1>2. CASE CallReplied(c, "error") /\ known' = known /\ c.at \notin LiveNames
  BY <1>1, <1>2, RepliedAgree DEF CallReplied
<1>3. CASE /\ CallReplied(c, "ok") /\ c.at \in LiveNames
           /\ \A x : x \in LiveNames' <=> (x \in LiveNames /\ x # c.at) \/ x = c.to
  <2>1. PICK r : calls' = (calls \ {c}) \cup {r} /\ IsReply(r, c, "ok", c.name, c.view)
    BY <1>3 DEF CallReplied
  <2>2. r.op = "rename" /\ r.status = "ok" /\ r.at = c.at /\ r.to = c.to
    BY <1>1, <2>1 DEF IsReply
  <2>3. Going(c.at)' /\ \A i : (Creating(i) => Creating(i)') /\ (Going(i) => Going(i)')
    <3>1. \E d \in calls' : d.op \in {"remove", "rename"} /\ d.status = "ok" /\ d.at = c.at
      BY <2>1, <2>2
    <3>2. QED BY <1>1, <2>1, <3>1 DEF Creating, Going
  <2>4. RefusedGone'
    <3>1. \A d \in calls \ {c} : d.op \in NodeOps => d.at # c.to
      BY <1>1 DEF NamesOK, CallsApart, KeptApart, NodeOps
    <3>2. QED BY <1>3, <2>1, <2>2, <3>1 DEF AgreeOK, RefusedGone
  <2>5. ListedKnown'
    BY <1>1, <1>3, <2>3 DEF AgreeOK, ListedKnown, Drawn
  <2>6. LiveListed'
    <3>1. \A x : ~Tells(c, x)
      BY <1>1 DEF Tells
    <3>2. Tells(r, c.to)
      BY <2>2 DEF Tells
    <3>3. QED BY <1>1, <1>3, <2>1, <3>1, <3>2 DEF AgreeOK, LiveListed, Tells
  <2>7. QED BY <2>4, <2>5, <2>6 DEF AgreeOK
<1>4. QED BY <1>2, <1>3, RenameServed

LEMMA ServeAgree ==
  ASSUME Types, Types', AgreeOK, NamesOK, NEW c \in calls, Serve(c), Ordered', alive' PROVE AgreeOK'
<1>1. CASE ServeCreate(c) BY <1>1, ServeCreateAgree
<1>2. CASE ServeRemove(c) BY <1>2, ServeRemoveAgree
<1>3. CASE ServeRename(c) BY <1>3, ServeRenameAgree
<1>4. CASE ServeClear(c)
  <2>1. c.op = "clear" /\ c.op \in NodeOps /\ live' = {} /\ UNCHANGED page
    BY <1>4, ServeClearDoes DEF NodeOps
  <2>2. PICK r : calls' = (calls \ {c}) \cup {r} /\ IsReply(r, c, "ok", c.name, c.view)
    BY <1>4, ServeClearDoes
  <2>3. \A d \in calls' : d.op \in NodeOps => d = r
    BY <2>1, <2>2 DEF NamesOK, CallsApart, KeptApart
  <2>4. r.status = "ok"
    BY <2>2 DEF IsReply
  <2>5. DOMAIN state' = {}
    BY <2>1 DEF NamesOK, CallsFit, Fits, ClearFits, page
  <2>6. LiveNames' = {}
    BY <2>1 DEF LiveNames
  <2>7. QED BY <2>3, <2>4, <2>5, <2>6 DEF AgreeOK, RefusedGone, ListedKnown, LiveListed
<1>5. CASE ServeFile(c) /\ c.op = "refresh"
  <2>1. UNCHANGED <<node, state, known, live>>
    BY <1>5, ServeFileDoes DEF page
  <2>2. PICK r, v : calls' = (calls \ {c}) \cup {r} /\ IsReply(r, c, "ok", c.name, v)
    BY <1>5, ServeFileDoes
  <2>3. r.op = "refresh" /\ r.status = "ok"
    BY <1>5, <2>2 DEF IsReply
  <2>4. RefusedGone'
    BY <2>1, <2>2, <2>3 DEF AgreeOK, RefusedGone, LiveNames
  <2>5. \A i : (Creating(i) => Creating(i)') /\ (Going(i) => Going(i)')
    BY <1>5, <2>2 DEF Creating, Going
  <2>6. ListedKnown'
    BY <2>1, <2>5 DEF AgreeOK, ListedKnown, LiveNames, Drawn
  <2>7. LiveListed'
    BY <2>2, <2>3 DEF LiveListed, Tells
  <2>8. QED BY <2>4, <2>6, <2>7 DEF AgreeOK
<1>6. CASE ServeFile(c) /\ c.op # "refresh"
  <2>1. UNCHANGED <<node, state, known, live>> /\ c.op \in {"save", "run", "stop"}
    BY <1>6, ServeFileDoes DEF page
  <2>2. PICK r, v : calls' = (calls \ {c}) \cup {r} /\ IsReply(r, c, "ok", c.name, v)
    BY <1>6, ServeFileDoes
  <2>3. ~Counts(c)
    BY <2>1 DEF Counts
  <2>4. QED BY <2>1, <2>2, <2>3, RepliedAgree
<1>7. CASE ServePosition(c) \/ ServeConnect(c) \/ ServeDisconnect(c)
  <2>1. /\ c.op \in {"position", "connect", "disconnect"} /\ UNCHANGED <<node, state, known, live>>
        /\ \E s \in {"ok", "error"} : Reply(c, s)
    BY <1>7 DEF ServePosition, ServeConnect, ServeDisconnect, Serving, SameRun, page
  <2>2. PICK r, s : calls' = (calls \ {c}) \cup {r} /\ IsReply(r, c, s, c.name, c.view)
    BY <2>1, StatusReply DEF Types
  <2>3. ~Counts(c) /\ c.op \notin NodeOps
    BY <2>1 DEF Counts, NodeOps
  <2>4. QED BY <2>1, <2>2, <2>3, RepliedAgree
<1>8. CASE DiskStep(c)
  <2>1. UNCHANGED <<node, state, known, live, calls>>
    BY <1>8, DiskStepDoes DEF page
  <2>2. SameIds
    BY <2>1, SameDrawing
  <2>3. QED BY <2>1, <2>2, AgreeStays
<1>9. QED BY <1>1, <1>2, <1>3, <1>4, <1>5, <1>6, <1>7, <1>8 DEF Serve, ServeFile, DiskStep

(* The answer to a creation or a renaming: the node is the page's under    *)
(* its new name, as it is the server's.                                    *)
LEMMA AdoptedAgree ==
  ASSUME Types, Types', AgreeOK, NEW c \in calls, c.op \in {"create", "rename"}, NEW o, NEW new,
         c.at \notin LiveNames, new \in LiveNames, \A x : Tells(c, x) => x = new,
         UNCHANGED <<known, live>>, \A p \in Drawn : p \in Drawn', o \in Drawn',
         DOMAIN state' = (DOMAIN state \ {c.at}) \cup {new}, state'[new] = o,
         \A i \in DOMAIN state \ {c.at} : i # new => state'[i] = state[i],
         calls \ {c} \subseteq calls', \A d \in calls' : d.op \in NodeOps => d \in calls
  PROVE  AgreeOK'
<1>1. LiveNames' = LiveNames
  BY DEF LiveNames
<1>2. \A i : i # c.at => (Creating(i) => Creating(i)') /\ (Going(i) => Going(i)')
  BY DEF Creating, Going
<1>3. RefusedGone'
  BY <1>1 DEF AgreeOK, RefusedGone
<1>4. ListedKnown'
  BY <1>1, <1>2 DEF AgreeOK, ListedKnown
<1>5. LiveListed'
  <2>1. SUFFICES ASSUME NEW x \in LiveNames, x \notin DOMAIN state' PROVE \E d \in calls' : Tells(d, x)
    BY <1>1 DEF LiveListed, Tells
  <2>2. x \notin DOMAIN state /\ x # new
    BY <2>1
  <2>3. PICK d \in calls : Tells(d, x)
    BY <2>2 DEF AgreeOK, LiveListed
  <2>4. d # c
    BY <2>2, <2>3
  <2>5. QED BY <2>3, <2>4
<1>6. QED BY <1>3, <1>4, <1>5 DEF AgreeOK

LEMMA CreatedAgree ==
  ASSUME Types, Types', AgreeOK, NamesOK, NEW c \in calls, Created(c) PROVE AgreeOK'
<1>1. c.op = "create" /\ c.op \in NodeOps /\ UNCHANGED <<known, live>>
  BY DEF Created, SamePage, server, NodeOps
<1>2. c.status = "ok"
  BY <1>1 DEF Created, AgreeOK, RefusedGone
<1>3. CreateFits(c) /\ node[c.who].id = c.at
  BY <1>1 DEF NamesOK, CallsFit, Fits, CreateFits, Placed, Lists
<1>4. /\ c.who \in DOMAIN node /\ c.name \in Names /\ DOMAIN node' = DOMAIN node
      /\ \A p \in DOMAIN node : p # c.who => node'[p] = node[p]
      /\ node'[c.who].drawn
      /\ DOMAIN state' = (DOMAIN state \ {node[c.who].id}) \cup {c.name} /\ state'[c.name] = c.who
      /\ \A i \in DOMAIN state \ {node[c.who].id} : i # c.name => state'[i] = state[i]
      /\ \E p : calls' = (calls \ {c}) \cup {p} /\ Says(p, "position", c.who, c.name, NoName)
  BY <1>2, CreatedDoes
<1>5. c.name \in LiveNames /\ c.at \notin LiveNames
  BY <1>3, <1>4, NamesAssumption DEF CreateFits
<1>6. c.who \in Drawn' /\ \A p \in Drawn : p \in Drawn'
  BY <1>4, DrawnIs, DrawnNext DEF Types
<1>7. calls \ {c} \subseteq calls' /\ \A d \in calls' : d.op \in NodeOps => d \in calls
  BY <1>4 DEF Says, NodeOps
<1>8. PICK o, new : o = c.who /\ new = c.name
  OBVIOUS
<1>9. \A x : Tells(c, x) => x = new
  BY <1>1, <1>8 DEF Tells
<1>10. /\ new \in LiveNames /\ o \in Drawn'
       /\ DOMAIN state' = (DOMAIN state \ {c.at}) \cup {new} /\ state'[new] = o
       /\ \A i \in DOMAIN state \ {c.at} : i # new => state'[i] = state[i]
  BY <1>3, <1>4, <1>5, <1>6, <1>8
<1>11. c.op \in {"create", "rename"}
  BY <1>1
<1>12. QED BY <1>1, <1>5, <1>6, <1>7, <1>9, <1>10, <1>11, AdoptedAgree

LEMMA AnsweredAgree ==
  ASSUME Types, Types', AgreeOK, UNCHANGED <<node, state, known, live>>, NEW c \in calls, ~Counts(c),
         calls \ {c} \subseteq calls', \A d \in calls' : d.op \in NodeOps => d \in calls
  PROVE  AgreeOK'
<1>1. SameIds
  BY SameDrawing
<1>2. \A d \in calls : Counts(d) => d \in calls'
  OBVIOUS
<1>3. \A d \in calls' : d.op \in NodeOps /\ d.status = "error" =>
          d \in calls \/ (d.op \in {"remove", "rename"} /\ d.at \notin LiveNames)
  OBVIOUS
<1>4. QED BY <1>1, <1>2, <1>3, AgreeStays

LEMMA RenamedAgree ==
  ASSUME Types, Types', AgreeOK, NamesOK, NEW c \in calls, Renamed(c) PROVE AgreeOK'
<1>1. c.op = "rename" /\ UNCHANGED <<known, live>> /\ calls' = calls \ {c}
  BY DEF Renamed, SamePage, server, Answered
<1>2. CASE c.status = "ok"
  <2>1. RenameFits(c) /\ node[c.who].id = c.at
    BY <1>1, <1>2 DEF NamesOK, CallsFit, Fits, RenameFits, NodeOps, Placed, Lists
  <2>2. /\ c.who \in DOMAIN node /\ DOMAIN node' = DOMAIN node
        /\ \A p \in DOMAIN node : node'[p].drawn = node[p].drawn
        /\ DOMAIN state' = (DOMAIN state \ {node[c.who].id}) \cup {c.to} /\ state'[c.to] = c.who
        /\ \A i \in DOMAIN state \ {node[c.who].id} : i # c.to => state'[i] = state[i]
    BY <1>2, RenamedDoes
  <2>3. c.to \in LiveNames /\ c.at \notin LiveNames /\ c.who \in Drawn
    BY <1>2, <2>1 DEF RenameFits
  <2>4. c.who \in Drawn' /\ \A p \in Drawn : p \in Drawn'
    BY <2>2, <2>3, DrawnIs, DrawnNext DEF Types
  <2>5. PICK o, new : o = c.who /\ new = c.to
    OBVIOUS
  <2>6. \A x : Tells(c, x) => x = new
    BY <1>1, <2>5 DEF Tells
  <2>7. /\ new \in LiveNames /\ o \in Drawn'
        /\ DOMAIN state' = (DOMAIN state \ {c.at}) \cup {new} /\ state'[new] = o
        /\ \A i \in DOMAIN state \ {c.at} : i # new => state'[i] = state[i]
    BY <2>1, <2>2, <2>3, <2>4, <2>5
  <2>8. /\ c.op \in {"create", "rename"}
        /\ calls \ {c} \subseteq calls' /\ \A d \in calls' : d.op \in NodeOps => d \in calls
    BY <1>1
  <2>9. QED BY <1>1, <2>3, <2>4, <2>6, <2>7, <2>8, AdoptedAgree
<1>3. CASE c.status = "error" /\ UNCHANGED <<node, state>>
  <2>1. ~Counts(c)
    BY <1>1, <1>3 DEF Counts
  <2>2. QED BY <1>1, <1>3, <2>1, AnsweredAgree
<1>4. QED BY <1>2, <1>3 DEF Renamed

LEMMA RemovedAgree ==
  ASSUME Types, Types', AgreeOK, NamesOK, NEW c \in calls, Removed(c) PROVE AgreeOK'
<1>1. c.op = "remove" /\ UNCHANGED <<known, live>>
  BY DEF Removed, SamePage, server
<1>2. CASE c.status = "ok"
  <2>1. c.at \notin LiveNames /\ node[c.who].id = c.at
    BY <1>1, <1>2 DEF NamesOK, CallsFit, Fits, RemoveFits, NodeOps, Placed, Lists
  <2>2. /\ DOMAIN state' = DOMAIN state \ {node[c.who].id}
        /\ \A i \in DOMAIN state \ {node[c.who].id} : state'[i] = state[i]
        /\ DOMAIN node' = DOMAIN node
        /\ \A o \in DOMAIN node : node'[o].drawn <=> node[o].drawn /\ node[o].label # node[c.who].id
        /\ calls \ {c} \subseteq calls'
        /\ \A d \in calls' : d \in calls \ {c} \/ Says(d, "save", c.who, NoName, NoName)
    BY <1>2, RemovedDoes
  <2>3. LiveNames' = LiveNames
    BY <1>1 DEF LiveNames
  <2>4. \A i : i # c.at => (Creating(i) => Creating(i)') /\ (Going(i) => Going(i)')
    BY <1>1, <2>2 DEF Creating, Going
  <2>5. RefusedGone'
    BY <2>2, <2>3 DEF AgreeOK, RefusedGone, Says
  <2>6. \A i \in DOMAIN state' : state[i] \in Drawn => state'[i] \in Drawn'
    <3>1. SUFFICES ASSUME NEW i \in DOMAIN state', state[i] \in Drawn PROVE state'[i] \in Drawn'
      OBVIOUS
    <3>2. i \in DOMAIN state /\ i # c.at /\ state'[i] = state[i]
      BY <2>1, <2>2
    <3>3. node[state[i]].label = i
      BY <3>1, <3>2 DEF NamesOK, Shown, Placed
    <3>4. state[i] \in DOMAIN node /\ node[state[i]].drawn
      BY <3>1, DrawnIs DEF Types
    <3>5. QED BY <2>1, <2>2, <3>2, <3>3, <3>4, DrawnNext DEF Types
  <2>7. ListedKnown'
    BY <2>1, <2>2, <2>3, <2>4, <2>6 DEF AgreeOK, ListedKnown
  <2>8. LiveListed'
    <3>1. \A x : ~Tells(c, x)
      BY <1>1 DEF Tells
    <3>2. QED BY <2>1, <2>2, <2>3, <3>1 DEF AgreeOK, LiveListed, Tells
  <2>9. QED BY <2>5, <2>7, <2>8 DEF AgreeOK
<1>3. CASE c.status = "error" /\ UNCHANGED <<node, state>> /\ Answered(c)
  <2>1. ~Counts(c)
    BY <1>1, <1>3 DEF Counts
  <2>2. QED BY <1>1, <1>3, <2>1, AnsweredAgree DEF Answered
<1>4. QED BY <1>2, <1>3 DEF Removed

LEMMA RefreshedAgree ==
  ASSUME Types, Types', AgreeOK, NamesOK, NEW c \in calls, Refreshed(c), Ordered' PROVE AgreeOK'
<1>1. c.op = "refresh" /\ c.op \in NodeOps /\ calls' = calls \ {c} /\ UNCHANGED <<known, live>>
  BY DEF Refreshed, SamePage, server, Answered, NodeOps
<1>2. c.status = "ok"
  BY <1>1 DEF Refreshed, AgreeOK, RefusedGone
<1>3. Refreshes(c) /\ DOMAIN OldState(c) = {}
  BY <1>2, RefreshedAnew
<1>4. \A d \in calls' : d.op \notin NodeOps
  BY <1>1 DEF NamesOK, CallsApart, KeptApart
<1>5. RefreshFits(c)
  BY <1>1 DEF NamesOK, CallsFit, Fits
<1>6. /\ ViewOK(c.view) /\ Len(node) \in Nat /\ DOMAIN node' = 1 .. Len(node) + Len(Read(c.view))
      /\ \A i \in DOMAIN Read(c.view) : node'[Len(node) + i] = Read(c.view)[i]
      /\ \A id : id \in DOMAIN state' <=>
           id \in DOMAIN OldState(c) \/ \E i \in DOMAIN Read(c.view) : Read(c.view)[i].id = id
      /\ \A i \in DOMAIN Read(c.view) : \E j \in DOMAIN Read(c.view) :
           Read(c.view)[j].id = Read(c.view)[i].id /\ state'[Read(c.view)[i].id] = Len(node) + j
  BY <1>3, RefreshedDoes
<1>7. PICK view : view = c.view
  OBVIOUS
<1>8. /\ Len(Read(view)) \in Nat /\ DOMAIN Read(view) = 1 .. Len(Read(view))
      /\ \A i \in DOMAIN Read(view) :
           /\ Read(view)[i].drawn /\ ~Read(view)[i].active /\ Read(view)[i].label = Read(view)[i].id
           /\ \E n \in view.nodes : n.name = Read(view)[i].id
      /\ \A n \in view.nodes : \E i \in DOMAIN Read(view) : Read(view)[i].id = n.name
  <2>1. ViewOK(view)
    BY <1>6, <1>7
  <2>2. QED BY <2>1, ReadIs
<1>9. LiveNames' = LiveNames
  BY <1>1 DEF LiveNames
<1>10. \A x : x \in LiveNames <=> \E v \in view.nodes : v.name = x
  BY <1>2, <1>5, <1>7 DEF RefreshFits
<1>11. RefusedGone'
  BY <1>4 DEF RefusedGone
<1>12. ListedKnown'
  <2>1. ASSUME NEW i \in DOMAIN state' PROVE state'[i] \in Drawn' /\ i \in LiveNames
    <3>1. PICK j \in DOMAIN Read(view) : Read(view)[j].id = i /\ state'[i] = Len(node) + j
      BY <1>3, <1>6, <1>7
    <3>2. node'[state'[i]] = Read(view)[j]
      BY <1>6, <1>7, <3>1
    <3>3. PICK m, n, s : m = Len(node) /\ n = Len(Read(view)) /\ s = state'[i]
      OBVIOUS
    <3>4. m \in Nat /\ n \in Nat /\ DOMAIN node' = 1 .. m + n /\ j \in 1 .. n /\ s = m + j
      BY <1>6, <1>7, <1>8, <3>1, <3>3
    <3>5. s \in DOMAIN node'
      BY <3>4
    <3>6. node'[state'[i]].drawn /\ state'[i] \in DOMAIN node'
      BY <1>8, <3>2, <3>3, <3>5
    <3>7. QED BY <1>8, <1>10, <3>1, <3>6, DrawnNext DEF Types
  <2>2. QED BY <1>9, <2>1 DEF ListedKnown
<1>13. LiveListed'
  <2>1. ASSUME NEW x \in LiveNames PROVE x \in DOMAIN state'
    <3>1. PICK i \in DOMAIN Read(view) : Read(view)[i].id = x
      BY <1>8, <1>10
    <3>2. QED BY <1>6, <1>7, <3>1
  <2>2. QED BY <1>9, <2>1 DEF LiveListed
<1>14. QED BY <1>11, <1>12, <1>13 DEF AgreeOK

LEMMA AnswerAgree ==
  ASSUME Types, Types', AgreeOK, NamesOK, NEW c \in calls, Answer(c), Ordered' PROVE AgreeOK'
<1>1. CASE Created(c) BY <1>1, CreatedAgree
<1>2. CASE Removed(c) BY <1>2, RemovedAgree
<1>3. CASE Renamed(c) BY <1>3, RenamedAgree
<1>4. CASE Refreshed(c) BY <1>4, RefreshedAgree
<1>5. UNCHANGED <<known, live>>
  BY DEF Answer, Created, Positioned, Removed, Linked, Renamed, Refreshed, Acknowledged, SamePage, server
<1>6. CASE Positioned(c)
  <2>1. c.op = "position" /\ UNCHANGED <<node, state>>
    BY <1>6 DEF Positioned, page
  <2>2. calls \ {c} \subseteq calls' /\ \A d \in calls' : d.op \in NodeOps => d \in calls
    BY <1>6, PositionedDoes DEF Says, NodeOps
  <2>3. ~Counts(c)
    BY <2>1 DEF Counts
  <2>4. QED BY <1>5, <2>1, <2>2, <2>3, AnsweredAgree
<1>7. CASE Linked(c)
  <2>1. c.op \in LinkOps /\ UNCHANGED <<node, state>>
    BY <1>7 DEF Linked
  <2>2. PICK a : a = c.who
    OBVIOUS
  <2>3. calls' = calls \ {c} \/ \E d : calls' = (calls \ {c}) \cup {d} /\ SaysDisconnect(d, a)
    BY <1>7, <2>2, LinkedDoes
  <2>4. calls \ {c} \subseteq calls' /\ \A d \in calls' : d.op \in NodeOps => d \in calls
    BY <2>3 DEF SaysDisconnect, Says, NodeOps
  <2>5. ~Counts(c)
    BY <2>1 DEF Counts, LinkOps
  <2>6. QED BY <1>5, <2>1, <2>4, <2>5, AnsweredAgree
<1>8. CASE Acknowledged(c)
  <2>1. /\ c.op \in {"save", "run", "stop"} \/ (c.op = "clear" /\ c.status # "sent")
        /\ calls' = calls \ {c} /\ UNCHANGED <<node, state>>
    BY <1>8 DEF Acknowledged, Answered
  <2>2. ~Counts(c)
    BY <2>1 DEF Counts
  <2>3. QED BY <1>5, <2>1, <2>2, AnsweredAgree
<1>9. QED BY <1>1, <1>2, <1>3, <1>4, <1>6, <1>7, <1>8 DEF Answer

(* A call that failed on the way is never forgotten, nor is the end of     *)
(* the server.                                                             *)
LEMMA ReliableBefore ==
  ASSUME Types, [Next]_vars PROVE (~lossy' => ~lossy) /\ (alive' => alive)
<1>1. ASSUME UNCHANGED <<lossy, alive>> PROVE (~lossy' => ~lossy) /\ (alive' => alive)
  BY <1>1, Zenon
<1>2. CASE Edit
  <2>1. UNCHANGED <<lossy, alive>>
    BY <1>2, EditOnlyPosts DEF server
  <2>2. QED BY <1>1, <2>1
<1>3. ASSUME NEW c \in calls, Serve(c) PROVE (~lossy' => ~lossy) /\ (alive' => alive)
  <2>1. lossy' = lossy
    BY <1>3, ServeLeaves DEF bounds
  <2>2. alive
    BY <1>3, ServeLeaves
  <2>3. QED BY <2>1, <2>2, Zenon
<1>4. ASSUME NEW c \in calls, Answer(c) PROVE (~lossy' => ~lossy) /\ (alive' => alive)
  <2>1. UNCHANGED <<lossy, alive>>
    BY <1>4 DEF Answer, Created, Positioned, Removed, Linked, Renamed, Refreshed, Acknowledged, SamePage,
                server, bounds
  <2>2. QED BY <1>1, <2>1
<1>5. ASSUME NEW c \in calls, Fails(c) PROVE (~lossy' => ~lossy) /\ (alive' => alive)
  <2>1. alive' = alive /\ (alive => lossy' = TRUE) /\ (~alive => lossy' = lossy)
    BY <1>5, FailsDoes DEF server
  <2>2. CASE alive BY <2>1, <2>2, Zenon
  <2>3. CASE ~alive
    <3>1. UNCHANGED <<lossy, alive>>
      BY <2>1, <2>3, Zenon
    <3>2. QED BY <1>1, <3>1
  <2>4. QED BY <2>2, <2>3
<1>6. CASE Outside \/ ProcessEvents \/ LoadBehaviour
  <2>1. UNCHANGED <<lossy, alive>>
    BY <1>6, OutsideDo, ProcessEventsDoes, LoadDoes DEF server, bounds
  <2>2. QED BY <1>1, <2>1
<1>7. QED BY <1>2, <1>3, <1>4, <1>5, <1>6 DEF Next, Outside, Visits, Polls

LEMMA AgreeKeep == Types /\ Types' /\ NamesRight /\ AgreeRight /\ [Next]_vars => AgreeRight'
<1>1. SUFFICES ASSUME Types, Types', NamesRight, AgreeRight, [Next]_vars, Reliable' PROVE AgreeOK'
  BY DEF AgreeRight
<1>2. AgreeOK /\ NamesOK /\ Ordered'
  BY <1>1, CrossedGrows, ReliableBefore DEF AgreeRight, NamesRight, Ordered, Reliable
<1>3. CASE Edit BY <1>1, <1>2, <1>3, EditAgree DEF NamesOK
<1>4. ASSUME NEW c \in calls, Serve(c) \/ Answer(c) PROVE AgreeOK'
  BY <1>1, <1>2, <1>4, ServeAgree, AnswerAgree DEF Reliable
<1>5. ASSUME NEW c \in calls PROVE ~Fails(c)
  <2>1. ~lossy' /\ alive'
    BY <1>1 DEF Reliable
  <2>2. alive
    BY <1>1, <2>1, ReliableBefore
  <2>3. QED BY <1>1, <1>5, <2>1, <2>2, FailsDoes, Zenon
<1>6. CASE Outside \/ ProcessEvents
  <2>1. SameIds /\ calls' = calls
    <3>1. CASE ProcessEvents
      BY <1>1, <3>1, ProcessEventsDoes DEF SameIds, server
    <3>2. CASE Outside
      BY <1>1, <3>2, OutsideDo DEF page, SameIds
    <3>3. QED BY <1>6, <3>1, <3>2
  <2>2. QED BY <1>1, <1>2, <2>1, AgreeStays
<1>7. ~LoadBehaviour
  BY <1>1, <1>2, LoadDoes DEF Ordered
<1>8. QED BY <1>1, <1>3, <1>4, <1>5, <1>6, <1>7 DEF Next, Outside, Visits, Polls

LEMMA AgreeHold == Spec => []AgreeRight
<1>1. Init => AgreeRight
  <2>1. SUFFICES ASSUME Init PROVE AgreeOK
    BY DEF AgreeRight
  <2>2. DOMAIN state = {} /\ \A c \in calls : c.op = "refresh" /\ c.status = "sent"
    BY <2>1 DEF Init, Call
  <2>3. \E c \in calls : c.op = "refresh"
    BY <2>1 DEF Init, Call
  <2>4. QED BY <2>2, <2>3 DEF AgreeOK, RefusedGone, ListedKnown, LiveListed, Tells
<1>2. QED BY <1>1, AgreeKeep, TypesHold, NamesHold, PTL DEF Spec

(* Once every answer is in and no call failed, the page shows each node of *)
(* the server once, under its name, and no other.                          *)
THEOREM EditorNodesAgree == Spec => []NodesAgree
<1>1. Types /\ NamesRight /\ AgreeRight => NodesAgree
  <2>1. SUFFICES ASSUME Types, NamesOK, AgreeOK, calls = {}
                 PROVE  /\ DOMAIN state = LiveNames
                        /\ {node[o].label : o \in Drawn} = LiveNames
                        /\ Cardinality(Drawn) = Cardinality(live)
                        /\ \A i \in DOMAIN state : node[state[i]].id = i /\ state[i] \in Drawn
    BY DEF NamesRight, AgreeRight, Reliable, Ordered, NodesAgree, Quiet
  <2>2. \A i \in DOMAIN state : state[i] \in Drawn /\ i \in LiveNames
    BY <2>1 DEF AgreeOK, ListedKnown, Creating, Going
  <2>3. \A x \in LiveNames : x \in DOMAIN state
    BY <2>1 DEF AgreeOK, LiveListed
  <2>4. DOMAIN state = LiveNames
    BY <2>2, <2>3
  <2>5. \A i \in DOMAIN state : node[state[i]].id = i /\ node[state[i]].label = i
    BY <2>1, <2>2 DEF NamesOK, Placed, Shown
  <2>6. \A o \in Drawn : node[o].label \in DOMAIN state /\ state[node[o].label] = o
    BY <2>1 DEF NamesOK, Shown, Lists
  <2>7. {node[o].label : o \in Drawn} = LiveNames
    BY <2>2, <2>4, <2>5, <2>6
  <2>8. Cardinality(Drawn) = Cardinality(live)
    <3>1. PICK f : f = [n \in live |-> state[known[n].name]]
      OBVIOUS
    <3>2. \A n \in live : known[n].name \in DOMAIN state
      BY <2>4 DEF LiveNames
    <3>3. f \in [live -> Drawn]
      BY <2>2, <3>1, <3>2
    <3>4. \A m, n \in live : f[m] = f[n] => m = n
      BY <2>1, <2>5, <3>1, <3>2 DEF NamesOK, NamedOnce
    <3>5. \A o \in Drawn : \E n \in live : f[n] = o
      BY <2>4, <2>6, <3>1 DEF LiveNames
    <3>6. ExistsBijection(live, Drawn)
      BY <3>3, <3>4, <3>5 DEF ExistsBijection, Bijection, Injection, Surjection, IsInjective
    <3>7. IsFiniteSet(live)
      <4>1. live \subseteq 1 .. Len(known) /\ Len(known) \in Nat
        BY <2>1, KnownShape DEF Types, KnownTyped
      <4>2. IsFiniteSet(1 .. Len(known))
        BY <4>1, FS_Interval
      <4>3. QED BY <4>1, <4>2, FS_Subset
    <3>8. QED BY <3>6, <3>7, FS_Bijection
  <2>9. QED BY <2>2, <2>4, <2>5, <2>7, <2>8
<1>2. QED BY <1>1, TypesHold, NamesHold, AgreeHold, PTL

-----------------------------------------------------------------------------
(* The server stays up: while a connect is under way, no node is renamed,  *)
(* removed or read anew, so that the ends are there when it is served; and *)
(* a node that is removed has been disconnected from those before it.      *)
Movers == {"rename", "remove", "clear", "refresh"}
ConnectsFit ==
  \A c \in calls : c.op = "connect" =>
    /\ \A d \in calls : d.op \notin Movers
    /\ c.status = "sent" => c.at \in LiveNames /\ c.to \in LiveNames
SurviveRight ==
  Apart /\ ~lossy => (alive => ConnectsFit) /\ ("removal" \notin crossed => alive)

LEMMA NoLinkClash ==
  ASSUME NEW op \in NodeOps \cup LinkOps, NEW f, NEW g, "links" \notin Clash(op, f, g)
  PROVE  /\ op \in LinkOps => \A c \in calls : c.op \notin Movers
         /\ op \in {"rename", "clear", "refresh"} => \A c \in calls : c.op \notin LinkOps
         /\ op = "remove" => \A c \in calls : c.op # "connect"
         /\ op \in LinkOps =>
              \A c \in calls : c.op \in LinkOps /\ c.op # op => ~Joins(c.who, f, g)
<1>1. \A c \in calls : c.op \in NodeOps \cup LinkOps =>
        /\ ~(op \in LinkOps /\ c.op \in Movers)
        /\ ~(c.op \in LinkOps /\ op \in {"rename", "clear", "refresh"})
        /\ ~(c.op = "connect" /\ op = "remove")
        /\ ~({op, c.op} = LinkOps /\ Joins(c.who, f, g))
  BY DEF Clash, Movers
<1>2. \A c : c.op \in Movers => c.op \in NodeOps \cup LinkOps
  BY DEF Movers, NodeOps
<1>3. \A c : op \in LinkOps /\ c.op \in LinkOps /\ c.op # op => {op, c.op} = LinkOps
  BY DEF LinkOps
<1>4. "connect" \in LinkOps
  BY DEF LinkOps
<1>5. QED BY <1>1, <1>2, <1>3, <1>4

(* No connect is under way any more.                                       *)
LEMMA NoConnects == ASSUME \A c \in calls' : c.op # "connect" PROVE ConnectsFit'
BY DEF ConnectsFit

LEMMA ConnectsStay ==
  ASSUME ConnectsFit, \A x \in LiveNames : x \in LiveNames',
         \A c \in calls' : c.op \in Movers => \E d \in calls : d.op = c.op,
         \A c \in calls' : c.op = "connect" =>
           \E d \in calls : /\ d.op = "connect"
                            /\ c.status = "sent" => d.status = "sent" /\ d.at = c.at /\ d.to = c.to
  PROVE  ConnectsFit'
<1>1. SUFFICES ASSUME NEW c \in calls', c.op = "connect"
               PROVE  /\ \A d \in calls' : d.op \notin Movers
                      /\ c.status = "sent" => c.at \in LiveNames' /\ c.to \in LiveNames'
  BY DEF ConnectsFit
<1>2. PICK b \in calls : /\ b.op = "connect"
                         /\ c.status = "sent" => b.status = "sent" /\ b.at = c.at /\ b.to = c.to
  BY <1>1
<1>3. /\ \A d \in calls : d.op \notin Movers
      /\ b.status = "sent" => b.at \in LiveNames /\ b.to \in LiveNames
  BY <1>2 DEF ConnectsFit
<1>4. QED BY <1>2, <1>3

LEMMA ConnectConnects ==
  ASSUME Types, Types', NamesOK, AgreeOK, ConnectsFit, NEW f \in Drawn, NEW g \in Drawn, Connect(f, g), Apart'
  PROVE  ConnectsFit'
<1>1. \A c \in calls : c.op \notin Movers
  <2>1. "links" \notin Clash("connect", node[f].id, node[g].id)
    BY DEF Connect, Apart
  <2>2. QED BY <2>1, NoLinkClash DEF LinkOps
<1>2. LiveNames' = LiveNames
  BY DEF Connect, SameServer, server, LiveNames
<1>3. ASSUME NEW o \in Drawn PROVE node[o].id \in LiveNames
  <2>1. node[o].id \in DOMAIN state /\ state[node[o].id] = o /\ node[o].drawn
    BY DrawnIs DEF NamesOK, Shown, Lists, Types
  <2>2. ~Creating(node[o].id)
    BY <2>1 DEF Creating, NamesOK, CallsFit, Fits, CreateFits, NodeOps, Lists
  <2>3. ~Going(node[o].id)
    BY <1>1 DEF Going, Movers
  <2>4. QED BY <2>1, <2>2, <2>3 DEF AgreeOK, ListedKnown
<1>4. \A c \in calls' : \/ c \in calls \/ Says(c, "stop", 0, NoName, NoName)
                         \/ Says(c, "connect", Len(arrow) + 1, node[f].id, node[g].id)
  BY ConnectDoes
<1>5. \A c \in calls' : c.op \notin Movers
  BY <1>1, <1>4 DEF Says, Movers
<1>6. \A c \in calls' : c.op = "connect" /\ c.status = "sent" => c.at \in LiveNames /\ c.to \in LiveNames
  <2>1. node[f].id \in LiveNames /\ node[g].id \in LiveNames
    BY <1>3
  <2>2. QED BY <1>4, <2>1 DEF Says, ConnectsFit
<1>7. QED BY <1>2, <1>5, <1>6 DEF ConnectsFit

LEMMA EditConnects ==
  ASSUME Types, Types', NamesOK, AgreeOK, ConnectsFit, Edit, Apart' PROVE ConnectsFit'
<1>1. LiveNames' = LiveNames
  BY EditOnlyPosts DEF server, LiveNames
<1>2. ASSUME \A c \in calls' : c \in calls \/ (c.op \notin Movers /\ c.op # "connect") PROVE ConnectsFit'
  BY <1>1, <1>2, ConnectsStay
<1>3. ASSUME NEW k \in Kinds, AddNode(k) PROVE ConnectsFit'
  <2>1. PICK id, o : \A c \in calls' : \/ c \in calls \/ Says(c, "stop", 0, NoName, NoName)
                                       \/ Says(c, "create", o, id, NoName)
    BY <1>3, AddNodeMakes
  <2>2. QED BY <1>2, <2>1 DEF Says, Movers
<1>4. ASSUME NEW o \in Drawn, DeleteNode(o) PROVE ConnectsFit'
  <2>1. o \in DOMAIN node
    BY DrawnIs DEF Types
  <2>2. "links" \notin Clash("remove", node[o].id, NoName)
    BY <1>4 DEF DeleteNode, Apart
  <2>3. \A c \in calls : c.op # "connect"
    BY <2>2, NoLinkClash DEF NodeOps
  <2>4. \A c \in calls' : c \in calls \/ c.op # "connect"
    BY <1>4, <2>1, PostDeleteDoes DEF DeleteNode, SaysDisconnect, Says
  <2>5. QED BY <2>3, <2>4, NoConnects
<1>5. ASSUME NEW o \in Drawn, NEW new \in GivenNames, SetName(o, new) PROVE ConnectsFit'
  <2>1. "links" \notin Clash("rename", node[o].id, new)
    BY <1>5 DEF SetName, Apart
  <2>2. \A c \in calls : c.op # "connect"
    BY <2>1, NoLinkClash DEF NodeOps, LinkOps
  <2>3. \A c \in calls' : c \in calls \/ c.op # "connect"
    BY <1>5, SetNameDoes DEF Says
  <2>4. QED BY <2>2, <2>3, NoConnects
<1>6. ASSUME NEW f \in Drawn, NEW g \in Drawn, Connect(f, g) PROVE ConnectsFit'
  BY <1>6, ConnectConnects
<1>7. ASSUME NEW f \in Drawn, NEW g \in Drawn, Disconnect(f, g) PROVE ConnectsFit'
  <2>1. \A c \in calls' : c \in calls \/ (c.op \notin Movers /\ c.op # "connect")
    BY <1>7, DisconnectDoes DEF SaysDisconnect, Says, Movers
  <2>2. QED BY <1>2, <2>1
<1>8. CASE NewBehaviour
  <2>1. Busy = {}
    BY <1>8 DEF NewBehaviour, ClearAborts, Apart
  <2>2. /\ \A c \in calls' : \/ c \in calls \/ Says(c, "stop", 0, NoName, NoName)
                             \/ Says(c, "clear", 0, NoName, NoName)
        /\ crossed' = crossed \cup Clash("clear", NoName, NoName)
    BY <1>8, <2>1, NewBehaviourDoes
  <2>3. "links" \notin Clash("clear", NoName, NoName)
    BY <2>2 DEF Apart
  <2>4. \A c \in calls : c.op # "connect"
    BY <2>3, NoLinkClash DEF NodeOps, LinkOps
  <2>5. \A c \in calls' : c.op # "connect"
    BY <2>2, <2>4 DEF Says
  <2>6. QED BY <2>5, NoConnects
<1>9. CASE Refresh
  <2>1. "links" \notin Clash("refresh", NoName, NoName)
    BY <1>9 DEF Refresh, Apart
  <2>2. \A c \in calls : c.op # "connect"
    BY <2>1, NoLinkClash DEF NodeOps, LinkOps
  <2>3. \A c \in calls' : c.op # "connect"
    BY <1>9, <2>2, RefreshDoes DEF Says
  <2>4. QED BY <2>3, NoConnects
<1>10. CASE StartStop
  <2>1. \A c \in calls' : c \in calls \/ (c.op \notin Movers /\ c.op # "connect")
    BY <1>10, StartStopDoes DEF Says, Movers
  <2>2. QED BY <1>2, <2>1
<1>11. QED BY <1>3, <1>4, <1>5, <1>6, <1>7, <1>8, <1>9, <1>10 DEF Edit

(* A reply is no longer to be served, and of the same kind.                *)
LEMMA RepliedConnects ==
  ASSUME ConnectsFit, \A x \in LiveNames : x \in LiveNames', NEW c \in calls, NEW r, NEW s, NEW m, NEW v,
         calls' = (calls \ {c}) \cup {r}, IsReply(r, c, s, m, v), s # "sent"
  PROVE  ConnectsFit'
<1>1. r.op = c.op /\ r.status = s
  BY DEF IsReply
<1>2. QED BY <1>1, ConnectsStay

LEMMA ServeConnects ==
  ASSUME Types, NamesOK, ConnectsFit, NEW c \in calls, Serve(c) PROVE ConnectsFit'
<1>1. ASSUME c.op \in Movers, NEW r, calls' = (calls \ {c}) \cup {r}, r.op = c.op PROVE ConnectsFit'
  <2>1. \A d \in calls' : d.op # "connect"
    BY <1>1 DEF ConnectsFit, Movers
  <2>2. QED BY <2>1, NoConnects
<1>2. CASE ServeCreate(c)
  <2>1. PICK name \in Names :
           /\ \E r : calls' = (calls \ {c}) \cup {r} /\ IsReply(r, c, "ok", name, c.view)
           /\ \A x : x \in LiveNames' <=> x \in LiveNames \/ x = name
    BY <1>2, CreateServed
  <2>2. QED BY <2>1, RepliedConnects
<1>3. CASE ServeRemove(c)
  <2>1. c.op = "remove" /\ \E s : CallReplied(c, s)
    BY <1>3, RemoveServed DEF NamesOK
  <2>2. QED BY <1>1, <2>1 DEF CallReplied, IsReply, Movers
<1>4. CASE ServeRename(c)
  <2>1. c.op = "rename" /\ \E s : CallReplied(c, s)
    BY <1>4, RenameServed
  <2>2. QED BY <1>1, <2>1 DEF CallReplied, IsReply, Movers
<1>5. CASE ServeClear(c)
  <2>1. c.op = "clear" /\ \E r : calls' = (calls \ {c}) \cup {r} /\ IsReply(r, c, "ok", c.name, c.view)
    BY <1>5, ServeClearDoes
  <2>2. QED BY <1>1, <2>1 DEF IsReply, Movers
<1>6. CASE ServeFile(c)
  <2>1. UNCHANGED <<known, live>>
    BY <1>6, ServeFileDoes
  <2>2. PICK r, v : calls' = (calls \ {c}) \cup {r} /\ IsReply(r, c, "ok", c.name, v)
    BY <1>6, ServeFileDoes
  <2>3. LiveNames' = LiveNames
    BY <2>1 DEF LiveNames
  <2>4. QED BY <2>2, <2>3, RepliedConnects
<1>7. CASE ServePosition(c) \/ ServeConnect(c) \/ ServeDisconnect(c)
  <2>1. /\ c.op \in {"position", "connect", "disconnect"} /\ UNCHANGED <<known, live>>
        /\ \E s \in {"ok", "error"} : Reply(c, s)
    BY <1>7 DEF ServePosition, ServeConnect, ServeDisconnect, Serving
  <2>2. PICK s \in {"ok", "error"} : \E r : calls' = (calls \ {c}) \cup {r} /\ IsReply(r, c, s, c.name, c.view)
    BY <2>1, StatusReply DEF Types
  <2>3. LiveNames' = LiveNames
    BY <2>1 DEF LiveNames
  <2>4. QED BY <2>2, <2>3, RepliedConnects
<1>8. CASE DiskStep(c)
  <2>1. UNCHANGED <<known, live, calls>>
    BY <1>8, DiskStepDoes
  <2>2. LiveNames' = LiveNames
    BY <2>1 DEF LiveNames
  <2>3. QED BY <2>1, <2>2, ConnectsStay
<1>9. QED BY <1>2, <1>3, <1>4, <1>5, <1>6, <1>7, <1>8 DEF Serve, ServeFile, DiskStep

LEMMA AnswerConnects ==
  ASSUME Types, NamesOK, AgreeOK, ConnectsFit, NEW c \in calls, Answer(c) PROVE ConnectsFit'
<1>1. LiveNames' = LiveNames
  BY DEF Answer, Created, Positioned, Removed, Linked, Renamed, Refreshed, Acknowledged, SamePage, server,
         LiveNames
<1>2. ASSUME \A d \in calls' : d \in calls \/ (d.op \notin Movers /\ d.op # "connect") PROVE ConnectsFit'
  BY <1>1, <1>2, ConnectsStay
<1>3. CASE Created(c)
  <2>1. c.status = "ok"
    BY <1>3 DEF Created, AgreeOK, RefusedGone, NodeOps
  <2>2. PICK o, new : o = c.who /\ new = c.name
    OBVIOUS
  <2>3. \E p : calls' = (calls \ {c}) \cup {p} /\ Says(p, "position", o, new, NoName)
    BY <1>3, <2>1, <2>2, CreatedDoes
  <2>4. \A d \in calls' : d \in calls \/ (d.op \notin Movers /\ d.op # "connect")
    BY <2>3 DEF Says, Movers
  <2>5. QED BY <1>2, <2>4
<1>4. CASE Positioned(c)
  <2>1. \A d \in calls' : d \in calls \/ (d.op \notin Movers /\ d.op # "connect")
    BY <1>4, PositionedDoes DEF Says, Movers
  <2>2. QED BY <1>2, <2>1
<1>5. CASE Removed(c)
  <2>1. \A d \in calls' : d \in calls \/ Says(d, "save", c.who, NoName, NoName)
    BY <1>5, RemovedDoes DEF Removed, Answered
  <2>2. \A d \in calls' : d \in calls \/ (d.op \notin Movers /\ d.op # "connect")
    BY <2>1 DEF Says, Movers
  <2>3. QED BY <1>2, <2>2
<1>6. CASE Linked(c)
  <2>1. PICK a : a = c.who
    OBVIOUS
  <2>2. calls' = calls \ {c} \/ \E d : calls' = (calls \ {c}) \cup {d} /\ SaysDisconnect(d, a)
    BY <1>6, <2>1, LinkedDoes
  <2>3. \A d \in calls' : d \in calls \/ (d.op \notin Movers /\ d.op # "connect")
    BY <2>2 DEF SaysDisconnect, Says, Movers
  <2>4. QED BY <1>2, <2>3
<1>7. CASE Renamed(c) \/ Refreshed(c) \/ Acknowledged(c)
  <2>1. calls' = calls \ {c}
    BY <1>7 DEF Renamed, Refreshed, Acknowledged, Answered
  <2>2. QED BY <1>2, <2>1
<1>8. QED BY <1>3, <1>4, <1>5, <1>6, <1>7 DEF Answer

(* What ends the server.                                                   *)
LEMMA AliveStays ==
  ASSUME Types, NamesOK, ConnectsFit, alive, [Next]_vars, "removal" \notin crossed' PROVE alive'
<1>1. ASSUME alive' = alive PROVE alive'
  BY <1>1, Zenon
<1>2. ASSUME NEW c \in calls, Serve(c) PROVE alive' = alive
  <2>1. CASE ServeConnect(c)
    <3>1. c.op = "connect" /\ c.status = "sent"
      BY <2>1 DEF ServeConnect, Serving
    <3>2. c.to \in LiveNames
      BY <3>1 DEF ConnectsFit
    <3>3. Named(c.to) # {}
      BY <3>2 DEF Named, LiveNames
    <3>4. QED BY <2>1, <3>3 DEF ServeConnect
  <2>2. CASE ServeRemove(c)
    BY <2>2 DEF ServeRemove, StaysUp
  <2>3. CASE ~ServeConnect(c) /\ ~ServeRemove(c)
    BY <1>2, <2>3 DEF Serve, ServeCreate, ServePosition, ServeDisconnect, ServeRename,
                      ServeClear, ListFile, WriteFile, ReadFile, ServeStop, StaysUp
  <2>4. QED BY <2>1, <2>2, <2>3
<1>3. CASE Edit
  BY <1>1, <1>3, EditOnlyPosts DEF server
<1>4. ASSUME NEW c \in calls, Answer(c) \/ Fails(c) PROVE alive' = alive
  BY <1>4 DEF Answer, Created, Positioned, Removed, Linked, Renamed, Refreshed, Acknowledged, SamePage,
              server, Fails
<1>5. Outside \/ ProcessEvents \/ LoadBehaviour => alive' = alive
  BY OutsideDo, ProcessEventsDoes, LoadDoes DEF server
<1>6. QED BY <1>1, <1>2, <1>3, <1>4, <1>5 DEF Next, Outside, Visits, Polls

LEMMA SurviveKeep ==
  Types /\ Types' /\ NamesRight /\ AgreeRight /\ SurviveRight /\ [Next]_vars => SurviveRight'
<1>1. SUFFICES ASSUME Types, Types', NamesRight, AgreeRight, SurviveRight, [Next]_vars, Apart', ~lossy',
                      alive
               PROVE  ConnectsFit' /\ ("removal" \notin crossed' => alive')
  <2>1. ASSUME Types, [Next]_vars, alive' PROVE alive
    BY <2>1, ReliableBefore
  <2>2. ASSUME Types, [Next]_vars, SurviveRight, Apart', ~lossy', "removal" \notin crossed' PROVE alive
    <3>1. Apart /\ ~lossy /\ "removal" \notin crossed
      BY <2>2, CrossedGrows, ReliableBefore DEF Apart
    <3>2. QED BY <2>2, <3>1, Zenon DEF SurviveRight
  <2>3. QED BY <2>1, <2>2 DEF SurviveRight
<1>2. Apart /\ ~lossy
  BY <1>1, CrossedGrows, ReliableBefore DEF Apart
<1>3. alive /\ ConnectsFit /\ Ordered
  <2>1. ConnectsFit
    BY <1>1, <1>2, Zenon DEF SurviveRight
  <2>2. QED BY <1>1, <1>2, <2>1 DEF Apart, Ordered
<1>4. NamesOK /\ AgreeOK
  BY <1>1, <1>2, <1>3 DEF NamesRight, AgreeRight, Reliable
<1>5. "removal" \notin crossed' => alive'
  BY <1>1, <1>3, <1>4, AliveStays
<1>6. ASSUME Edit PROVE ConnectsFit'
  BY <1>1, <1>3, <1>4, <1>6, EditConnects, Zenon
<1>7. ASSUME NEW c \in calls, Serve(c) \/ Answer(c) PROVE ConnectsFit'
  BY <1>1, <1>3, <1>4, <1>7, ServeConnects, AnswerConnects
<1>8. ASSUME NEW c \in calls PROVE ~Fails(c)
  BY <1>1, <1>3, <1>8, FailsDoes
<1>9. ASSUME Outside \/ ProcessEvents PROVE ConnectsFit'
  <2>1. UNCHANGED <<calls, known, live>>
    BY <1>1, <1>9, OutsideDo, ProcessEventsDoes DEF server
  <2>2. LiveNames' = LiveNames
    BY <2>1 DEF LiveNames
  <2>3. QED BY <1>3, <2>1, <2>2, ConnectsStay
<1>10. ~LoadBehaviour
  BY <1>1, LoadDoes DEF Apart
<1>11. QED BY <1>1, <1>5, <1>6, <1>7, <1>8, <1>9, <1>10 DEF Next, Outside, Visits, Polls

LEMMA SurviveHold == Spec => []SurviveRight
<1>1. Init => SurviveRight
  <2>1. SUFFICES ASSUME Init PROVE alive /\ ConnectsFit
    BY DEF SurviveRight
  <2>2. alive
    BY <2>1, Zenon DEF Init
  <2>3. \A c \in calls : c.op = "refresh"
    BY <2>1 DEF Init, Call
  <2>4. QED BY <2>2, <2>3 DEF ConnectsFit
<1>2. QED BY <1>1, SurviveKeep, TypesHold, NamesHold, AgreeHold, PTL DEF Spec

(* No connect crashes the server whose ends are edited only once it was    *)
(* answered, and no removal of a node that is disconnected first.          *)
THEOREM EditorServerSurvives == Spec => []ServerSurvives
<1>1. SurviveRight => ServerSurvives
  BY DEF SurviveRight, ServerSurvives, Apart
<1>2. QED BY <1>1, SurviveHold, PTL

-----------------------------------------------------------------------------
(* The arrows: those whose ends are not both listed, and those that are    *)
(* leaving, have a disconnect under way, and the arrows of a node that is  *)
(* asked to be removed are leaving.  No connection is edited while the     *)
(* page is read anew.                                                      *)
Held(o) == Lists(node[o].id, o)
Attached(a) == Held(arrow[a].from) /\ Held(arrow[a].to)
Disconnecting(a) == \E c \in calls : c.op = "disconnect" /\ c.who = a

ArrowsHeld == \A a \in Mapped : Attached(a) \/ Disconnecting(a)
LeavingGoes == \A a \in Mapped : arrow[a].leaving => Disconnecting(a)
RemovedLeaves ==
  \A c \in calls : c.op = "remove" =>
    \A a \in Mapped : c.who = arrow[a].from \/ c.who = arrow[a].to => arrow[a].leaving
ReadAlone == \A c, d \in calls : c.op = "refresh" => d.op \notin LinkOps
ArrowsOK == ArrowsHeld /\ LeavingGoes /\ RemovedLeaves /\ ReadAlone
DanglingRight == Apart => ArrowsOK

LEMMA MappedIs ==
  ASSUME ArrowsTyped PROVE \A a : a \in Mapped <=> a \in DOMAIN arrow /\ arrow[a].mapped
BY LenProperties DEF Mapped, ArrowsTyped

LEMMA MappedNext ==
  ASSUME ArrowsTyped' PROVE \A a : a \in Mapped' <=> a \in DOMAIN arrow' /\ arrow'[a].mapped
BY LenProperties DEF Mapped, ArrowsTyped

LEMMA ReadStays ==
  ASSUME ReadAlone,
         \A c \in calls' : c.op = "refresh" => \E d \in calls : d.op = "refresh",
         \A c \in calls' : c.op \in LinkOps => \E d \in calls : d.op \in LinkOps
  PROVE  ReadAlone'
BY DEF ReadAlone

LEMMA ArrowsStay ==
  ASSUME ArrowsOK, ReadAlone',
         \A a \in Mapped' : /\ a \in Mapped
                            /\ arrow'[a].from = arrow[a].from /\ arrow'[a].to = arrow[a].to
                            /\ arrow'[a].leaving = arrow[a].leaving,
         \A a \in Mapped' : Attached(a) => Attached(a)' \/ Disconnecting(a)',
         \A a \in Mapped' : Disconnecting(a) => Disconnecting(a)',
         \A c \in calls' : c.op = "remove" => \E d \in calls : d.op = "remove" /\ d.who = c.who
  PROVE  ArrowsOK'
<1>1. ArrowsHeld'
  BY DEF ArrowsOK, ArrowsHeld
<1>2. LeavingGoes'
  BY DEF ArrowsOK, LeavingGoes
<1>3. RemovedLeaves'
  <2>1. SUFFICES ASSUME NEW c \in calls', c.op = "remove", NEW a \in Mapped',
                        c.who = arrow'[a].from \/ c.who = arrow'[a].to
                 PROVE  arrow'[a].leaving
    BY DEF RemovedLeaves
  <2>2. PICK d \in calls : d.op = "remove" /\ d.who = c.who
    BY <2>1
  <2>3. QED BY <2>1, <2>2 DEF ArrowsOK, RemovedLeaves
<1>4. QED BY <1>1, <1>2, <1>3 DEF ArrowsOK

(* The page as it was, and its calls: each about what one was before.      *)
LEMMA ArrowsUntouched ==
  ASSUME ArrowsOK, UNCHANGED <<state, arrow>>, Types, \A o \in DOMAIN node : node'[o].id = node[o].id,
         \A c \in calls' : c.op \in {"refresh", "remove"} \cup LinkOps =>
           \E d \in calls : d.op = c.op /\ d.who = c.who,
         \A d \in calls : d.op = "disconnect" =>
           (\E c \in calls' : c.op = "disconnect" /\ c.who = d.who) \/ ~arrow[d.who].mapped
  PROVE  ArrowsOK'
<1>1. Mapped' = Mapped
  BY DEF Mapped
<1>2. \A a \in Mapped : a \in DOMAIN arrow /\ arrow[a].mapped
  BY MappedIs DEF Types
<1>3. \A a \in DOMAIN arrow : arrow[a].from \in DOMAIN node /\ arrow[a].to \in DOMAIN node
  BY DEF Types, ArrowsTyped
<1>4. \A a \in Mapped' : Attached(a) => Attached(a)' \/ Disconnecting(a)'
  BY <1>1, <1>2, <1>3 DEF Attached, Held, Lists
<1>5. \A a \in Mapped' : Disconnecting(a) => Disconnecting(a)'
  BY <1>1, <1>2 DEF Disconnecting
<1>6. ReadAlone'
  <2>1. \A c \in calls' : c.op \in {"refresh"} \cup LinkOps => \E d \in calls : d.op = c.op
    OBVIOUS
  <2>2. QED BY <2>1, ReadStays DEF ArrowsOK
<1>7. QED BY <1>1, <1>4, <1>5, <1>6, ArrowsStay

LEMMA ArrowsReplied ==
  ASSUME Types, ArrowsOK, UNCHANGED <<node, state, arrow>>, NEW c \in calls, NEW r,
         calls' = (calls \ {c}) \cup {r}, r.op = c.op, r.who = c.who
  PROVE  ArrowsOK'
BY ArrowsUntouched

(* A node gets a new id.                                                   *)
LEMMA HeldMoves ==
  ASSUME NEW o \in DOMAIN node, NEW old, NEW new, Lists(old, o), node[o].id = old, new \notin DOMAIN state,
         \A p \in DOMAIN node : p # o => node'[p].id = node[p].id,
         node'[o].id = new, DOMAIN state' = (DOMAIN state \ {old}) \cup {new}, state'[new] = o,
         \A i \in DOMAIN state \ {old} : state'[i] = state[i]
  PROVE  \A p \in DOMAIN node : Held(p) => Held(p)'
<1>1. SUFFICES ASSUME NEW p \in DOMAIN node, Held(p)
               PROVE  node'[p].id \in DOMAIN state' /\ state'[node'[p].id] = p
  BY DEF Held, Lists
<1>2. CASE p = o BY <1>2
<1>3. CASE p # o
  <2>1. node'[p].id = node[p].id /\ node[p].id \in DOMAIN state /\ state[node[p].id] = p
    BY <1>1, <1>3 DEF Held, Lists
  <2>2. node[p].id # old
    BY <1>3, <2>1 DEF Lists
  <2>3. QED BY <2>1, <2>2
<1>4. QED BY <1>2, <1>3

(* A node is asked to be removed, after its arrows.                        *)
LEMMA PostDeleteArrows ==
  ASSUME Types, Types', ArrowsOK, UNCHANGED <<node, state>>, NEW o \in DOMAIN node, NEW X, PostDelete(o, X),
         \A d \in X : d.op = "create", \A d \in calls : d.op # "refresh"
  PROVE  ArrowsOK'
<1> DEFINE ends == {a \in Mapped : ~arrow[a].leaving /\ EndsAt(a, node[o].id)}
<1>1. /\ DOMAIN arrow' = DOMAIN arrow
      /\ \A a \in DOMAIN arrow :
           /\ arrow'[a].from = arrow[a].from /\ arrow'[a].to = arrow[a].to
           /\ arrow'[a].mapped = arrow[a].mapped
           /\ arrow'[a].leaving <=> arrow[a].leaving \/ a \in ends
      /\ calls \ X \subseteq calls'
      /\ \A c \in calls' : \/ c \in calls \ X \/ Says(c, "stop", 0, NoName, NoName)
                           \/ \E a \in ends : SaysDisconnect(c, a)
                           \/ Says(c, "remove", o, node[o].id, NoName)
      /\ \A a \in ends : \E c \in calls' : SaysDisconnect(c, a)
  BY PostDeleteDoes
<1>2. \A a \in Mapped' : a \in Mapped /\ a \in DOMAIN arrow
  BY <1>1, MappedIs, MappedNext DEF Types
<1>3. \A a \in Mapped : a \in ends <=> ~arrow[a].leaving /\ EndsAt(a, node[o].id)
  OBVIOUS
<1> HIDE DEF ends
<1>4. \A a \in Mapped' : Disconnecting(a) => Disconnecting(a)'
  BY <1>1 DEF Disconnecting
<1>5. \A a \in ends : Disconnecting(a)'
  BY <1>1 DEF Disconnecting, SaysDisconnect, Says
<1>6. ArrowsHeld'
  <2>1. \A a \in Mapped' : Attached(a) => Attached(a)'
    BY <1>1, <1>2 DEF Attached, Held, Lists
  <2>2. QED BY <1>2, <1>4, <2>1 DEF ArrowsOK, ArrowsHeld
<1>7. LeavingGoes'
  BY <1>1, <1>2, <1>4, <1>5 DEF ArrowsOK, LeavingGoes
<1>8. RemovedLeaves'
  <2>1. SUFFICES ASSUME NEW c \in calls', c.op = "remove", NEW a \in Mapped',
                        c.who = arrow'[a].from \/ c.who = arrow'[a].to
                 PROVE  arrow'[a].leaving
    BY DEF RemovedLeaves
  <2>2. a \in Mapped /\ a \in DOMAIN arrow /\ (c.who = arrow[a].from \/ c.who = arrow[a].to)
    BY <1>1, <1>2, <2>1
  <2>3. CASE c \in calls
    BY <1>1, <2>1, <2>2, <2>3 DEF ArrowsOK, RemovedLeaves
  <2>4. CASE c.who = o
    <3>1. EndsAt(a, node[o].id)
      BY <2>2, <2>4 DEF EndsAt
    <3>2. QED BY <1>1, <1>3, <2>2, <3>1
  <2>5. c \in calls \/ c.who = o
    BY <1>1, <2>1 DEF SaysDisconnect, Says
  <2>6. QED BY <2>3, <2>4, <2>5
<1>9. ReadAlone'
  <2>1. \A c \in calls' : c.op # "refresh"
    BY <1>1 DEF SaysDisconnect, Says
  <2>2. QED BY <2>1 DEF ReadAlone
<1>10. QED BY <1>6, <1>7, <1>8, <1>9 DEF ArrowsOK

LEMMA AddNodeArrows ==
  ASSUME Types, Types', ArrowsOK, NEW k \in Kinds, AddNode(k), Apart' PROVE ArrowsOK'
<1>1. PICK id, o :
        /\ o \notin DOMAIN node /\ DOMAIN node' = DOMAIN node \cup {o}
        /\ \A p \in DOMAIN node : node'[p] = node[p]
        /\ DOMAIN state' = DOMAIN state \cup {id}
        /\ \A i \in DOMAIN state : i # id => state'[i] = state[i]
        /\ calls \subseteq calls'
        /\ \A c \in calls' : \/ c \in calls \/ Says(c, "stop", 0, NoName, NoName)
                             \/ Says(c, "create", o, id, NoName)
        /\ crossed' = crossed \cup Clash("create", id, NoName) \cup Reused(id)
  BY AddNodeMakes
<1>2. arrow' = arrow
  BY DEF AddNode
<1>3. id \notin DOMAIN state
  <2>1. "nodes" \notin Reused(id)
    BY <1>1 DEF Apart
  <2>2. QED BY <2>1, NotReused
<1>4. Mapped' = Mapped /\ \A a \in Mapped : a \in DOMAIN arrow
  BY <1>2, MappedIs DEF Mapped, Types
<1>5. \A a \in DOMAIN arrow : arrow[a].from \in DOMAIN node /\ arrow[a].to \in DOMAIN node
  BY DEF Types, ArrowsTyped
<1>6. \A o2 \in DOMAIN node : Held(o2) => Held(o2)'
  BY <1>1, <1>3 DEF Held, Lists
<1>7. \A a \in Mapped' : Attached(a) => Attached(a)'
  BY <1>2, <1>4, <1>5, <1>6 DEF Attached
<1>8. \A a \in Mapped' : Disconnecting(a) => Disconnecting(a)'
  BY <1>1 DEF Disconnecting
<1>9. \A c \in calls' : c \in calls \/ c.op \notin {"refresh", "remove"} \cup LinkOps
  BY <1>1 DEF Says, LinkOps
<1>10. ReadAlone'
  BY <1>9, ReadStays DEF ArrowsOK
<1>11. QED BY <1>2, <1>4, <1>7, <1>8, <1>9, <1>10, ArrowsStay

LEMMA ConnectArrows ==
  ASSUME Types, Types', NamesOK, ArrowsOK, NEW f \in Drawn, NEW g \in Drawn, Connect(f, g), Apart'
  PROVE  ArrowsOK'
<1>1. PICK b : b = Len(arrow) + 1
  OBVIOUS
<1>2. PICK i, j : i = node[f].id /\ j = node[g].id
  OBVIOUS
<1>3. /\ f \in DOMAIN node /\ g \in DOMAIN node
      /\ b \notin DOMAIN arrow
      /\ DOMAIN arrow' = DOMAIN arrow \cup {b}
      /\ \A a \in DOMAIN arrow : arrow'[a] = arrow[a]
      /\ arrow'[b] = [from |-> f, to |-> g, name |-> 0, mapped |-> TRUE, drawn |-> TRUE, leaving |-> FALSE]
      /\ calls \subseteq calls'
      /\ \A c \in calls' : \/ c \in calls \/ Says(c, "stop", 0, NoName, NoName)
                           \/ Says(c, "connect", b, i, j)
  BY <1>1, <1>2, ConnectDoes
<1>4. \A c \in calls : c.op \notin Movers
  <2>1. "links" \notin Clash("connect", node[f].id, node[g].id)
    BY DEF Connect, Apart
  <2>2. QED BY <2>1, NoLinkClash DEF LinkOps
<1>5. \A c \in calls' : c.op \notin Movers
  BY <1>3, <1>4 DEF Says, Movers
<1>6. UNCHANGED <<node, state>>
  BY DEF Connect
<1>7. \A a \in Mapped' : a = b \/ (a \in Mapped /\ a \in DOMAIN arrow /\ arrow'[a] = arrow[a])
  BY <1>3, MappedIs, MappedNext DEF Types
<1>8. \A a \in Mapped' : Disconnecting(a) => Disconnecting(a)'
  BY <1>3 DEF Disconnecting
<1>9. ArrowsHeld'
  <2>1. Attached(b)'
    BY <1>3, <1>6 DEF Attached, Held, NamesOK, Shown, Lists
  <2>2. \A a \in Mapped' : a # b => Attached(a)' \/ Disconnecting(a)'
    BY <1>6, <1>7, <1>8 DEF ArrowsOK, ArrowsHeld, Attached, Held, Lists
  <2>3. QED BY <2>1, <2>2 DEF ArrowsHeld
<1>10. LeavingGoes'
  <2>1. ~arrow'[b].leaving
    BY <1>3
  <2>2. QED BY <1>7, <1>8, <2>1 DEF ArrowsOK, LeavingGoes
<1>11. RemovedLeaves' /\ ReadAlone'
  BY <1>5 DEF RemovedLeaves, ReadAlone, Movers
<1>12. QED BY <1>9, <1>10, <1>11 DEF ArrowsOK

(* What a clear leaves of the arrows is leaving or held by no node.        *)
LEMMA ClearedArrows ==
  ASSUME Types, NamesOK, ArrowsOK, NEW a \in DOMAIN arrow, ArrowsWithout(DOMAIN state)[a].mapped
  PROVE  a \in Mapped /\ Disconnecting(a)
<1>1. arrow[a].mapped /\ (arrow[a].leaving \/ \A i \in Ids(DOMAIN state) : ~EndsAt(a, i))
  BY ArrowsWithoutIs
<1>2. a \in Mapped
  BY <1>1, MappedIs DEF Types
<1>3. Ids(DOMAIN state) = DOMAIN state
  BY DEF Ids, NamesOK, Placed
<1>4. Attached(a) => arrow[a].leaving
  BY <1>1, <1>3 DEF Attached, Held, Lists, EndsAt
<1>5. QED BY <1>2, <1>4 DEF ArrowsOK, ArrowsHeld, LeavingGoes

LEMMA NewBehaviourArrows ==
  ASSUME Types, Types', NamesOK, ArrowsOK, NewBehaviour, Apart' PROVE ArrowsOK'
<1>1. Busy = {}
  BY DEF NewBehaviour, ClearAborts, Apart
<1>2. /\ arrow' = ArrowsWithout(DOMAIN state)
      /\ calls \subseteq calls'
      /\ \A c \in calls' : \/ c \in calls \/ Says(c, "stop", 0, NoName, NoName)
                           \/ Says(c, "clear", 0, NoName, NoName)
  BY <1>1, NewBehaviourDoes
<1>3. DOMAIN arrow' = DOMAIN arrow
      /\ \A a \in DOMAIN arrow : /\ arrow'[a].from = arrow[a].from /\ arrow'[a].to = arrow[a].to
                                 /\ arrow'[a].leaving = arrow[a].leaving
  BY <1>2, ArrowsWithoutIs
<1>4. \A a \in Mapped' : a \in DOMAIN arrow /\ a \in Mapped /\ Disconnecting(a)
  BY <1>2, <1>3, ClearedArrows, MappedNext DEF Types
<1>5. \A a \in Mapped' : Disconnecting(a)'
  BY <1>2, <1>4 DEF Disconnecting
<1>6. \A c \in calls' : c \in calls \/ c.op \notin {"refresh", "remove"} \cup LinkOps
  BY <1>2 DEF Says, LinkOps
<1>7. ReadAlone'
  BY <1>6, ReadStays DEF ArrowsOK
<1>8. QED BY <1>3, <1>4, <1>5, <1>6, <1>7, ArrowsStay

LEMMA EditArrows ==
  ASSUME Types, Types', NamesOK, ArrowsOK, Edit, Apart' PROVE ArrowsOK'
<1>1. calls \subseteq calls'
  BY EditOnlyPosts
<1>2. ASSUME UNCHANGED <<node, state, arrow>>,
             \A c \in calls' : c \in calls \/ c.op \notin {"refresh", "remove"} \cup LinkOps
      PROVE  ArrowsOK'
  BY <1>1, <1>2, ArrowsUntouched
<1>3. ASSUME NEW k \in Kinds, AddNode(k) PROVE ArrowsOK'
  BY <1>3, AddNodeArrows
<1>4. ASSUME NEW o \in Drawn, DeleteNode(o) PROVE ArrowsOK'
  <2>1. o \in DOMAIN node
    BY DrawnIs DEF Types
  <2>2. "nodes" \notin Clash("remove", node[o].id, NoName)
    BY <1>4 DEF DeleteNode, Apart
  <2>3. \A c \in calls : c.op # "refresh"
    BY <2>2, NoClash DEF NodeOps
  <2>4. PostDelete(o, {}) /\ UNCHANGED <<node, state>>
    BY <1>4 DEF DeleteNode
  <2>5. QED BY <2>1, <2>3, <2>4, PostDeleteArrows
<1>5. ASSUME NEW o \in Drawn, NEW new \in GivenNames, SetName(o, new) PROVE ArrowsOK'
  <2>1. \A c \in calls' : c \in calls \/ c.op = "rename"
    BY <1>5, SetNameDoes DEF Says
  <2>2. UNCHANGED <<node, state, arrow>>
    BY <1>5 DEF SetName, page
  <2>3. QED BY <1>2, <2>1, <2>2 DEF LinkOps
<1>6. ASSUME NEW f \in Drawn, NEW g \in Drawn, Connect(f, g) PROVE ArrowsOK'
  BY <1>6, ConnectArrows
<1>7. ASSUME NEW f \in Drawn, NEW g \in Drawn, Disconnect(f, g) PROVE ArrowsOK'
  <2>1. "links" \notin Clash("disconnect", node[f].id, node[g].id)
    BY <1>7 DEF Disconnect, Apart
  <2>2. \A c \in calls : c.op # "refresh"
    BY <2>1, NoLinkClash DEF LinkOps, Movers
  <2>3. \A c \in calls' : c \in calls \/ c.op = "disconnect"
    BY <1>7, DisconnectDoes DEF SaysDisconnect, Says
  <2>4. UNCHANGED <<node, state, arrow>>
    BY <1>7 DEF Disconnect, page
  <2>5. Mapped' = Mapped /\ \A a \in Mapped : a \in DOMAIN arrow
    BY <2>4, MappedIs DEF Mapped, Types
  <2>6. \A a \in Mapped' : (Attached(a) => Attached(a)') /\ (Disconnecting(a) => Disconnecting(a)')
    BY <1>1, <2>4 DEF Attached, Held, Lists, Disconnecting
  <2>7. ReadAlone'
    BY <2>2, <2>3 DEF ReadAlone
  <2>8. QED BY <2>3, <2>4, <2>5, <2>6, <2>7, ArrowsStay
<1>8. CASE NewBehaviour
  BY <1>8, NewBehaviourArrows
<1>9. CASE Refresh
  <2>1. "links" \notin Clash("refresh", NoName, NoName)
    BY <1>9 DEF Refresh, Apart
  <2>2. \A c \in calls : c.op \notin LinkOps
    BY <2>1, NoLinkClash DEF NodeOps
  <2>3. \A c \in calls' : c \in calls \/ c.op \in {"stop", "refresh"}
    BY <1>9, RefreshDoes DEF Says
  <2>4. UNCHANGED <<node, state, arrow>>
    BY <1>9 DEF Refresh, page
  <2>5. Mapped' = Mapped /\ \A a \in Mapped : a \in DOMAIN arrow
    BY <2>4, MappedIs DEF Mapped, Types
  <2>6. \A a \in Mapped' : (Attached(a) => Attached(a)') /\ (Disconnecting(a) => Disconnecting(a)')
    BY <1>1, <2>4 DEF Attached, Held, Lists, Disconnecting
  <2>7. ReadAlone'
    BY <2>2, <2>3 DEF ReadAlone, LinkOps
  <2>8. QED BY <2>3, <2>4, <2>5, <2>6, <2>7, ArrowsStay
<1>10. CASE StartStop
  <2>1. \A c \in calls' : c \in calls \/ c.op \in {"run", "stop"}
    BY <1>10, StartStopDoes DEF Says
  <2>2. UNCHANGED <<node, state, arrow>>
    BY <1>10 DEF StartStop, page
  <2>3. QED BY <1>2, <2>1, <2>2 DEF LinkOps
<1>11. QED BY <1>3, <1>4, <1>5, <1>6, <1>7, <1>8, <1>9, <1>10 DEF Edit

LEMMA ServeArrows ==
  ASSUME Types, NamesOK, ArrowsOK, NEW c \in calls, Serve(c) PROVE ArrowsOK'
<1>1. UNCHANGED <<node, state, arrow>>
  BY ServeLeaves DEF page
<1>2. ASSUME NEW s, CallReplied(c, s) PROVE ArrowsOK'
  BY <1>1, <1>2, ArrowsReplied DEF CallReplied, IsReply
<1>3. CASE ServeCreate(c)
  <2>1. PICK name \in Names : \E r : calls' = (calls \ {c}) \cup {r} /\ IsReply(r, c, "ok", name, c.view)
    BY <1>3, CreateServed
  <2>2. QED BY <1>1, <2>1, ArrowsReplied DEF IsReply
<1>4. CASE ServeRemove(c)
  BY <1>2, <1>4, RemoveServed DEF NamesOK
<1>5. CASE ServeRename(c)
  BY <1>2, <1>5, RenameServed
<1>6. CASE ServeClear(c)
  <2>1. \E r : calls' = (calls \ {c}) \cup {r} /\ IsReply(r, c, "ok", c.name, c.view)
    BY <1>6, ServeClearDoes
  <2>2. QED BY <1>1, <2>1, ArrowsReplied DEF IsReply
<1>7. CASE ServeFile(c)
  <2>1. PICK r, v : calls' = (calls \ {c}) \cup {r} /\ IsReply(r, c, "ok", c.name, v)
    BY <1>7, ServeFileDoes
  <2>2. r.op = c.op /\ r.who = c.who
    BY <2>1 DEF IsReply
  <2>3. QED BY <1>1, <2>1, <2>2, ArrowsReplied
<1>8. CASE ServePosition(c) \/ ServeConnect(c) \/ ServeDisconnect(c)
  <2>1. c.op \in {"position", "connect", "disconnect"} /\ \E s \in {"ok", "error"} : Reply(c, s)
    BY <1>8 DEF ServePosition, ServeConnect, ServeDisconnect, Serving
  <2>2. PICK s \in {"ok", "error"} : \E r : calls' = (calls \ {c}) \cup {r} /\ IsReply(r, c, s, c.name, c.view)
    BY <2>1, StatusReply DEF Types
  <2>3. QED BY <1>2, <2>2 DEF CallReplied
<1>9. CASE DiskStep(c)
  <2>1. calls' = calls
    BY <1>9, DiskStepDoes
  <2>2. QED BY <1>1, <2>1, ArrowsUntouched
<1>10. QED BY <1>3, <1>4, <1>5, <1>6, <1>7, <1>8, <1>9 DEF Serve, ServeFile, DiskStep

(* An answer that gives a node its new id, and none that a link needs.     *)
LEMMA MovedArrows ==
  ASSUME Types, ArrowsOK, NEW c \in calls, c.op \notin LinkOps, arrow' = arrow,
         \A p \in DOMAIN node : Held(p) => Held(p)',
         calls \ {c} \subseteq calls',
         \A d \in calls' : d \in calls \/ d.op \notin {"refresh", "remove"} \cup LinkOps
  PROVE  ArrowsOK'
<1>1. Mapped' = Mapped /\ \A a \in Mapped : a \in DOMAIN arrow
  BY MappedIs DEF Mapped, Types
<1>2. \A a \in DOMAIN arrow : arrow[a].from \in DOMAIN node /\ arrow[a].to \in DOMAIN node
  BY DEF Types, ArrowsTyped
<1>3. \A a \in Mapped' : Attached(a) => Attached(a)'
  BY <1>1, <1>2 DEF Attached
<1>4. \A a \in Mapped' : Disconnecting(a) => Disconnecting(a)'
  BY DEF Disconnecting, LinkOps
<1>5. ReadAlone'
  BY ReadStays DEF ArrowsOK
<1>6. QED BY <1>1, <1>3, <1>4, <1>5, ArrowsStay

LEMMA CreatedArrows ==
  ASSUME Types, Types', NamesOK, ArrowsOK, NEW c \in calls, Created(c) PROVE ArrowsOK'
<1>1. c.op = "create" /\ c.op \in NodeOps
  BY DEF Created, NodeOps
<1>2. CreateFits(c)
  BY <1>1 DEF NamesOK, CallsFit, Fits
<1>3. PICK o, old : o = c.who /\ old = c.at
  OBVIOUS
<1>4. o \in DOMAIN node /\ node[o].id = old /\ Lists(old, o)
  BY <1>1, <1>2, <1>3 DEF CreateFits, Lists, NamesOK, Placed, Types, CallsTyped, CallOK
<1>5. CASE c.status = "ok"
  <2>1. PICK new : new = c.name /\ new \in Names
    BY <1>5, CreatedDoes
  <2>2. /\ \A p \in DOMAIN node : p # o => node'[p] = node[p]
        /\ node'[o].id = new
        /\ DOMAIN state' = (DOMAIN state \ {old}) \cup {new} /\ state'[new] = o
        /\ \A i \in DOMAIN state \ {old} : i # new => state'[i] = state[i]
        /\ arrow' = arrow
    BY <1>3, <1>4, <1>5, <2>1, CreatedDoes
  <2>3. PICK p : calls' = (calls \ {c}) \cup {p} /\ Says(p, "position", o, new, NoName)
    BY <1>3, <1>5, <2>1, CreatedDoes
  <2>4. p.op = "position"
    BY <2>3 DEF Says
  <2>5. new \notin DOMAIN state
    BY <1>2, <2>1, NamesAssumption DEF CreateFits
  <2>6. \A q \in DOMAIN node : Held(q) => Held(q)'
    <3>1. \A i \in DOMAIN state \ {old} : state'[i] = state[i]
      BY <2>2, <2>5
    <3>2. \A q \in DOMAIN node : q # o => node'[q].id = node[q].id
      BY <2>2
    <3>3. QED BY <1>4, <2>2, <2>5, <3>1, <3>2, HeldMoves
  <2>7. QED BY <1>1, <2>2, <2>3, <2>4, <2>6, MovedArrows DEF LinkOps
<1>6. CASE c.status = "error"
  <2>1. PostDelete(o, {c}) /\ UNCHANGED <<node, state>>
    BY <1>3, <1>6 DEF Created
  <2>2. \A d \in calls : d.op # "refresh"
    BY <1>1 DEF NamesOK, CallsApart, KeptApart, NodeOps
  <2>3. QED BY <1>1, <1>4, <2>1, <2>2, PostDeleteArrows
<1>7. QED BY <1>5, <1>6 DEF Created

LEMMA RenamedArrows ==
  ASSUME Types, NamesOK, ArrowsOK, NEW c \in calls, Renamed(c) PROVE ArrowsOK'
<1>1. c.op = "rename" /\ c.op \in NodeOps /\ arrow' = arrow /\ calls' = calls \ {c}
  BY DEF Renamed, NodeOps, Answered
<1>2. RenameFits(c)
  BY <1>1 DEF NamesOK, CallsFit, Fits
<1>3. CASE c.status = "ok"
  <2>1. PICK o, old, new : o = c.who /\ old = c.at /\ new = c.to
    OBVIOUS
  <2>2. o \in DOMAIN node /\ node[o].id = old /\ Lists(old, o)
    <3>1. o \in DOMAIN node
      BY <1>1, <2>1 DEF Types, CallsTyped, CallOK
    <3>2. Lists(old, o)
      BY <1>2, <1>3, <2>1 DEF RenameFits
    <3>3. QED BY <3>1, <3>2 DEF Lists, NamesOK, Placed
  <2>3. /\ \A p \in DOMAIN node : p # o => node'[p].id = node[p].id
        /\ node'[o].id = new
        /\ DOMAIN state' = (DOMAIN state \ {old}) \cup {new} /\ state'[new] = o
        /\ \A i \in DOMAIN state \ {old} : i # new => state'[i] = state[i]
    BY <1>3, <2>1, <2>2, RenamedDoes
  <2>4. new \notin DOMAIN state
    BY <1>2, <2>1 DEF RenameFits
  <2>5. \A q \in DOMAIN node : Held(q) => Held(q)'
    <3>1. \A i \in DOMAIN state \ {old} : state'[i] = state[i]
      BY <2>3, <2>4
    <3>2. QED BY <2>2, <2>3, <2>4, <3>1, HeldMoves
  <2>6. QED BY <1>1, <2>5, MovedArrows DEF LinkOps
<1>4. CASE c.status = "error"
  <2>1. UNCHANGED <<node, state>>
    BY <1>4 DEF Renamed
  <2>2. \A q \in DOMAIN node : Held(q) => Held(q)'
    BY <2>1 DEF Held, Lists
  <2>3. QED BY <1>1, <2>2, MovedArrows DEF LinkOps
<1>5. QED BY <1>3, <1>4 DEF Renamed

(* A node that leaves the page takes no arrow with it that is not leaving. *)
LEMMA RemovedArrows ==
  ASSUME Types, NamesOK, ArrowsOK, NEW c \in calls, Removed(c) PROVE ArrowsOK'
<1>1. c.op = "remove" /\ c.op \in NodeOps /\ arrow' = arrow
  BY DEF Removed, NodeOps
<1>2. CASE c.status = "ok"
  <2>1. Lists(c.at, c.who) /\ node[c.who].id = c.at
    BY <1>1, <1>2 DEF NamesOK, CallsFit, Fits, RemoveFits, Placed, Lists
  <2>2. /\ DOMAIN state' = DOMAIN state \ {c.at}
        /\ \A i \in DOMAIN state \ {c.at} : state'[i] = state[i]
        /\ \A o \in DOMAIN node : node'[o].id = node[o].id
        /\ calls \ {c} \subseteq calls'
        /\ \A d \in calls' : d \in calls \ {c} \/ Says(d, "save", c.who, NoName, NoName)
    BY <1>2, <2>1, RemovedDoes
  <2>3. Mapped' = Mapped /\ \A a \in Mapped : a \in DOMAIN arrow
    BY <1>1, MappedIs DEF Mapped, Types
  <2>4. \A a \in Mapped : Disconnecting(a) => Disconnecting(a)'
    BY <1>1, <2>2 DEF Disconnecting
  <2>5. \A o \in DOMAIN node : Held(o) /\ o # c.who => Held(o)'
    BY <2>1, <2>2 DEF Held, Lists
  <2>6. \A a \in Mapped' : Attached(a) => Attached(a)' \/ Disconnecting(a)'
    <3>1. SUFFICES ASSUME NEW a \in Mapped, Attached(a) PROVE Attached(a)' \/ Disconnecting(a)'
      BY <2>3
    <3>2. CASE c.who = arrow[a].from \/ c.who = arrow[a].to
      BY <1>1, <2>4, <3>2 DEF ArrowsOK, RemovedLeaves, LeavingGoes
    <3>3. CASE c.who # arrow[a].from /\ c.who # arrow[a].to
      <4>1. arrow[a].from \in DOMAIN node /\ arrow[a].to \in DOMAIN node
        BY <2>3 DEF Types, ArrowsTyped
      <4>2. QED BY <1>1, <2>5, <3>1, <3>3, <4>1 DEF Attached
    <3>4. QED BY <3>2, <3>3
  <2>7. \A d \in calls' : d \in calls \/ d.op = "save"
    BY <2>2 DEF Says
  <2>8. ReadAlone'
    BY <2>7, ReadStays DEF ArrowsOK, LinkOps
  <2>9. QED BY <1>1, <2>3, <2>4, <2>6, <2>7, <2>8, ArrowsStay
<1>3. CASE c.status = "error" /\ UNCHANGED <<node, state>> /\ Answered(c)
  <2>1. \A q \in DOMAIN node : Held(q) => Held(q)'
    BY <1>3 DEF Held, Lists
  <2>2. QED BY <1>1, <1>3, <2>1, MovedArrows DEF LinkOps, Answered
<1>4. QED BY <1>2, <1>3 DEF Removed

(* A connection that the server answered about.                            *)
LEMMA LinkedArrows ==
  ASSUME Types, Types', ArrowsOK, NEW c \in calls, Linked(c) PROVE ArrowsOK'
<1>1. PICK a : a = c.who
  OBVIOUS
<1>2. c.op \in LinkOps /\ UNCHANGED <<node, state>>
  BY DEF Linked
<1>3. /\ a \in DOMAIN arrow /\ DOMAIN arrow' = DOMAIN arrow
      /\ \A b \in DOMAIN arrow :
           /\ arrow'[b].from = arrow[b].from /\ arrow'[b].to = arrow[b].to
           /\ arrow'[b].leaving = arrow[b].leaving
           /\ b # a => arrow'[b].mapped = arrow[b].mapped
      /\ \/ c.op = "connect" /\ c.status = "ok" /\ arrow' = arrow /\ calls' = calls \ {c}
         \/ c.op = "disconnect" /\ c.status = "ok" /\ ~arrow'[a].mapped /\ calls' = calls \ {c}
         \/ c.status = "error" /\ arrow' = arrow
            /\ \E d : calls' = (calls \ {c}) \cup {d} /\ SaysDisconnect(d, a)
  BY <1>1, LinkedDoes
<1>4. /\ \A d \in calls' : d \in calls \ {c} \/ (d.op = "disconnect" /\ d.who = a)
      /\ calls \ {c} \subseteq calls'
      /\ \/ c.op = "connect"
         \/ ~arrow'[a].mapped
         \/ \E d \in calls' : d.op = "disconnect" /\ d.who = a
  BY <1>3 DEF SaysDisconnect, Says
<1>5. \A b \in Mapped' : b \in DOMAIN arrow /\ arrow'[b].mapped /\ b \in Mapped
  <2>1. arrow' = arrow \/ ~arrow'[a].mapped
    BY <1>3
  <2>2. QED BY <1>3, <2>1, MappedIs, MappedNext DEF Types
<1>6. \A b \in Mapped' : Disconnecting(b) => Disconnecting(b)'
  BY <1>1, <1>4, <1>5 DEF Disconnecting
<1>7. \A b \in Mapped' : Attached(b) => Attached(b)'
  BY <1>2, <1>3, <1>5 DEF Attached, Held, Lists
<1>8. ReadAlone'
  BY <1>2, <1>4, ReadStays DEF ArrowsOK
<1>9. \A d \in calls' : d.op = "remove" => d \in calls
  BY <1>4
<1>10. QED BY <1>3, <1>5, <1>6, <1>7, <1>8, <1>9, ArrowsStay

(* The page read anew: no arrow of before is left, and the ends of those   *)
(* that come are listed.                                                   *)
LEMMA RefreshedDrops ==
  ASSUME Types, Types', NamesOK, ArrowsOK, NEW c \in calls, Refreshed(c), c.status = "ok", Apart'
  PROVE  Refreshes(c) /\ \A a \in Mapped' : a \in DOMAIN arrow' \ DOMAIN arrow
<1>1. c.op = "refresh" /\ c.op \in NodeOps /\ c.who \in {0, 1}
  BY DEF Refreshed, NodeOps, Types, CallsTyped, CallOK
<1>2. Refreshes(c)
  <2>1. "nodes" \notin crossed'
    BY DEF Apart
  <2>2. QED BY <1>1, <2>1 DEF Refreshed, Refreshes, ClearAborts
<1>3. \A a : ~Disconnecting(a)
  BY <1>1 DEF ArrowsOK, ReadAlone, Disconnecting, LinkOps
<1>4. ASSUME NEW a \in DOMAIN arrow PROVE ~OldArrows(c)[a].mapped
  <2>1. CASE c.who = 1
    BY <1>3, <1>4, <2>1, ClearedArrows DEF OldArrows
  <2>2. CASE c.who = 0
    <3>1. DOMAIN state = {}
      BY <1>1, <2>2 DEF NamesOK, CallsFit, Fits, RefreshFits
    <3>2. ~Attached(a)
      BY <3>1 DEF Attached, Held, Lists
    <3>3. a \notin Mapped
      BY <1>3, <3>2 DEF ArrowsOK, ArrowsHeld
    <3>4. QED BY <1>4, <2>2, <3>3, MappedIs DEF OldArrows, Types
  <2>3. QED BY <1>1, <2>1, <2>2
<1>5. \A a \in DOMAIN arrow : arrow'[a].mapped => OldArrows(c)[a].mapped
  BY <1>2, RefreshedArrows
<1>6. QED BY <1>2, <1>4, <1>5, MappedNext DEF Types

LEMMA RefreshedArrowsOK ==
  ASSUME Types, Types', NamesOK, NamesOK', ArrowsOK, NEW c \in calls, Refreshed(c), Apart' PROVE ArrowsOK'
<1>1. c.op = "refresh" /\ c.op \in NodeOps /\ calls' = calls \ {c} /\ c.status \in {"ok", "error"}
  BY DEF Refreshed, Answered, NodeOps
<1>2. \A d \in calls : d.op \notin LinkOps
  BY <1>1 DEF ArrowsOK, ReadAlone
<1>3. CASE c.status = "error"
  <2>1. UNCHANGED <<node, state, arrow>>
    BY <1>1, <1>3 DEF Refreshed
  <2>2. \A q \in DOMAIN node : Held(q) => Held(q)'
    BY <2>1 DEF Held, Lists
  <2>3. QED BY <1>1, <1>2, <2>1, <2>2, MovedArrows
<1>4. CASE c.status = "ok"
  <2>1. Refreshes(c) /\ \A a \in Mapped' : a \in DOMAIN arrow' \ DOMAIN arrow
    BY <1>4, RefreshedDrops
  <2>2. \A a \in DOMAIN arrow' \ DOMAIN arrow : \E l \in c.view.links :
           /\ {l.from, l.to} \subseteq DOMAIN state'
           /\ arrow'[a].from = state'[l.from] /\ arrow'[a].to = state'[l.to]
           /\ ~arrow'[a].leaving
    BY <2>1, RefreshedArrows
  <2>3. \A i \in DOMAIN state' : node'[state'[i]].id = i
    BY DEF NamesOK, Placed
  <2>4. ArrowsHeld'
    <3>1. SUFFICES ASSUME NEW a \in Mapped' PROVE Attached(a)'
      BY DEF ArrowsHeld
    <3>2. PICK l : /\ l.from \in DOMAIN state' /\ l.to \in DOMAIN state'
                   /\ arrow'[a].from = state'[l.from] /\ arrow'[a].to = state'[l.to]
      BY <2>1, <2>2
    <3>3. PICK i, j : i = state'[l.from] /\ j = state'[l.to]
      OBVIOUS
    <3>4. arrow'[a].from = i /\ arrow'[a].to = j
      BY <3>2, <3>3
    <3>5. node'[i].id = l.from /\ node'[j].id = l.to
      BY <2>3, <3>2, <3>3
    <3>6. QED BY <3>2, <3>3, <3>4, <3>5 DEF Attached, Held, Lists
  <2>5. LeavingGoes'
    BY <2>1, <2>2 DEF LeavingGoes
  <2>6. RemovedLeaves'
    <3>1. \A d \in calls' : d.op # "remove"
      BY <1>1 DEF NamesOK, CallsApart, KeptApart, NodeOps
    <3>2. QED BY <3>1 DEF RemovedLeaves
  <2>7. ReadAlone'
    BY <1>1, <1>2 DEF ReadAlone
  <2>8. QED BY <2>4, <2>5, <2>6, <2>7 DEF ArrowsOK
<1>5. QED BY <1>1, <1>3, <1>4

LEMMA AnswerArrows ==
  ASSUME Types, Types', NamesOK, NamesOK', ArrowsOK, NEW c \in calls, Answer(c), Apart' PROVE ArrowsOK'
<1>1. CASE Created(c)
  BY <1>1, CreatedArrows
<1>2. CASE Positioned(c)
  <2>1. c.op = "position" /\ UNCHANGED <<node, state, arrow>>
    BY <1>2 DEF Positioned, page
  <2>2. /\ calls \ {c} \subseteq calls'
        /\ \A d \in calls' : d \in calls \/ d.op = "save"
    BY <1>2, PositionedDoes DEF Says
  <2>3. \A q \in DOMAIN node : Held(q) => Held(q)'
    BY <2>1 DEF Held, Lists
  <2>4. QED BY <2>1, <2>2, <2>3, MovedArrows DEF LinkOps
<1>3. CASE Removed(c)
  BY <1>3, RemovedArrows
<1>4. CASE Linked(c)
  BY <1>4, LinkedArrows
<1>5. CASE Renamed(c)
  BY <1>5, RenamedArrows
<1>6. CASE Refreshed(c)
  BY <1>6, RefreshedArrowsOK
<1>7. CASE Acknowledged(c)
  <2>1. c.op \notin LinkOps /\ UNCHANGED <<node, state, arrow>> /\ calls' = calls \ {c}
    BY <1>7 DEF Acknowledged, Answered, LinkOps
  <2>2. \A q \in DOMAIN node : Held(q) => Held(q)'
    BY <2>1 DEF Held, Lists
  <2>3. QED BY <2>1, <2>2, MovedArrows
<1>8. QED BY <1>1, <1>2, <1>3, <1>4, <1>5, <1>6, <1>7 DEF Answer

LEMMA DanglingKeep ==
  Types /\ Types' /\ NamesRight /\ NamesRight' /\ DanglingRight /\ [Next]_vars => DanglingRight'
<1>1. SUFFICES ASSUME Types, Types', NamesRight, NamesRight', DanglingRight, [Next]_vars, Apart'
               PROVE  ArrowsOK'
  BY DEF DanglingRight
<1>2. Apart
  BY <1>1, CrossedGrows DEF Apart
<1>3. NamesOK /\ NamesOK' /\ ArrowsOK
  BY <1>1, <1>2 DEF NamesRight, DanglingRight, Apart, Ordered
<1>4. ASSUME Edit PROVE ArrowsOK'
  BY <1>1, <1>3, <1>4, EditArrows
<1>5. ASSUME NEW c \in calls, Serve(c) PROVE ArrowsOK'
  BY <1>1, <1>3, <1>5, ServeArrows
<1>6. ASSUME NEW c \in calls, Answer(c) PROVE ArrowsOK'
  BY <1>1, <1>3, <1>6, AnswerArrows
<1>7. ASSUME NEW c \in calls, Fails(c) PROVE ArrowsOK'
  <2>1. UNCHANGED <<node, state, arrow>>
    BY <1>1, <1>7, FailsDoes DEF page
  <2>2. PICK r : calls' = (calls \ {c}) \cup {r} /\ IsReply(r, c, "error", c.name, c.view)
    BY <1>1, <1>7, FailsDoes
  <2>3. r.op = c.op /\ r.who = c.who
    BY <2>2 DEF IsReply
  <2>4. QED BY <1>1, <1>3, <2>1, <2>2, <2>3, ArrowsReplied
<1>8. ASSUME Outside PROVE ArrowsOK'
  <2>1. UNCHANGED <<node, state, arrow, calls>>
    BY <1>1, <1>8, OutsideDo DEF page
  <2>2. QED BY <1>1, <1>3, <2>1, ArrowsUntouched
<1>9. ASSUME ProcessEvents PROVE ArrowsOK'
  <2>1. UNCHANGED <<state, arrow, calls>> /\ \A o \in DOMAIN node : node'[o].id = node[o].id
    BY <1>1, <1>9, ProcessEventsDoes
  <2>2. QED BY <1>1, <1>3, <2>1, ArrowsUntouched
<1>10. ~LoadBehaviour
  BY <1>1, LoadDoes DEF Apart
<1>11. QED BY <1>1, <1>4, <1>5, <1>6, <1>7, <1>8, <1>9, <1>10 DEF Next, Outside, Visits, Polls

LEMMA DanglingHold == Spec => []DanglingRight
<1>1. Init => DanglingRight
  <2>1. SUFFICES ASSUME Init PROVE ArrowsOK
    BY DEF DanglingRight
  <2>2. Mapped = {}
    BY <2>1 DEF Init, Mapped
  <2>3. \A c \in calls : c.op = "refresh"
    BY <2>1 DEF Init, Call
  <2>4. QED BY <2>2, <2>3 DEF ArrowsOK, ArrowsHeld, LeavingGoes, RemovedLeaves, ReadAlone, LinkOps
<1>2. QED BY <1>1, DanglingKeep, TypesHold, NamesHold, PTL DEF Spec

(* An arrow whose node is gone from the page has a request under way.      *)
THEOREM EditorDanglingArrowPending == Spec => []DanglingArrowPending
<1>1. DanglingRight => DanglingArrowPending
  BY DEF DanglingRight, Apart, ArrowsOK, ArrowsHeld, Attached, Held, Lists, Disconnecting, LinkOps,
         DanglingArrowPending
<1>2. QED BY <1>1, DanglingHold, PTL
=============================================================================

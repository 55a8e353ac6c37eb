-------------------------- MODULE EditorArrowsProofs -------------------------
(***************************************************************************)
(* Proofs about the connections of EditorSync: once every answer is in,    *)
(* the arrows of the page are the connections of the server.               *)
(***************************************************************************)
EXTENDS EditorSyncProofs

(* The connections: an arrow joins what its ends stand for at the server,  *)
(* where a node may have the name of a rename the page was not told of.    *)
(* Every arrow of the page has a request under way or joins the ends of a  *)
(* connection, and every connection between nodes that live has its arrow, *)
(* or the page is about to be cleared or read anew.                        *)
Stands(o, n) ==
  /\ n \in live /\ Held(o)
  /\ \/ known[n].name = node[o].id
     \/ \E c \in calls : /\ c.op = "rename" /\ c.status = "ok" /\ c.who = o
                         /\ known[n].name = c.to
Joining(a, l) == Stands(arrow[a].from, l.from) /\ Stands(arrow[a].to, l.to)
Linking(a) == \E c \in calls : c.op \in LinkOps /\ c.who = a
Kept(a) == a \in DOMAIN arrow /\ (a \in Mapped \/ Linking(a))
SameEnds(a, b) ==
  node[arrow[a].from].id = node[arrow[b].from].id /\ node[arrow[a].to].id = node[arrow[b].to].id
Renews(c) == c.op = "refresh" \/ (c.op = "clear" /\ c.status = "sent")
Renewed == \E c \in calls : Renews(c)

(* The arrows and the connections.                                         *)
ArrowsJoin == \A a \in Mapped : Linking(a) \/ \E l \in links : Joining(a, l)
ConnectsJoin ==
  \A c \in calls : c.op = "connect" /\ c.status = "ok" => \E l \in links : Joining(c.who, l)
DisconnectsPart ==
  \A c \in calls : c.op = "disconnect" /\ c.status = "ok" => \A l \in links : ~Joining(c.who, l)
LinksShow ==
  \A l \in links : {l.from, l.to} \subseteq live => (\E a \in Mapped : Joining(a, l)) \/ Renewed
LinksApart == \A l, m \in links : l.from = m.from /\ l.to = m.to => l = m
(* No two arrows have the same ends; a connect is the only request about   *)
(* its arrow, which the page has.                                          *)
ArrowsApart == \A a, b : Kept(a) /\ b \in Mapped /\ SameEnds(a, b) => a = b
ConnectsAlone ==
  /\ \A c \in calls : c.op = "connect" => c.who \in Mapped
  /\ \A c, d \in calls : c.op = "connect" /\ d.op \in LinkOps /\ c.who = d.who => c = d
(* A request about an arrow names its ends or what is gone; no rename      *)
(* gives a node one of these names; a node that is being made has no arrow *)
(* and a page that will be read anew is read as the server has it.         *)
EndsNamed ==
  \A d \in calls : d.op \in LinkOps /\ d.status = "sent" =>
    /\ d.at \in LiveNames => d.at = node[arrow[d.who].from].id
    /\ d.to \in LiveNames => d.to = node[arrow[d.who].to].id
NamesNew ==
  \A c, d \in calls : c.op = "rename" /\ d.op \in LinkOps =>
    c.to \notin {d.at, d.to, node[arrow[d.who].from].id, node[arrow[d.who].to].id}
MadeAlone ==
  \A c \in calls : c.op = "create" => \A a \in DOMAIN arrow : c.who # arrow[a].from /\ c.who # arrow[a].to
ViewsTrue ==
  \A c \in calls : c.op = "refresh" /\ c.status = "ok" =>
    c.view = View /\ \A l \in links : l.from \in live /\ l.to \in live
Matched == ArrowsJoin /\ ConnectsJoin /\ DisconnectsPart /\ LinksShow /\ LinksApart /\ ArrowsApart /\ ConnectsAlone
Told == EndsNamed /\ NamesNew /\ MadeAlone /\ ViewsTrue
LinksOK == Matched /\ Told
LinksRight == Apart /\ ~lossy /\ alive => LinksOK

(* What holds by what was proved before.                                   *)
Settled == Types /\ NamesOK /\ AgreeOK /\ ConnectsFit /\ ArrowsOK /\ alive

(* A step that leaves arrows and connections alone, the requests about     *)
(* them, and what the arrows that count join.                              *)
LEMMA MatchedStays ==
  ASSUME Types, Types', Matched, UNCHANGED <<arrow, links>>,
         \A c : c.op \in LinkOps => (c \in calls' <=> c \in calls),
         \A a : Kept(a) => \A l \in links : Joining(a, l)' <=> Joining(a, l),
         \A a, b : Kept(a) /\ Kept(b) /\ SameEnds(a, b)' => SameEnds(a, b),
         \A l \in links : l.from \in live' /\ l.to \in live' =>
           l.from \in live /\ l.to \in live /\ (Renewed => Renewed')
  PROVE  Matched'
<1>1. Mapped' = Mapped /\ \A a \in Mapped : a \in DOMAIN arrow /\ Kept(a)
  BY MappedIs DEF Mapped, Types, Kept
<1>2. \A a : Linking(a)' <=> Linking(a)
  BY DEF Linking
<1>3. \A a : Kept(a)' <=> Kept(a)
  BY <1>1, <1>2 DEF Kept
<1>4. \A c \in calls : c.op \in LinkOps => Kept(c.who)
  BY DEF Kept, Linking, Types, CallsTyped, CallOK
<1>5. ArrowsJoin'
  <2>1. SUFFICES ASSUME NEW a \in Mapped, ~Linking(a)
                 PROVE  \E l \in links : Joining(a, l)'
    BY <1>1, <1>2 DEF ArrowsJoin
  <2>2. PICK l \in links : Joining(a, l)
    BY <2>1 DEF Matched, ArrowsJoin
  <2>3. QED BY <1>1, <2>1, <2>2
<1>6. ConnectsJoin'
  <2>1. SUFFICES ASSUME NEW c \in calls', c.op = "connect", c.status = "ok"
                 PROVE  \E l \in links : Joining(c.who, l)'
    BY DEF ConnectsJoin
  <2>2. c \in calls /\ c.op \in LinkOps
    BY <2>1 DEF LinkOps
  <2>3. PICK l \in links : Joining(c.who, l)
    BY <2>1, <2>2 DEF Matched, ConnectsJoin
  <2>4. PICK a : a = c.who
    OBVIOUS
  <2>5. Joining(a, l)'
    BY <1>4, <2>2, <2>3, <2>4
  <2>6. QED BY <2>4, <2>5
<1>7. DisconnectsPart'
  <2>1. SUFFICES ASSUME NEW c \in calls', c.op = "disconnect", c.status = "ok", NEW l \in links,
                        Joining(c.who, l)'
                 PROVE  FALSE
    BY DEF DisconnectsPart
  <2>2. c \in calls /\ c.op \in LinkOps
    BY <2>1 DEF LinkOps
  <2>3. PICK a : a = c.who
    OBVIOUS
  <2>4. Joining(a, l)'
    BY <2>1, <2>3
  <2>5. Joining(a, l)
    BY <1>4, <2>2, <2>3, <2>4
  <2>6. QED BY <2>1, <2>2, <2>3, <2>5 DEF Matched, DisconnectsPart
<1>8. LinksShow'
  <2>1. SUFFICES ASSUME NEW l \in links, l.from \in live' /\ l.to \in live'
                 PROVE  (\E a \in Mapped : Joining(a, l)') \/ Renewed'
    BY <1>1 DEF LinksShow
  <2>2. l.from \in live /\ l.to \in live /\ (Renewed => Renewed')
    BY <2>1
  <2>3. (\E a \in Mapped : Joining(a, l)) \/ Renewed
    BY <2>2 DEF Matched, LinksShow
  <2>4. QED BY <1>1, <2>2, <2>3
<1>9. LinksApart'
  BY DEF Matched, LinksApart
<1>10. ArrowsApart'
  <2>1. SUFFICES ASSUME NEW a, NEW b, Kept(a), b \in Mapped, SameEnds(a, b)' PROVE a = b
    BY <1>1, <1>3 DEF ArrowsApart
  <2>2. SameEnds(a, b)
    BY <1>1, <2>1
  <2>3. QED BY <2>1, <2>2 DEF Matched, ArrowsApart
<1>11. ConnectsAlone'
  BY <1>1 DEF Matched, ConnectsAlone, LinkOps
<1>12. QED BY <1>5, <1>6, <1>7, <1>8, <1>9, <1>10, <1>11 DEF Matched

LEMMA StandsStays ==
  ASSUME NEW o, NEW n, n \in live' <=> n \in live, known'[n].name = known[n].name,
         node'[o].id = node[o].id, Held(o)' <=> Held(o),
         \A c : c.op = "rename" /\ c.status = "ok" /\ c.who = o => (c \in calls' <=> c \in calls)
  PROVE  Stands(o, n)' <=> Stands(o, n)
BY DEF Stands

(* The ends of an arrow that counts, and of a connection, are nodes.       *)
LEMMA EndsAre ==
  ASSUME Types
  PROVE  /\ \A a : Kept(a) => /\ a \in DOMAIN arrow
                              /\ arrow[a].from \in DOMAIN node /\ arrow[a].to \in DOMAIN node
         /\ \A a \in Mapped : Kept(a)
         /\ \A c \in calls : c.op \in LinkOps => Kept(c.who) /\ Linking(c.who)
         /\ \A l \in links : l.from \in DOMAIN known /\ l.to \in DOMAIN known
<1>1. \A a \in Mapped : a \in DOMAIN arrow
  BY MappedIs DEF Types
<1>2. \A a \in DOMAIN arrow : arrow[a].from \in DOMAIN node /\ arrow[a].to \in DOMAIN node
  BY DEF Types, ArrowsTyped
<1>3. \A c \in calls : c.op \in LinkOps => c.who \in DOMAIN arrow
  BY DEF Types, CallsTyped, CallOK
<1>4. \A l \in links : l.from \in DOMAIN known /\ l.to \in DOMAIN known
  BY DEF Types, LinksTyped
<1>5. QED BY <1>1, <1>2, <1>3, <1>4 DEF Kept, Linking

LEMMA JoiningStays ==
  ASSUME Types, arrow' = arrow,
         \A a : Kept(a) => \A n \in DOMAIN known :
           /\ Stands(arrow[a].from, n)' <=> Stands(arrow[a].from, n)
           /\ Stands(arrow[a].to, n)' <=> Stands(arrow[a].to, n)
  PROVE  \A a : Kept(a) => \A l \in links : Joining(a, l)' <=> Joining(a, l)
<1>1. SUFFICES ASSUME NEW a, Kept(a), NEW l \in links PROVE Joining(a, l)' <=> Joining(a, l)
  OBVIOUS
<1>2. l.from \in DOMAIN known /\ l.to \in DOMAIN known
  BY EndsAre
<1>3. /\ Stands(arrow[a].from, l.from)' <=> Stands(arrow[a].from, l.from)
      /\ Stands(arrow[a].to, l.to)' <=> Stands(arrow[a].to, l.to)
  BY <1>1, <1>2
<1>4. QED BY <1>3 DEF Joining

(* What the requests say of the arrows' ends, when those about arrows and  *)
(* the ends of theirs are as they were.                                    *)
LEMMA ToldStays ==
  ASSUME Types, Told, ViewsTrue', arrow' = arrow,
         \A c \in calls' : c.op \in LinkOps => c \in calls,
         \A x \in LiveNames' : x \in LiveNames \/ \A c \in calls : c.op \in LinkOps => x # c.at /\ x # c.to,
         \A a : Linking(a) => /\ node'[arrow[a].from].id = node[arrow[a].from].id
                              /\ node'[arrow[a].to].id = node[arrow[a].to].id,
         \A c \in calls' : c.op = "rename" => \/ \E b \in calls : b.op = "rename" /\ b.to = c.to
                                              \/ \A d \in calls : d.op \notin LinkOps,
         \A c \in calls' : c.op = "create" => \/ \E b \in calls : b.op = "create" /\ b.who = c.who
                                              \/ c.who \notin DOMAIN node
  PROVE  Told'
<1>1. EndsNamed'
  <2>1. SUFFICES ASSUME NEW d \in calls', d.op \in LinkOps, d.status = "sent"
                 PROVE  /\ d.at \in LiveNames' => d.at = node'[arrow[d.who].from].id
                        /\ d.to \in LiveNames' => d.to = node'[arrow[d.who].to].id
    BY DEF EndsNamed
  <2>2. d \in calls /\ Linking(d.who)
    BY <2>1 DEF Linking
  <2>3. /\ d.at \in LiveNames => d.at = node[arrow[d.who].from].id
        /\ d.to \in LiveNames => d.to = node[arrow[d.who].to].id
    BY <2>1, <2>2 DEF Told, EndsNamed
  <2>4. d.at \in LiveNames' => d.at \in LiveNames
    BY <2>1, <2>2
  <2>5. d.to \in LiveNames' => d.to \in LiveNames
    BY <2>1, <2>2
  <2>6. QED BY <2>2, <2>3, <2>4, <2>5
<1>2. NamesNew'
  <2>1. SUFFICES ASSUME NEW c \in calls', NEW d \in calls', c.op = "rename", d.op \in LinkOps
                 PROVE  c.to \notin {d.at, d.to, node'[arrow[d.who].from].id, node'[arrow[d.who].to].id}
    BY DEF NamesNew
  <2>2. d \in calls /\ Linking(d.who)
    BY <2>1 DEF Linking
  <2>3. PICK b \in calls : b.op = "rename" /\ b.to = c.to
    BY <2>1, <2>2
  <2>4. b.to \notin {d.at, d.to, node[arrow[d.who].from].id, node[arrow[d.who].to].id}
    BY <2>1, <2>2, <2>3 DEF Told, NamesNew
  <2>5. QED BY <2>2, <2>3, <2>4
<1>3. MadeAlone'
  <2>1. SUFFICES ASSUME NEW c \in calls', c.op = "create", NEW a \in DOMAIN arrow
                 PROVE  c.who # arrow[a].from /\ c.who # arrow[a].to
    BY DEF MadeAlone
  <2>2. arrow[a].from \in DOMAIN node /\ arrow[a].to \in DOMAIN node
    BY DEF Types, ArrowsTyped
  <2>3. CASE c.who \notin DOMAIN node
    BY <2>2, <2>3
  <2>4. CASE \E b \in calls : b.op = "create" /\ b.who = c.who
    BY <2>1, <2>4 DEF Told, MadeAlone
  <2>5. QED BY <2>1, <2>3, <2>4
<1>4. QED BY <1>1, <1>2, <1>3 DEF Told

(* A step that leaves nodes, arrows and what the server has as they are,   *)
(* and the requests about arrows and the renames that were served.         *)
LEMMA Quietly ==
  ASSUME Types, Types', LinksOK, UNCHANGED <<state, arrow, known, live, links>>,
         \A o \in DOMAIN node : node'[o].id = node[o].id,
         \A c : c.op \in LinkOps => (c \in calls' <=> c \in calls),
         \A c : c.op = "rename" /\ c.status = "ok" => (c \in calls' <=> c \in calls),
         \A c \in calls' : c.op = "rename" => \/ \E b \in calls : b.op = "rename" /\ b.to = c.to
                                              \/ \A d \in calls : d.op \notin LinkOps,
         \A c \in calls' : c.op = "create" => \E b \in calls : b.op = "create" /\ b.who = c.who,
         \A c \in calls' : c.op = "refresh" /\ c.status = "ok" =>
           \/ c \in calls
           \/ c.view = View /\ \A l \in links : l.from \in live /\ l.to \in live,
         Renewed => Renewed'
  PROVE  LinksOK'
<1>1. \A a : Kept(a) => /\ a \in DOMAIN arrow
                        /\ arrow[a].from \in DOMAIN node /\ arrow[a].to \in DOMAIN node
  BY EndsAre
<1>2. ASSUME NEW o \in DOMAIN node, NEW n PROVE Stands(o, n)' <=> Stands(o, n)
  <2>1. Held(o)' <=> Held(o)
    BY DEF Held, Lists
  <2>2. QED BY <2>1, StandsStays
<1>3. \A a : Kept(a) => \A n \in DOMAIN known :
           /\ Stands(arrow[a].from, n)' <=> Stands(arrow[a].from, n)
           /\ Stands(arrow[a].to, n)' <=> Stands(arrow[a].to, n)
  <2>1. SUFFICES ASSUME NEW a, Kept(a), NEW n \in DOMAIN known
                 PROVE  /\ Stands(arrow[a].from, n)' <=> Stands(arrow[a].from, n)
                        /\ Stands(arrow[a].to, n)' <=> Stands(arrow[a].to, n)
    OBVIOUS
  <2>2. PICK o, p : o = arrow[a].from /\ p = arrow[a].to /\ o \in DOMAIN node /\ p \in DOMAIN node
    BY <1>1, <2>1
  <2>3. (Stands(o, n)' <=> Stands(o, n)) /\ (Stands(p, n)' <=> Stands(p, n))
    BY <1>2, <2>2
  <2>4. QED BY <2>2, <2>3
<1>4. \A a : Kept(a) => \A l \in links : Joining(a, l)' <=> Joining(a, l)
  BY <1>3, JoiningStays
<1>5. \A a, b : Kept(a) /\ Kept(b) /\ SameEnds(a, b)' => SameEnds(a, b)
  BY <1>1 DEF SameEnds
<1>6. Matched'
  BY <1>4, <1>5, MatchedStays DEF LinksOK
<1>7. ViewsTrue'
  <2>1. View' = View
    BY DEF View
  <2>2. QED BY <2>1 DEF LinksOK, Told, ViewsTrue
<1>8. Told'
  <2>1. LiveNames' = LiveNames
    BY DEF LiveNames
  <2>2. \A a : Linking(a) => Kept(a)
    BY EndsAre DEF Linking
  <2>3. QED BY <1>1, <1>7, <2>1, <2>2, ToldStays DEF LinksOK
<1>9. QED BY <1>6, <1>8 DEF LinksOK

(* The edits of the page.                                                  *)
LEMMA AddNodeLinks ==
  ASSUME Types, Types', Settled, LinksOK, NEW k \in Kinds, AddNode(k), Apart' PROVE LinksOK'
<1>1. PICK id, o :
        /\ o \notin DOMAIN node /\ DOMAIN node' = DOMAIN node \cup {o}
        /\ \A p \in DOMAIN node : node'[p] = node[p]
        /\ DOMAIN state' = DOMAIN state \cup {id} /\ state'[id] = o
        /\ \A i \in DOMAIN state : i # id => state'[i] = state[i]
        /\ calls \subseteq calls'
        /\ \A c \in calls' : \/ c \in calls \/ Says(c, "stop", 0, NoName, NoName)
                             \/ Says(c, "create", o, id, NoName)
        /\ crossed' = crossed \cup Clash("create", id, NoName) \cup Reused(id)
  BY AddNodeMakes
<1>2. UNCHANGED <<arrow, known, live, links>>
  BY DEF AddNode, SameServer, server
<1>3. id \notin DOMAIN state
  <2>1. "nodes" \notin Reused(id)
    BY <1>1 DEF Apart
  <2>2. QED BY <2>1, NotReused
<1>4. \A c \in calls' : c \in calls \/ (c.op \notin {"rename", "refresh"} \cup LinkOps /\ (c.op = "create" => c.who = o))
  BY <1>1 DEF Says, LinkOps
<1>5. ASSUME NEW p \in DOMAIN node, NEW n PROVE Stands(p, n)' <=> Stands(p, n)
  <2>1. p # o /\ node'[p].id = node[p].id
    BY <1>1, <1>5
  <2>2. Held(p)' <=> Held(p)
    BY <1>1, <1>3, <2>1 DEF Held, Lists
  <2>3. \A c : c.op = "rename" => (c \in calls' <=> c \in calls)
    BY <1>1, <1>4
  <2>4. QED BY <1>2, <2>1, <2>2, <2>3, StandsStays
<1>6. \A a : Kept(a) => /\ a \in DOMAIN arrow
                        /\ arrow[a].from \in DOMAIN node /\ arrow[a].to \in DOMAIN node
  BY EndsAre
<1>7. \A a : Kept(a) => \A l \in links : Joining(a, l)' <=> Joining(a, l)
  <2>1. SUFFICES ASSUME NEW a, Kept(a), NEW l \in links PROVE Joining(a, l)' <=> Joining(a, l)
    OBVIOUS
  <2>2. PICK p, q : p = arrow[a].from /\ q = arrow[a].to /\ p \in DOMAIN node /\ q \in DOMAIN node
    BY <1>6, <2>1
  <2>3. (Stands(p, l.from)' <=> Stands(p, l.from)) /\ (Stands(q, l.to)' <=> Stands(q, l.to))
    BY <1>5, <2>2
  <2>4. QED BY <1>2, <2>2, <2>3 DEF Joining
<1>8. \A a, b : Kept(a) /\ Kept(b) /\ SameEnds(a, b)' => SameEnds(a, b)
  BY <1>1, <1>2, <1>6 DEF SameEnds
<1>9. Renewed => Renewed'
  BY <1>1 DEF Renewed, Renews
<1>10. Matched'
  <2>1. \A c : c.op \in LinkOps => (c \in calls' <=> c \in calls)
    BY <1>1, <1>4
  <2>2. QED BY <1>2, <1>7, <1>8, <1>9, <2>1, MatchedStays DEF LinksOK
<1>11. Told'
  <2>1. View' = View /\ LiveNames' = LiveNames
    BY <1>2 DEF View, LiveNames
  <2>2. ViewsTrue'
    BY <1>2, <1>4, <2>1 DEF LinksOK, Told, ViewsTrue
  <2>3. \A a : Linking(a) => Kept(a)
    BY EndsAre DEF Linking
  <2>4. \A a : Linking(a) => /\ node'[arrow[a].from].id = node[arrow[a].from].id
                             /\ node'[arrow[a].to].id = node[arrow[a].to].id
    BY <1>1, <1>6, <2>3
  <2>5. \A c \in calls' : c.op \in LinkOps => c \in calls
    BY <1>4
  <2>6. \A c \in calls' : c.op = "rename" => c \in calls
    BY <1>4
  <2>7. \A c \in calls' : c.op = "create" => c \in calls \/ c.who \notin DOMAIN node
    BY <1>1, <1>4
  <2>8. QED BY <1>2, <2>1, <2>2, <2>4, <2>5, <2>6, <2>7, ToldStays DEF LinksOK
<1>12. QED BY <1>10, <1>11 DEF LinksOK

(* More disconnects are asked for, of arrows that count and that no other  *)
(* request connects, some of them in the place of one that was refused.    *)
LEMMA DisconnectsAsked ==
  ASSUME Types, Types', Settled, LinksOK, UNCHANGED <<node, state, known, live, links>>,
         DOMAIN arrow' = DOMAIN arrow,
         \A a \in DOMAIN arrow : /\ arrow'[a].from = arrow[a].from /\ arrow'[a].to = arrow[a].to
                                 /\ arrow'[a].mapped = arrow[a].mapped,
         NEW X \in SUBSET calls,
         \A c \in X : c.op \in LinkOps /\ c.status = "error" /\ Linking(c.who)',
         calls \ X \subseteq calls',
         \A c \in calls' :
           \/ c \in calls \ X
           \/ c.op \notin {"create", "rename", "refresh", "clear"} \cup LinkOps
           \/ \E a : /\ Kept(a) /\ SaysDisconnect(c, a)
                     /\ \A d \in calls \ X : d.op = "connect" => d.who # a
  PROVE  LinksOK'
<1>1. Mapped' = Mapped /\ \A a \in Mapped : a \in DOMAIN arrow
  BY MappedIs, MappedNext DEF Types
<1>2. /\ \A a : Kept(a) => /\ a \in DOMAIN arrow
                           /\ arrow[a].from \in DOMAIN node /\ arrow[a].to \in DOMAIN node
      /\ \A a \in Mapped : Kept(a)
      /\ \A c \in calls : c.op \in LinkOps => Kept(c.who) /\ Linking(c.who)
  BY EndsAre
<1>3. \A c \in calls' : c.op \in LinkOps =>
        \/ c \in calls \ X
        \/ \E a : /\ Kept(a) /\ c.op = "disconnect" /\ c.who = a /\ c.status = "sent"
                  /\ c.at = node[arrow[a].from].id /\ c.to = node[arrow[a].to].id
                  /\ \A d \in calls \ X : d.op = "connect" => d.who # a
  BY DEF SaysDisconnect, Says
<1>4. \A c : c.op \in {"create", "rename", "refresh", "clear"} => (c \in calls' <=> c \in calls)
  <2>1. \A c \in X : c.op \notin {"create", "rename", "refresh", "clear"}
    BY DEF LinkOps
  <2>2. \A c, a : SaysDisconnect(c, a) => c.op = "disconnect"
    BY DEF SaysDisconnect, Says
  <2>3. QED BY <2>1, <2>2
<1>5. \A a : Linking(a) => Linking(a)'
  <2>1. SUFFICES ASSUME NEW a, Linking(a) PROVE Linking(a)'
    OBVIOUS
  <2>2. PICK c \in calls : c.op \in LinkOps /\ c.who = a
    BY <2>1 DEF Linking
  <2>3. CASE c \in X
    <3>1. Linking(c.who)'
      BY <2>3
    <3>2. QED BY <2>2, <3>1 DEF Linking
  <2>4. CASE c \notin X
    BY <2>2, <2>4 DEF Linking
  <2>5. QED BY <2>3, <2>4
<1>6. \A a : Kept(a)' => Kept(a)
  BY <1>1, <1>2, <1>3 DEF Kept, Linking
<1>7. \A o, n : Stands(o, n)' <=> Stands(o, n)
  <2>1. SUFFICES ASSUME NEW o, NEW n PROVE Stands(o, n)' <=> Stands(o, n)
    OBVIOUS
  <2>2. Held(o)' <=> Held(o)
    BY DEF Held, Lists
  <2>3. QED BY <1>4, <2>2, StandsStays
<1>8. \A a \in DOMAIN arrow : \A l : Joining(a, l)' <=> Joining(a, l)
  <2>1. SUFFICES ASSUME NEW a \in DOMAIN arrow, NEW l PROVE Joining(a, l)' <=> Joining(a, l)
    OBVIOUS
  <2>2. PICK p, q : p = arrow[a].from /\ q = arrow[a].to
    OBVIOUS
  <2>3. p = arrow'[a].from /\ q = arrow'[a].to
    BY <2>2
  <2>4. (Stands(p, l.from)' <=> Stands(p, l.from)) /\ (Stands(q, l.to)' <=> Stands(q, l.to))
    BY <1>7
  <2>5. QED BY <2>2, <2>3, <2>4 DEF Joining
<1>9. ArrowsJoin'
  BY <1>1, <1>5, <1>8 DEF LinksOK, Matched, ArrowsJoin
<1>10. ConnectsJoin'
  <2>1. SUFFICES ASSUME NEW c \in calls', c.op = "connect", c.status = "ok"
                 PROVE  \E l \in links : Joining(c.who, l)'
    BY DEF ConnectsJoin
  <2>2. PICK a : a = c.who
    OBVIOUS
  <2>3. c \in calls /\ a \in DOMAIN arrow
    BY <1>2, <1>3, <2>1, <2>2 DEF LinkOps
  <2>4. \E l \in links : Joining(a, l)
    BY <2>1, <2>2, <2>3 DEF LinksOK, Matched, ConnectsJoin
  <2>5. \E l \in links : Joining(a, l)'
    BY <1>8, <2>3, <2>4
  <2>6. QED BY <2>2, <2>5
<1>11. DisconnectsPart'
  <2>1. SUFFICES ASSUME NEW c \in calls', c.op = "disconnect", c.status = "ok", NEW l \in links,
                        Joining(c.who, l)'
                 PROVE  FALSE
    BY DEF DisconnectsPart
  <2>2. PICK a : a = c.who
    OBVIOUS
  <2>3. c \in calls /\ a \in DOMAIN arrow
    BY <1>2, <1>3, <2>1, <2>2 DEF LinkOps
  <2>4. Joining(a, l)'
    BY <2>1, <2>2
  <2>5. Joining(a, l)
    BY <1>8, <2>3, <2>4
  <2>6. QED BY <2>1, <2>2, <2>3, <2>5 DEF LinksOK, Matched, DisconnectsPart
<1>12. LinksShow'
  <2>1. Renewed => Renewed'
    BY <1>4 DEF Renewed, Renews
  <2>2. QED BY <1>1, <1>8, <2>1 DEF LinksOK, Matched, LinksShow
<1>13. LinksApart' /\ ConnectsAlone'
  <2>1. LinksApart'
    BY DEF LinksOK, Matched, LinksApart
  <2>2. ConnectsAlone'
    <3>1. SUFFICES ASSUME NEW c \in calls', c.op = "connect"
                   PROVE  /\ c.who \in Mapped
                          /\ \A d \in calls' : d.op \in LinkOps /\ c.who = d.who => c = d
      BY <1>1 DEF ConnectsAlone
    <3>2. c \in calls \ X /\ c.op \in LinkOps
      BY <1>3, <3>1 DEF LinkOps
    <3>3. \A d \in calls' : d.op \in LinkOps /\ c.who = d.who => d \in calls
      BY <1>3, <3>1, <3>2
    <3>4. QED BY <3>1, <3>2, <3>3 DEF LinksOK, Matched, ConnectsAlone
  <2>3. QED BY <2>1, <2>2
<1>14. ArrowsApart'
  <2>1. SUFFICES ASSUME NEW a, NEW b, Kept(a), b \in Mapped, SameEnds(a, b)' PROVE a = b
    BY <1>1, <1>6 DEF ArrowsApart
  <2>2. SameEnds(a, b)
    BY <1>1, <1>2, <2>1 DEF SameEnds
  <2>3. QED BY <2>1, <2>2 DEF LinksOK, Matched, ArrowsApart
<1>15. EndsNamed'
  <2>1. SUFFICES ASSUME NEW d \in calls', d.op \in LinkOps, d.status = "sent"
                 PROVE  /\ d.at \in LiveNames => d.at = node[arrow'[d.who].from].id
                        /\ d.to \in LiveNames => d.to = node[arrow'[d.who].to].id
    BY DEF EndsNamed, LiveNames
  <2>2. CASE d \in calls
    <3>1. d.who \in DOMAIN arrow
      BY <1>2, <2>1, <2>2
    <3>2. QED BY <2>1, <2>2, <3>1 DEF LinksOK, Told, EndsNamed
  <2>3. CASE d \notin calls
    BY <1>2, <1>3, <2>1, <2>3
  <2>4. QED BY <2>2, <2>3
<1>16. NamesNew'
  <2>1. SUFFICES ASSUME NEW c \in calls, NEW d \in calls', c.op = "rename", d.op \in LinkOps
                 PROVE  c.to \notin {d.at, d.to, node[arrow'[d.who].from].id, node[arrow'[d.who].to].id}
    BY <1>4 DEF NamesNew
  <2>2. CASE d \in calls
    <3>1. d.who \in DOMAIN arrow
      BY <1>2, <2>1, <2>2
    <3>2. QED BY <2>1, <2>2, <3>1 DEF LinksOK, Told, NamesNew
  <2>3. CASE d \notin calls
    <3>1. PICK a : /\ Kept(a) /\ d.who = a
                   /\ d.at = node[arrow[a].from].id /\ d.to = node[arrow[a].to].id
      BY <1>3, <2>1, <2>3
    <3>2. a \in DOMAIN arrow
      BY <1>2, <3>1
    <3>3. CASE Linking(a)
      BY <2>1, <3>1, <3>2, <3>3 DEF Linking, LinksOK, Told, NamesNew
    <3>4. CASE Attached(a)
      <4>1. c.to \notin DOMAIN state
        BY <2>1 DEF Settled, NamesOK, CallsFit, Fits, RenameFits, NodeOps
      <4>2. QED BY <3>1, <3>2, <3>4, <4>1 DEF Attached, Held, Lists
    <3>5. a \in Mapped => Attached(a) \/ Linking(a)
      BY DEF Settled, ArrowsOK, ArrowsHeld, Disconnecting, Linking, LinkOps
    <3>6. QED BY <3>1, <3>3, <3>4, <3>5 DEF Kept
  <2>4. QED BY <2>2, <2>3
<1>17. MadeAlone'
  BY <1>4 DEF LinksOK, Told, MadeAlone
<1>18. ViewsTrue'
  <2>1. View' = View
    BY DEF View
  <2>2. QED BY <1>4, <2>1 DEF LinksOK, Told, ViewsTrue
<1>19. QED
  BY <1>9, <1>10, <1>11, <1>12, <1>13, <1>14, <1>15, <1>16, <1>17, <1>18 DEF LinksOK, Matched, Told

LEMMA DeleteNodeLinks ==
  ASSUME Types, Types', Settled, LinksOK, NEW o \in Drawn, DeleteNode(o), Apart' PROVE LinksOK'
<1>1. o \in DOMAIN node
  BY DrawnIs DEF Types
<1>2. \A c \in calls : c.op # "connect"
  <2>1. "links" \notin Clash("remove", node[o].id, NoName)
    BY DEF DeleteNode, Apart
  <2>2. QED BY <2>1, NoLinkClash DEF NodeOps
<1>3. PostDelete(o, {}) /\ UNCHANGED <<node, state, known, live, links>>
  BY DEF DeleteNode, SameServer, server
<1>0. PICK X \in SUBSET calls : X = {}
  OBVIOUS
<1>4. PICK E : E = {a \in Mapped : ~arrow[a].leaving /\ EndsAt(a, node[o].id)}
  OBVIOUS
<1>5. /\ DOMAIN arrow' = DOMAIN arrow
      /\ \A a \in DOMAIN arrow :
           /\ arrow'[a].from = arrow[a].from /\ arrow'[a].to = arrow[a].to
           /\ arrow'[a].mapped = arrow[a].mapped
      /\ calls \ X \subseteq calls'
      /\ \A c \in calls' : \/ c \in calls \ X \/ Says(c, "stop", 0, NoName, NoName)
                           \/ \E a \in E : SaysDisconnect(c, a)
                           \/ Says(c, "remove", o, node[o].id, NoName)
  BY <1>0, <1>1, <1>3, <1>4, PostDeleteDoes
<1>6. \A a \in E : Kept(a)
  BY <1>4, EndsAre
<1>7. \A c \in calls' :
        \/ c \in calls \ X
        \/ c.op \notin {"create", "rename", "refresh", "clear"} \cup LinkOps
        \/ \E a : /\ Kept(a) /\ SaysDisconnect(c, a)
                  /\ \A d \in calls \ X : d.op = "connect" => d.who # a
  <2>1. SUFFICES ASSUME NEW c \in calls', c \notin calls \ X
                 PROVE  \/ c.op \notin {"create", "rename", "refresh", "clear"} \cup LinkOps
                        \/ \E a : /\ Kept(a) /\ SaysDisconnect(c, a)
                                  /\ \A d \in calls \ X : d.op = "connect" => d.who # a
    OBVIOUS
  <2>2. CASE \E a \in E : SaysDisconnect(c, a)
    BY <1>2, <1>6, <2>2
  <2>3. CASE c.op = "stop" \/ c.op = "remove"
    BY <2>3 DEF LinkOps
  <2>4. /\ Says(c, "stop", 0, NoName, NoName) => c.op = "stop"
        /\ Says(c, "remove", o, node[o].id, NoName) => c.op = "remove"
    BY DEF Says
  <2>5. QED BY <1>5, <2>1, <2>2, <2>3, <2>4
<1>8. \A c \in X : c.op \in LinkOps /\ c.status = "error" /\ Linking(c.who)'
  BY <1>0
<1>9. QED BY <1>3, <1>5, <1>7, <1>8, DisconnectsAsked

LEMMA DisconnectLinks ==
  ASSUME Types, Types', Settled, LinksOK, NEW f \in Drawn, NEW g \in Drawn, Disconnect(f, g), Apart'
  PROVE  LinksOK'
<1>0. PICK X \in SUBSET calls : X = {}
  OBVIOUS
<1>1. PICK a \in Connected(f, g) : \E c : calls' = calls \cup {c} /\ SaysDisconnect(c, a)
  BY DisconnectDoes
<1>2. a \in Mapped /\ arrow[a].from = f /\ arrow[a].to = g /\ Kept(a)
  BY <1>1, EndsAre DEF Connected
<1>3. \A d \in calls : d.op = "connect" => d.who # a
  <2>1. "links" \notin Clash("disconnect", node[f].id, node[g].id)
    BY DEF Disconnect, Apart
  <2>2. \A c \in calls : c.op \in LinkOps /\ c.op # "disconnect" => ~Joins(c.who, node[f].id, node[g].id)
    BY <2>1, NoLinkClash DEF LinkOps
  <2>3. QED BY <1>2, <2>2 DEF Joins, LinkOps
<1>4. UNCHANGED <<node, state, arrow, known, live, links>>
  BY DEF Disconnect, page, SameServer, server
<1>5. calls \ X \subseteq calls'
      /\ \A c \in calls' : c \in calls \ X \/ SaysDisconnect(c, a)
  BY <1>0, <1>1
<1>6. \A c \in calls' :
        \/ c \in calls \ X
        \/ c.op \notin {"create", "rename", "refresh", "clear"} \cup LinkOps
        \/ \E b : /\ Kept(b) /\ SaysDisconnect(c, b)
                  /\ \A d \in calls \ X : d.op = "connect" => d.who # b
  BY <1>2, <1>3, <1>5
<1>7. \A c \in X : c.op \in LinkOps /\ c.status = "error" /\ Linking(c.who)'
  BY <1>0
<1>8. QED BY <1>4, <1>5, <1>6, <1>7, DisconnectsAsked

LEMMA ConnectLinks ==
  ASSUME Types, Types', Settled, LinksOK, NEW f \in Drawn, NEW g \in Drawn, Connect(f, g), Apart'
  PROVE  LinksOK'
<1>1. PICK b : b = Len(arrow) + 1
  OBVIOUS
<1>2. PICK i, j : i = node[f].id /\ j = node[g].id
  OBVIOUS
<1>3. PICK n \in calls' :
        /\ Says(n, "connect", b, i, j)
        /\ \A c \in calls' : c \in calls \/ c = n \/ Says(c, "stop", 0, NoName, NoName)
  BY <1>1, <1>2, ConnectDoes
<1>4. /\ f \in DOMAIN node /\ g \in DOMAIN node
      /\ b \notin DOMAIN arrow
      /\ DOMAIN arrow' = DOMAIN arrow \cup {b}
      /\ \A a \in DOMAIN arrow : arrow'[a] = arrow[a]
      /\ arrow'[b] = [from |-> f, to |-> g, name |-> 0, mapped |-> TRUE, drawn |-> TRUE, leaving |-> FALSE]
      /\ calls \subseteq calls'
  BY <1>1, <1>2, ConnectDoes
<1>5. /\ n.op = "connect" /\ n.who = b /\ n.at = i /\ n.to = j /\ n.status = "sent"
      /\ \A c \in calls' : c \in calls \/ c = n \/ c.op = "stop"
  BY <1>3 DEF Says
<1>6. /\ \A c \in calls : c.op \notin Movers
      /\ \A c \in calls : c.op \in LinkOps /\ c.op # "connect" => ~Joins(c.who, i, j)
  <2>1. "links" \notin Clash("connect", node[f].id, node[g].id)
    BY DEF Connect, Apart
  <2>2. QED BY <1>2, <2>1, NoLinkClash DEF LinkOps
<1>7. UNCHANGED <<node, state, known, live, links>>
  BY DEF Connect, SameServer, server
<1>8. \A a : a \in Mapped' <=> a = b \/ a \in Mapped
  BY <1>4, MappedIs, MappedNext DEF Types
<1>9. /\ \A a : Kept(a) => /\ a \in DOMAIN arrow
                           /\ arrow[a].from \in DOMAIN node /\ arrow[a].to \in DOMAIN node
      /\ \A a \in Mapped : Kept(a)
      /\ \A c \in calls : c.op \in LinkOps => Kept(c.who) /\ Linking(c.who)
  BY EndsAre
<1>10. \A a : Linking(a)' <=> a = b \/ Linking(a)
  BY <1>3, <1>4, <1>5 DEF Linking, LinkOps
<1>11. \A a \in DOMAIN arrow : \A l : Joining(a, l)' <=> Joining(a, l)
  <2>1. ASSUME NEW o, NEW m PROVE Stands(o, m)' <=> Stands(o, m)
    <3>1. Held(o)' <=> Held(o)
      BY <1>7 DEF Held, Lists
    <3>2. \A c : c.op = "rename" => (c \in calls' <=> c \in calls)
      BY <1>4, <1>5
    <3>3. QED BY <1>7, <3>1, <3>2, StandsStays
  <2>2. SUFFICES ASSUME NEW a \in DOMAIN arrow, NEW l PROVE Joining(a, l)' <=> Joining(a, l)
    OBVIOUS
  <2>3. PICK p, q : p = arrow[a].from /\ q = arrow[a].to
    OBVIOUS
  <2>4. p = arrow'[a].from /\ q = arrow'[a].to
    BY <1>4, <2>3
  <2>5. (Stands(p, l.from)' <=> Stands(p, l.from)) /\ (Stands(q, l.to)' <=> Stands(q, l.to))
    BY <2>1
  <2>6. QED BY <2>3, <2>4, <2>5 DEF Joining
(* No other arrow that counts has the ends of the new one.                 *)
<1>12. ASSUME NEW a, Kept(a), node[arrow[a].from].id = i, node[arrow[a].to].id = j PROVE FALSE
  <2>1. ~Disconnecting(a)
    BY <1>6, <1>12 DEF Disconnecting, Joins, LinkOps
  <2>2. a \in Mapped
    <3>1. CASE Linking(a)
      <4>1. PICK c \in calls : c.op \in LinkOps /\ c.who = a
        BY <3>1 DEF Linking
      <4>2. c.op = "connect"
        BY <2>1, <4>1 DEF Disconnecting, LinkOps
      <4>3. QED BY <4>1, <4>2 DEF LinksOK, Matched, ConnectsAlone
    <3>2. QED BY <1>12, <3>1 DEF Kept
  <2>3. Attached(a)
    BY <2>1, <2>2 DEF Settled, ArrowsOK, ArrowsHeld
  <2>4. Lists(i, f) /\ Lists(j, g)
    BY <1>2 DEF Settled, NamesOK, Shown
  <2>5. arrow[a].from = f /\ arrow[a].to = g
    BY <1>12, <2>3, <2>4 DEF Attached, Held, Lists
  <2>6. QED BY <2>2, <2>5 DEF Connect, Connected
<1>13. ArrowsJoin'
  BY <1>7, <1>8, <1>9, <1>10, <1>11 DEF LinksOK, Matched, ArrowsJoin
<1>14. ConnectsJoin'
  <2>1. SUFFICES ASSUME NEW c \in calls', c.op = "connect", c.status = "ok"
                 PROVE  \E l \in links : Joining(c.who, l)'
    BY <1>7 DEF ConnectsJoin
  <2>2. PICK a : a = c.who
    OBVIOUS
  <2>3. c \in calls /\ a \in DOMAIN arrow
    BY <1>5, <1>9, <2>1, <2>2 DEF LinkOps
  <2>4. \E l \in links : Joining(a, l)
    BY <2>1, <2>2, <2>3 DEF LinksOK, Matched, ConnectsJoin
  <2>5. \E l \in links : Joining(a, l)'
    BY <1>11, <2>3, <2>4
  <2>6. QED BY <2>2, <2>5
<1>15. DisconnectsPart'
  <2>1. SUFFICES ASSUME NEW c \in calls', c.op = "disconnect", c.status = "ok", NEW l \in links,
                        Joining(c.who, l)'
                 PROVE  FALSE
    BY <1>7 DEF DisconnectsPart
  <2>2. PICK a : a = c.who
    OBVIOUS
  <2>3. c \in calls /\ a \in DOMAIN arrow
    BY <1>5, <1>9, <2>1, <2>2 DEF LinkOps
  <2>4. Joining(a, l)'
    BY <2>1, <2>2
  <2>5. Joining(a, l)
    BY <1>11, <2>3, <2>4
  <2>6. QED BY <2>1, <2>2, <2>3, <2>5 DEF LinksOK, Matched, DisconnectsPart
<1>16. LinksShow'
  <2>1. Renewed => Renewed'
    BY <1>4 DEF Renewed, Renews
  <2>2. QED BY <1>7, <1>8, <1>9, <1>11, <2>1 DEF LinksOK, Matched, LinksShow
<1>17. LinksApart'
  BY <1>7 DEF LinksOK, Matched, LinksApart
<1>18. ArrowsApart'
  <2>1. SUFFICES ASSUME NEW a, NEW d, Kept(a)', d \in Mapped', SameEnds(a, d)' PROVE a = d
    BY DEF ArrowsApart
  <2>2. (a = b \/ Kept(a)) /\ (d = b \/ (d \in Mapped /\ Kept(d)))
    BY <1>4, <1>8, <1>9, <1>10, <2>1 DEF Kept
  <2>3. \A x \in DOMAIN arrow : arrow'[x] = arrow[x]
    BY <1>4
  <2>4. /\ node[arrow'[a].from].id = node[arrow'[d].from].id
        /\ node[arrow'[a].to].id = node[arrow'[d].to].id
    BY <1>7, <2>1 DEF SameEnds
  <2>5. node[arrow'[b].from].id = i /\ node[arrow'[b].to].id = j
    BY <1>2, <1>4
  <2>6. CASE a # b /\ d # b
    <3>1. SameEnds(a, d)
      BY <1>9, <2>2, <2>3, <2>4, <2>6 DEF SameEnds
    <3>2. QED BY <2>2, <2>6, <3>1 DEF LinksOK, Matched, ArrowsApart
  <2>7. CASE a # b /\ d = b
    <3>1. node[arrow[a].from].id = i /\ node[arrow[a].to].id = j
      BY <1>9, <2>2, <2>3, <2>4, <2>5, <2>7
    <3>2. Kept(a)
      BY <2>2, <2>7
    <3>3. QED BY <1>12, <3>1, <3>2
  <2>8. CASE a = b /\ d # b
    <3>1. node[arrow[d].from].id = i /\ node[arrow[d].to].id = j
      BY <1>9, <2>2, <2>3, <2>4, <2>5, <2>8
    <3>2. Kept(d)
      BY <2>2, <2>8
    <3>3. QED BY <1>12, <3>1, <3>2
  <2>9. QED BY <2>6, <2>7, <2>8
<1>19. ConnectsAlone'
  <2>1. SUFFICES ASSUME NEW c \in calls', c.op = "connect"
                 PROVE  /\ c.who \in Mapped'
                        /\ \A d \in calls' : d.op \in LinkOps /\ c.who = d.who => c = d
    BY DEF ConnectsAlone
  <2>2. \A d \in calls : d.op \in LinkOps => d.who # b
    BY <1>4, <1>9
  <2>3. CASE c = n
    <3>1. \A d \in calls' : d.op \in LinkOps /\ d.who = b => d = n
      BY <1>5, <2>2 DEF LinkOps
    <3>2. QED BY <1>5, <1>8, <2>3, <3>1
  <2>4. CASE c \in calls
    <3>1. c.who \in Mapped /\ \A d \in calls : d.op \in LinkOps /\ c.who = d.who => c = d
      BY <2>1, <2>4 DEF LinksOK, Matched, ConnectsAlone
    <3>2. c.who # b
      BY <2>1, <2>2, <2>4 DEF LinkOps
    <3>3. \A d \in calls' : d.op \in LinkOps /\ c.who = d.who => d \in calls
      BY <1>5, <3>2 DEF LinkOps
    <3>4. QED BY <1>8, <3>1, <3>3
  <2>5. QED BY <1>5, <2>1, <2>3, <2>4
<1>20. EndsNamed'
  <2>1. SUFFICES ASSUME NEW d \in calls', d.op \in LinkOps, d.status = "sent"
                 PROVE  /\ d.at \in LiveNames => d.at = node[arrow'[d.who].from].id
                        /\ d.to \in LiveNames => d.to = node[arrow'[d.who].to].id
    BY <1>7 DEF EndsNamed, LiveNames
  <2>2. CASE d \in calls
    <3>1. arrow'[d.who] = arrow[d.who]
      BY <1>4, <1>9, <2>1, <2>2
    <3>2. QED BY <2>1, <2>2, <3>1 DEF LinksOK, Told, EndsNamed
  <2>3. CASE d = n
    BY <1>2, <1>4, <1>5, <2>3
  <2>4. QED BY <1>5, <2>1, <2>2, <2>3 DEF LinkOps
<1>21. \A c \in calls' : c.op \notin {"rename", "refresh"}
  BY <1>5, <1>6 DEF Movers
<1>22. NamesNew' /\ ViewsTrue'
  BY <1>21 DEF NamesNew, ViewsTrue
<1>23. MadeAlone'
  <2>1. SUFFICES ASSUME NEW c \in calls, c.op = "create", NEW a \in DOMAIN arrow'
                 PROVE  c.who # arrow'[a].from /\ c.who # arrow'[a].to
    BY <1>5 DEF MadeAlone
  <2>2. CASE a = b
    <3>1. ~node[c.who].drawn
      BY <2>1 DEF Settled, NamesOK, CallsFit, Fits, CreateFits, NodeOps
    <3>2. node[f].drawn /\ node[g].drawn
      BY DrawnIs DEF Types
    <3>3. QED BY <1>4, <2>2, <3>1, <3>2
  <2>3. CASE a # b
    <3>1. a \in DOMAIN arrow /\ arrow'[a] = arrow[a]
      BY <1>4, <2>1, <2>3
    <3>2. QED BY <2>1, <3>1 DEF LinksOK, Told, MadeAlone
  <2>4. QED BY <2>2, <2>3
<1>24. QED
  BY <1>13, <1>14, <1>15, <1>16, <1>17, <1>18, <1>19, <1>20, <1>22, <1>23 DEF LinksOK, Matched, Told

(* A clear waits for every other edit, and leaves no arrow.                *)
LEMMA NewBehaviourLinks ==
  ASSUME Types, Types', Settled, LinksOK, NewBehaviour, Apart' PROVE LinksOK'
<1>1. Busy = {}
  BY DEF NewBehaviour, ClearAborts, Apart
<1>2. \A c \in calls : c.op \notin NodeOps \cup LinkOps
  <2>1. "links" \notin Clash("clear", NoName, NoName) /\ "nodes" \notin Clash("clear", NoName, NoName)
    BY <1>1, NewBehaviourDoes DEF Apart
  <2>2. \A c \in calls : c.op \notin LinkOps
    BY <2>1, NoLinkClash DEF NodeOps
  <2>3. \A c \in calls : c.op \notin NodeOps
    BY <2>1, NoClash DEF NodeOps
  <2>4. QED BY <2>2, <2>3
<1>3. PICK n \in calls' :
        /\ Says(n, "clear", 0, NoName, NoName)
        /\ \A c \in calls' : c \in calls \/ c = n \/ Says(c, "stop", 0, NoName, NoName)
  BY <1>1, NewBehaviourDoes
<1>4. /\ n.op = "clear" /\ n.status = "sent"
      /\ \A c \in calls' : c \in calls \/ c = n \/ c.op = "stop"
  BY <1>3 DEF Says
<1>5. \A c \in calls' : c.op \notin LinkOps \cup {"create", "rename", "remove", "refresh"}
  BY <1>2, <1>4 DEF LinkOps, NodeOps
<1>6. Mapped' = {}
  <2>1. SUFFICES ASSUME NEW a \in Mapped' PROVE FALSE
    OBVIOUS
  <2>2. arrow' = ArrowsWithout(DOMAIN state)
    BY <1>1, NewBehaviourDoes
  <2>3. a \in DOMAIN arrow /\ ArrowsWithout(DOMAIN state)[a].mapped
    BY <2>1, <2>2, ArrowsWithoutIs, MappedNext DEF Types
  <2>4. Disconnecting(a)
    BY <2>3, ClearedArrows DEF Settled
  <2>5. QED BY <1>2, <2>4 DEF Disconnecting, LinkOps
<1>7. links' = links
  BY DEF NewBehaviour, SameServer, server
<1>8. Renewed'
  BY <1>4 DEF Renewed, Renews
<1>9. ArrowsJoin' /\ LinksShow' /\ ArrowsApart'
  BY <1>6, <1>8 DEF ArrowsJoin, LinksShow, ArrowsApart
<1>10. ConnectsJoin' /\ DisconnectsPart' /\ ConnectsAlone' /\ EndsNamed' /\ NamesNew' /\ MadeAlone' /\ ViewsTrue'
  BY <1>5 DEF LinkOps, ConnectsJoin, DisconnectsPart, ConnectsAlone, EndsNamed, NamesNew, MadeAlone, ViewsTrue
<1>11. LinksApart'
  BY <1>7 DEF LinksOK, Matched, LinksApart
<1>12. QED BY <1>9, <1>10, <1>11 DEF LinksOK, Matched, Told

LEMMA EditLinks ==
  ASSUME Types, Types', Settled, LinksOK, Edit, Apart' PROVE LinksOK'
<1>1. calls \subseteq calls' /\ UNCHANGED <<known, live, links>>
  BY EditOnlyPosts DEF server
<1>2. ASSUME UNCHANGED <<node, state, arrow>>,
             \A c \in calls' : \/ c \in calls
                               \/ /\ c.status = "sent" /\ c.op \notin {"create"} \cup LinkOps
                                  /\ c.op = "rename" => \A d \in calls : d.op \notin LinkOps
      PROVE  LinksOK'
  <2>1. \A c : c.op \in LinkOps => (c \in calls' <=> c \in calls)
    BY <1>1, <1>2
  <2>2. \A c : c.op = "rename" /\ c.status = "ok" => (c \in calls' <=> c \in calls)
    BY <1>1, <1>2
  <2>3. Renewed => Renewed'
    BY <1>1 DEF Renewed, Renews
  <2>4. \A c \in calls' : c.op = "rename" => \/ \E b \in calls : b.op = "rename" /\ b.to = c.to
                                             \/ \A d \in calls : d.op \notin LinkOps
    BY <1>2
  <2>5. \A c \in calls' : c.op = "create" => \E b \in calls : b.op = "create" /\ b.who = c.who
    BY <1>2
  <2>6. \A c \in calls' : c.op = "refresh" /\ c.status = "ok" =>
           \/ c \in calls
           \/ c.view = View /\ \A l \in links : l.from \in live /\ l.to \in live
    BY <1>2
  <2>7. QED BY <1>1, <1>2, <2>1, <2>2, <2>3, <2>4, <2>5, <2>6, Quietly
<1>3. ASSUME NEW k \in Kinds, AddNode(k) PROVE LinksOK'
  BY <1>3, AddNodeLinks
<1>4. ASSUME NEW o \in Drawn, DeleteNode(o) PROVE LinksOK'
  BY <1>4, DeleteNodeLinks
<1>5. ASSUME NEW o \in Drawn, NEW new \in GivenNames, SetName(o, new) PROVE LinksOK'
  <2>1. "links" \notin Clash("rename", node[o].id, new)
    BY <1>5 DEF SetName, Apart
  <2>2. \A c \in calls : c.op \notin LinkOps
    BY <2>1, NoLinkClash DEF NodeOps
  <2>3. \A c \in calls' : c \in calls \/ (c.op = "rename" /\ c.status = "sent")
    BY <1>5, SetNameDoes DEF Says
  <2>4. UNCHANGED <<node, state, arrow>>
    BY <1>5 DEF SetName, page
  <2>5. QED BY <1>2, <2>2, <2>3, <2>4 DEF LinkOps
<1>6. ASSUME NEW f \in Drawn, NEW g \in Drawn, Connect(f, g) PROVE LinksOK'
  BY <1>6, ConnectLinks
<1>7. ASSUME NEW f \in Drawn, NEW g \in Drawn, Disconnect(f, g) PROVE LinksOK'
  BY <1>7, DisconnectLinks
<1>8. CASE NewBehaviour
  BY <1>8, NewBehaviourLinks
<1>9. CASE Refresh
  <2>1. \A c \in calls' : c \in calls \/ (c.op \in {"stop", "refresh"} /\ c.status = "sent")
    BY <1>9, RefreshDoes DEF Says
  <2>2. UNCHANGED <<node, state, arrow>>
    BY <1>9 DEF Refresh, page
  <2>3. QED BY <1>2, <2>1, <2>2 DEF LinkOps
<1>10. CASE StartStop
  <2>1. \A c \in calls' : c \in calls \/ (c.op \in {"run", "stop"} /\ c.status = "sent")
    BY <1>10, StartStopDoes DEF Says
  <2>2. UNCHANGED <<node, state, arrow>>
    BY <1>10 DEF StartStop, page
  <2>3. QED BY <1>2, <2>1, <2>2 DEF LinkOps
<1>11. QED BY <1>3, <1>4, <1>5, <1>6, <1>7, <1>8, <1>9, <1>10 DEF Edit

(* What the server does.  First the requests that change no node, arrow or *)
(* connection of either side.                                              *)
LEMMA RepliedLinks ==
  ASSUME Types, Types', LinksOK, UNCHANGED <<node, state, arrow, known, live, links>>,
         NEW c \in calls, c.op \notin {"clear"} \cup LinkOps, c.status = "sent",
         NEW s, NEW m, NEW v, NEW r, calls' = (calls \ {c}) \cup {r}, IsReply(r, c, s, m, v),
         s \in {"ok", "error"}, c.op = "rename" => s = "error",
         c.op = "refresh" => v = View /\ \A l \in links : l.from \in live /\ l.to \in live
  PROVE  LinksOK'
<1>1. /\ r.op = c.op /\ r.who = c.who /\ r.at = c.at /\ r.to = c.to /\ r.status = s
      /\ r.view = v
  BY DEF IsReply
<1>2. \A d : d.op \in LinkOps => (d \in calls' <=> d \in calls)
  BY <1>1
<1>3. \A d : d.op = "rename" /\ d.status = "ok" => (d \in calls' <=> d \in calls)
  BY <1>1
<1>4. \A d \in calls' : d.op = "rename" => \E b \in calls : b.op = "rename" /\ b.to = d.to
  BY <1>1
<1>5. \A d \in calls' : d.op = "create" => \E b \in calls : b.op = "create" /\ b.who = d.who
  BY <1>1
<1>6. \A d \in calls' : d.op = "refresh" /\ d.status = "ok" =>
           \/ d \in calls
           \/ d.view = View /\ \A l \in links : l.from \in live /\ l.to \in live
  BY <1>1
<1>7. Renewed => Renewed'
  <2>1. SUFFICES ASSUME NEW d \in calls, Renews(d) PROVE \E e \in calls' : Renews(e)
    BY DEF Renewed, Renews
  <2>2. d = c => Renews(r)
    BY <1>1, <2>1 DEF Renews
  <2>3. QED BY <2>1, <2>2
<1>8. QED BY <1>2, <1>3, <1>4, <1>5, <1>6, <1>7, Quietly

(* A request about an arrow that is served: what does not depend on what   *)
(* becomes of the connections.                                             *)
LEMMA LinkServed ==
  ASSUME Types, Types', Settled, LinksOK, UNCHANGED <<node, state, arrow, known, live>>,
         NEW c \in calls, c.op \in LinkOps, NEW s, NEW r, s # "sent",
         calls' = (calls \ {c}) \cup {r}, IsReply(r, c, s, c.name, c.view)
  PROVE  /\ r.op = c.op /\ r.who = c.who /\ r.status = s
         /\ \A a : Linking(a)' <=> Linking(a)
         /\ \A a, l : Joining(a, l)' <=> Joining(a, l)
         /\ Mapped' = Mapped /\ (Renewed' <=> Renewed)
         /\ \A d \in calls : d.op # "refresh"
         /\ ArrowsApart' /\ ConnectsAlone' /\ Told'
<1>1. /\ r.op = c.op /\ r.who = c.who /\ r.at = c.at /\ r.to = c.to /\ r.status = s
  BY DEF IsReply
<1>2. \A a : Linking(a)' <=> Linking(a)
  BY <1>1 DEF Linking
<1>3. Mapped' = Mapped
  BY DEF Mapped
<1>4. \A d : d.op \notin LinkOps => (d \in calls' <=> d \in calls)
  BY <1>1
<1>5. \A a, l : Joining(a, l)' <=> Joining(a, l)
  <2>1. ASSUME NEW o, NEW n PROVE Stands(o, n)' <=> Stands(o, n)
    <3>1. Held(o)' <=> Held(o)
      BY DEF Held, Lists
    <3>2. QED BY <1>4, <3>1, StandsStays DEF LinkOps
  <2>2. SUFFICES ASSUME NEW a, NEW l PROVE Joining(a, l)' <=> Joining(a, l)
    OBVIOUS
  <2>3. PICK p, q : p = arrow[a].from /\ q = arrow[a].to
    OBVIOUS
  <2>4. (Stands(p, l.from)' <=> Stands(p, l.from)) /\ (Stands(q, l.to)' <=> Stands(q, l.to))
    BY <2>1
  <2>5. QED BY <2>3, <2>4 DEF Joining
<1>6. Renewed' <=> Renewed
  <2>1. \A d : Renews(d) => d.op \notin LinkOps
    BY DEF Renews, LinkOps
  <2>2. QED BY <1>4, <2>1 DEF Renewed, Renews
<1>7. \A d \in calls : d.op # "refresh"
  BY DEF Settled, ArrowsOK, ReadAlone
<1>8. ArrowsApart'
  <2>1. \A a : Kept(a)' <=> Kept(a)
    BY <1>2, <1>3 DEF Kept
  <2>2. \A a, b : SameEnds(a, b)' <=> SameEnds(a, b)
    BY DEF SameEnds
  <2>3. QED BY <1>3, <2>1, <2>2 DEF LinksOK, Matched, ArrowsApart
<1>9. ConnectsAlone'
  <2>1. SUFFICES ASSUME NEW d \in calls', d.op = "connect"
                 PROVE  /\ d.who \in Mapped
                        /\ \A e \in calls' : e.op \in LinkOps /\ d.who = e.who => d = e
    BY <1>3 DEF ConnectsAlone
  <2>2. ConnectsAlone
    BY DEF LinksOK, Matched
  <2>3. CASE d = r
    <3>1. c.who \in Mapped /\ \A e \in calls : e.op \in LinkOps /\ c.who = e.who => c = e
      BY <1>1, <2>1, <2>2, <2>3 DEF ConnectsAlone
    <3>2. QED BY <1>1, <2>3, <3>1
  <2>4. CASE d \in calls /\ d # c
    <3>1. d.who \in Mapped /\ \A e \in calls : e.op \in LinkOps /\ d.who = e.who => d = e
      BY <2>1, <2>2, <2>4 DEF ConnectsAlone
    <3>2. d.who # r.who
      BY <1>1, <2>4, <3>1
    <3>3. QED BY <3>1, <3>2
  <2>5. QED BY <2>1, <2>3, <2>4
<1>10. EndsNamed'
  <2>1. LiveNames' = LiveNames
    BY DEF LiveNames
  <2>2. QED BY <1>1, <2>1 DEF LinksOK, Told, EndsNamed
<1>11. NamesNew'
  <2>1. SUFFICES ASSUME NEW b \in calls, NEW d \in calls', b.op = "rename", d.op \in LinkOps
                 PROVE  b.to \notin {d.at, d.to, node[arrow[d.who].from].id, node[arrow[d.who].to].id}
    BY <1>4 DEF NamesNew, LinkOps
  <2>2. PICK e \in calls : e.op \in LinkOps /\ e.who = d.who /\ e.at = d.at /\ e.to = d.to
    BY <1>1, <2>1
  <2>3. QED BY <2>1, <2>2 DEF LinksOK, Told, NamesNew
<1>12. MadeAlone' /\ ViewsTrue'
  <2>1. MadeAlone'
    BY <1>4 DEF LinksOK, Told, MadeAlone, LinkOps
  <2>2. \A d \in calls' : d.op # "refresh"
    BY <1>4, <1>7 DEF LinkOps
  <2>3. QED BY <2>1, <2>2 DEF ViewsTrue
<1>13. QED BY <1>1, <1>2, <1>3, <1>5, <1>6, <1>7, <1>8, <1>9, <1>10, <1>11, <1>12 DEF Told

(* What an end of an arrow stands for, by its name.                        *)
LEMMA NamedStands ==
  ASSUME Settled, NEW o, NEW n, Stands(o, n), known[n].name = node[o].id, NEW f \in live, known[f].name = node[o].id
  PROVE  n = f
BY DEF Stands, Settled, NamesOK, NamedOnce

(* A disconnect that is served parts what its arrow joined and nothing     *)
(* else.                                                                   *)
LEMMA ServeDisconnectLinks ==
  ASSUME Types, Types', Settled, LinksOK, NEW c \in calls, ServeDisconnect(c) PROVE LinksOK'
<1>1. /\ UNCHANGED <<node, state, arrow, known, live>>
      /\ c.op = "disconnect" /\ c.status = "sent" /\ c.op \in LinkOps
  BY DEF ServeDisconnect, SameRun, page, Serving, LinkOps
<1>2. \/ Reply(c, "error") /\ links' = links
      \/ \E f \in Named(c.at), t \in Named(c.to) :
           /\ links' = {l \in links : <<l.from, l.to>> # <<f, t>>}
           /\ Reply(c, "ok")
  BY DEF ServeDisconnect
<1>3. PICK s \in {"ok", "error"} :
        /\ Reply(c, s)
        /\ \/ s = "error" /\ links' = links
           \/ /\ s = "ok"
              /\ \E f \in Named(c.at), t \in Named(c.to) :
                   links' = {l \in links : <<l.from, l.to>> # <<f, t>>}
  BY <1>2
<1>4. PICK r : calls' = (calls \ {c}) \cup {r} /\ IsReply(r, c, s, c.name, c.view)
  BY <1>1, <1>3, StatusReply DEF Types
<1>5. s # "sent"
  OBVIOUS
<1>6. /\ r.op = c.op /\ r.who = c.who /\ r.status = s
      /\ \A a : Linking(a)' <=> Linking(a)
      /\ \A a, l : Joining(a, l)' <=> Joining(a, l)
      /\ Mapped' = Mapped /\ (Renewed' <=> Renewed)
      /\ \A d \in calls : d.op # "refresh"
      /\ ArrowsApart' /\ ConnectsAlone' /\ Told'
  BY <1>1, <1>4, <1>5, LinkServed
<1>7. links' \subseteq links
  BY <1>3
<1>8. LinksShow' /\ LinksApart'
  BY <1>1, <1>6, <1>7 DEF LinksOK, Matched, LinksShow, LinksApart
<1>9. Kept(c.who) /\ Linking(c.who) /\ (\A d \in calls : d.op \in LinkOps => Kept(d.who))
      /\ \A a \in Mapped : Kept(a)
  BY <1>1, EndsAre
(* The connection that goes.                                               *)
<1>10. ASSUME NEW l \in links, l \notin links'
      PROVE  /\ l.from \in live /\ known[l.from].name = c.at
             /\ l.to \in live /\ known[l.to].name = c.to
  BY <1>3, <1>10 DEF Named
<1>11. ASSUME NEW o, NEW n, NEW x, Stands(o, n), x \in LiveNames, node[o].id = x
       PROVE  known[n].name = x
  <2>1. ASSUME NEW d \in calls, d.op = "rename", d.status = "ok", d.who = o PROVE FALSE
    <3>1. Lists(d.at, o) /\ d.at \notin LiveNames
      BY <2>1 DEF Settled, NamesOK, CallsFit, Fits, RenameFits, NodeOps
    <3>2. node[o].id = d.at
      BY <3>1 DEF Settled, NamesOK, Placed, Lists
    <3>3. QED BY <1>11, <3>1, <3>2
  <2>2. QED BY <1>11, <2>1 DEF Stands
<1>12. ASSUME NEW l \in links, l \notin links', NEW b, Joining(b, l), Kept(b)
       PROVE  SameEnds(c.who, b)
  <2>1. c.at \in LiveNames /\ c.to \in LiveNames
    BY <1>10, <1>12 DEF LiveNames
  <2>2. c.at = node[arrow[c.who].from].id /\ c.to = node[arrow[c.who].to].id
    BY <1>1, <2>1 DEF LinksOK, Told, EndsNamed
  <2>3. \A d \in calls : d.op = "rename" => d.to # c.at /\ d.to # c.to
    BY <1>1 DEF LinksOK, Told, NamesNew
  <2>4. node[arrow[b].from].id = c.at /\ node[arrow[b].to].id = c.to
    BY <1>10, <1>12, <2>3 DEF Joining, Stands
  <2>5. QED BY <2>2, <2>4 DEF SameEnds
<1>13. ArrowsJoin'
  <2>1. SUFFICES ASSUME NEW a \in Mapped, ~Linking(a) PROVE \E l \in links' : Joining(a, l)
    BY <1>6 DEF ArrowsJoin
  <2>2. PICK l \in links : Joining(a, l)
    BY <2>1 DEF LinksOK, Matched, ArrowsJoin
  <2>3. CASE l \notin links'
    <3>1. SameEnds(c.who, a)
      BY <1>9, <1>12, <2>1, <2>2, <2>3
    <3>2. QED BY <1>9, <2>1, <3>1 DEF LinksOK, Matched, ArrowsApart
  <2>4. QED BY <2>2, <2>3
<1>14. ConnectsJoin'
  <2>1. SUFFICES ASSUME NEW d \in calls', d.op = "connect", d.status = "ok"
                 PROVE  \E l \in links' : Joining(d.who, l)'
    BY DEF ConnectsJoin
  <2>2. d \in calls /\ d # c /\ d.op \in LinkOps /\ Kept(d.who)
    BY <1>1, <1>4, <1>6, <1>9, <2>1 DEF LinkOps
  <2>3. d.who \in Mapped /\ d.who # c.who
    BY <1>1, <2>1, <2>2 DEF LinksOK, Matched, ConnectsAlone
  <2>4. PICK l \in links : Joining(d.who, l)
    BY <2>1, <2>2 DEF LinksOK, Matched, ConnectsJoin
  <2>5. l \in links'
    <3>1. SUFFICES ASSUME l \notin links' PROVE FALSE
      OBVIOUS
    <3>2. SameEnds(c.who, d.who)
      BY <1>12, <2>2, <2>4, <3>1
    <3>3. QED BY <1>9, <2>3, <3>2 DEF LinksOK, Matched, ArrowsApart
  <2>6. PICK a : a = d.who
    OBVIOUS
  <2>7. Joining(a, l)'
    BY <1>6, <2>4, <2>6
  <2>8. QED BY <2>5, <2>6, <2>7
<1>15. DisconnectsPart'
  <2>1. SUFFICES ASSUME NEW d \in calls', d.op = "disconnect", d.status = "ok", NEW l \in links',
                        Joining(d.who, l)'
                 PROVE  FALSE
    BY DEF DisconnectsPart
  <2>2. PICK a : a = d.who
    OBVIOUS
  <2>3. Joining(a, l)'
    BY <2>1, <2>2
  <2>4. Joining(a, l) /\ l \in links
    BY <1>6, <1>7, <2>3
  <2>5. CASE d \in calls
    BY <2>1, <2>2, <2>4, <2>5 DEF LinksOK, Matched, DisconnectsPart
  <2>6. CASE d = r
    <3>1. PICK f \in Named(c.at), t \in Named(c.to) : links' = {k \in links : <<k.from, k.to>> # <<f, t>>}
      BY <1>3, <1>6, <2>1, <2>6
    <3>2. f \in live /\ t \in live /\ known[f].name = c.at /\ known[t].name = c.to
      BY <3>1 DEF Named
    <3>3. c.at \in LiveNames /\ c.to \in LiveNames
      BY <3>2 DEF LiveNames
    <3>4. c.at = node[arrow[a].from].id /\ c.to = node[arrow[a].to].id
      BY <1>1, <1>6, <2>2, <2>6, <3>3 DEF LinksOK, Told, EndsNamed
    <3>5. PICK o, p : o = arrow[a].from /\ p = arrow[a].to
      OBVIOUS
    <3>6. Stands(o, l.from) /\ Stands(p, l.to) /\ node[o].id = c.at /\ node[p].id = c.to
      BY <2>4, <3>4, <3>5 DEF Joining
    <3>7. known[l.from].name = c.at /\ known[l.to].name = c.to
      BY <1>11, <3>3, <3>6
    <3>8. l.from = f /\ l.to = t
      BY <3>2, <3>6, <3>7, NamedStands
    <3>9. QED BY <2>1, <3>1, <3>8
  <2>7. QED BY <1>4, <2>1, <2>5, <2>6
<1>16. QED BY <1>6, <1>8, <1>13, <1>14, <1>15 DEF LinksOK, Matched

(* A connect that is served makes a connection where its arrow is the only *)
(* one with these ends.                                                    *)
LEMMA ServeConnectLinks ==
  ASSUME Types, Types', Settled, LinksOK, NEW c \in calls, ServeConnect(c), alive' PROVE LinksOK'
<1>1. /\ UNCHANGED <<node, state, arrow, known, live>>
      /\ c.op = "connect" /\ c.status = "sent" /\ c.op \in LinkOps
  BY DEF ServeConnect, SameRun, page, Serving, LinkOps
<1>2. /\ \A d \in calls : d.op \notin Movers
      /\ c.at \in LiveNames /\ c.to \in LiveNames
  BY <1>1 DEF Settled, ConnectsFit
<1>3. Named(c.at) # {} /\ Named(c.to) # {}
  BY <1>2 DEF LiveNames, Named
<1>4. PICK f \in Named(c.at), t \in Named(c.to) :
        LET there == \E l \in links : l.from = f /\ l.to = t
            refused == ~there /\ known[t].kind \in EventKinds
        IN /\ Reply(c, IF refused THEN "error" ELSE "ok")
           /\ IF there \/ refused THEN UNCHANGED <<links, linked>>
              ELSE /\ linked' = linked + 1
                   /\ links' = links \cup {[id |-> linked + 1, from |-> f, to |-> t]}
  BY <1>3, Zenon DEF ServeConnect
<1>5. PICK s \in {"ok", "error"} :
        /\ Reply(c, s)
        /\ \/ links' = links /\ (s = "ok" => \E l \in links : l.from = f /\ l.to = t)
           \/ /\ ~\E l \in links : l.from = f /\ l.to = t
              /\ links' = links \cup {[id |-> linked + 1, from |-> f, to |-> t]}
  BY <1>4
<1>6. PICK r : calls' = (calls \ {c}) \cup {r} /\ IsReply(r, c, s, c.name, c.view)
  BY <1>1, <1>5, StatusReply DEF Types
<1>7. s # "sent"
  OBVIOUS
<1>8. /\ r.op = c.op /\ r.who = c.who /\ r.status = s
      /\ \A a : Linking(a)' <=> Linking(a)
      /\ \A a, l : Joining(a, l)' <=> Joining(a, l)
      /\ Mapped' = Mapped /\ (Renewed' <=> Renewed)
      /\ \A d \in calls : d.op # "refresh"
      /\ ArrowsApart' /\ ConnectsAlone' /\ Told'
  BY <1>1, <1>6, <1>7, LinkServed
<1>9. links \subseteq links' /\ (s = "ok" => \E l \in links' : l.from = f /\ l.to = t)
  <2>1. PICK k : k = [id |-> linked + 1, from |-> f, to |-> t]
    OBVIOUS
  <2>2. k.from = f /\ k.to = t
    BY <2>1
  <2>3. \/ links' = links /\ (s = "ok" => \E l \in links : l.from = f /\ l.to = t)
        \/ links' = links \cup {k}
    BY <1>5, <2>1
  <2>4. QED BY <2>2, <2>3
<1>10. \A l \in links' : l \in links \/ (l.from = f /\ l.to = t /\ ~\E k \in links : k.from = f /\ k.to = t)
  BY <1>5
<1>11. f \in live /\ t \in live /\ known[f].name = c.at /\ known[t].name = c.to
  BY DEF Named
<1>12. c.who \in Mapped /\ \A d \in calls : d.op \in LinkOps /\ c.who = d.who => c = d
  BY <1>1 DEF LinksOK, Matched, ConnectsAlone
<1>13. PICK o, p : o = arrow[c.who].from /\ p = arrow[c.who].to
  OBVIOUS
<1>14. Held(o) /\ Held(p)
  <2>1. ~Disconnecting(c.who)
    BY <1>1, <1>12 DEF Disconnecting, LinkOps
  <2>2. QED BY <1>12, <1>13, <2>1 DEF Settled, ArrowsOK, ArrowsHeld, Attached
<1>15. node[o].id = c.at /\ node[p].id = c.to
  BY <1>1, <1>2, <1>13 DEF LinksOK, Told, EndsNamed
<1>16. Stands(o, f) /\ Stands(p, t)
  BY <1>11, <1>14, <1>15 DEF Stands
<1>17. ASSUME NEW l, l.from = f, l.to = t PROVE Joining(c.who, l)
  BY <1>13, <1>16, <1>17 DEF Joining
<1>18. ASSUME NEW q, NEW n, Stands(q, n) PROVE Held(q) /\ node[q].id = known[n].name
  BY <1>2, <1>18 DEF Stands, Movers
<1>19. ASSUME NEW b, Kept(b), NEW l, l.from = f, l.to = t, Joining(b, l) PROVE b = c.who
  <2>1. SameEnds(b, c.who)
    BY <1>11, <1>13, <1>15, <1>18, <1>19 DEF SameEnds, Joining
  <2>2. QED BY <1>12, <1>19, <2>1 DEF LinksOK, Matched, ArrowsApart
<1>20. ArrowsJoin'
  BY <1>8, <1>9 DEF LinksOK, Matched, ArrowsJoin
<1>21. ConnectsJoin'
  <2>1. SUFFICES ASSUME NEW d \in calls', d.op = "connect", d.status = "ok"
                 PROVE  \E l \in links' : Joining(d.who, l)'
    BY DEF ConnectsJoin
  <2>2. PICK a : a = d.who
    OBVIOUS
  <2>3. \E l \in links' : Joining(a, l)
    <3>1. CASE d = r
      <4>1. PICK l \in links' : l.from = f /\ l.to = t
        BY <1>8, <1>9, <2>1, <3>1
      <4>2. Joining(c.who, l)
        BY <1>17, <4>1
      <4>3. QED BY <1>8, <2>2, <3>1, <4>2
    <3>2. CASE d \in calls
      BY <1>9, <2>1, <2>2, <3>2 DEF LinksOK, Matched, ConnectsJoin
    <3>3. QED BY <1>6, <2>1, <3>1, <3>2
  <2>4. \E l \in links' : Joining(a, l)'
    BY <1>8, <2>3
  <2>5. QED BY <2>2, <2>4
<1>22. DisconnectsPart'
  <2>1. SUFFICES ASSUME NEW d \in calls', d.op = "disconnect", d.status = "ok", NEW l \in links',
                        Joining(d.who, l)'
                 PROVE  FALSE
    BY DEF DisconnectsPart
  <2>2. PICK a : a = d.who
    OBVIOUS
  <2>3. Joining(a, l)'
    BY <2>1, <2>2
  <2>4. Joining(a, l)
    BY <1>8, <2>3
  <2>5. d \in calls /\ d # c /\ d.op \in LinkOps
    BY <1>1, <1>6, <1>8, <2>1 DEF LinkOps
  <2>6. CASE l \in links
    BY <2>1, <2>2, <2>4, <2>5, <2>6 DEF LinksOK, Matched, DisconnectsPart
  <2>7. CASE l.from = f /\ l.to = t
    <3>1. Kept(a)
      BY <2>2, <2>5, EndsAre
    <3>2. a = c.who
      BY <1>19, <2>4, <2>7, <3>1
    <3>3. QED BY <1>12, <2>2, <2>5, <3>2
  <2>8. QED BY <1>10, <2>1, <2>6, <2>7
<1>23. LinksShow'
  <2>1. SUFFICES ASSUME NEW l \in links', l.from \in live, l.to \in live
                 PROVE  (\E a \in Mapped : Joining(a, l)') \/ Renewed
    BY <1>1, <1>8 DEF LinksShow
  <2>2. (\E a \in Mapped : Joining(a, l)) \/ Renewed
    <3>1. CASE l \in links
      BY <2>1, <3>1 DEF LinksOK, Matched, LinksShow
    <3>2. CASE l.from = f /\ l.to = t
      BY <1>12, <1>17, <3>2
    <3>3. QED BY <1>10, <2>1, <3>1, <3>2
  <2>3. QED BY <1>8, <2>2
<1>24. LinksApart'
  <2>1. SUFFICES ASSUME NEW l \in links', NEW k \in links', l.from = k.from, l.to = k.to PROVE l = k
    BY DEF LinksApart
  <2>2. CASE l \in links /\ k \in links
    BY <2>1, <2>2 DEF LinksOK, Matched, LinksApart
  <2>3. CASE l \notin links /\ k \notin links
    BY <1>5, <2>1, <2>3
  <2>4. QED BY <1>10, <2>1, <2>2, <2>3
<1>25. QED BY <1>8, <1>20, <1>21, <1>22, <1>23, <1>24 DEF LinksOK, Matched

(* A removal takes the connections of the node, whose arrows are leaving.  *)
LEMMA ServeRemoveLinks ==
  ASSUME Types, Types', Settled, LinksOK, NEW c \in calls, ServeRemove(c) PROVE LinksOK'
<1>1. UNCHANGED <<node, state, arrow, known>> /\ c.op = "remove" /\ c.status = "sent"
  BY DEF ServeRemove, SameRun, page, Serving
<1>2. \/ Reply(c, "error") /\ live' = live /\ links' = links
      \/ \E n \in Named(c.at) :
           /\ live' = live \ {n}
           /\ links' = {l \in links : n \notin {l.from, l.to}}
           /\ Reply(c, "ok")
  BY DEF ServeRemove
<1>3. CASE Reply(c, "error") /\ live' = live /\ links' = links
  <2>1. PICK r : calls' = (calls \ {c}) \cup {r} /\ IsReply(r, c, "error", c.name, c.view)
    BY <1>1, <1>3, StatusReply DEF Types
  <2>2. QED BY <1>1, <1>3, <2>1, RepliedLinks DEF LinkOps
<1>4. CASE \E n \in Named(c.at) :
           /\ live' = live \ {n}
           /\ links' = {l \in links : n \notin {l.from, l.to}}
           /\ Reply(c, "ok")
  <2>1. PICK n \in Named(c.at) :
           /\ live' = live \ {n}
           /\ links' = {l \in links : n \notin {l.from, l.to}}
           /\ Reply(c, "ok")
    BY <1>4
  <2>2. PICK r : calls' = (calls \ {c}) \cup {r} /\ IsReply(r, c, "ok", c.name, c.view)
    BY <1>1, <2>1, StatusReply DEF Types
  <2>3. r.op = c.op /\ r.who = c.who
    BY <2>2 DEF IsReply
  <2>4. \A d : d.op # "remove" => (d \in calls' <=> d \in calls)
    BY <1>1, <2>2, <2>3
  <2>5. n \in live /\ known[n].name = c.at /\ c.at \in LiveNames
    BY DEF Named, LiveNames
  <2>6. Lists(c.at, c.who)
    BY <1>1, <2>5 DEF Settled, NamesOK, CallsFit, Fits, RemoveFits, NodeOps
  <2>7. \A d \in calls : d.op \notin {"connect", "refresh", "clear"}
    <3>1. \A d \in calls : d.op # "connect"
      BY <1>1 DEF Settled, ConnectsFit, Movers
    <3>2. \A d \in calls : d # c /\ d.op \in NodeOps => KeptApart(d, c)
      BY <1>1 DEF Settled, NamesOK, CallsApart, NodeOps
    <3>3. \A d \in calls : d.op \notin {"clear", "refresh"}
      BY <1>1, <3>2 DEF KeptApart, NodeOps
    <3>4. QED BY <3>1, <3>3
  <2>8. Mapped' = Mapped /\ \A a : Linking(a)' <=> Linking(a)
    <3>1. \A d : d.op \in LinkOps => (d \in calls' <=> d \in calls)
      BY <2>4 DEF LinkOps
    <3>2. QED BY <1>1, <3>1 DEF Mapped, Linking
  <2>9. ASSUME NEW o, NEW m, m # n PROVE Stands(o, m)' <=> Stands(o, m)
    <3>1. Held(o)' <=> Held(o)
      BY <1>1 DEF Held, Lists
    <3>2. m \in live' <=> m \in live
      BY <2>1, <2>9
    <3>3. \A d : d.op = "rename" => (d \in calls' <=> d \in calls)
      BY <2>4
    <3>4. QED BY <1>1, <3>1, <3>2, <3>3, StandsStays
  <2>10. \A a : \A l \in links' : Joining(a, l)' <=> Joining(a, l)
    <3>1. SUFFICES ASSUME NEW a, NEW l \in links' PROVE Joining(a, l)' <=> Joining(a, l)
      OBVIOUS
    <3>2. PICK p, q : p = arrow[a].from /\ q = arrow[a].to
      OBVIOUS
    <3>3. l.from # n /\ l.to # n
      BY <2>1
    <3>4. (Stands(p, l.from)' <=> Stands(p, l.from)) /\ (Stands(q, l.to)' <=> Stands(q, l.to))
      BY <2>9, <3>3
    <3>5. QED BY <1>1, <3>2, <3>4 DEF Joining
  <2>11. links' \subseteq links /\ \A l \in links : l \notin links' => l.from = n \/ l.to = n
    BY <2>1
(* What stands for the node that goes is the one that is removed.          *)
  <2>12. ASSUME NEW o, Stands(o, n) PROVE o = c.who
    <3>1. Held(o) /\ (c.at = node[o].id \/ \E d \in calls : d.op = "rename" /\ d.to = c.at)
      BY <2>5, <2>12 DEF Stands
    <3>2. \A d \in calls : d.op = "rename" => d.to # c.at
      BY <2>6 DEF Lists, Settled, NamesOK, CallsFit, Fits, RenameFits, NodeOps
    <3>3. QED BY <2>6, <3>1, <3>2 DEF Held, Lists
  <2>13. ArrowsJoin'
    <3>1. SUFFICES ASSUME NEW a \in Mapped, ~Linking(a) PROVE \E l \in links' : Joining(a, l)
      BY <2>8, <2>10 DEF ArrowsJoin
    <3>2. PICK l \in links : Joining(a, l)
      BY <3>1 DEF LinksOK, Matched, ArrowsJoin
    <3>3. CASE l \notin links'
      <4>1. c.who = arrow[a].from \/ c.who = arrow[a].to
        BY <2>11, <2>12, <3>2, <3>3 DEF Joining
      <4>2. Disconnecting(a)
        BY <1>1, <3>1, <4>1 DEF Settled, ArrowsOK, RemovedLeaves, LeavingGoes
      <4>3. QED BY <3>1, <4>2 DEF Disconnecting, Linking, LinkOps
    <3>4. QED BY <3>2, <3>3
  <2>14. ConnectsJoin' /\ ConnectsAlone'
    BY <2>4, <2>7 DEF ConnectsJoin, ConnectsAlone
  <2>15. DisconnectsPart'
    <3>1. SUFFICES ASSUME NEW d \in calls', d.op = "disconnect", d.status = "ok", NEW l \in links',
                          Joining(d.who, l)'
                   PROVE  FALSE
      BY DEF DisconnectsPart
    <3>2. PICK a : a = d.who
      OBVIOUS
    <3>3. Joining(a, l)'
      BY <3>1, <3>2
    <3>4. Joining(a, l) /\ d \in calls /\ l \in links
      BY <2>4, <2>10, <2>11, <3>1, <3>3
    <3>5. QED BY <3>1, <3>2, <3>4 DEF LinksOK, Matched, DisconnectsPart
  <2>16. LinksShow'
    <3>1. SUFFICES ASSUME NEW l \in links', l.from \in live, l.to \in live
                   PROVE  \E a \in Mapped : Joining(a, l)'
      BY <2>1, <2>8 DEF LinksShow
    <3>2. ~Renewed
      BY <2>7 DEF Renewed, Renews
    <3>3. \E a \in Mapped : Joining(a, l)
      BY <2>11, <3>1, <3>2 DEF LinksOK, Matched, LinksShow
    <3>4. QED BY <2>10, <3>3
  <2>17. LinksApart'
    BY <2>11 DEF LinksOK, Matched, LinksApart
  <2>18. ArrowsApart'
    <3>1. \A a : Kept(a)' <=> Kept(a)
      BY <1>1, <2>8 DEF Kept
    <3>2. \A a, b : SameEnds(a, b)' <=> SameEnds(a, b)
      BY <1>1 DEF SameEnds
    <3>3. QED BY <2>8, <3>1, <3>2 DEF LinksOK, Matched, ArrowsApart
  <2>19. Told'
    <3>1. \A d \in calls' : d.op # "refresh"
      BY <2>4, <2>7
    <3>2. ViewsTrue'
      BY <3>1 DEF ViewsTrue
    <3>3. \A x \in LiveNames' : x \in LiveNames
      BY <1>1, <2>1 DEF LiveNames
    <3>4. \A d \in calls' : d.op \in {"rename", "create"} \cup LinkOps => d \in calls
      BY <2>4 DEF LinkOps
    <3>5. QED BY <1>1, <3>2, <3>3, <3>4, ToldStays DEF LinksOK
  <2>20. QED
    BY <2>13, <2>14, <2>15, <2>16, <2>17, <2>18, <2>19 DEF LinksOK, Matched
<1>5. QED BY <1>2, <1>3, <1>4

LEMMA ServeCreateLinks ==
  ASSUME Types, Types', Settled, LinksOK, NEW c \in calls, ServeCreate(c), Apart' PROVE LinksOK'
<1>1. UNCHANGED <<node, state, arrow, links>>
  BY DEF ServeCreate, SameRun, page
<1>2. PICK name \in Names :
        /\ c.op = "create" /\ c.status = "sent"
        /\ DOMAIN known' = DOMAIN known \cup {Len(known) + 1} /\ Len(known) + 1 \notin DOMAIN known
        /\ \A n \in DOMAIN known : known'[n] = known[n]
        /\ known'[Len(known) + 1].name = name
        /\ live' = live \cup {Len(known) + 1}
        /\ \E r : calls' = (calls \ {c}) \cup {r} /\ IsReply(r, c, "ok", name, c.view)
        /\ crossed' = crossed \cup Reused(name)
  BY ServeCreateDoes
<1>3. PICK r : calls' = (calls \ {c}) \cup {r} /\ IsReply(r, c, "ok", name, c.view)
  BY <1>2
<1>4. r.op = "create" /\ r.who = c.who
  BY <1>2, <1>3 DEF IsReply
<1>5. \A d : d.op # "create" => (d \in calls' <=> d \in calls)
  BY <1>2, <1>3, <1>4
<1>6. \A d \in calls : name # d.at /\ name # d.to
  <2>1. "nodes" \notin Reused(name)
    BY <1>2 DEF Apart
  <2>2. QED BY <2>1, NotReused
<1>7. \A n \in DOMAIN known : n \in live' <=> n \in live
  BY <1>2
<1>8. ASSUME NEW o, NEW n \in DOMAIN known PROVE Stands(o, n)' <=> Stands(o, n)
  <2>1. Held(o)' <=> Held(o)
    BY <1>1 DEF Held, Lists
  <2>2. \A d : d.op = "rename" => (d \in calls' <=> d \in calls)
    BY <1>5
  <2>3. n \in live' <=> n \in live
    BY <1>7
  <2>4. QED BY <1>1, <1>2, <2>1, <2>2, <2>3, StandsStays
<1>9. \A a : Kept(a) => \A n \in DOMAIN known :
           /\ Stands(arrow[a].from, n)' <=> Stands(arrow[a].from, n)
           /\ Stands(arrow[a].to, n)' <=> Stands(arrow[a].to, n)
  <2>1. SUFFICES ASSUME NEW a, Kept(a), NEW n \in DOMAIN known
                 PROVE  /\ Stands(arrow[a].from, n)' <=> Stands(arrow[a].from, n)
                        /\ Stands(arrow[a].to, n)' <=> Stands(arrow[a].to, n)
    OBVIOUS
  <2>2. PICK o, p : o = arrow[a].from /\ p = arrow[a].to
    OBVIOUS
  <2>3. (Stands(o, n)' <=> Stands(o, n)) /\ (Stands(p, n)' <=> Stands(p, n))
    BY <1>8
  <2>4. QED BY <1>1, <2>2, <2>3
<1>10. Matched'
  <2>1. \A a : Kept(a) => \A l \in links : Joining(a, l)' <=> Joining(a, l)
    BY <1>1, <1>9, JoiningStays
  <2>2. \A a, b : Kept(a) /\ Kept(b) /\ SameEnds(a, b)' => SameEnds(a, b)
    BY <1>1 DEF SameEnds
  <2>3. Renewed => Renewed'
    BY <1>5 DEF Renewed, Renews
  <2>4. \A l \in links : l.from \in live' /\ l.to \in live' => l.from \in live /\ l.to \in live
    BY <1>7, EndsAre
  <2>5. \A d : d.op \in LinkOps => (d \in calls' <=> d \in calls)
    BY <1>5 DEF LinkOps
  <2>6. QED BY <1>1, <2>1, <2>2, <2>3, <2>4, <2>5, MatchedStays DEF LinksOK
<1>11. Told'
  <2>1. \A d \in calls : d # c /\ d.op \in NodeOps => KeptApart(d, c)
    BY <1>2 DEF Settled, NamesOK, CallsApart, NodeOps
  <2>2. \A d \in calls' : d.op # "refresh"
    BY <1>2, <1>5, <2>1 DEF KeptApart, NodeOps
  <2>3. ViewsTrue'
    BY <2>2 DEF ViewsTrue
  <2>4. \A x \in LiveNames' : x \in LiveNames \/ x = name
    BY <1>2 DEF LiveNames, Types, KnownTyped
  <2>5. \A d \in calls' : d.op \in {"rename"} \cup LinkOps => d \in calls
    BY <1>5 DEF LinkOps
  <2>6. \A d \in calls' : d.op = "create" => \E b \in calls : b.op = "create" /\ b.who = d.who
    BY <1>2, <1>3, <1>4
  <2>7. \A x \in LiveNames' : x \in LiveNames \/ \A d \in calls : d.op \in LinkOps => x # d.at /\ x # d.to
    BY <1>6, <2>4
  <2>8. QED BY <1>1, <2>3, <2>5, <2>6, <2>7, ToldStays DEF LinksOK
<1>12. QED BY <1>10, <1>11 DEF LinksOK

(* A rename that is served: what stood for the node under its old name     *)
(* does so by the answer.                                                  *)
LEMMA ServeRenameLinks ==
  ASSUME Types, Types', Settled, LinksOK, NEW c \in calls, ServeRename(c) PROVE LinksOK'
<1>1. /\ c.op = "rename" /\ c.status = "sent" /\ c.to \in Names
      /\ UNCHANGED <<node, state, arrow, live, links>>
  BY ServeRenameDoes DEF page
<1>2. CASE known' = known /\ \E r : calls' = (calls \ {c}) \cup {r} /\ IsReply(r, c, "error", c.name, c.view)
  BY <1>1, <1>2, RepliedLinks DEF LinkOps
<1>3. ASSUME NEW n \in Named(c.at),
             DOMAIN known' = DOMAIN known, n \in DOMAIN known,
             \A m \in DOMAIN known : m # n => known'[m] = known[m],
             known'[n].name = (IF c.to = NullName THEN EmptyName ELSE c.to),
             NEW r, calls' = (calls \ {c}) \cup {r}, IsReply(r, c, "ok", c.name, c.view)
      PROVE  LinksOK'
  <2>1. r.op = "rename" /\ r.who = c.who /\ r.to = c.to /\ r.status = "ok"
    BY <1>1, <1>3 DEF IsReply
  <2>2. n \in live /\ known[n].name = c.at /\ c.at \in LiveNames
    BY DEF Named, LiveNames
  <2>3. /\ c.to # NullName /\ c.to \notin DOMAIN state /\ c.to \notin LiveNames
        /\ Lists(c.at, c.who)
    BY <1>1, <2>2 DEF Settled, NamesOK, CallsFit, Fits, RenameFits, NodeOps
  <2>4. node[c.who].id = c.at /\ Held(c.who)
    BY <2>3 DEF Settled, NamesOK, Placed, Lists, Held
  <2>5. known'[n].name = c.to
    BY <1>3, <2>3
  <2>6. \A d \in calls : d # c /\ d.op \in NodeOps => KeptApart(d, c)
    BY <1>1 DEF Settled, NamesOK, CallsApart, NodeOps
  <2>7. \A d \in calls : (d.op = "rename" => d = c) /\ d.op # "refresh"
    BY <1>1, <2>6 DEF KeptApart, NodeOps
  <2>8. \A d : d.op # "rename" => (d \in calls' <=> d \in calls)
    BY <1>1, <1>3, <2>1
  <2>9. \A d \in calls' : d.op = "rename" => d = r
    BY <1>3, <2>7
  <2>10. r \in calls'
    BY <1>3
  <2>11. \A o : Held(o)' <=> Held(o)
    BY <1>1 DEF Held, Lists
  <2>12. ASSUME NEW o, NEW m \in DOMAIN known PROVE Stands(o, m)' <=> Stands(o, m)
    <3>1. ~\E d \in calls : d.op = "rename" /\ d.status = "ok" /\ d.who = o /\ known[m].name = d.to
      BY <1>1, <2>7
    <3>2. Stands(o, m) <=> m \in live /\ Held(o) /\ known[m].name = node[o].id
      BY <3>1 DEF Stands
    <3>3. (\E d \in calls' : d.op = "rename" /\ d.status = "ok" /\ d.who = o /\ known'[m].name = d.to)
            <=> c.who = o /\ known'[m].name = c.to
      BY <2>1, <2>9, <2>10
    <3>4. Stands(o, m)' <=> /\ m \in live /\ Held(o)
                            /\ known'[m].name = node[o].id \/ (c.who = o /\ known'[m].name = c.to)
      BY <1>1, <2>11, <3>3 DEF Stands
    <3>5. CASE m = n
      <4>1. Held(o) => node[o].id # c.to
        BY <2>3 DEF Held, Lists
      <4>2. Held(o) /\ node[o].id = c.at <=> o = c.who
        BY <2>3, <2>4 DEF Held, Lists
      <4>3. QED BY <2>2, <2>5, <3>2, <3>4, <3>5, <4>1, <4>2
    <3>6. CASE m # n
      <4>1. known'[m].name = known[m].name
        BY <1>3, <2>12, <3>6
      <4>2. m \in live => known[m].name # c.to
        BY <2>3 DEF LiveNames
      <4>3. QED BY <3>2, <3>4, <4>1, <4>2
    <3>7. QED BY <3>5, <3>6
  <2>13. \A a : Kept(a) => \A m \in DOMAIN known :
           /\ Stands(arrow[a].from, m)' <=> Stands(arrow[a].from, m)
           /\ Stands(arrow[a].to, m)' <=> Stands(arrow[a].to, m)
    <3>1. SUFFICES ASSUME NEW a, Kept(a), NEW m \in DOMAIN known
                   PROVE  /\ Stands(arrow[a].from, m)' <=> Stands(arrow[a].from, m)
                          /\ Stands(arrow[a].to, m)' <=> Stands(arrow[a].to, m)
      OBVIOUS
    <3>2. PICK o, p : o = arrow[a].from /\ p = arrow[a].to
      OBVIOUS
    <3>3. (Stands(o, m)' <=> Stands(o, m)) /\ (Stands(p, m)' <=> Stands(p, m))
      BY <2>12
    <3>4. QED BY <1>1, <3>2, <3>3
  <2>14. Matched'
    <3>1. \A a : Kept(a) => \A l \in links : Joining(a, l)' <=> Joining(a, l)
      BY <1>1, <2>13, JoiningStays
    <3>2. \A a, b : Kept(a) /\ Kept(b) /\ SameEnds(a, b)' => SameEnds(a, b)
      BY <1>1 DEF SameEnds
    <3>3. Renewed => Renewed'
      <4>1. \A d : Renews(d) => d.op # "rename"
        BY DEF Renews
      <4>2. QED BY <2>8, <4>1 DEF Renewed, Renews
    <3>4. \A d : d.op \in LinkOps => (d \in calls' <=> d \in calls)
      BY <2>8 DEF LinkOps
    <3>5. QED BY <1>1, <3>1, <3>2, <3>3, <3>4, MatchedStays DEF LinksOK
  <2>15. Told'
    <3>1. \A d \in calls' : d.op # "refresh"
      BY <2>7, <2>8
    <3>2. ViewsTrue'
      BY <3>1 DEF ViewsTrue
    <3>3. \A x \in LiveNames' : x \in LiveNames \/ x = c.to
      <4>1. SUFFICES ASSUME NEW m \in live, known'[m].name # c.to PROVE known'[m].name \in LiveNames
        BY <1>1 DEF LiveNames
      <4>2. m # n /\ m \in DOMAIN known
        BY <2>5, <4>1 DEF Types, KnownTyped
      <4>3. QED BY <1>3, <4>2 DEF LiveNames
    <3>4. \A d \in calls : d.op \in LinkOps => c.to # d.at /\ c.to # d.to
      BY <1>1 DEF LinksOK, Told, NamesNew
    <3>5. \A d \in calls' : d.op \in {"create"} \cup LinkOps => d \in calls
      BY <2>8 DEF LinkOps
    <3>6. \A d \in calls' : d.op = "rename" => \E b \in calls : b.op = "rename" /\ b.to = d.to
      BY <1>1, <2>1, <2>9
    <3>7. \A x \in LiveNames' : x \in LiveNames \/ \A d \in calls : d.op \in LinkOps => x # d.at /\ x # d.to
      BY <3>3, <3>4
    <3>8. QED BY <1>1, <3>2, <3>5, <3>6, <3>7, ToldStays DEF LinksOK
  <2>16. QED BY <2>14, <2>15 DEF LinksOK
<1>4. QED BY <1>2, <1>3, ServeRenameDoes

(* A clear that is served finds a page without nodes.                      *)
LEMMA ServeClearLinks ==
  ASSUME Types, Types', Settled, LinksOK, NEW c \in calls, ServeClear(c) PROVE LinksOK'
<1>1. /\ c.op = "clear" /\ c.status = "sent" /\ live' = {}
      /\ UNCHANGED <<node, state, arrow, known, links>>
  BY ServeClearDoes DEF page
<1>2. PICK r : calls' = (calls \ {c}) \cup {r} /\ IsReply(r, c, "ok", c.name, c.view)
  BY ServeClearDoes
<1>3. r.op = "clear"
  BY <1>1, <1>2 DEF IsReply
<1>4. \A d : d.op # "clear" => (d \in calls' <=> d \in calls)
  BY <1>1, <1>2, <1>3
<1>5. \A o : ~Held(o)
  BY <1>1 DEF Settled, NamesOK, CallsFit, Fits, ClearFits, NodeOps, Held, Lists
<1>6. \A a, l : ~Joining(a, l)' /\ ~Joining(a, l)
  BY <1>1, <1>5 DEF Joining, Stands
<1>7. Matched'
  <2>1. \A a, b : Kept(a) /\ Kept(b) /\ SameEnds(a, b)' => SameEnds(a, b)
    BY <1>1 DEF SameEnds
  <2>2. \A d : d.op \in LinkOps => (d \in calls' <=> d \in calls)
    BY <1>4 DEF LinkOps
  <2>3. \A l \in links : ~(l.from \in live' /\ l.to \in live')
    BY <1>1
  <2>4. \A a : Kept(a) => \A l \in links : Joining(a, l)' <=> Joining(a, l)
    BY <1>6
  <2>5. QED BY <1>1, <2>1, <2>2, <2>3, <2>4, MatchedStays DEF LinksOK
<1>8. Told'
  <2>1. \A d \in calls : d # c /\ d.op \in NodeOps => KeptApart(d, c)
    BY <1>1 DEF Settled, NamesOK, CallsApart, NodeOps
  <2>2. \A d \in calls' : d.op # "refresh"
    BY <1>1, <1>4, <2>1 DEF KeptApart, NodeOps
  <2>3. ViewsTrue'
    BY <2>2 DEF ViewsTrue
  <2>4. LiveNames' = {}
    BY <1>1 DEF LiveNames
  <2>5. \A d \in calls' : d.op \in {"rename", "create"} \cup LinkOps => d \in calls
    BY <1>4 DEF LinkOps
  <2>6. QED BY <1>1, <2>3, <2>4, <2>5, ToldStays DEF LinksOK
<1>9. QED BY <1>7, <1>8 DEF LinksOK

LEMMA ServeLinks ==
  ASSUME Types, Types', Settled, LinksOK, NEW c \in calls, Serve(c), Apart', alive' PROVE LinksOK'
<1>1. CASE ServePosition(c)
  <2>1. /\ UNCHANGED <<node, state, arrow, known, live, links>>
        /\ c.op = "position" /\ c.status = "sent" /\ \E s \in {"ok", "error"} : Reply(c, s)
    BY <1>1 DEF ServePosition, SameRun, page, Serving
  <2>2. PICK s \in {"ok", "error"} : \E r : calls' = (calls \ {c}) \cup {r} /\ IsReply(r, c, s, c.name, c.view)
    BY <2>1, StatusReply DEF Types
  <2>3. QED BY <2>1, <2>2, RepliedLinks DEF LinkOps
<1>2. CASE ServeFile(c)
  <2>1. /\ c.op \in {"save", "refresh", "run", "stop"} /\ c.status = "sent"
        /\ UNCHANGED <<node, state, arrow, known, live, links>>
    BY <1>2, ServeFileDoes DEF page
  <2>2. c.op = "refresh" => \A l \in links : l.from \in live /\ l.to \in live
    BY <1>2, ServeFileDoes DEF Apart
  <2>3. ~({"nodes", "links"} \subseteq crossed')
    BY DEF Apart
  <2>4. PICK r, v : /\ calls' = (calls \ {c}) \cup {r} /\ IsReply(r, c, "ok", c.name, v)
                    /\ v = IF c.op = "refresh" THEN View ELSE c.view
    BY <1>2, <2>3, ServeFileDoes
  <2>5. c.op = "refresh" => v = View
    BY <2>4
  <2>6. c.op \notin {"clear"} \cup LinkOps /\ c.op # "rename"
    BY <2>1 DEF LinkOps
  <2>7. QED BY <2>1, <2>2, <2>4, <2>5, <2>6, RepliedLinks
<1>3. CASE DiskStep(c)
  <2>1. UNCHANGED <<node, state, arrow, calls, known, live, links>>
    BY <1>3, DiskStepDoes DEF page
  <2>2. Renewed => Renewed'
    BY <2>1 DEF Renewed, Renews
  <2>3. QED BY <2>1, <2>2, Quietly
<1>4. QED
  BY <1>1, <1>2, <1>3, ServeCreateLinks, ServeRemoveLinks, ServeConnectLinks, ServeDisconnectLinks,
     ServeRenameLinks, ServeClearLinks
  DEF Serve, ServeFile, DiskStep

(* What the page does with the answers.  First those that change no node,  *)
(* arrow or connection.                                                    *)
LEMMA ForgottenLinks ==
  ASSUME Types, Types', LinksOK, UNCHANGED <<state, arrow, known, live, links>>,
         \A o \in DOMAIN node : node'[o].id = node[o].id,
         NEW c \in calls, c.op \notin LinkOps, c.op = "rename" => c.status = "error", ~Renews(c),
         calls \ {c} \subseteq calls',
         \A d \in calls' : d \in calls \/ d.op \in {"position", "save"}
  PROVE  LinksOK'
<1>1. \A d : d.op \in LinkOps => (d \in calls' <=> d \in calls)
  BY DEF LinkOps
<1>2. \A d : d.op = "rename" /\ d.status = "ok" => (d \in calls' <=> d \in calls)
  OBVIOUS
<1>3. \A d \in calls' : d.op \in {"rename", "create"} => d \in calls
  OBVIOUS
<1>4. \A d \in calls' : d.op = "refresh" /\ d.status = "ok" => d \in calls
  OBVIOUS
<1>5. Renewed => Renewed'
  BY DEF Renewed, Renews
<1>6. QED BY <1>1, <1>2, <1>3, <1>4, <1>5, Quietly

(* A node gets a new id: the others are held as before.                    *)
LEMMA HeldBoth ==
  ASSUME NEW o \in DOMAIN node, NEW old, NEW new, Lists(old, o), node[o].id = old, new \notin DOMAIN state,
         \A p \in DOMAIN node : p # o => node'[p].id = node[p].id,
         node'[o].id = new, DOMAIN state' = (DOMAIN state \ {old}) \cup {new}, state'[new] = o,
         \A i \in DOMAIN state \ {old} : state'[i] = state[i]
  PROVE  \A p \in DOMAIN node : p # o => (Held(p)' <=> Held(p))
<1>1. SUFFICES ASSUME NEW p \in DOMAIN node, p # o PROVE Held(p)' <=> Held(p)
  OBVIOUS
<1>2. Held(p) => Held(p)'
  <2>1. \A q \in DOMAIN node : Held(q) => Held(q)'
    BY HeldMoves
  <2>2. QED BY <2>1
<1>3. ASSUME Held(p)' PROVE Held(p)
  <2>1. node[p].id \in DOMAIN state' /\ state'[node[p].id] = p
    BY <1>1, <1>3 DEF Held, Lists
  <2>2. node[p].id # new
    BY <1>1, <2>1
  <2>3. node[p].id \in DOMAIN state \ {old}
    BY <2>1, <2>2
  <2>4. QED BY <2>1, <2>3 DEF Held, Lists
<1>4. QED BY <1>2, <1>3

(* An answer about a node after which every end stands for what it did.    *)
LEMMA NodeAnswered ==
  ASSUME Types, Types', LinksOK, Told', UNCHANGED <<arrow, known, live, links>>,
         NEW c \in calls, c.op \in {"create", "remove", "rename"}, calls \ {c} \subseteq calls',
         \A d \in calls' : d \in calls \ {c} \/ d.op \in {"position", "save"},
         NEW E, \A a : Kept(a) => arrow[a].from \in E /\ arrow[a].to \in E,
         \A p \in E : \A n \in DOMAIN known : Stands(p, n)' <=> Stands(p, n),
         \A p, q \in E : node'[p].id = node'[q].id => node[p].id = node[q].id
  PROVE  LinksOK'
<1>1. \A a : Kept(a) => \A n \in DOMAIN known :
           /\ Stands(arrow[a].from, n)' <=> Stands(arrow[a].from, n)
           /\ Stands(arrow[a].to, n)' <=> Stands(arrow[a].to, n)
  <2>1. SUFFICES ASSUME NEW a, Kept(a), NEW n \in DOMAIN known
                 PROVE  /\ Stands(arrow[a].from, n)' <=> Stands(arrow[a].from, n)
                        /\ Stands(arrow[a].to, n)' <=> Stands(arrow[a].to, n)
    OBVIOUS
  <2>2. PICK p, q : p = arrow[a].from /\ q = arrow[a].to /\ p \in E /\ q \in E
    BY <2>1
  <2>3. (Stands(p, n)' <=> Stands(p, n)) /\ (Stands(q, n)' <=> Stands(q, n))
    BY <2>2
  <2>4. QED BY <2>2, <2>3
<1>2. \A a : Kept(a) => \A l \in links : Joining(a, l)' <=> Joining(a, l)
  BY <1>1, JoiningStays
<1>3. \A a, b : Kept(a) /\ Kept(b) /\ SameEnds(a, b)' => SameEnds(a, b)
  BY DEF SameEnds
<1>4. \A d : d.op \in LinkOps => (d \in calls' <=> d \in calls)
  BY DEF LinkOps
<1>5. Renewed => Renewed'
  BY DEF Renewed, Renews
<1>6. QED BY <1>2, <1>3, <1>4, <1>5, MatchedStays DEF LinksOK

LEMMA CreatedLinks ==
  ASSUME Types, Types', Settled, LinksOK, NEW c \in calls, Created(c) PROVE LinksOK'
<1>1. /\ c.op = "create" /\ c.op \in NodeOps /\ c.status \in {"ok", "error"}
      /\ UNCHANGED <<known, live, links>>
  BY DEF Created, NodeOps, SamePage, server
<1>2. CreateFits(c) /\ c.status = "ok"
  BY <1>1 DEF Settled, NamesOK, CallsFit, Fits, AgreeOK, RefusedGone
<1>3. PICK o, old, new : o = c.who /\ old = c.at /\ new = c.name
  OBVIOUS
<1>4. o \in DOMAIN node /\ node[o].id = old /\ Lists(old, o)
  BY <1>1, <1>2, <1>3 DEF CreateFits, Lists, Settled, NamesOK, Placed, Types, CallsTyped, CallOK
<1>5. /\ new \in Names /\ \A p \in DOMAIN node : p # o => node'[p] = node[p]
      /\ node'[o].id = new
      /\ DOMAIN state' = (DOMAIN state \ {old}) \cup {new} /\ state'[new] = o
      /\ \A i \in DOMAIN state \ {old} : i # new => state'[i] = state[i]
      /\ arrow' = arrow
  BY <1>2, <1>3, <1>4, CreatedDoes
<1>6. PICK r : calls' = (calls \ {c}) \cup {r} /\ Says(r, "position", o, new, NoName)
  BY <1>2, <1>3, CreatedDoes
<1>7. r.op = "position"
  BY <1>6 DEF Says
<1>8. new \notin DOMAIN state
  BY <1>2, <1>3, <1>5, NamesAssumption DEF CreateFits
<1>9. \A p \in DOMAIN node : p # o => (Held(p)' <=> Held(p))
  <2>1. \A i \in DOMAIN state \ {old} : state'[i] = state[i]
    BY <1>5, <1>8
  <2>2. \A p \in DOMAIN node : p # o => node'[p].id = node[p].id
    BY <1>5
  <2>3. QED BY <1>4, <1>5, <1>8, <2>1, <2>2, HeldBoth
<1>10. PICK E : E = DOMAIN node \ {o}
  OBVIOUS
<1>11. \A a : Kept(a) => arrow[a].from \in E /\ arrow[a].to \in E
  <2>1. \A a \in DOMAIN arrow : o # arrow[a].from /\ o # arrow[a].to
    BY <1>1, <1>3 DEF LinksOK, Told, MadeAlone
  <2>2. QED BY <1>10, <2>1, EndsAre
<1>12. \A p \in E : \A n \in DOMAIN known : Stands(p, n)' <=> Stands(p, n)
  <2>1. SUFFICES ASSUME NEW p \in E, NEW n \in DOMAIN known PROVE Stands(p, n)' <=> Stands(p, n)
    OBVIOUS
  <2>2. node'[p].id = node[p].id /\ (Held(p)' <=> Held(p))
    BY <1>5, <1>9, <1>10
  <2>3. \A d : d.op = "rename" => (d \in calls' <=> d \in calls)
    BY <1>1, <1>6, <1>7
  <2>4. QED BY <1>1, <2>2, <2>3, StandsStays
<1>13. \A p, q \in E : node'[p].id = node'[q].id => node[p].id = node[q].id
  BY <1>5, <1>10
<1>14. \A d \in calls' : d \in calls \ {c} \/ d.op \in {"position", "save"}
  BY <1>6, <1>7
<1>15. Told'
  <2>1. View' = View /\ LiveNames' = LiveNames
    BY <1>1 DEF View, LiveNames
  <2>2. ViewsTrue'
    BY <1>1, <1>14, <2>1 DEF LinksOK, Told, ViewsTrue
  <2>3. \A a : Linking(a) => Kept(a)
    BY EndsAre DEF Linking
  <2>4. \A a : Linking(a) => /\ node'[arrow[a].from].id = node[arrow[a].from].id
                             /\ node'[arrow[a].to].id = node[arrow[a].to].id
    BY <1>5, <1>10, <1>11, <2>3
  <2>5. \A d \in calls' : d.op \in LinkOps \cup {"rename", "create"} => d \in calls
    BY <1>14 DEF LinkOps
  <2>6. QED BY <1>5, <2>1, <2>2, <2>4, <2>5, ToldStays DEF LinksOK
<1>16. calls \ {c} \subseteq calls'
  BY <1>6
<1>17. QED BY <1>1, <1>5, <1>11, <1>12, <1>13, <1>14, <1>15, <1>16, NodeAnswered

(* A node that leaves the page stood for none of the server's.             *)
LEMMA RemovedLinks ==
  ASSUME Types, Types', Settled, LinksOK, NEW c \in calls, Removed(c) PROVE LinksOK'
<1>1. /\ c.op = "remove" /\ c.op \in NodeOps /\ c.status \in {"ok", "error"}
      /\ UNCHANGED <<arrow, known, live, links>>
  BY DEF Removed, NodeOps, SamePage, server
<1>2. CASE c.status = "error"
  <2>1. UNCHANGED <<node, state>> /\ calls' = calls \ {c}
    BY <1>2 DEF Removed, Answered
  <2>2. QED BY <1>1, <2>1, ForgottenLinks DEF LinkOps, Renews
<1>3. CASE c.status = "ok"
  <2>1. PICK w, old : w = c.who /\ old = c.at
    OBVIOUS
  <2>2. w \in DOMAIN node /\ node[w].id = old /\ Lists(old, w) /\ old \notin LiveNames
    BY <1>1, <1>3, <2>1
       DEF RemoveFits, Fits, CallsFit, Lists, Settled, NamesOK, Placed, Types, CallsTyped, CallOK
  <2>3. /\ DOMAIN state' = DOMAIN state \ {old}
        /\ \A i \in DOMAIN state \ {old} : state'[i] = state[i]
        /\ \A o \in DOMAIN node : node'[o].id = node[o].id
        /\ calls \ {c} \subseteq calls'
        /\ \A d \in calls' : d \in calls \ {c} \/ Says(d, "save", w, NoName, NoName)
    BY <1>3, <2>1, <2>2, RemovedDoes
  <2>4. \A d \in calls' : d \in calls \ {c} \/ d.op \in {"position", "save"}
    BY <2>3 DEF Says
  <2>5. \A d : d.op \in {"rename", "refresh", "create"} \cup LinkOps => (d \in calls' <=> d \in calls)
    BY <1>1, <2>3, <2>4 DEF LinkOps
  <2>6. ASSUME NEW p \in DOMAIN node, NEW n PROVE Stands(p, n)' <=> Stands(p, n)
    <3>1. CASE p = w
      <4>1. ~Held(p)'
        BY <2>2, <2>3, <3>1 DEF Held, Lists
      <4>2. ASSUME NEW d \in calls, d.op = "rename", d.status = "ok", d.who = w PROVE FALSE
        <5>1. Lists(d.at, w)
          BY <4>2 DEF Settled, NamesOK, CallsFit, Fits, RenameFits, NodeOps
        <5>2. d.at = old
          BY <2>2, <5>1 DEF Lists, Settled, NamesOK, Placed
        <5>3. KeptApart(c, d)
          BY <1>1, <4>2 DEF Settled, NamesOK, CallsApart, NodeOps
        <5>4. QED BY <1>1, <1>3, <2>1, <4>2, <5>2, <5>3 DEF KeptApart
      <4>3. n \in live => known[n].name # node[p].id
        BY <2>2, <3>1 DEF LiveNames
      <4>4. ~Stands(p, n)
        BY <3>1, <4>2, <4>3 DEF Stands
      <4>5. QED BY <4>1, <4>4 DEF Stands
    <3>2. CASE p # w
      <4>1. Held(p)' <=> Held(p)
        BY <2>2, <2>3, <3>2 DEF Held, Lists
      <4>2. QED BY <1>1, <2>3, <2>5, <4>1, StandsStays
    <3>3. QED BY <3>1, <3>2
  <2>7. \A a : Kept(a) => arrow[a].from \in DOMAIN node /\ arrow[a].to \in DOMAIN node
    BY EndsAre
  <2>8. Told'
    <3>1. View' = View /\ LiveNames' = LiveNames
      BY <1>1 DEF View, LiveNames
    <3>2. ViewsTrue'
      BY <1>1, <2>5, <3>1 DEF LinksOK, Told, ViewsTrue
    <3>3. \A a : Linking(a) => Kept(a)
      BY EndsAre DEF Linking
    <3>4. QED BY <1>1, <2>3, <2>5, <2>7, <3>1, <3>2, <3>3, ToldStays DEF LinksOK
  <2>9. PICK E : E = DOMAIN node
    OBVIOUS
  <2>10. /\ \A a : Kept(a) => arrow[a].from \in E /\ arrow[a].to \in E
         /\ \A p \in E : \A n \in DOMAIN known : Stands(p, n)' <=> Stands(p, n)
         /\ \A p, q \in E : node'[p].id = node'[q].id => node[p].id = node[q].id
    BY <2>3, <2>6, <2>7, <2>9
  <2>11. QED BY <1>1, <2>3, <2>4, <2>8, <2>10, NodeAnswered
<1>4. QED BY <1>1, <1>2, <1>3

(* A node gets the name the server gave it: it stands for the node it did. *)
LEMMA RenamedLinks ==
  ASSUME Types, Types', Settled, LinksOK, NEW c \in calls, Renamed(c) PROVE LinksOK'
<1>1. /\ c.op = "rename" /\ c.op \in NodeOps /\ c.status \in {"ok", "error"}
      /\ UNCHANGED <<arrow, known, live, links>> /\ calls' = calls \ {c}
  BY DEF Renamed, NodeOps, SamePage, server, Answered
<1>2. CASE c.status = "error"
  <2>1. UNCHANGED <<node, state>>
    BY <1>2 DEF Renamed
  <2>2. QED BY <1>1, <1>2, <2>1, ForgottenLinks DEF LinkOps, Renews
<1>3. CASE c.status = "ok"
  <2>1. PICK w, old, new : w = c.who /\ old = c.at /\ new = c.to
    OBVIOUS
  <2>2. /\ w \in DOMAIN node /\ node[w].id = old /\ Lists(old, w) /\ old \notin LiveNames
        /\ new \in LiveNames /\ new \notin DOMAIN state
    BY <1>1, <1>3, <2>1
       DEF RenameFits, Fits, CallsFit, Lists, Settled, NamesOK, Placed, Types, CallsTyped, CallOK
  <2>3. /\ \A p \in DOMAIN node : p # w => node'[p].id = node[p].id
        /\ node'[w].id = new
        /\ DOMAIN state' = (DOMAIN state \ {old}) \cup {new} /\ state'[new] = w
        /\ \A i \in DOMAIN state \ {old} : i # new => state'[i] = state[i]
    BY <1>3, <2>1, <2>2, RenamedDoes
  <2>4. \A p \in DOMAIN node : p # w => (Held(p)' <=> Held(p))
    <3>1. \A i \in DOMAIN state \ {old} : state'[i] = state[i]
      BY <2>2, <2>3
    <3>2. QED BY <2>2, <2>3, <3>1, HeldBoth
  <2>5. \A d \in calls : d.op = "rename" => d = c
    BY <1>1 DEF Settled, NamesOK, CallsApart, KeptApart, NodeOps
  <2>6. ASSUME NEW p \in DOMAIN node, NEW n PROVE Stands(p, n)' <=> Stands(p, n)
    <3>1. CASE p = w
      <4>1. Held(p) /\ Held(p)'
        BY <2>2, <2>3, <3>1 DEF Held, Lists
      <4>2. n \in live => known[n].name # node[p].id
        BY <2>2, <3>1 DEF LiveNames
      <4>3. Stands(p, n) <=> n \in live /\ known[n].name = new
        BY <1>1, <1>3, <2>1, <2>5, <3>1, <4>1, <4>2 DEF Stands
      <4>4. Stands(p, n)' <=> n \in live /\ known[n].name = new
        BY <1>1, <2>3, <2>5, <3>1, <4>1 DEF Stands
      <4>5. QED BY <4>3, <4>4
    <3>2. CASE p # w
      <4>1. node'[p].id = node[p].id /\ (Held(p)' <=> Held(p))
        BY <2>3, <2>4, <3>2
      <4>2. \A d : d.op = "rename" /\ d.status = "ok" /\ d.who = p => (d \in calls' <=> d \in calls)
        BY <1>1, <2>1, <3>2
      <4>3. QED BY <1>1, <4>1, <4>2, StandsStays
    <3>3. QED BY <3>1, <3>2
  <2>7. \A a : Kept(a) => /\ arrow[a].from \in DOMAIN node /\ node[arrow[a].from].id # new
                          /\ arrow[a].to \in DOMAIN node /\ node[arrow[a].to].id # new
    <3>1. SUFFICES ASSUME NEW a, Kept(a)
                   PROVE  node[arrow[a].from].id # new /\ node[arrow[a].to].id # new
      BY EndsAre
    <3>2. CASE Linking(a)
      BY <1>1, <2>1, <3>2 DEF Linking, LinksOK, Told, NamesNew
    <3>3. CASE ~Linking(a)
      <4>1. a \in Mapped /\ ~Disconnecting(a)
        BY <3>1, <3>3 DEF Kept, Linking, Disconnecting, LinkOps
      <4>2. Attached(a)
        BY <4>1 DEF Settled, ArrowsOK, ArrowsHeld
      <4>3. QED BY <2>2, <4>2 DEF Attached, Held, Lists
    <3>4. QED BY <3>2, <3>3
  <2>8. EndsNamed'
    <3>1. SUFFICES ASSUME NEW d \in calls, d.op \in LinkOps, d.status = "sent"
                   PROVE  /\ d.at \in LiveNames => d.at = node'[arrow[d.who].from].id
                          /\ d.to \in LiveNames => d.to = node'[arrow[d.who].to].id
      <4>1. LiveNames' = LiveNames
        BY <1>1 DEF LiveNames
      <4>2. QED BY <1>1, <4>1 DEF EndsNamed
    <3>2. PICK p, q : p = arrow[d.who].from /\ q = arrow[d.who].to
      OBVIOUS
    <3>3. /\ d.at \in LiveNames => d.at = node[p].id
          /\ d.to \in LiveNames => d.to = node[q].id
      BY <3>1, <3>2 DEF LinksOK, Told, EndsNamed
    <3>4. p \in DOMAIN node /\ q \in DOMAIN node
      BY <3>1, <3>2, EndsAre
    <3>5. /\ d.at \in LiveNames => d.at = node'[p].id
          /\ d.to \in LiveNames => d.to = node'[q].id
      BY <2>2, <2>3, <3>3, <3>4
    <3>6. QED BY <3>2, <3>5
  <2>9. Told'
    <3>1. NamesNew'
      BY <1>1, <2>5 DEF NamesNew
    <3>2. MadeAlone'
      BY <1>1 DEF LinksOK, Told, MadeAlone
    <3>3. ViewsTrue'
      <4>1. View' = View
        BY <1>1 DEF View
      <4>2. QED BY <1>1, <4>1 DEF LinksOK, Told, ViewsTrue
    <3>4. QED BY <2>8, <3>1, <3>2, <3>3 DEF Told
  <2>10. PICK E : E = {p \in DOMAIN node : node[p].id # new}
    OBVIOUS
  <2>11. \A a : Kept(a) => arrow[a].from \in E /\ arrow[a].to \in E
    BY <2>7, <2>10
  <2>12. \A p \in E : \A n \in DOMAIN known : Stands(p, n)' <=> Stands(p, n)
    BY <2>6, <2>10
  <2>13. \A p, q \in E : node'[p].id = node'[q].id => node[p].id = node[q].id
    BY <2>3, <2>10
  <2>14. calls \ {c} \subseteq calls' /\ \A d \in calls' : d \in calls \ {c} \/ d.op \in {"position", "save"}
    BY <1>1
  <2>15. QED BY <1>1, <2>9, <2>11, <2>12, <2>13, <2>14, NodeAnswered
<1>4. QED BY <1>1, <1>2, <1>3

(* A connection that the server answered about: what was asked is done, or *)
(* the arrow goes on being asked to be disconnected.                       *)
LEMMA LinkedLinks ==
  ASSUME Types, Types', Settled, LinksOK, NEW c \in calls, Linked(c) PROVE LinksOK'
<1>1. PICK a : a = c.who
  OBVIOUS
<1>2. c.op \in LinkOps /\ UNCHANGED <<node, state, known, live, links>>
  BY DEF Linked, SamePage, server
<1>3. /\ a \in DOMAIN arrow /\ DOMAIN arrow' = DOMAIN arrow
      /\ \A b \in DOMAIN arrow :
           /\ arrow'[b].from = arrow[b].from /\ arrow'[b].to = arrow[b].to
           /\ b # a => arrow'[b].mapped = arrow[b].mapped
      /\ \/ c.op = "connect" /\ c.status = "ok" /\ arrow' = arrow /\ calls' = calls \ {c}
         \/ c.op = "disconnect" /\ c.status = "ok" /\ ~arrow'[a].mapped /\ calls' = calls \ {c}
         \/ c.status = "error" /\ arrow' = arrow
            /\ \E d : calls' = (calls \ {c}) \cup {d} /\ SaysDisconnect(d, a)
  BY <1>1, LinkedDoes
<1>4. Kept(a) /\ \A d \in calls : d.op = "connect" /\ d.who = a => d = c
  <2>1. Kept(c.who)
    BY <1>2, EndsAre
  <2>2. QED BY <1>1, <1>2, <2>1 DEF LinksOK, Matched, ConnectsAlone
<1>5. CASE c.status = "error"
  <2>1. arrow' = arrow
    BY <1>3, <1>5
  <2>2. PICK d : calls' = (calls \ {c}) \cup {d} /\ SaysDisconnect(d, a)
    BY <1>3, <1>5
  <2>3. d.op = "disconnect" /\ d.who = a
    BY <2>2 DEF SaysDisconnect, Says
  <2>4. PICK X \in SUBSET calls : X = {c}
    OBVIOUS
  <2>5. \A b \in X : b.op \in LinkOps /\ b.status = "error" /\ Linking(b.who)'
    <3>1. Linking(a)'
      BY <2>2, <2>3 DEF Linking, LinkOps
    <3>2. Linking(c.who)'
      BY <1>1, <3>1
    <3>3. QED BY <1>2, <1>5, <2>4, <3>2
  <2>6. calls \ X \subseteq calls'
    BY <2>2, <2>4
  <2>7. \A b \in calls' :
           \/ b \in calls \ X
           \/ b.op \notin {"create", "rename", "refresh", "clear"} \cup LinkOps
           \/ \E e : /\ Kept(e) /\ SaysDisconnect(b, e)
                     /\ \A g \in calls \ X : g.op = "connect" => g.who # e
    BY <1>4, <2>2, <2>4
  <2>8. \A b \in DOMAIN arrow : /\ arrow'[b].from = arrow[b].from /\ arrow'[b].to = arrow[b].to
                                /\ arrow'[b].mapped = arrow[b].mapped
    BY <2>1
  <2>9. QED BY <1>2, <1>3, <2>5, <2>6, <2>7, <2>8, DisconnectsAsked
<1>6. CASE c.status = "ok"
  <2>1. calls' = calls \ {c}
    BY <1>3, <1>6
  <2>2. \A b : b \in Mapped' <=> b \in Mapped /\ (c.op = "disconnect" => b # a)
    BY <1>2, <1>3, <1>6, MappedIs, MappedNext DEF Types, LinkOps
  <2>3. \A b \in Mapped : b \in DOMAIN arrow
    BY MappedIs DEF Types
  <2>4. \A d \in calls : d.op \in LinkOps => d.who \in DOMAIN arrow
    BY DEF Types, CallsTyped, CallOK
  <2>5. \A o, n : Stands(o, n)' <=> Stands(o, n)
    <3>1. SUFFICES ASSUME NEW o, NEW n PROVE Stands(o, n)' <=> Stands(o, n)
      OBVIOUS
    <3>2. Held(o)' <=> Held(o)
      BY <1>2 DEF Held, Lists
    <3>3. \A d : d.op = "rename" => (d \in calls' <=> d \in calls)
      BY <1>2, <2>1 DEF LinkOps
    <3>4. QED BY <1>2, <3>2, <3>3, StandsStays
  <2>6. \A b \in DOMAIN arrow : \A l : Joining(b, l)' <=> Joining(b, l)
    <3>1. SUFFICES ASSUME NEW b \in DOMAIN arrow, NEW l PROVE Joining(b, l)' <=> Joining(b, l)
      OBVIOUS
    <3>2. PICK p, q : p = arrow[b].from /\ q = arrow[b].to
      OBVIOUS
    <3>3. p = arrow'[b].from /\ q = arrow'[b].to
      BY <1>3, <3>2
    <3>4. (Stands(p, l.from)' <=> Stands(p, l.from)) /\ (Stands(q, l.to)' <=> Stands(q, l.to))
      BY <2>5
    <3>5. QED BY <3>2, <3>3, <3>4 DEF Joining
  <2>7. \A b : b # a => (Linking(b) => Linking(b)')
    BY <1>1, <2>1 DEF Linking
  <2>8. \A b : Kept(b)' => Kept(b)
    BY <1>3, <2>1, <2>2 DEF Kept, Linking
  <2>9. \A b, e \in DOMAIN arrow : SameEnds(b, e)' => SameEnds(b, e)
    BY <1>2, <1>3 DEF SameEnds
  <2>10. Renewed => Renewed'
    BY <1>2, <2>1 DEF Renewed, Renews, LinkOps
  <2>11. ArrowsJoin'
    <3>1. SUFFICES ASSUME NEW b \in Mapped', ~Linking(b)' PROVE \E l \in links : Joining(b, l)
      BY <1>2, <2>2, <2>3, <2>6 DEF ArrowsJoin
    <3>2. CASE b = a
      <4>1. c.op = "connect"
        BY <1>2, <2>2, <3>2 DEF LinkOps
      <4>2. QED BY <1>1, <1>6, <3>2, <4>1 DEF LinksOK, Matched, ConnectsJoin
    <3>3. CASE b # a
      BY <2>2, <2>7, <3>1, <3>3 DEF LinksOK, Matched, ArrowsJoin
    <3>4. QED BY <3>2, <3>3
  <2>12. ConnectsJoin'
    <3>1. SUFFICES ASSUME NEW d \in calls, d.op = "connect", d.status = "ok"
                   PROVE  \E l \in links : Joining(d.who, l)'
      BY <1>2, <2>1 DEF ConnectsJoin
    <3>2. PICK b : b = d.who
      OBVIOUS
    <3>3. PICK l \in links : Joining(b, l)
      BY <3>1, <3>2 DEF LinksOK, Matched, ConnectsJoin
    <3>4. Joining(b, l)'
      BY <2>4, <2>6, <3>1, <3>2, <3>3 DEF LinkOps
    <3>5. Joining(d.who, l)'
      BY <3>2, <3>4
    <3>6. QED BY <3>5
  <2>13. DisconnectsPart'
    <3>1. SUFFICES ASSUME NEW d \in calls, d.op = "disconnect", d.status = "ok", NEW l \in links,
                          Joining(d.who, l)'
                   PROVE  FALSE
      BY <1>2, <2>1 DEF DisconnectsPart
    <3>2. PICK b : b = d.who
      OBVIOUS
    <3>3. Joining(b, l)'
      BY <3>1, <3>2
    <3>4. Joining(b, l)
      BY <2>4, <2>6, <3>1, <3>2, <3>3 DEF LinkOps
    <3>5. QED BY <3>1, <3>2, <3>4 DEF LinksOK, Matched, DisconnectsPart
  <2>14. LinksShow'
    <3>1. SUFFICES ASSUME NEW l \in links, {l.from, l.to} \subseteq live
                   PROVE  (\E b \in Mapped' : Joining(b, l)') \/ Renewed'
      BY <1>2 DEF LinksShow
    <3>2. CASE Renewed
      BY <2>10, <3>2
    <3>3. CASE ~Renewed
      <4>1. PICK b \in Mapped : Joining(b, l)
        BY <3>1, <3>3 DEF LinksOK, Matched, LinksShow
      <4>2. c.op = "disconnect" => ~Joining(a, l)
        BY <1>1, <1>6 DEF LinksOK, Matched, DisconnectsPart
      <4>3. b \in Mapped'
        BY <2>2, <4>1, <4>2
      <4>4. Joining(b, l)'
        BY <2>3, <2>6, <4>1
      <4>5. QED BY <4>3, <4>4
    <3>4. QED BY <3>2, <3>3
  <2>15. LinksApart'
    BY <1>2 DEF LinksOK, Matched, LinksApart
  <2>16. ArrowsApart'
    <3>1. SUFFICES ASSUME NEW b, NEW e, Kept(b)', e \in Mapped', SameEnds(b, e)' PROVE b = e
      BY DEF ArrowsApart
    <3>2. Kept(b) /\ e \in Mapped /\ b \in DOMAIN arrow /\ e \in DOMAIN arrow
      BY <2>2, <2>3, <2>8, <3>1 DEF Kept
    <3>3. SameEnds(b, e)
      BY <2>9, <3>1, <3>2
    <3>4. QED BY <3>2, <3>3 DEF LinksOK, Matched, ArrowsApart
  <2>17. ConnectsAlone'
    <3>1. \A d \in calls' : d.op = "connect" => d.who \in Mapped'
      BY <1>4, <2>1, <2>2 DEF LinksOK, Matched, ConnectsAlone
    <3>2. QED BY <2>1, <3>1 DEF LinksOK, Matched, ConnectsAlone
  <2>18. Matched'
    BY <2>11, <2>12, <2>13, <2>14, <2>15, <2>16, <2>17 DEF Matched
  <2>19. EndsNamed'
    <3>1. SUFFICES ASSUME NEW d \in calls, d.op \in LinkOps, d.status = "sent"
                   PROVE  /\ d.at \in LiveNames => d.at = node[arrow'[d.who].from].id
                          /\ d.to \in LiveNames => d.to = node[arrow'[d.who].to].id
      <4>1. LiveNames' = LiveNames
        BY <1>2 DEF LiveNames
      <4>2. QED BY <1>2, <2>1, <4>1 DEF EndsNamed
    <3>2. QED BY <1>3, <2>4, <3>1 DEF LinksOK, Told, EndsNamed
  <2>20. NamesNew'
    <3>1. SUFFICES ASSUME NEW b \in calls, NEW d \in calls, b.op = "rename", d.op \in LinkOps
                   PROVE  b.to \notin {d.at, d.to, node[arrow'[d.who].from].id, node[arrow'[d.who].to].id}
      BY <1>2, <2>1 DEF NamesNew
    <3>2. QED BY <1>3, <2>4, <3>1 DEF LinksOK, Told, NamesNew
  <2>21. MadeAlone'
    BY <1>3, <2>1 DEF LinksOK, Told, MadeAlone
  <2>22. ViewsTrue'
    <3>1. View' = View
      BY <1>2 DEF View
    <3>2. QED BY <1>2, <2>1, <3>1 DEF LinksOK, Told, ViewsTrue
  <2>23. QED BY <2>18, <2>19, <2>20, <2>21, <2>22 DEF LinksOK, Told
<1>7. QED BY <1>3, <1>5, <1>6

(* The page read anew: its arrows are the connections of the server.       *)
LEMMA RefreshedLinks ==
  ASSUME Types, Types', Settled, LinksOK, NamesOK', NEW c \in calls, Refreshed(c), Apart'
  PROVE  LinksOK'
<1>1. /\ c.op = "refresh" /\ c.op \in NodeOps /\ calls' = calls \ {c}
      /\ UNCHANGED <<known, live, links>>
  BY DEF Refreshed, Answered, NodeOps, SamePage, server
<1>2. c.status = "ok"
  BY <1>1 DEF Refreshed, Settled, AgreeOK, RefusedGone
<1>3. \A d \in calls' : d.op \notin LinkOps \cup NodeOps
  BY <1>1 DEF Settled, ArrowsOK, ReadAlone, NamesOK, CallsApart, KeptApart
<1>4. Refreshes(c) /\ \A a \in Mapped' : a \in DOMAIN arrow' \ DOMAIN arrow
  BY <1>2, RefreshedDrops DEF Settled
<1>5. PICK view, new : view = c.view /\ new = DOMAIN arrow' \ DOMAIN arrow
  OBVIOUS
<1>6. view = View /\ ViewOK(view) /\ \A m \in links : m.from \in live /\ m.to \in live
  <2>1. ViewOK(c.view)
    BY DEF Types, CallsTyped, CallOK
  <2>2. QED BY <1>1, <1>2, <1>5, <2>1 DEF LinksOK, Told, ViewsTrue
<1>7. /\ \A v \in view.links : \E m \in links :
           v = [id |-> m.id, from |-> known[m.from].name, to |-> known[m.to].name]
      /\ \A m \in links : [id |-> m.id, from |-> known[m.from].name, to |-> known[m.to].name] \in view.links
  BY <1>6 DEF View
<1>8. \A x \in LiveNames : x \in DOMAIN state'
  <2>1. SUFFICES ASSUME NEW x \in LiveNames PROVE x \in DOMAIN state'
    OBVIOUS
  <2>2. RefreshFits(c)
    BY <1>1 DEF Settled, NamesOK, CallsFit, Fits
  <2>3. PICK v \in view.nodes : v.name = x
    BY <1>2, <1>5, <2>2 DEF RefreshFits
  <2>4. PICK i \in DOMAIN Read(view) : Read(view)[i].id = x
    BY <1>6, <2>3, ReadIs
  <2>5. \A id : (\E j \in DOMAIN Read(c.view) : Read(c.view)[j].id = id) => id \in DOMAIN state'
    BY <1>4, RefreshedDoes
  <2>6. QED BY <1>5, <2>4, <2>5
<1>9. \A v \in view.links : v.from \in DOMAIN state' /\ v.to \in DOMAIN state'
  <2>1. SUFFICES ASSUME NEW v \in view.links PROVE v.from \in LiveNames /\ v.to \in LiveNames
    BY <1>8
  <2>2. PICK m \in links : v = [id |-> m.id, from |-> known[m.from].name, to |-> known[m.to].name]
    BY <1>7
  <2>3. v.from = known[m.from].name /\ v.to = known[m.to].name
    BY <2>2
  <2>4. QED BY <1>6, <2>3 DEF LiveNames
<1>10. PICK o \in [new -> view.links] :
         /\ \A a \in new : arrow'[a].mapped /\ arrow'[a].from = state'[o[a].from]
                           /\ arrow'[a].to = state'[o[a].to]
         /\ \A a, b \in new : o[a] = o[b] => a = b
         /\ \A v \in view.links : \E a \in new : o[a] = v
  <2>1. \E o \in [DOMAIN arrow' \ DOMAIN arrow -> c.view.links] :
          /\ \A a \in DOMAIN arrow' \ DOMAIN arrow :
               arrow'[a].mapped /\ arrow'[a].from = state'[o[a].from] /\ arrow'[a].to = state'[o[a].to]
          /\ \A a, b \in DOMAIN arrow' \ DOMAIN arrow : o[a] = o[b] => a = b
          /\ (\A l \in c.view.links : {l.from, l.to} \subseteq DOMAIN state') =>
               \A l \in c.view.links : \E a \in DOMAIN arrow' \ DOMAIN arrow : o[a] = l
    BY <1>4, RefreshedArrows
  <2>2. \A l \in c.view.links : {l.from, l.to} \subseteq DOMAIN state'
    BY <1>5, <1>9
  <2>3. QED BY <1>5, <2>1, <2>2
<1>11. \A a : a \in Mapped' <=> a \in new
  BY <1>4, <1>5, <1>10, MappedNext DEF Types
<1>12. ASSUME NEW a \in new
       PROVE  \E p, q : /\ p = arrow'[a].from /\ node'[p].id = o[a].from /\ Held(p)'
                        /\ q = arrow'[a].to /\ node'[q].id = o[a].to /\ Held(q)'
  <2>1. PICK v \in view.links : v = o[a]
    BY <1>10
  <2>2. v.from \in DOMAIN state' /\ v.to \in DOMAIN state'
    BY <1>9
  <2>3. PICK p, q : p = state'[v.from] /\ q = state'[v.to]
    OBVIOUS
  <2>4. node'[p].id = v.from /\ node'[q].id = v.to
    BY <2>2, <2>3 DEF NamesOK, Placed
  <2>5. Held(p)' /\ Held(q)'
    BY <2>2, <2>3, <2>4 DEF Held, Lists
  <2>6. p = arrow'[a].from /\ q = arrow'[a].to
    BY <1>10, <2>1, <2>3
  <2>7. QED BY <2>1, <2>4, <2>5, <2>6
<1>13. \A a \in new : node'[arrow'[a].from].id = o[a].from /\ node'[arrow'[a].to].id = o[a].to
  BY <1>12
<1>14. ASSUME NEW a \in new, NEW m \in links, o[a].from = known[m.from].name, o[a].to = known[m.to].name
       PROVE  Joining(a, m)'
  <2>1. PICK p, q : /\ p = arrow'[a].from /\ node'[p].id = o[a].from /\ Held(p)'
                    /\ q = arrow'[a].to /\ node'[q].id = o[a].to /\ Held(q)'
    BY <1>12
  <2>2. m.from \in live' /\ m.to \in live' /\ known' = known
    BY <1>1, <1>6
  <2>3. Stands(p, m.from)' /\ Stands(q, m.to)'
    BY <1>14, <2>1, <2>2 DEF Stands
  <2>4. QED BY <2>1, <2>3 DEF Joining
<1>15. ArrowsJoin'
  <2>1. SUFFICES ASSUME NEW a \in new PROVE \E m \in links : Joining(a, m)'
    BY <1>1, <1>11 DEF ArrowsJoin
  <2>2. PICK m \in links : o[a] = [id |-> m.id, from |-> known[m.from].name, to |-> known[m.to].name]
    BY <1>7, <1>10
  <2>3. o[a].from = known[m.from].name /\ o[a].to = known[m.to].name
    BY <2>2
  <2>4. QED BY <1>14, <2>3
<1>16. LinksShow'
  <2>1. SUFFICES ASSUME NEW m \in links PROVE \E a \in new : Joining(a, m)'
    BY <1>1, <1>11 DEF LinksShow
  <2>2. PICK a \in new : o[a] = [id |-> m.id, from |-> known[m.from].name, to |-> known[m.to].name]
    BY <1>7, <1>10
  <2>3. o[a].from = known[m.from].name /\ o[a].to = known[m.to].name
    BY <2>2
  <2>4. QED BY <1>14, <2>3
<1>17. ArrowsApart'
  <2>1. SUFFICES ASSUME NEW a \in new, NEW b \in new, SameEnds(a, b)' PROVE a = b
    BY <1>3, <1>11 DEF ArrowsApart, Kept, Linking
  <2>2. o[a].from = o[b].from /\ o[a].to = o[b].to
    BY <1>13, <2>1 DEF SameEnds
  <2>3. PICK l \in links : o[a] = [id |-> l.id, from |-> known[l.from].name, to |-> known[l.to].name]
    BY <1>7, <1>10
  <2>4. PICK m \in links : o[b] = [id |-> m.id, from |-> known[m.from].name, to |-> known[m.to].name]
    BY <1>7, <1>10
  <2>5. known[l.from].name = known[m.from].name /\ known[l.to].name = known[m.to].name
    BY <2>2, <2>3, <2>4
  <2>6. l.from = m.from /\ l.to = m.to
    BY <1>6, <2>5 DEF Settled, NamesOK, NamedOnce
  <2>7. l = m
    BY <2>6 DEF LinksOK, Matched, LinksApart
  <2>8. QED BY <1>10, <2>3, <2>4, <2>7
<1>18. Matched'
  <2>1. ConnectsJoin' /\ DisconnectsPart' /\ ConnectsAlone'
    BY <1>3 DEF ConnectsJoin, DisconnectsPart, ConnectsAlone, LinkOps
  <2>2. LinksApart'
    BY <1>1 DEF LinksOK, Matched, LinksApart
  <2>3. QED BY <1>15, <1>16, <1>17, <2>1, <2>2 DEF Matched
<1>19. Told'
  BY <1>3 DEF Told, EndsNamed, NamesNew, MadeAlone, ViewsTrue, NodeOps
<1>20. QED BY <1>18, <1>19 DEF LinksOK

LEMMA AnswerLinks ==
  ASSUME Types, Types', Settled, LinksOK, NamesOK', NEW c \in calls, Answer(c), Apart'
  PROVE  LinksOK'
<1>1. CASE Created(c)
  BY <1>1, CreatedLinks
<1>2. CASE Positioned(c)
  <2>1. c.op = "position" /\ UNCHANGED <<node, state, arrow, known, live, links>>
    BY <1>2 DEF Positioned, page, SamePage, server
  <2>2. calls \ {c} \subseteq calls' /\ \A d \in calls' : d \in calls \/ d.op \in {"position", "save"}
    BY <1>2, PositionedDoes DEF Says
  <2>3. QED BY <2>1, <2>2, ForgottenLinks DEF LinkOps, Renews
<1>3. CASE Removed(c)
  BY <1>3, RemovedLinks
<1>4. CASE Linked(c)
  BY <1>4, LinkedLinks
<1>5. CASE Renamed(c)
  BY <1>5, RenamedLinks
<1>6. CASE Refreshed(c)
  BY <1>6, RefreshedLinks
<1>7. CASE Acknowledged(c)
  <2>1. /\ c.op \in {"save", "clear", "run", "stop"} /\ c.status # "sent"
        /\ UNCHANGED <<node, state, arrow, known, live, links>> /\ calls' = calls \ {c}
    BY <1>7 DEF Acknowledged, Answered, SamePage, server
  <2>2. QED BY <2>1, ForgottenLinks DEF LinkOps, Renews
<1>8. QED BY <1>1, <1>2, <1>3, <1>4, <1>5, <1>6, <1>7 DEF Answer

LEMMA LinksKeep ==
  /\ Types /\ Types' /\ NamesRight /\ NamesRight' /\ AgreeRight /\ SurviveRight
  /\ DanglingRight /\ LinksRight /\ [Next]_vars
  => LinksRight'
<1>1. SUFFICES ASSUME Types, Types', NamesRight, NamesRight', AgreeRight, SurviveRight,
                      DanglingRight, LinksRight, [Next]_vars, Apart', ~lossy', alive'
               PROVE  LinksOK'
  BY DEF LinksRight
<1>2. Apart /\ Ordered /\ Ordered'
  BY <1>1, CrossedGrows DEF Apart, Ordered
<1>3. alive /\ alive'
  BY <1>1, ReliableBefore
<1>4. ~lossy
  BY <1>1, ReliableBefore
<1>5. NamesOK' /\ Settled /\ LinksOK
  <2>1. NamesOK /\ NamesOK'
    BY <1>1, <1>2 DEF NamesRight
  <2>2. ArrowsOK
    BY <1>1, <1>2 DEF DanglingRight
  <2>3. AgreeOK
    BY <1>1, <1>2, <1>3, <1>4, Zenon DEF AgreeRight, Reliable
  <2>4. ConnectsFit
    BY <1>1, <1>2, <1>3, <1>4, Zenon DEF SurviveRight
  <2>5. LinksOK
    BY <1>1, <1>2, <1>3, <1>4, Zenon DEF LinksRight
  <2>6. QED BY <1>1, <1>3, <2>1, <2>2, <2>3, <2>4, <2>5, Zenon DEF Settled
<1>6. ASSUME UNCHANGED <<state, arrow, calls, known, live, links>>,
             \A o \in DOMAIN node : node'[o].id = node[o].id
      PROVE  LinksOK'
  <2>1. Renewed => Renewed'
    BY <1>6 DEF Renewed, Renews
  <2>2. QED BY <1>1, <1>5, <1>6, <2>1, Quietly
<1>7. ASSUME Edit PROVE LinksOK'
  BY <1>1, <1>5, <1>7, EditLinks
<1>8. ASSUME NEW c \in calls, Serve(c) PROVE LinksOK'
  BY <1>1, <1>3, <1>5, <1>8, ServeLinks
<1>9. ASSUME NEW c \in calls, Answer(c) PROVE LinksOK'
  BY <1>1, <1>5, <1>9, AnswerLinks
<1>10. ASSUME NEW c \in calls PROVE ~Fails(c)
  BY <1>1, <1>3, Zenon DEF Fails
<1>11. ASSUME Outside \/ ProcessEvents PROVE LinksOK'
  <2>1. /\ UNCHANGED <<state, arrow, calls, known, live, links>>
        /\ \A o \in DOMAIN node : node'[o].id = node[o].id
    BY <1>1, <1>11, OutsideDo, ProcessEventsDoes DEF page, server
  <2>2. QED BY <1>6, <2>1
<1>12. ~LoadBehaviour
  BY <1>1, LoadDoes DEF Apart
<1>13. QED BY <1>1, <1>7, <1>8, <1>9, <1>10, <1>11, <1>12 DEF Next, Outside, Visits, Polls

LEMMA LinksStart == ASSUME Init, Types PROVE LinksRight
<1>1. calls = {Call("refresh", 0, NoName, NoName)}
  BY DEF Init
<1>2. \A c \in calls : c.op = "refresh" /\ c.status = "sent"
  BY <1>1 DEF Call
<1>3. Mapped = {}
  BY DEF Init, Mapped
<1>4. LinksShow
  <2>1. Renewed
    BY <1>1, <1>2 DEF Renewed, Renews
  <2>2. QED BY <2>1 DEF LinksShow
<1>5. LinksApart
  <2>1. IsFiniteSet(FirstLinks)
    <3>1. IsFiniteSet(1 .. Len(FirstNodes))
      BY FirstAssumption, LenProperties, FS_Interval
    <3>2. IsFiniteSet((1 .. Len(FirstNodes)) \X (1 .. Len(FirstNodes)))
      BY <3>1, FS_Product
    <3>3. QED BY <3>2, FirstAssumption, FS_Subset
  <2>2. PICK order : order = SetToSeq(FirstLinks)
    OBVIOUS
  <2>3. order \in Seq(FirstLinks) /\ \A i, j \in DOMAIN order : order[i] = order[j] => i = j
    BY <2>1, <2>2, SetToSeqIs
  <2>4. \A i \in DOMAIN order : order[i] = <<order[i][1], order[i][2]>>
    <3>1. \A i \in DOMAIN order : order[i] \in FirstLinks
      BY <2>3
    <3>2. \A p \in FirstLinks : p = <<p[1], p[2]>>
      BY FirstAssumption
    <3>3. QED BY <3>1, <3>2
  <2>5. links = {[id |-> i, from |-> order[i][1], to |-> order[i][2]] : i \in DOMAIN order}
    <3>1. links = FirstJoined(0, 0)
      BY DEF Init
    <3>2. links = {[id |-> 0 + i, from |-> 0 + order[i][1], to |-> 0 + order[i][2]] : i \in DOMAIN order}
      BY <2>2, <3>1 DEF FirstJoined
    <3>3. \A i \in DOMAIN order : 0 + i = i /\ 0 + order[i][1] = order[i][1] /\ 0 + order[i][2] = order[i][2]
      <4>1. DOMAIN order = 1 .. Len(order) /\ Len(order) \in Nat
        BY <2>3, LenProperties
      <4>2. \A i \in DOMAIN order : order[i][1] \in Nat /\ order[i][2] \in Nat
        BY <2>3, FirstAssumption, FirstShape
      <4>3. QED BY <4>1, <4>2
    <3>4. QED BY <3>2, <3>3, Zenon
  <2>6. ASSUME NEW l \in links, NEW m \in links, l.from = m.from /\ l.to = m.to PROVE l = m
    <3>1. PICK i \in DOMAIN order : l = [id |-> i, from |-> order[i][1], to |-> order[i][2]]
      BY <2>5
    <3>2. PICK j \in DOMAIN order : m = [id |-> j, from |-> order[j][1], to |-> order[j][2]]
      BY <2>5
    <3>3. order[i][1] = order[j][1] /\ order[i][2] = order[j][2]
      BY <2>6, <3>1, <3>2
    <3>4. order[i] = order[j]
      BY <2>4, <3>3
    <3>5. QED BY <2>3, <3>1, <3>2, <3>4
  <2>7. QED BY <2>6 DEF LinksApart
<1>6. Matched
  BY <1>2, <1>3, <1>4, <1>5
     DEF Matched, ArrowsJoin, ConnectsJoin, DisconnectsPart, ArrowsApart, ConnectsAlone, LinkOps
<1>7. Told
  BY <1>2 DEF Told, EndsNamed, NamesNew, MadeAlone, ViewsTrue, LinkOps
<1>8. QED BY <1>6, <1>7 DEF LinksRight, LinksOK

LEMMA LinksHold == Spec => []LinksRight
<1>1. Init => LinksRight
  BY TypesStart, LinksStart
<1>2. QED BY <1>1, LinksKeep, TypesHold, NamesHold, AgreeHold, SurviveHold, DanglingHold, PTL DEF Spec

(* Once every answer is in, the arrows of the page join the nodes that the *)
(* connections of the server join, unless edits the page does not keep     *)
(* apart overtook each other (addConnection, removeConnection, deleteNode, *)
(* setName, clear, refresh).                                               *)
THEOREM EditorArrowsAgree == Spec => []ArrowsAgree
<1>1. Types /\ LinksRight => ArrowsAgree
  <2>1. SUFFICES ASSUME Types, LinksRight, Quiet, Apart
                 PROVE  {<<node[arrow[a].from].id, node[arrow[a].to].id>> : a \in Mapped}
                          = {<<known[l.from].name, known[l.to].name>> :
                               l \in {m \in links : {m.from, m.to} \subseteq live}}
    BY DEF ArrowsAgree
  <2>2. calls = {} /\ LinksOK
    BY <2>1, Zenon DEF Quiet, LinksRight
  <2>3. \A o, n : Stands(o, n) => n \in live /\ known[n].name = node[o].id
    BY <2>2 DEF Stands
  <2>4. \A a \in Mapped : \E l \in links :
          /\ {l.from, l.to} \subseteq live
          /\ known[l.from].name = node[arrow[a].from].id /\ known[l.to].name = node[arrow[a].to].id
    <3>1. SUFFICES ASSUME NEW a \in Mapped
                   PROVE  \E l \in links :
                            /\ {l.from, l.to} \subseteq live
                            /\ known[l.from].name = node[arrow[a].from].id
                            /\ known[l.to].name = node[arrow[a].to].id
      OBVIOUS
    <3>2. PICK l \in links : Joining(a, l)
      BY <2>2 DEF LinksOK, Matched, ArrowsJoin, Linking
    <3>3. QED BY <2>3, <3>2 DEF Joining
  <2>5. \A l \in links : {l.from, l.to} \subseteq live => \E a \in Mapped :
          known[l.from].name = node[arrow[a].from].id /\ known[l.to].name = node[arrow[a].to].id
    <3>1. SUFFICES ASSUME NEW l \in links, {l.from, l.to} \subseteq live
                   PROVE  \E a \in Mapped : /\ known[l.from].name = node[arrow[a].from].id
                                            /\ known[l.to].name = node[arrow[a].to].id
      OBVIOUS
    <3>2. PICK a \in Mapped : Joining(a, l)
      BY <2>2, <3>1 DEF LinksOK, Matched, LinksShow, Renewed
    <3>3. QED BY <2>3, <3>2 DEF Joining
  <2>6. QED BY <2>4, <2>5
<1>2. QED BY <1>1, TypesHold, LinksHold, PTL
=============================================================================

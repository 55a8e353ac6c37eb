---------------------------- MODULE DialogProofs ----------------------------
(***************************************************************************)
(* The dialog of the page, for every set of nodes, forms and values: whose *)
(* form is read, and what the server has of it.                            *)
(***************************************************************************)
EXTENDS Dialog, FiniteSetTheorems, TLAPS

Data == Values \cup {Blank}
Topics == {"nothing", "node", "guard", "files", "meta"}
FieldSets == UNION {[D -> Data] : D \in SUBSET (0 .. Text)}
Numbers(n) == {j \in 0 .. Len(Fields[n]) - 1 : Fields[n][j + 1] # ""}
Mails == [slot : Slots, value : Data, n : Nat, status : {"sent", "ok", "error"}]

(* What the parameters of n may be.                                        *)
ParamSets(n) == UNION {[A -> Data] : A \in SUBSET Attributes(n)}

-----------------------------------------------------------------------------
(* Slots are apart from each other.                                        *)
LEMMA SlotFacts ==
  /\ Guard \in Slots /\ Name \in Slots /\ Guard # Name
  /\ \A n \in Nodes : \A a \in Attributes(n) :
       <<n, a>> \in Slots /\ <<n, a>> # Guard /\ <<n, a>> # Name
<1>1. Guard # Name /\ Guard[1] = "arrow" /\ Name[1] = "behaviour"
  BY DEF Guard, Name
<1>2. \A n \in Nodes : n # Guard[1] /\ n # Name[1]
  BY DialogAssumption
<1>3. \A n \in Nodes : \A a \in Attributes(n) : <<n, a>>[1] = n
  OBVIOUS
<1> HIDE DEF Guard, Name
<1>4. \A n \in Nodes : \A a \in Attributes(n) : <<n, a>> # Guard /\ <<n, a>> # Name
  BY <1>2, <1>3
<1>5. ASSUME NEW n \in Nodes, NEW a \in Attributes(n) PROVE <<n, a>> \in Slots
  <2>1. <<n, a>> \in {<<n, b>> : b \in Attributes(n)}
    OBVIOUS
  <2>2. QED BY <2>1 DEF Slots
<1>6. Guard \in Slots /\ Name \in Slots
  BY DEF Slots
<1>7. QED BY <1>1, <1>4, <1>5, <1>6

(* The attributes of a node are at the numbers of its form.                *)
LEMMA NumberOf ==
  ASSUME NEW n \in Nodes, NEW a \in Attributes(n)
  PROVE  LET i == CHOOSE i \in DOMAIN Fields[n] : Fields[n][i] = a
         IN i - 1 \in Numbers(n) /\ Fields[n][(i - 1) + 1] = a
<1> DEFINE i == CHOOSE j \in DOMAIN Fields[n] : Fields[n][j] = a
<1>1. Fields[n] \in Seq(STRING)
  BY DialogAssumption
<1>2. PICK j \in DOMAIN Fields[n] : Fields[n][j] = a
  BY DEF Attributes
<1>3. i \in DOMAIN Fields[n] /\ Fields[n][i] = a
  BY <1>2
<1>4. a # ""
  BY DEF Attributes
<1>5. i \in 1 .. Len(Fields[n]) /\ Len(Fields[n]) \in Nat
  BY <1>1, <1>3
<1> HIDE DEF i
<1>6. i - 1 \in 0 .. Len(Fields[n]) - 1 /\ (i - 1) + 1 = i
  BY <1>5
<1>7. QED BY <1>3, <1>4, <1>6 DEF Numbers, i

LEMMA NumbersAreFew ==
  ASSUME NEW n \in Nodes
  PROVE  /\ Numbers(n) \subseteq 0 .. Text
         /\ \A i \in Numbers(n) : Fields[n][i + 1] \in Attributes(n)
<1>1. Fields[n] \in Seq(STRING) /\ Len(Fields[n]) <= 9 /\ Len(Fields[n]) \in Nat
  BY DialogAssumption DEF Text
<1>2. DOMAIN Fields[n] = 1 .. Len(Fields[n])
  BY <1>1
<1>3. ASSUME NEW i \in Numbers(n)
      PROVE  i \in 0 .. Text /\ Fields[n][i + 1] \in Attributes(n)
  <2>1. i \in 0 .. Len(Fields[n]) - 1 /\ Fields[n][i + 1] # ""
    BY DEF Numbers
  <2> DEFINE length == Len(Fields[n])
  <2>2. i \in 0 .. 9 /\ i + 1 \in 1 .. length
    <3>1. length \in Nat /\ length <= 9 /\ i \in 0 .. length - 1
      BY <1>1, <2>1
    <3> HIDE DEF length
    <3>2. QED BY <3>1
  <2>3. QED BY <1>2, <2>1, <2>2 DEF Text, Attributes
<1>4. QED BY <1>3

LEMMA DefaultIsData == Default \in Data /\ Blank \in Data /\ No \in Data
BY DialogAssumption DEF Data

(* A field that is read has a value, whatever the form.                    *)
LEMMA FoundIsData ==
  ASSUME NEW field \in FieldSets, NEW i PROVE Found(field, i) \in Data
BY DefaultIsData DEF Found, FieldSets

LEMMA FromFormReads ==
  ASSUME NEW n \in Nodes, NEW field \in FieldSets
  PROVE  /\ FromForm(n, field) \in [Attributes(n) -> Data]
         /\ DOMAIN field = Numbers(n) =>
              \A a \in Attributes(n) :
                \E i \in Numbers(n) : Fields[n][i + 1] = a /\ FromForm(n, field)[a] = field[i]
<1>1. FromForm(n, field) \in [Attributes(n) -> Data]
  BY FoundIsData DEF FromForm
<1>2. ASSUME DOMAIN field = Numbers(n), NEW a \in Attributes(n)
      PROVE  \E i \in Numbers(n) : Fields[n][i + 1] = a /\ FromForm(n, field)[a] = field[i]
  <2> DEFINE i == CHOOSE j \in DOMAIN Fields[n] : Fields[n][j] = a
  <2>1. i - 1 \in Numbers(n) /\ Fields[n][(i - 1) + 1] = a
    BY NumberOf
  <2>2. FromForm(n, field)[a] = Found(field, i - 1)
    BY DEF FromForm
  <2>3. Found(field, i - 1) = field[i - 1]
    BY <1>2, <2>1 DEF Found
  <2> HIDE DEF i
  <2>4. QED BY <2>1, <2>2, <2>3
<1>3. QED BY <1>1, <1>2

(* What getParams reads: the form's own values, when it is the node's and  *)
(* visible, and otherwise what the node had.                               *)
LEMMA ReadParamsReads ==
  ASSUME NEW n \in Nodes, NEW field \in FieldSets, params[n] \in ParamSets(n)
  PROVE  /\ ReadParams(n, field) \in ParamSets(n)
         /\ \A a \in DOMAIN ReadParams(n, field) :
              \/ ReadParams(n, field) = params[n] /\ ~Visible /\ Reads[n] # "always"
              \/ DOMAIN field = Numbers(n) =>
                   \E i \in Numbers(n) : Fields[n][i + 1] = a /\ ReadParams(n, field)[a] = field[i]
<1>1. /\ FromForm(n, field) \in [Attributes(n) -> Data]
      /\ DOMAIN field = Numbers(n) =>
           \A a \in Attributes(n) :
             \E i \in Numbers(n) : Fields[n][i + 1] = a /\ FromForm(n, field)[a] = field[i]
  BY FromFormReads
<1>2. FromForm(n, field) \in ParamSets(n)
  BY <1>1 DEF ParamSets
<1>3. CASE Reads[n] = "always"
  <2> DEFINE A == {b \in Attributes(n) : n \notin OwnName /\ FromForm(n, field)[b] # Blank}
  <2>1. ReadParams(n, field) = [a \in A |-> FromForm(n, field)[a]]
    BY <1>3 DEF ReadParams, AlwaysParams
  <2>2. A \in SUBSET Attributes(n) /\ ReadParams(n, field) \in [A -> Data]
    BY <1>1, <2>1
  <2> HIDE DEF A
  <2>3. ReadParams(n, field) \in ParamSets(n)
    BY <2>2 DEF ParamSets
  <2>4. QED BY <1>1, <2>1, <2>2, <2>3
<1>4. CASE Reads[n] # "always" /\ Visible /\ (Reads[n] # "coded" \/ n \notin OwnName)
  <2>1. ReadParams(n, field) = FromForm(n, field)
    BY <1>4 DEF ReadParams, CodedParams, VisibleParams
  <2>2. QED BY <1>1, <1>2, <2>1
<1>5. CASE Reads[n] = "coded" /\ Visible /\ n \in OwnName
  <2>1. ReadParams(n, field) = <<>>
    BY <1>5 DEF ReadParams, CodedParams
  <2>2. <<>> \in [{} -> Data] /\ {} \in SUBSET Attributes(n) /\ DOMAIN <<>> = {}
    OBVIOUS
  <2>3. QED BY <2>1, <2>2 DEF ParamSets
<1>6. CASE Reads[n] # "always" /\ ~Visible
  <2>1. ReadParams(n, field) = params[n]
    BY <1>6 DEF ReadParams, CodedParams, VisibleParams
  <2>2. QED BY <1>6, <2>1
<1>7. QED BY <1>3, <1>4, <1>5, <1>6

(* While a change is under way, or stuck, the switch is what it says.      *)
LEMMA GetParamsReads ==
  ASSUME NEW n \in Nodes, NEW field \in FieldSets, NEW c \in Data, params[n] \in ParamSets(n)
  PROVE  /\ GetParams(n, field, c) \in ParamSets(n)
         /\ \A a \in DOMAIN GetParams(n, field, c) :
              \/ a = Switch /\ GetParams(n, field, c)[a] = c /\ Told(n, ReadParams(n, field), c)
              \/ GetParams(n, field, c)[a] = params[n][a] /\ a \in DOMAIN params[n]
                 /\ ~Visible /\ Reads[n] # "always"
              \/ DOMAIN field = Numbers(n) =>
                   \E i \in Numbers(n) : Fields[n][i + 1] = a /\ GetParams(n, field, c)[a] = field[i]
<1> DEFINE read == ReadParams(n, field)
           new == [read EXCEPT ![Switch] = c]
<1>1. /\ read \in ParamSets(n)
      /\ \A a \in DOMAIN read :
           \/ read = params[n] /\ ~Visible /\ Reads[n] # "always"
           \/ DOMAIN field = Numbers(n) => \E i \in Numbers(n) : Fields[n][i + 1] = a /\ read[a] = field[i]
  BY ReadParamsReads
<1>2. GetParams(n, field, c) = IF Told(n, read, c) THEN new ELSE read
  BY DEF GetParams
<1>3. Told(n, read, c) => Switch \in DOMAIN read
  BY DEF Told
<1> HIDE DEF read
<1>4. Switch \in DOMAIN read =>
        /\ new \in ParamSets(n) /\ DOMAIN new = DOMAIN read /\ new[Switch] = c
        /\ \A a \in DOMAIN read : a # Switch => new[a] = read[a]
  <2>1. PICK A \in SUBSET Attributes(n) : read \in [A -> Data]
    BY <1>1 DEF ParamSets
  <2>2. Switch \in A => new \in [A -> Data]
    BY <2>1
  <2>3. QED BY <2>1, <2>2 DEF ParamSets
<1> HIDE DEF new
<1>5. CASE Told(n, read, c)
  <2>1. GetParams(n, field, c) = new
    BY <1>2, <1>5
  <2>2. QED BY <1>1, <1>3, <1>4, <1>5, <2>1 DEF read
<1>6. CASE ~Told(n, read, c)
  <2>1. GetParams(n, field, c) = read
    BY <1>2, <1>6
  <2>2. QED BY <1>1, <2>1
<1>7. QED BY <1>5, <1>6

(* Without a visible form a node has what it had.                          *)
LEMMA UnreadKeeps ==
  ASSUME NEW n \in Nodes, NEW field, NEW c, ~Visible, Reads[n] # "always"
  PROVE  GetParams(n, field, c) = params[n]
BY DEF GetParams, Told, ReadParams, CodedParams, VisibleParams

-----------------------------------------------------------------------------
(* The inductive invariant.                                                *)

Shapes ==
  /\ overlay \in {"hidden", "shown", "leaving"} /\ present \in BOOLEAN /\ cleared \in BOOLEAN
  /\ form \in [what : Topics, who : Nodes \cup {"", "arrow"}, field : FieldSets]
  /\ form.what = "node" => form.who \in Nodes /\ DOMAIN form.field = Numbers(form.who)
  /\ closer.what = form.what /\ closer.who = form.who
  /\ DOMAIN params = Nodes /\ (\A n \in Nodes : params[n] \in ParamSets(n))
  /\ DOMAIN typed = Nodes /\ unsent \subseteq Nodes /\ mixed \subseteq Nodes
  /\ {guard, name} \subseteq Data
  /\ changing \in [Nodes -> Data]

(* Posts of a slot are numbered; the server's is none of those under way.  *)
Wire ==
  /\ sentNo \in [Slots -> Nat] /\ keptNo \in [Slots -> Nat] /\ kept \in [Slots -> Data]
  /\ mail \subseteq Mails /\ toldNo \in Nat
  /\ \A m \in mail : m.n \in 1 .. sentNo[m.slot] /\ (m.status # "sent" => m.slot = Guard)
  /\ \A m, o \in mail : m.slot = o.slot /\ m.n = o.n => m = o
  /\ \A s \in Slots : keptNo[s] <= sentNo[s]
  /\ toldNo <= sentNo[Guard]
  /\ \A m \in mail : m.slot = Guard => m.n # toldNo

(* What a node has, what its form shows, what is on its way and what the   *)
(* server has of it was typed for it, unless it read the form of another.  *)
Typed ==
  \A n \in Nodes \ mixed :
    /\ \A a \in DOMAIN params[n] : <<a, params[n][a]>> \in typed[n]
    /\ changing[n] # Blank => <<Switch, changing[n]>> \in typed[n]
    /\ form.what = "node" /\ form.who = n =>
         \A i \in Numbers(n) : <<Fields[n][i + 1], form.field[i]>> \in typed[n]
    /\ \A a \in Attributes(n) :
         /\ <<a, Default>> \in typed[n] /\ <<a, kept[<<n, a>>]>> \in typed[n]
         /\ \A m \in mail : m.slot = <<n, a>> => <<a, m.value>> \in typed[n]

(* The last post of a slot, and what the server took from it, say what the *)
(* page has.                                                               *)
Says(s, value) ==
  /\ keptNo[s] = sentNo[s] => kept[s] = value
  /\ \A m \in mail : m.slot = s /\ m.n = sentNo[s] => m.value = value
ParamsSaid == \A n \in Nodes \ unsent : \A a \in DOMAIN params[n] : Says(<<n, a>>, params[n][a])
NameSaid == ~cleared => Says(Name, name)
GuardSaid ==
  keptNo[Guard] = sentNo[Guard] =>
    /\ toldNo = sentNo[Guard] => guard = kept[Guard]
    /\ \A m \in mail : m.slot = Guard /\ m.n = sentNo[Guard] => m.value = kept[Guard]

DialogInv == Shapes /\ Wire /\ Typed /\ ParamsSaid /\ NameSaid /\ GuardSaid

LEMMA ParamsInForm ==
  ASSUME Shapes, NEW n \in Nodes
  PROVE  DOMAIN params[n] \subseteq Attributes(n) /\ \A a \in DOMAIN params[n] : params[n][a] \in Data
<1>1. PICK A \in SUBSET Attributes(n) : params[n] \in [A -> Data]
  BY DEF Shapes, ParamSets
<1>2. QED BY <1>1

LEMMA EmptyField == <<>> \in FieldSets
<1>1. <<>> \in [{} -> Data] /\ {} \in SUBSET (0 .. Text)
  OBVIOUS
<1>2. QED BY <1>1 DEF FieldSets

LEMMA DialogStarts == ASSUME DialogInit PROVE DialogInv
<1> USE DEF DialogInit
<1>1. Shapes
  <2>1. \A n \in Nodes : params[n] \in ParamSets(n)
    <3> SUFFICES ASSUME NEW n \in Nodes PROVE params[n] \in ParamSets(n)
      OBVIOUS
    <3>1. params[n] \in [Attributes(n) -> Data] /\ Attributes(n) \in SUBSET Attributes(n)
      BY DefaultIsData
    <3>2. QED BY <3>1 DEF ParamSets
  <2>2. form \in [what : Topics, who : Nodes \cup {"", "arrow"}, field : FieldSets]
    BY EmptyField DEF Topics
  <2>3. QED BY <2>1, <2>2, DefaultIsData DEF Shapes
<1>2. Wire
  <2>1. Guard \in Slots /\ mail = {} /\ toldNo = 0
    BY SlotFacts
  <2>2. sentNo \in [Slots -> Nat] /\ keptNo \in [Slots -> Nat]
    OBVIOUS
  <2>3. kept \in [Slots -> Data]
    BY DefaultIsData
  <2>4. \A s \in Slots : sentNo[s] = 0 /\ keptNo[s] = 0
    OBVIOUS
  <2> HIDE DEF DialogInit
  <2>5. toldNo <= sentNo[Guard] /\ \A s \in Slots : keptNo[s] <= sentNo[s]
    BY <2>1, <2>4
  <2>6. QED BY <2>1, <2>2, <2>3, <2>5 DEF Wire
<1>3. Typed
  <2> SUFFICES ASSUME NEW n \in Nodes, NEW a \in Attributes(n)
               PROVE  /\ DOMAIN params[n] = Attributes(n) /\ params[n][a] = Default
                      /\ <<a, Default>> \in typed[n] /\ kept[<<n, a>>] = Default
    BY DEF Typed
  <2>1. <<n, a>> \in Slots /\ <<n, a>> \notin {Guard, Name}
    BY SlotFacts
  <2>2. kept[<<n, a>>] = Default
    BY <2>1
  <2>3. QED BY <2>2
<1>4. ParamsSaid
  <2> SUFFICES ASSUME NEW n \in Nodes, NEW a \in DOMAIN params[n] PROVE Says(<<n, a>>, params[n][a])
    BY DEF ParamsSaid
  <2>1. a \in Attributes(n) /\ params[n][a] = Default
    OBVIOUS
  <2>2. <<n, a>> \in Slots /\ <<n, a>> \notin {Guard, Name}
    BY <2>1, SlotFacts
  <2>3. kept[<<n, a>>] = Default
    BY <2>2
  <2>4. QED BY <2>1, <2>3 DEF Says
<1>5. NameSaid /\ GuardSaid
  BY SlotFacts DEF NameSaid, GuardSaid, Says
<1>6. QED BY <1>1, <1>2, <1>3, <1>4, <1>5 DEF DialogInv

-----------------------------------------------------------------------------
(* A post of one value for each of some slots.                             *)
LEMMA MailNumbers ==
  ASSUME Wire, NEW S \in SUBSET (Slots \X Data), Mail(S),
         \A m, o \in S : m[1] = o[1] => m = o
  PROVE  /\ Wire'
         /\ \A m \in mail' :
              \/ m \in mail /\ (\A o \in S : o[1] = m.slot => m.n # sentNo'[m.slot])
              \/ \E o \in S : m.slot = o[1] /\ m.value = o[2] /\ m.n = sentNo'[m.slot]
         /\ \A o \in S : keptNo'[o[1]] # sentNo'[o[1]]
         /\ \A s \in Slots : (\A o \in S : o[1] # s) => sentNo'[s] = sentNo[s]
         /\ \A o \in S : sentNo'[o[1]] = sentNo[o[1]] + 1
         /\ UNCHANGED <<kept, keptNo, toldNo>>
<1> DEFINE Of(s) == {m \in S : m[1] = s}
           post(m) == [slot |-> m[1], value |-> m[2], n |-> sentNo[m[1]] + 1, status |-> "sent"]
<1>1. /\ sentNo' = [s \in Slots |-> sentNo[s] + Cardinality(Of(s))]
      /\ mail' = mail \cup {post(m) : m \in S}
      /\ UNCHANGED <<kept, keptNo, toldNo>>
  BY DEF Mail
<1>2. \A s \in Slots : sentNo[s] \in Nat /\ keptNo[s] \in Nat /\ keptNo[s] <= sentNo[s]
  BY DEF Wire
<1>3. ASSUME NEW s \in Slots, \A o \in S : o[1] # s PROVE sentNo'[s] = sentNo[s]
  <2>1. Of(s) = {}
    BY <1>3
  <2>2. Cardinality(Of(s)) = 0
    BY <2>1, FS_EmptySet
  <2>3. QED BY <1>1, <1>2, <2>2
<1>4. ASSUME NEW o \in S PROVE o[1] \in Slots /\ o[2] \in Data /\ sentNo'[o[1]] = sentNo[o[1]] + 1
  <2>1. o[1] \in Slots /\ o[2] \in Data
    OBVIOUS
  <2>2. Of(o[1]) = {o}
    OBVIOUS
  <2>3. Cardinality(Of(o[1])) = 1
    BY <2>2, FS_Singleton
  <2>4. QED BY <1>1, <2>1, <2>3
<1>5. \A s \in Slots : sentNo'[s] \in Nat /\ sentNo[s] <= sentNo'[s]
  <2> SUFFICES ASSUME NEW s \in Slots PROVE sentNo'[s] \in Nat /\ sentNo[s] <= sentNo'[s]
    OBVIOUS
  <2>1. CASE \A o \in S : o[1] # s
    BY <1>2, <1>3, <2>1
  <2>2. CASE \E o \in S : o[1] = s
    BY <1>2, <1>4, <2>2
  <2>3. QED BY <2>1, <2>2
<1>6. sentNo' \in [Slots -> Nat]
  BY <1>1, <1>5
<1>7. \A o \in S : /\ post(o) \in Mails /\ post(o).slot = o[1] /\ post(o).value = o[2]
                   /\ post(o).n = sentNo'[o[1]] /\ post(o).n = sentNo[o[1]] + 1
                   /\ post(o).status = "sent"
  BY <1>2, <1>4 DEF Mails
<1>8. \A m \in mail : /\ m \in Mails /\ m.slot \in Slots /\ m.n \in Nat /\ m.n >= 1
                      /\ m.n <= sentNo[m.slot] /\ (m.status # "sent" => m.slot = Guard)
  BY DEF Wire, Mails
<1>9. \A m \in mail' : m \in mail \/ \E o \in S : m = post(o)
  BY <1>1
<1> HIDE DEF Of, post
<1>10. \A m \in mail : \A o \in S : o[1] = m.slot => m.n # sentNo'[m.slot]
  BY <1>2, <1>4, <1>8
<1>11. \A m \in mail' : m \in Mails /\ m.slot \in Slots /\ m.n \in 1 .. sentNo'[m.slot]
  <2> SUFFICES ASSUME NEW m \in mail'
               PROVE  m \in Mails /\ m.slot \in Slots /\ m.n \in 1 .. sentNo'[m.slot]
    OBVIOUS
  <2>1. CASE m \in mail
    BY <1>2, <1>5, <1>8, <2>1
  <2>2. CASE \E o \in S : m = post(o)
    BY <1>2, <1>4, <1>5, <1>7, <2>2
  <2>3. QED BY <1>9, <2>1, <2>2
<1>12. \A m, o \in mail' : m.slot = o.slot /\ m.n = o.n => m = o
  <2> SUFFICES ASSUME NEW m \in mail', NEW o \in mail', m.slot = o.slot, m.n = o.n PROVE m = o
    OBVIOUS
  <2>1. CASE m \in mail /\ o \in mail
    BY <2>1 DEF Wire
  <2>2. CASE (\E x \in S : m = post(x)) /\ (\E x \in S : o = post(x))
    BY <1>7, <2>2
  <2>3. CASE m \in mail /\ (\E x \in S : o = post(x))
    BY <1>7, <1>10, <2>3
  <2>4. CASE o \in mail /\ (\E x \in S : m = post(x))
    BY <1>7, <1>10, <2>4
  <2>5. QED BY <1>9, <2>1, <2>2, <2>3, <2>4
<1>13. \A s \in Slots : keptNo'[s] <= sentNo'[s]
  BY <1>1, <1>2, <1>5
<1>14. Guard \in Slots
  BY SlotFacts
<1>15. toldNo' \in Nat /\ toldNo' <= sentNo'[Guard]
  BY <1>1, <1>2, <1>5, <1>14 DEF Wire
<1>16. \A m \in mail' : m.slot = Guard => m.n # toldNo'
  <2> SUFFICES ASSUME NEW m \in mail', m.slot = Guard PROVE m.n # toldNo'
    OBVIOUS
  <2>1. CASE m \in mail
    BY <1>1, <2>1 DEF Wire
  <2>2. CASE \E o \in S : m = post(o)
    BY <1>1, <1>2, <1>7, <1>14, <2>2 DEF Wire
  <2>3. QED BY <1>9, <2>1, <2>2
<1>17. Wire'
  <2>1. mail' \subseteq Mails
    BY <1>11
  <2>4. \A m \in mail' : m.status # "sent" => m.slot = Guard
    BY <1>7, <1>8, <1>9
  <2>2. keptNo' \in [Slots -> Nat] /\ kept' \in [Slots -> Data]
    BY <1>1 DEF Wire
  <2>3. QED BY <2>1, <2>2, <2>4, <1>6, <1>11, <1>12, <1>13, <1>15, <1>16 DEF Wire
<1>18. \A o \in S : keptNo'[o[1]] # sentNo'[o[1]]
  BY <1>1, <1>2, <1>4
<1>19. \A m \in mail' :
         \/ m \in mail /\ (\A o \in S : o[1] = m.slot => m.n # sentNo'[m.slot])
         \/ \E o \in S : m.slot = o[1] /\ m.value = o[2] /\ m.n = sentNo'[m.slot]
  BY <1>7, <1>9, <1>10
<1>20. QED BY <1>1, <1>3, <1>4, <1>17, <1>18, <1>19

(* What the posts say: those just sent, and the slots they leave alone.    *)
LEMMA MailSays ==
  ASSUME Wire, NEW S \in SUBSET (Slots \X Data), Mail(S),
         \A m, o \in S : m[1] = o[1] => m = o
  PROVE  /\ Wire' /\ UNCHANGED <<kept, keptNo, toldNo>>
         /\ \A o \in S : /\ keptNo'[o[1]] # sentNo'[o[1]]
                          /\ \A m \in mail' : m.slot = o[1] /\ m.n = sentNo'[o[1]] => m.value = o[2]
         /\ \A s \in Slots : (\A o \in S : o[1] # s) =>
              sentNo'[s] = sentNo[s] /\ \A m \in mail' : m.slot = s => m \in mail
         /\ \A m \in mail' : m \in mail \/ \E o \in S : m.slot = o[1] /\ m.value = o[2]
         /\ \A o \in S : sentNo'[o[1]] = sentNo[o[1]] + 1
<1>1. /\ Wire' /\ UNCHANGED <<kept, keptNo, toldNo>>
      /\ \A m \in mail' :
           \/ m \in mail /\ (\A o \in S : o[1] = m.slot => m.n # sentNo'[m.slot])
           \/ \E o \in S : m.slot = o[1] /\ m.value = o[2] /\ m.n = sentNo'[m.slot]
      /\ \A o \in S : keptNo'[o[1]] # sentNo'[o[1]]
      /\ \A s \in Slots : (\A o \in S : o[1] # s) => sentNo'[s] = sentNo[s]
      /\ \A o \in S : sentNo'[o[1]] = sentNo[o[1]] + 1
  BY MailNumbers
<1>2. ASSUME NEW o \in S, NEW m \in mail', m.slot = o[1], m.n = sentNo'[o[1]]
      PROVE  m.value = o[2]
  BY <1>1, <1>2
<1>3. ASSUME NEW s \in Slots, \A o \in S : o[1] # s, NEW m \in mail', m.slot = s
      PROVE  m \in mail
  BY <1>1, <1>3
<1>4. QED BY <1>1, <1>2, <1>3

-----------------------------------------------------------------------------
(* Without a post the server has what it had.                              *)
LEMMA NothingPosted ==
  ASSUME DialogInv, UNCHANGED <<mailbox, guard>>,
         UNCHANGED <<name, cleared>> \/ cleared' = TRUE,
         \A k \in Nodes \ unsent' : k \notin unsent /\ params'[k] = params[k]
  PROVE  Wire' /\ GuardSaid' /\ NameSaid' /\ ParamsSaid'
<1> USE DEF DialogInv
<1>1. UNCHANGED <<mail, sentNo, kept, keptNo, toldNo, guard>>
  BY DEF mailbox
<1>2. Wire'
  BY <1>1 DEF Wire
<1>3. GuardSaid'
  BY <1>1 DEF GuardSaid
<1>4. NameSaid'
  BY <1>1 DEF NameSaid, Says
<1>5. ParamsSaid'
  <2> SUFFICES ASSUME NEW k \in Nodes \ unsent', NEW a \in DOMAIN params'[k]
               PROVE  Says(<<k, a>>, params[k][a])'
    BY DEF ParamsSaid
  <2>1. k \in Nodes \ unsent /\ a \in DOMAIN params[k] /\ params'[k] = params[k]
    OBVIOUS
  <2>2. Says(<<k, a>>, params[k][a])
    BY <2>1 DEF ParamsSaid
  <2>3. QED BY <1>1, <2>1, <2>2 DEF Says
<1>6. QED BY <1>2, <1>3, <1>4, <1>5

-----------------------------------------------------------------------------
(* The steps that change the form or the overlay only.                     *)
LEMMA ShowKeeps ==
  ASSUME DialogInv, NEW what \in Topics, NEW who \in Nodes \cup {"", "arrow"},
         NEW field \in FieldSets, ShowDialog(what, who, field),
         what # "node", present' \in BOOLEAN, UNCHANGED <<params, changing, guard, typed, mixed, unsent, mailbox>>,
         UNCHANGED <<name, cleared>> \/ (name' = Blank /\ cleared' = TRUE)
  PROVE  DialogInv'
<1> USE DEF DialogInv
<1>1. /\ overlay' = "shown" /\ form' = [what |-> what, who |-> who, field |-> field]
      /\ closer' = [what |-> what, who |-> who]
  BY DEF ShowDialog
<1>2. Shapes'
  BY <1>1, DefaultIsData DEF Shapes
<1>3. Wire' /\ ParamsSaid' /\ GuardSaid' /\ NameSaid'
  BY NothingPosted
<1>4. Typed'
  BY <1>1 DEF Typed, mailbox
<1>5. QED BY <1>2, <1>3, <1>4

LEMMA FormOfShapes ==
  ASSUME DialogInv, NEW n \in Nodes
  PROVE  FormOf(n) \in FieldSets /\ DOMAIN FormOf(n) = Numbers(n)
<1>1. FormOf(n) = [i \in Numbers(n) |->
        IF Fields[n][i + 1] \in DOMAIN params[n] THEN params[n][Fields[n][i + 1]] ELSE Blank]
  BY DEF FormOf, Numbers
<1>2. params[n] \in ParamSets(n) /\ Numbers(n) \in SUBSET (0 .. Text)
  BY NumbersAreFew DEF DialogInv, Shapes
<1>3. \A i \in Numbers(n) : FormOf(n)[i] \in Data
  BY <1>1, <1>2, DefaultIsData DEF ParamSets
<1>4. FormOf(n) \in [Numbers(n) -> Data]
  BY <1>1, <1>3
<1>5. QED BY <1>2, <1>4 DEF FieldSets

(* The form of a node brings what it shows with it.                        *)
LEMMA ShowFormKeeps ==
  ASSUME DialogInv, NEW n \in Nodes, ShowForm(n), UNCHANGED <<present, mailbox>>
  PROVE  DialogInv'
<1> USE DEF DialogInv
<1> DEFINE shown == {<<Fields[n][i + 1], FormOf(n)[i]>> : i \in DOMAIN FormOf(n)}
<1>1. /\ overlay' = "shown" /\ form' = [what |-> "node", who |-> n, field |-> FormOf(n)]
      /\ closer' = [what |-> "node", who |-> n]
      /\ typed' = [typed EXCEPT ![n] = @ \cup shown]
      /\ UNCHANGED <<present, params, changing, guard, name, mixed, unsent, cleared, mailbox>>
  BY DEF ShowForm, ShowDialog
<1>2. FormOf(n) \in FieldSets /\ DOMAIN FormOf(n) = Numbers(n)
  BY FormOfShapes
<1>3. /\ DOMAIN typed' = Nodes
      /\ \A k \in Nodes : typed[k] \subseteq typed'[k]
      /\ \A i \in Numbers(n) : <<Fields[n][i + 1], FormOf(n)[i]>> \in typed'[n]
  <2>1. DOMAIN typed = Nodes /\ typed' = [typed EXCEPT ![n] = @ \cup shown]
    BY <1>1 DEF Shapes
  <2>2. \A i \in Numbers(n) : <<Fields[n][i + 1], FormOf(n)[i]>> \in shown
    BY <1>2
  <2> HIDE DEF shown
  <2>3. QED BY <2>1, <2>2
<1> HIDE DEF shown
<1>4. Shapes'
  BY <1>1, <1>2, <1>3 DEF Shapes, Topics
<1>5. Wire' /\ ParamsSaid' /\ GuardSaid' /\ NameSaid'
  BY <1>1, NothingPosted
<1>6. Typed'
  <2> SUFFICES ASSUME NEW k \in Nodes \ mixed
               PROVE  /\ \A a \in DOMAIN params[k] : <<a, params[k][a]>> \in typed'[k]
                      /\ changing[k] # Blank => <<Switch, changing[k]>> \in typed'[k]
                      /\ form'.what = "node" /\ form'.who = k =>
                           \A i \in Numbers(k) : <<Fields[k][i + 1], form'.field[i]>> \in typed'[k]
                      /\ \A a \in Attributes(k) :
                           /\ <<a, Default>> \in typed'[k] /\ <<a, kept[<<k, a>>]>> \in typed'[k]
                           /\ \A m \in mail : m.slot = <<k, a>> => <<a, m.value>> \in typed'[k]
    BY <1>1 DEF Typed, mailbox
  <2>1. \A a \in DOMAIN params[k] : <<a, params[k][a]>> \in typed'[k]
    BY <1>3 DEF Typed
  <2>2. form'.what = "node" /\ form'.who = k =>
          \A i \in Numbers(k) : <<Fields[k][i + 1], form'.field[i]>> \in typed'[k]
    BY <1>1, <1>3
  <2>3. \A a \in Attributes(k) :
          /\ <<a, Default>> \in typed'[k] /\ <<a, kept[<<k, a>>]>> \in typed'[k]
          /\ \A m \in mail : m.slot = <<k, a>> => <<a, m.value>> \in typed'[k]
    BY <1>3 DEF Typed
  <2>4. changing[k] # Blank => <<Switch, changing[k]>> \in typed'[k]
    BY <1>3 DEF Typed
  <2>5. QED BY <2>1, <2>2, <2>3, <2>4
<1>7. QED BY <1>4, <1>5, <1>6

LEMMA OneField ==
  ASSUME NEW v \in Data PROVE [i \in {Text} |-> v] \in FieldSets
<1>1. {Text} \in SUBSET (0 .. Text)
  BY DEF Text
<1>2. [i \in {Text} |-> v] \in [{Text} -> Data]
  OBVIOUS
<1>3. QED BY <1>1, <1>2 DEF FieldSets

LEMMA OverlayKeeps ==
  ASSUME DialogInv, HideDialog \/ FadeEnds PROVE DialogInv'
<1> USE DEF DialogInv
<1>1. /\ UNCHANGED <<form, closer, present, pageData, mailbox>>
      /\ overlay' \in {"hidden", "shown", "leaving"}
  BY DEF HideDialog, FadeEnds
<1>2. Wire' /\ ParamsSaid' /\ GuardSaid' /\ NameSaid'
  BY <1>1, NothingPosted DEF pageData
<1>3. Shapes' /\ Typed'
  BY <1>1 DEF Shapes, Typed, pageData, mailbox
<1>4. QED BY <1>2, <1>3

LEMMA EditKeeps ==
  ASSUME DialogInv, NEW i \in 0 .. Text, NEW v \in Values, EditForm(i, v) PROVE DialogInv'
<1> USE DEF DialogInv
<1> DEFINE n == form.who
           new == [form.field EXCEPT ![i] = v]
<1>1. /\ i \in DOMAIN form.field /\ form' = [form EXCEPT !.field = new]
      /\ \/ /\ form.what = "node"
            /\ typed' = [typed EXCEPT ![n] = @ \cup {<<Fields[n][i + 1], v>>}]
            /\ \/ /\ params' = [params EXCEPT ![n] = GetParams(n, new, changing[n])]
                  /\ unsent' = unsent \cup {n}
               \/ UNCHANGED <<params, unsent>>
         \/ form.what # "node" /\ UNCHANGED <<typed, params, unsent>>
      /\ UNCHANGED <<overlay, closer, editors, present, changing, guard, name, mixed, cleared, mailbox>>
  BY DEF EditForm
<1>2. form \in [what : Topics, who : Nodes \cup {"", "arrow"}, field : FieldSets]
  BY DEF Shapes
<1>3. new \in FieldSets /\ DOMAIN new = DOMAIN form.field /\ new[i] = v
      /\ \A j \in DOMAIN new : j # i => new[j] = form.field[j]
  <2>1. PICK D \in SUBSET (0 .. Text) : form.field \in [D -> Data]
    BY <1>2 DEF FieldSets
  <2>2. new \in [D -> Data]
    BY <1>1, <2>1 DEF Data
  <2>3. QED BY <1>1, <2>1, <2>2 DEF FieldSets
<1> HIDE DEF new
<1>4. form' \in [what : Topics, who : Nodes \cup {"", "arrow"}, field : FieldSets]
      /\ form'.what = form.what /\ form'.who = form.who /\ form'.field = new
  BY <1>1, <1>2, <1>3
<1>5. CASE form.what # "node"
  <2>1. Shapes'
    BY <1>1, <1>4, <1>5 DEF Shapes
  <2>2. Wire' /\ ParamsSaid' /\ GuardSaid' /\ NameSaid'
    BY <1>1, <1>5, NothingPosted
  <2>3. Typed'
    BY <1>1, <1>4, <1>5 DEF Typed, mailbox
  <2>4. QED BY <2>1, <2>2, <2>3
<1>6. CASE form.what = "node"
  <2>1. n \in Nodes /\ DOMAIN form.field = Numbers(n) /\ params[n] \in ParamSets(n)
    BY <1>6 DEF Shapes
  <2> DEFINE p == GetParams(n, new, changing[n])
  <2>2. /\ p \in ParamSets(n)
        /\ \A a \in DOMAIN p :
             \/ a = Switch /\ p[a] = changing[n] /\ changing[n] # Blank
             \/ p[a] = params[n][a] /\ a \in DOMAIN params[n]
             \/ \E j \in Numbers(n) : Fields[n][j + 1] = a /\ p[a] = new[j]
    <3>1. changing[n] \in Data
      BY <2>1 DEF Shapes
    <3>2. QED BY <1>3, <2>1, <3>1, GetParamsReads DEF Told
  <2> HIDE DEF p
  <2>3. /\ DOMAIN typed' = Nodes
        /\ \A k \in Nodes : typed[k] \subseteq typed'[k]
        /\ <<Fields[n][i + 1], v>> \in typed'[n]
    BY <1>1, <1>6, <2>1 DEF Shapes
  <2>4. /\ DOMAIN params' = Nodes
        /\ \A k \in Nodes : params'[k] = params[k] \/ (k = n /\ params'[k] = p /\ n \in unsent')
        /\ unsent \subseteq unsent' /\ unsent' \subseteq Nodes
    BY <1>1, <1>6, <2>1 DEF Shapes, p
  <2>5. Shapes'
    BY <1>1, <1>3, <1>4, <2>1, <2>2, <2>3, <2>4 DEF Shapes
  <2>6. \A k \in Nodes \ unsent' : k \notin unsent /\ params'[k] = params[k]
    BY <2>4
  <2>7. Wire' /\ GuardSaid' /\ NameSaid' /\ ParamsSaid'
    BY <1>1, <2>6, NothingPosted
  <2>8. \A j \in Numbers(n) : n \notin mixed => <<Fields[n][j + 1], new[j]>> \in typed'[n]
    BY <1>3, <1>6, <2>1, <2>3 DEF Typed
  <2>9. Typed'
    <3> SUFFICES ASSUME NEW k \in Nodes \ mixed
                 PROVE  /\ \A a \in DOMAIN params'[k] : <<a, params'[k][a]>> \in typed'[k]
                        /\ changing[k] # Blank => <<Switch, changing[k]>> \in typed'[k]
                        /\ form'.what = "node" /\ form'.who = k =>
                             \A j \in Numbers(k) : <<Fields[k][j + 1], form'.field[j]>> \in typed'[k]
                        /\ \A a \in Attributes(k) :
                             /\ <<a, Default>> \in typed'[k] /\ <<a, kept'[<<k, a>>]>> \in typed'[k]
                             /\ \A m \in mail' : m.slot = <<k, a>> => <<a, m.value>> \in typed'[k]
      BY <1>1 DEF Typed
    <3>1. \A a \in DOMAIN params'[k] : <<a, params'[k][a]>> \in typed'[k]
      <4>1. /\ \A a \in DOMAIN params[k] : <<a, params[k][a]>> \in typed'[k]
            /\ changing[k] # Blank => <<Switch, changing[k]>> \in typed'[k]
        BY <2>3 DEF Typed
      <4>2. CASE params'[k] = params[k]
        BY <4>1, <4>2
      <4>3. CASE k = n /\ params'[k] = p
        <5>1. \A a \in DOMAIN p : <<a, p[a]>> \in typed'[k]
          BY <2>2, <2>8, <4>1, <4>3
        <5>2. QED BY <4>3, <5>1
      <4>4. QED BY <2>4, <4>2, <4>3
    <3>2. form'.what = "node" /\ form'.who = k =>
            \A j \in Numbers(k) : <<Fields[k][j + 1], form'.field[j]>> \in typed'[k]
      BY <1>4, <2>8
    <3>3. \A a \in Attributes(k) :
            /\ <<a, Default>> \in typed'[k] /\ <<a, kept'[<<k, a>>]>> \in typed'[k]
            /\ \A m \in mail' : m.slot = <<k, a>> => <<a, m.value>> \in typed'[k]
      BY <1>1, <2>3 DEF Typed, mailbox
    <3>4. changing[k] # Blank => <<Switch, changing[k]>> \in typed'[k]
      BY <2>3 DEF Typed
    <3>5. QED BY <3>1, <3>2, <3>3, <3>4
  <2>10. QED BY <2>5, <2>7, <2>9
<1>7. QED BY <1>5, <1>6

-----------------------------------------------------------------------------
(* Accept, and what it does to the form of a node.                         *)
LEMMA CloseNodeKeeps ==
  ASSUME DialogInv, closer.what = "node", CloseDialog, present' \in BOOLEAN,
         UNCHANGED <<name, cleared>> \/ (name' = Blank /\ cleared' = TRUE)
  PROVE  DialogInv'
<1> USE DEF DialogInv
<1> DEFINE n == closer.who
           p == GetParams(n, form.field, changing[n])
           S == {<<<<n, a>>, p[a]>> : a \in DOMAIN p}
<1>1. /\ n \in Nodes /\ form.what = "node" /\ form.who = n /\ DOMAIN form.field = Numbers(n)
      /\ form.field \in FieldSets /\ params[n] \in ParamSets(n) /\ DOMAIN params = Nodes
  BY DEF Shapes
<1>2. /\ params' = [params EXCEPT ![n] = p]
      /\ mixed \subseteq mixed' /\ mixed' \subseteq mixed \cup {n}
      /\ unsent' = unsent \ {n} /\ Mail({<<<<n, a>>, params'[n][a]>> : a \in DOMAIN params'[n]})
      /\ overlay' = (IF Visible THEN "leaving" ELSE overlay)
      /\ UNCHANGED <<guard, form, closer, editors, changing, typed>>
  BY DEF CloseDialog, AcceptConfigure, SendNodeParams
<1>3. /\ DOMAIN params' = Nodes /\ params'[n] = p
      /\ \A k \in Nodes : k # n => params'[k] = params[k]
  <2>1. params' = [params EXCEPT ![n] = p] /\ n \in DOMAIN params /\ DOMAIN params = Nodes
    BY <1>1, <1>2
  <2> HIDE DEF n, p
  <2>2. QED BY <2>1
<1>4. Mail(S)
  <2> DEFINE given == {<<<<n, a>>, params'[n][a]>> : a \in DOMAIN params'[n]}
  <2>1. S = given
    BY <1>3
  <2>2. Mail(given)
    BY <1>2
  <2> HIDE DEF S, given
  <2>3. QED BY <2>1, <2>2
<1>5. /\ p \in ParamSets(n)
      /\ \A a \in DOMAIN p :
           \/ a = Switch /\ p[a] = changing[n] /\ changing[n] # Blank
           \/ p[a] = params[n][a] /\ a \in DOMAIN params[n]
           \/ \E i \in Numbers(n) : Fields[n][i + 1] = a /\ p[a] = form.field[i]
  <2>1. changing[n] \in Data
    BY <1>1 DEF Shapes
  <2>2. QED BY <1>1, <2>1, GetParamsReads DEF Told
<1> HIDE DEF p
<1>6. DOMAIN p \subseteq Attributes(n) /\ \A a \in DOMAIN p : p[a] \in Data
  BY <1>5 DEF ParamSets
<1>7. \A a \in DOMAIN p : <<n, a>> \in Slots /\ <<n, a>> # Guard /\ <<n, a>> # Name
  BY <1>1, <1>6, SlotFacts
<1>8. S \in SUBSET (Slots \X Data) /\ \A m, o \in S : m[1] = o[1] => m = o
  BY <1>6, <1>7
<1>9. \A o \in S : \E a \in DOMAIN p : o[1] = <<n, a>> /\ o[2] = p[a] /\ o[1] # Guard /\ o[1] # Name
  BY <1>7
<1>10. \A a \in DOMAIN p : \E o \in S : o[1] = <<n, a>> /\ o[2] = p[a]
  <2> SUFFICES ASSUME NEW a \in DOMAIN p PROVE \E o \in S : o[1] = <<n, a>> /\ o[2] = p[a]
    OBVIOUS
  <2>1. <<<<n, a>>, p[a]>> \in S
    OBVIOUS
  <2> HIDE DEF S
  <2>2. QED BY <2>1
<1> HIDE DEF S
<1>11. /\ Wire' /\ UNCHANGED <<kept, keptNo, toldNo>>
       /\ \A o \in S : /\ keptNo'[o[1]] # sentNo'[o[1]]
                        /\ \A m \in mail' : m.slot = o[1] /\ m.n = sentNo'[o[1]] => m.value = o[2]
       /\ \A s \in Slots : (\A o \in S : o[1] # s) =>
            sentNo'[s] = sentNo[s] /\ \A m \in mail' : m.slot = s => m \in mail
       /\ \A m \in mail' : m \in mail \/ \E o \in S : m.slot = o[1] /\ m.value = o[2]
  BY <1>4, <1>8, MailSays
<1>12. Guard \in Slots /\ Name \in Slots
  BY SlotFacts
<1>13. NameSaid' /\ GuardSaid'
  <2>1. /\ sentNo'[Name] = sentNo[Name] /\ \A m \in mail' : m.slot = Name => m \in mail
        /\ sentNo'[Guard] = sentNo[Guard] /\ \A m \in mail' : m.slot = Guard => m \in mail
    BY <1>9, <1>11, <1>12
  <2>2. NameSaid'
    BY <1>11, <2>1 DEF NameSaid, Says
  <2>3. GuardSaid'
    BY <1>2, <1>11, <2>1 DEF GuardSaid
  <2>4. QED BY <2>2, <2>3
<1>14. ParamsSaid'
  <2> SUFFICES ASSUME NEW k \in Nodes \ unsent', NEW a \in DOMAIN params'[k]
               PROVE  Says(<<k, a>>, params[k][a])'
    BY DEF ParamsSaid
  <2>1. CASE k = n
    <3>1. PICK o \in S : o[1] = <<n, a>> /\ o[2] = p[a]
      BY <1>3, <1>10, <2>1
    <3>2. QED BY <1>3, <1>11, <2>1, <3>1 DEF Says
  <2>2. CASE k # n
    <3>1. k \in Nodes \ unsent /\ a \in DOMAIN params[k] /\ params'[k] = params[k]
      BY <1>2, <1>3, <2>2
    <3>2. Says(<<k, a>>, params[k][a])
      BY <3>1 DEF ParamsSaid
    <3>3. <<k, a>> \in Slots
      BY <3>1, SlotFacts, ParamsInForm
    <3>4. \A o \in S : o[1] # <<k, a>>
      BY <1>9, <2>2
    <3>5. QED BY <1>11, <3>1, <3>2, <3>3, <3>4 DEF Says
  <2>3. QED BY <2>1, <2>2
<1>15. Shapes'
  <2>1. overlay' \in {"hidden", "shown", "leaving"}
    BY <1>2 DEF Shapes
  <2>2. \A k \in Nodes : params'[k] \in ParamSets(k)
    BY <1>3, <1>5 DEF Shapes
  <2>3. {guard', name'} \subseteq Data /\ cleared' \in BOOLEAN
    BY <1>2, DefaultIsData DEF Shapes
  <2>4. unsent' \subseteq Nodes /\ mixed' \subseteq Nodes
    BY <1>1, <1>2 DEF Shapes
  <2>5. QED BY <1>2, <1>3, <2>1, <2>2, <2>3, <2>4 DEF Shapes
<1>16. Typed'
  <2> SUFFICES ASSUME NEW k \in Nodes \ mixed'
               PROVE  /\ \A a \in DOMAIN params'[k] : <<a, params'[k][a]>> \in typed[k]
                      /\ changing[k] # Blank => <<Switch, changing[k]>> \in typed[k]
                      /\ form.what = "node" /\ form.who = k =>
                           \A j \in Numbers(k) : <<Fields[k][j + 1], form.field[j]>> \in typed[k]
                      /\ \A a \in Attributes(k) :
                           /\ <<a, Default>> \in typed[k] /\ <<a, kept[<<k, a>>]>> \in typed[k]
                           /\ \A m \in mail' : m.slot = <<k, a>> => <<a, m.value>> \in typed[k]
    BY <1>2, <1>11 DEF Typed
  <2>1. k \in Nodes \ mixed
    BY <1>2
  <2>2. \A a \in DOMAIN params'[k] : <<a, params'[k][a]>> \in typed[k]
    <3>1. CASE k = n
      <4>1. /\ \A a \in DOMAIN params[n] : <<a, params[n][a]>> \in typed[n]
            /\ changing[n] # Blank => <<Switch, changing[n]>> \in typed[n]
            /\ \A i \in Numbers(n) : <<Fields[n][i + 1], form.field[i]>> \in typed[n]
        BY <1>1, <2>1, <3>1 DEF Typed
      <4>2. \A a \in DOMAIN p : <<a, p[a]>> \in typed[n]
        BY <1>5, <4>1
      <4>3. QED BY <1>3, <3>1, <4>2
    <3>2. CASE k # n
      BY <1>3, <2>1, <3>2 DEF Typed
    <3>3. QED BY <3>1, <3>2
  <2>3. ASSUME NEW a \in Attributes(k), NEW m \in mail', m.slot = <<k, a>>
        PROVE  <<a, m.value>> \in typed[k]
    <3>1. CASE m \in mail
      BY <2>1, <2>3, <3>1 DEF Typed
    <3>2. CASE \E o \in S : m.slot = o[1] /\ m.value = o[2]
      <4>1. PICK b \in DOMAIN p : m.slot = <<n, b>> /\ m.value = p[b]
        BY <1>9, <3>2
      <4>2. k = n /\ a = b
        BY <2>3, <4>1
      <4>3. QED BY <1>3, <2>2, <4>1, <4>2
    <3>3. QED BY <1>11, <3>1, <3>2
  <2>4. QED BY <2>1, <2>2, <2>3 DEF Typed
<1>17. QED BY <1>11, <1>13, <1>14, <1>15, <1>16

(* The other dialogs: a guard, a name, or nothing to send.                 *)
LEMMA CloseTextKeeps ==
  ASSUME DialogInv, closer.what # "node", CloseDialog, present' \in BOOLEAN,
         closer.what = "meta" => name' = Found(form.field, Text) /\ cleared' \in BOOLEAN,
         closer.what # "meta" => UNCHANGED <<name, cleared>> \/ (name' = Blank /\ cleared' = TRUE)
  PROVE  DialogInv'
<1> USE DEF DialogInv
<1> DEFINE text == Found(form.field, Text)
           S == IF closer.what = "guard" THEN {<<Guard, text>>}
                ELSE IF closer.what = "meta" THEN {<<Name, text>>} ELSE {}
<1>1. /\ UNCHANGED <<params, changing, typed, mixed, unsent, form, closer>>
      /\ overlay' = (IF Visible THEN "leaving" ELSE overlay)
      /\ guard' = (IF closer.what = "guard" THEN text ELSE guard)
      /\ closer.what \in {"guard", "meta"} => Mail(S)
      /\ closer.what \notin {"guard", "meta"} => UNCHANGED mailbox
  BY DEF CloseDialog
<1>2. text \in Data /\ form.field \in FieldSets
  BY FoundIsData DEF Shapes
<1>3. Guard \in Slots /\ Name \in Slots /\ Guard # Name
  BY SlotFacts
<1>4. Shapes'
  BY <1>1, <1>2, DefaultIsData DEF Shapes
<1>5. CASE closer.what \notin {"guard", "meta"}
  <2>1. Wire' /\ GuardSaid' /\ NameSaid' /\ ParamsSaid'
    BY <1>1, <1>5, NothingPosted
  <2>2. Typed'
    BY <1>1, <1>5 DEF Typed, mailbox
  <2>3. QED BY <1>4, <2>1, <2>2
<1>6. CASE closer.what \in {"guard", "meta"}
  <2> DEFINE slot == IF closer.what = "guard" THEN Guard ELSE Name
  <2>1. S = {<<slot, text>>} /\ slot \in {Guard, Name} /\ slot \in Slots
    BY <1>3, <1>6
  <2> HIDE DEF S, slot, text
  <2>2. S \in SUBSET (Slots \X Data) /\ (\A m, o \in S : m[1] = o[1] => m = o) /\ Mail(S)
    BY <1>1, <1>2, <1>6, <2>1
  <2>3. /\ Wire' /\ UNCHANGED <<kept, keptNo, toldNo>>
        /\ \A o \in S : /\ keptNo'[o[1]] # sentNo'[o[1]]
                         /\ \A m \in mail' : m.slot = o[1] /\ m.n = sentNo'[o[1]] => m.value = o[2]
        /\ \A s \in Slots : (\A o \in S : o[1] # s) =>
             sentNo'[s] = sentNo[s] /\ \A m \in mail' : m.slot = s => m \in mail
        /\ \A m \in mail' : m \in mail \/ \E o \in S : m.slot = o[1] /\ m.value = o[2]
    BY <2>2, MailSays
  <2>4. /\ keptNo'[slot] # sentNo'[slot]
        /\ \A m \in mail' : m.slot = slot /\ m.n = sentNo'[slot] => m.value = text
    BY <2>1, <2>3
  <2>5. \A s \in Slots : s # slot =>
          sentNo'[s] = sentNo[s] /\ \A m \in mail' : m.slot = s => m \in mail
    BY <2>1, <2>3
  <2>6. \A n \in Nodes : \A a \in Attributes(n) : <<n, a>> \in Slots /\ <<n, a>> # slot
    BY <2>1, SlotFacts
  <2>7. ParamsSaid'
    <3> SUFFICES ASSUME NEW k \in Nodes \ unsent', NEW a \in DOMAIN params'[k]
                 PROVE  Says(<<k, a>>, params[k][a])'
      BY DEF ParamsSaid
    <3>1. k \in Nodes \ unsent /\ a \in DOMAIN params[k] /\ a \in Attributes(k) /\ params' = params
      BY <1>1, ParamsInForm
    <3>2. Says(<<k, a>>, params[k][a])
      BY <3>1 DEF ParamsSaid
    <3>3. QED BY <2>3, <2>5, <2>6, <3>1, <3>2 DEF Says
  <2>8. Typed'
    <3>1. ASSUME NEW k \in Nodes, NEW a \in Attributes(k), NEW m \in mail', m.slot = <<k, a>>
          PROVE  m \in mail
      BY <2>5, <2>6, <3>1
    <3>2. UNCHANGED <<params, changing, typed, mixed, form, kept>>
      BY <1>1, <2>3
    <3>3. ASSUME NEW k \in Nodes \ mixed, NEW a \in Attributes(k), NEW m \in mail', m.slot = <<k, a>>
          PROVE  <<a, m.value>> \in typed[k]
      BY <3>1, <3>3 DEF Typed
    <3>4. QED BY <3>2, <3>3 DEF Typed
  <2>9. NameSaid'
    <3>1. CASE closer.what = "meta"
      <4>1. slot = Name /\ name' = text
        BY <3>1 DEF slot, text
      <4>2. QED BY <2>4, <4>1 DEF NameSaid, Says
    <3>2. CASE closer.what = "guard"
      <4>1. slot = Guard
        BY <3>2 DEF slot
      <4>2. sentNo'[Name] = sentNo[Name] /\ \A m \in mail' : m.slot = Name => m \in mail
        BY <1>3, <2>5, <4>1
      <4>3. QED BY <2>3, <3>2, <4>2 DEF NameSaid, Says
    <3>3. QED BY <1>6, <3>1, <3>2
  <2>10. GuardSaid'
    <3>1. CASE closer.what = "guard"
      <4>1. slot = Guard
        BY <3>1 DEF slot
      <4>2. QED BY <2>4, <4>1 DEF GuardSaid
    <3>2. CASE closer.what = "meta"
      <4>1. slot = Name
        BY <3>2 DEF slot
      <4>2. sentNo'[Guard] = sentNo[Guard] /\ \A m \in mail' : m.slot = Guard => m \in mail
        BY <1>3, <2>5, <4>1
      <4>3. guard' = guard
        BY <1>1, <3>2
      <4>4. QED BY <2>3, <4>2, <4>3 DEF GuardSaid
    <3>3. QED BY <1>6, <3>1, <3>2
  <2>11. QED BY <1>4, <2>3, <2>7, <2>8, <2>9, <2>10
<1>7. QED BY <1>5, <1>6

-----------------------------------------------------------------------------
(* An event that is turned on or off: its parameters are those of its form *)
(* or the ones it had, with the switch changed, and they are not sent.     *)
LEMMA ConnectKeeps ==
  ASSUME DialogInv, NEW n \in Nodes, NEW v \in Values, ConnectEvent(n, v) PROVE DialogInv'
<1> USE DEF DialogInv
<1> DEFINE read == ReadParams(n, form.field)
           p == GetParams(n, form.field, v)
           told == Told(n, read, v)
<1>1. /\ UNCHANGED <<pageForm, guard, name, cleared, mailbox>> /\ unsent' = unsent \cup {n}
      /\ mixed' = (IF OfAnother(n) THEN mixed \cup {n} ELSE mixed)
      /\ params' = [params EXCEPT ![n] = p] /\ changing' = [changing EXCEPT ![n] = Blank]
      /\ typed' = (IF told THEN [typed EXCEPT ![n] = @ \cup {<<Switch, v>>}] ELSE typed)
  BY DEF ConnectEvent
<1>2. /\ params[n] \in ParamSets(n) /\ form.field \in FieldSets /\ v \in Data
      /\ DOMAIN params = Nodes /\ DOMAIN typed = Nodes /\ changing \in [Nodes -> Data] /\ Blank \in Data
  BY DefaultIsData DEF Shapes, Data
<1>3. /\ p \in ParamSets(n)
      /\ \A a \in DOMAIN p :
           \/ a = Switch /\ p[a] = v /\ told
           \/ p[a] = params[n][a] /\ a \in DOMAIN params[n] /\ ~Visible /\ Reads[n] # "always"
           \/ DOMAIN form.field = Numbers(n) =>
                \E i \in Numbers(n) : Fields[n][i + 1] = a /\ p[a] = form.field[i]
  BY <1>2, GetParamsReads
<1>4. told => Visible \/ Reads[n] = "always"
  BY DEF Told
<1> HIDE DEF p, told
<1>5. /\ DOMAIN params' = Nodes /\ DOMAIN typed' = Nodes /\ params'[n] = p
      /\ \A k \in Nodes : k # n => params'[k] = params[k]
      /\ \A k \in Nodes : typed[k] \subseteq typed'[k]
      /\ told => <<Switch, v>> \in typed'[n]
      /\ changing' \in [Nodes -> Data]
      /\ \A k \in Nodes : changing'[k] # Blank => changing'[k] = changing[k]
  BY <1>1, <1>2
<1>6. /\ unsent \subseteq unsent' /\ unsent' \subseteq Nodes /\ n \in unsent'
      /\ mixed \subseteq mixed' /\ mixed' \subseteq Nodes
  BY <1>1 DEF Shapes
<1>7. Shapes'
  <2>1. \A k \in Nodes : params'[k] \in ParamSets(k)
    BY <1>3, <1>5 DEF Shapes
  <2>2. UNCHANGED <<overlay, form, closer, present, guard, name, cleared>>
    BY <1>1 DEF pageForm
  <2>3. QED BY <1>5, <1>6, <2>1, <2>2 DEF Shapes
<1>8. \A k \in Nodes \ unsent' : k \notin unsent /\ params'[k] = params[k]
  BY <1>5, <1>6
<1>9. Wire' /\ GuardSaid' /\ NameSaid' /\ ParamsSaid'
  BY <1>1, <1>8, NothingPosted
<1>10. n \notin mixed' => \A a \in DOMAIN p : <<a, p[a]>> \in typed'[n]
  <2> SUFFICES ASSUME n \notin mixed', NEW a \in DOMAIN p PROVE <<a, p[a]>> \in typed'[n]
    OBVIOUS
  <2>1. n \notin mixed /\ ~OfAnother(n) /\ typed[n] \subseteq typed'[n]
    BY <1>1, <1>5
  <2>2. CASE ~Visible /\ Reads[n] # "always"
    <3>1. p = params[n]
      BY <2>2, UnreadKeeps DEF p
    <3>2. QED BY <2>1, <3>1 DEF Typed
  <2>3. CASE Visible \/ Reads[n] = "always"
    <3>1. form.what = "node" /\ form.who = n
      BY <2>1, <2>3 DEF OfAnother
    <3>2. DOMAIN form.field = Numbers(n)
      BY <3>1 DEF Shapes
    <3>3. CASE a = Switch /\ p[a] = v /\ told
      BY <1>5, <3>3
    <3>4. CASE \E i \in Numbers(n) : Fields[n][i + 1] = a /\ p[a] = form.field[i]
      BY <2>1, <3>1, <3>4 DEF Typed
    <3>5. QED BY <1>3, <2>3, <3>2, <3>3, <3>4
  <2>4. QED BY <2>2, <2>3
<1>11. Typed'
  <2> SUFFICES ASSUME NEW k \in Nodes \ mixed'
               PROVE  /\ \A a \in DOMAIN params'[k] : <<a, params'[k][a]>> \in typed'[k]
                      /\ changing'[k] # Blank => <<Switch, changing'[k]>> \in typed'[k]
                      /\ form.what = "node" /\ form.who = k =>
                           \A j \in Numbers(k) : <<Fields[k][j + 1], form.field[j]>> \in typed'[k]
                      /\ \A a \in Attributes(k) :
                           /\ <<a, Default>> \in typed'[k] /\ <<a, kept[<<k, a>>]>> \in typed'[k]
                           /\ \A m \in mail : m.slot = <<k, a>> => <<a, m.value>> \in typed'[k]
    BY <1>1 DEF Typed, pageForm, mailbox
  <2>1. k \in Nodes \ mixed /\ typed[k] \subseteq typed'[k]
    BY <1>5, <1>6
  <2>2. \A a \in DOMAIN params'[k] : <<a, params'[k][a]>> \in typed'[k]
    <3>1. CASE k = n
      BY <1>5, <1>10, <2>1, <3>1
    <3>2. CASE k # n
      BY <1>5, <2>1, <3>2 DEF Typed
    <3>3. QED BY <3>1, <3>2
  <2>3. changing'[k] # Blank => <<Switch, changing'[k]>> \in typed'[k]
    BY <1>5, <2>1 DEF Typed
  <2>4. QED BY <2>1, <2>2, <2>3 DEF Typed
<1>12. QED BY <1>7, <1>9, <1>11

(* One that throws leaves the parameters it had, or none, and its wish.    *)
LEMMA ThrowKeeps ==
  ASSUME DialogInv, NEW n \in Nodes, NEW v \in Values, ConnectThrows(n, v) PROVE DialogInv'
<1> USE DEF DialogInv
<1>1. /\ UNCHANGED <<overlay, form, closer, editors, present, guard, name, mixed, cleared, mailbox>>
      /\ unsent' = unsent \cup {n} /\ changing' = [changing EXCEPT ![n] = v]
      /\ typed' = [typed EXCEPT ![n] = @ \cup {<<Switch, v>>}]
      /\ params' = [params EXCEPT ![n] = <<>>] \/ params' = params
  BY DEF ConnectThrows, pageForm
<1>2. <<>> \in ParamSets(n) /\ DOMAIN <<>> = {}
  <2>1. <<>> \in [{} -> Data] /\ {} \in SUBSET Attributes(n)
    OBVIOUS
  <2>2. QED BY <2>1 DEF ParamSets
<1>3. /\ DOMAIN params' = Nodes /\ DOMAIN typed' = Nodes
      /\ \A k \in Nodes : params'[k] = params[k] \/ (k = n /\ params'[k] = <<>>)
      /\ \A k \in Nodes : typed[k] \subseteq typed'[k]
      /\ <<Switch, v>> \in typed'[n]
      /\ \A k \in Nodes : changing'[k] = changing[k] \/ (k = n /\ changing'[k] = v)
      /\ changing' \in [Nodes -> Data] /\ unsent \subseteq unsent' /\ unsent' \subseteq Nodes
  BY <1>1 DEF Shapes, Data
<1>4. Shapes'
  BY <1>1, <1>2, <1>3 DEF Shapes
<1>5. \A k \in Nodes \ unsent' : k \notin unsent /\ params'[k] = params[k]
  BY <1>1 DEF Shapes
<1>6. Wire' /\ GuardSaid' /\ NameSaid' /\ ParamsSaid'
  BY <1>1, <1>5, NothingPosted
<1>7. Typed'
  <2> SUFFICES ASSUME NEW k \in Nodes \ mixed
               PROVE  /\ \A a \in DOMAIN params'[k] : <<a, params'[k][a]>> \in typed'[k]
                      /\ changing'[k] # Blank => <<Switch, changing'[k]>> \in typed'[k]
                      /\ form.what = "node" /\ form.who = k =>
                           \A j \in Numbers(k) : <<Fields[k][j + 1], form.field[j]>> \in typed'[k]
                      /\ \A a \in Attributes(k) :
                           /\ <<a, Default>> \in typed'[k] /\ <<a, kept[<<k, a>>]>> \in typed'[k]
                           /\ \A m \in mail : m.slot = <<k, a>> => <<a, m.value>> \in typed'[k]
    BY <1>1 DEF Typed, mailbox
  <2>1. typed[k] \subseteq typed'[k]
    BY <1>3
  <2>2. \A a \in DOMAIN params'[k] : <<a, params'[k][a]>> \in typed'[k]
    BY <1>2, <1>3 DEF Typed
  <2>3. changing'[k] # Blank => <<Switch, changing'[k]>> \in typed'[k]
    BY <1>3 DEF Typed
  <2>4. QED BY <2>1, <2>2, <2>3 DEF Typed
<1>8. QED BY <1>4, <1>6, <1>7

-----------------------------------------------------------------------------
(* A post that leaves the mailbox, or fails: what the page has is as it was. *)
LEMMA PageAsItWas ==
  ASSUME Shapes, UNCHANGED <<overlay, form, closer, present, params, changing, name, typed, mixed, unsent, cleared>>,
         guard' \in Data
  PROVE  Shapes'
BY DEF Shapes

LEMMA ArriveKeeps ==
  ASSUME DialogInv, NEW m \in mail, Arrive(m) PROVE DialogInv'
<1> USE DEF DialogInv
<1> DEFINE there == m.slot = Name \/ present
           told == [m EXCEPT !.status = IF there THEN "ok" ELSE "error"]
<1>1. /\ UNCHANGED <<overlay, form, closer, present, params, changing, guard, name, typed, mixed, unsent, cleared>>
      /\ UNCHANGED <<sentNo, toldNo>>
      /\ kept' = (IF there THEN [kept EXCEPT ![m.slot] = m.value] ELSE kept)
      /\ keptNo' = (IF there THEN [keptNo EXCEPT ![m.slot] = m.n] ELSE keptNo)
  BY DEF Arrive, pageForm, pageData
<1>2. mail' = (mail \ {m}) \cup
        {[x EXCEPT !.status = IF there THEN "ok" ELSE "error"] : x \in {m} \cap {y \in mail : y.slot = Guard}}
  BY DEF Arrive
<1>3. /\ m \in Mails /\ m.slot \in Slots /\ m.value \in Data /\ m.n \in Nat /\ m.n <= sentNo[m.slot]
      /\ kept \in [Slots -> Data] /\ keptNo \in [Slots -> Nat] /\ sentNo \in [Slots -> Nat]
  BY DEF Wire, Mails
<1>4. told \in Mails /\ told.slot = m.slot /\ told.value = m.value /\ told.n = m.n
  BY <1>3 DEF Mails
<1>5. \A x \in mail' : (x \in mail /\ x # m) \/ (x = told /\ m.slot = Guard)
  BY <1>2
<1> HIDE DEF there, told
<1>6. Shapes'
  <2>1. guard' \in Data
    BY <1>1 DEF Shapes
  <2>2. QED BY <1>1, <2>1, PageAsItWas
<1>7. \A x \in mail' : \E y \in mail : y.slot = x.slot /\ y.n = x.n /\ y.value = x.value
  BY <1>4, <1>5
<1>8. \A s \in Slots :
        \/ kept'[s] = kept[s] /\ keptNo'[s] = keptNo[s]
        \/ s = m.slot /\ kept'[s] = m.value /\ keptNo'[s] = m.n
  BY <1>1, <1>3
<1>9. Wire'
  <2>1. kept' \in [Slots -> Data] /\ keptNo' \in [Slots -> Nat]
    <3>1. CASE there
      BY <1>1, <1>3, <3>1
    <3>2. CASE ~there
      BY <1>1, <1>3, <3>2
    <3>3. QED BY <3>1, <3>2
  <2>2. mail' \subseteq Mails
    BY <1>4, <1>5 DEF Wire
  <2>3. \A x \in mail' : x.n \in 1 .. sentNo'[x.slot] /\ (x.status # "sent" => x.slot = Guard)
    BY <1>1, <1>4, <1>5 DEF Wire
  <2>4. \A x, y \in mail' : x.slot = y.slot /\ x.n = y.n => x = y
    BY <1>4, <1>5 DEF Wire
  <2>5. \A s \in Slots : keptNo'[s] <= sentNo'[s]
    BY <1>1, <1>3, <1>8 DEF Wire
  <2>6. \A x \in mail' : x.slot = Guard => x.n # toldNo'
    BY <1>1, <1>7 DEF Wire
  <2>7. QED BY <1>1, <2>1, <2>2, <2>3, <2>4, <2>5, <2>6 DEF Wire
<1>10. ASSUME NEW s \in Slots, NEW value, Says(s, value) PROVE Says(s, value)'
  <2>1. keptNo'[s] = sentNo'[s] => kept'[s] = value
    BY <1>1, <1>8, <1>10 DEF Says
  <2>2. \A x \in mail' : x.slot = s /\ x.n = sentNo'[s] => x.value = value
    BY <1>1, <1>7, <1>10 DEF Says
  <2>3. QED BY <2>1, <2>2 DEF Says
<1>11. ParamsSaid'
  <2> SUFFICES ASSUME NEW k \in Nodes \ unsent, NEW a \in DOMAIN params[k]
               PROVE  Says(<<k, a>>, params[k][a])'
    BY <1>1 DEF ParamsSaid
  <2>1. Says(<<k, a>>, params[k][a]) /\ <<k, a>> \in Slots
    BY ParamsInForm, SlotFacts DEF ParamsSaid
  <2>2. QED BY <1>1, <1>10, <2>1 DEF Says
<1>12. NameSaid'
  BY <1>1, <1>10, SlotFacts DEF NameSaid, Says
<1>13. GuardSaid'
  <2>1. Guard \in Slots
    BY SlotFacts
  <2>2. CASE kept'[Guard] = kept[Guard] /\ keptNo'[Guard] = keptNo[Guard]
    BY <1>1, <1>7, <2>2 DEF GuardSaid
  <2>3. CASE Guard = m.slot /\ kept'[Guard] = m.value /\ keptNo'[Guard] = m.n
    <3>1. m.n # toldNo
      BY <2>3 DEF Wire
    <3>2. \A x \in mail' : x.slot = Guard /\ x.n = m.n => x.value = m.value
      BY <1>7, <2>3 DEF Wire
    <3>3. QED BY <1>1, <2>3, <3>1, <3>2 DEF GuardSaid
  <2>4. QED BY <1>8, <2>1, <2>2, <2>3
<1>14. Typed'
  <2> SUFFICES ASSUME NEW k \in Nodes \ mixed, NEW a \in Attributes(k)
               PROVE  /\ <<a, kept'[<<k, a>>]>> \in typed[k]
                      /\ \A x \in mail' : x.slot = <<k, a>> => <<a, x.value>> \in typed[k]
    BY <1>1 DEF Typed
  <2>1. <<k, a>> \in Slots
    BY SlotFacts
  <2>2. \A x \in mail : x.slot = <<k, a>> => <<a, x.value>> \in typed[k]
    BY DEF Typed
  <2>3. <<a, kept'[<<k, a>>]>> \in typed[k]
    BY <1>8, <2>1, <2>2 DEF Typed
  <2>4. QED BY <1>7, <2>2, <2>3
<1>15. QED BY <1>6, <1>9, <1>11, <1>12, <1>13, <1>14

LEMMA GuardToldKeeps ==
  ASSUME DialogInv, NEW m \in mail, GuardTold(m) PROVE DialogInv'
<1> USE DEF DialogInv
<1>1. /\ UNCHANGED <<overlay, form, closer, present, params, changing, name, typed, mixed, unsent, cleared>>
      /\ UNCHANGED <<sentNo, kept, keptNo>> /\ mail' = mail \ {m}
      /\ guard' = GuardOf(m) /\ toldNo' = (IF m.status = "ok" THEN m.n ELSE 0)
      /\ m.slot = Guard
  BY DEF GuardTold, pageForm, Wire
<1>2. /\ m \in Mails /\ m.value \in Data /\ m.n \in Nat /\ m.n >= 1 /\ m.n <= sentNo[Guard]
      /\ Guard \in Slots /\ sentNo \in [Slots -> Nat]
  BY <1>1, SlotFacts DEF Wire, Mails
<1>3. Shapes'
  <2>1. guard' \in Data
    BY <1>1, <1>2, DefaultIsData DEF GuardOf
  <2>2. QED BY <1>1, <2>1, PageAsItWas
<1>4. Wire'
  <2>1. toldNo' \in Nat /\ toldNo' <= sentNo'[Guard]
    BY <1>1, <1>2
  <2>2. ASSUME NEW x \in mail', x.slot = Guard PROVE x.n # toldNo'
    <3>1. x \in mail /\ x # m /\ x.n >= 1
      BY <1>1, <2>2 DEF Wire, Mails
    <3>2. x.n # m.n
      BY <1>1, <2>2, <3>1 DEF Wire
    <3>3. QED BY <1>1, <3>1, <3>2
  <2>3. QED BY <1>1, <2>1, <2>2 DEF Wire
<1>5. NameSaid' /\ ParamsSaid'
  <2>1. ASSUME NEW s \in Slots, NEW value, Says(s, value) PROVE Says(s, value)'
    BY <1>1, <2>1 DEF Says
  <2>2. ASSUME NEW k \in Nodes \ unsent, NEW a \in DOMAIN params[k]
        PROVE  Says(<<k, a>>, params[k][a])'
    <3>1. Says(<<k, a>>, params[k][a])
      BY DEF ParamsSaid
    <3>2. QED BY <1>1, <3>1 DEF Says
  <2>3. QED BY <1>1, <2>2 DEF NameSaid, ParamsSaid, Says
<1>6. GuardSaid'
  <2> SUFFICES ASSUME keptNo[Guard] = sentNo[Guard]
               PROVE  /\ toldNo' = sentNo[Guard] => guard' = kept[Guard]
                      /\ \A x \in mail' : x.slot = Guard /\ x.n = sentNo[Guard] => x.value = kept[Guard]
    BY <1>1 DEF GuardSaid
  <2>1. \A x \in mail : x.slot = Guard /\ x.n = sentNo[Guard] => x.value = kept[Guard]
    BY DEF GuardSaid
  <2>2. ASSUME toldNo' = sentNo[Guard] PROVE guard' = kept[Guard]
    <3>1. m.status = "ok" /\ m.n = sentNo[Guard]
      BY <1>1, <1>2, <2>2
    <3>2. QED BY <1>1, <2>1, <3>1 DEF GuardOf
  <2>3. QED BY <1>1, <2>1, <2>2
<1>7. Typed'
  BY <1>1 DEF Typed
<1>8. QED BY <1>3, <1>4, <1>5, <1>6, <1>7

LEMMA FailKeeps ==
  ASSUME DialogInv, NEW m \in mail, Fail(m) PROVE DialogInv'
<1> USE DEF DialogInv
<1> DEFINE failed == [m EXCEPT !.status = "error"]
<1>1. /\ UNCHANGED <<overlay, form, closer, present, params, changing, guard, name, typed, mixed, unsent, cleared>>
      /\ UNCHANGED <<sentNo, kept, keptNo, toldNo>>
      /\ mail' = (mail \ {m}) \cup {[x EXCEPT !.status = "error"] : x \in {m} \cap {y \in mail : y.slot = Guard}}
  BY DEF Fail, pageForm, pageData
<1>2. failed \in Mails /\ failed.slot = m.slot /\ failed.value = m.value /\ failed.n = m.n
  BY DEF Wire, Mails
<1>3. \A x \in mail' : (x \in mail /\ x # m) \/ (x = failed /\ m.slot = Guard)
  BY <1>1
<1> HIDE DEF failed
<1>4. \A x \in mail' : \E y \in mail : y.slot = x.slot /\ y.n = x.n /\ y.value = x.value
  BY <1>2, <1>3
<1>5. Shapes'
  BY <1>1 DEF Shapes
<1>6. Wire'
  <2>1. mail' \subseteq Mails
    BY <1>2, <1>3 DEF Wire
  <2>2. \A x, y \in mail' : x.slot = y.slot /\ x.n = y.n => x = y
    BY <1>2, <1>3 DEF Wire
  <2>3. \A x \in mail' : x.n \in 1 .. sentNo'[x.slot] /\ (x.status # "sent" => x.slot = Guard)
    BY <1>1, <1>2, <1>3 DEF Wire
  <2>4. \A x \in mail' : x.slot = Guard => x.n # toldNo'
    BY <1>1, <1>4 DEF Wire
  <2>5. QED BY <1>1, <2>1, <2>2, <2>3, <2>4 DEF Wire
<1>7. NameSaid'
  BY <1>1, <1>4 DEF NameSaid, Says
<1>8. ParamsSaid'
  <2> SUFFICES ASSUME NEW k \in Nodes \ unsent, NEW a \in DOMAIN params[k]
               PROVE  Says(<<k, a>>, params[k][a])'
    BY <1>1 DEF ParamsSaid
  <2>1. Says(<<k, a>>, params[k][a])
    BY DEF ParamsSaid
  <2>2. QED BY <1>1, <1>4, <2>1 DEF Says
<1>9. GuardSaid'
  BY <1>1, <1>4 DEF GuardSaid
<1>10. Typed'
  <2> SUFFICES ASSUME NEW k \in Nodes \ mixed, NEW a \in Attributes(k), NEW x \in mail', x.slot = <<k, a>>
               PROVE  <<a, x.value>> \in typed[k]
    BY <1>1 DEF Typed
  <2>1. QED BY <1>4 DEF Typed
<1>11. QED BY <1>5, <1>6, <1>7, <1>8, <1>9, <1>10

-----------------------------------------------------------------------------
(* Every step of the dialog, and what follows from the invariant.          *)
LEMMA ShowsKeep ==
  ASSUME DialogInv,
         \/ \E n \in Nodes : Configure(n) \/ ConfigureCoded(n)
         \/ ClickConnection \/ BrowseFiles \/ SetMetaData
  PROVE  DialogInv'
<1> USE DEF DialogInv
<1>1. ASSUME NEW n \in Nodes, Configure(n) \/ ConfigureCoded(n) PROVE DialogInv'
  <2>1. ShowForm(n) /\ UNCHANGED <<present, mailbox>>
    BY <1>1 DEF Configure, ConfigureCoded
  <2>2. QED BY <2>1, ShowFormKeeps
<1>2. CASE ClickConnection
  <2>1. /\ ShowDialog("guard", "arrow", [i \in {Text} |-> guard])
        /\ UNCHANGED <<present, params, changing, guard, name, cleared, typed, mixed, unsent, mailbox>>
    BY <1>2 DEF ClickConnection, pageData
  <2>2. [i \in {Text} |-> guard] \in FieldSets /\ present' \in BOOLEAN /\ "guard" \in Topics
    BY <2>1, OneField DEF Shapes, Topics
  <2>3. QED BY <2>1, <2>2, ShowKeeps
<1>3. CASE BrowseFiles
  <2>1. /\ ShowDialog("files", "", <<>>)
        /\ UNCHANGED <<present, params, changing, guard, name, cleared, typed, mixed, unsent, mailbox>>
    BY <1>3 DEF BrowseFiles, pageData
  <2>2. present' \in BOOLEAN /\ "files" \in Topics
    BY <2>1 DEF Shapes, Topics
  <2>3. QED BY <2>1, <2>2, EmptyField, ShowKeeps
<1>4. CASE SetMetaData
  <2>1. /\ ShowDialog("meta", "", [i \in {Text} |-> name])
        /\ UNCHANGED <<present, params, changing, guard, name, cleared, typed, mixed, unsent, mailbox>>
    BY <1>4 DEF SetMetaData, pageData
  <2>2. [i \in {Text} |-> name] \in FieldSets /\ present' \in BOOLEAN /\ "meta" \in Topics
    BY <2>1, OneField DEF Shapes, Topics
  <2>3. QED BY <2>1, <2>2, ShowKeeps
<1>5. QED BY <1>1, <1>2, <1>3, <1>4

LEMMA CloseKeeps ==
  ASSUME DialogInv, CloseDialog, present' \in BOOLEAN,
         closer.what = "meta" => name' = Found(form.field, Text) /\ cleared' \in BOOLEAN,
         closer.what # "meta" => UNCHANGED <<name, cleared>> \/ (name' = Blank /\ cleared' = TRUE)
  PROVE  DialogInv'
<1>1. CASE closer.what = "node"
  BY <1>1, CloseNodeKeeps
<1>2. CASE closer.what # "node"
  BY <1>2, CloseTextKeeps
<1>3. QED BY <1>1, <1>2

LEMMA AcceptKeeps == ASSUME DialogInv, Accept PROVE DialogInv'
<1>1. /\ CloseDialog /\ UNCHANGED present
      /\ name' = (IF closer.what = "meta" THEN Found(form.field, Text) ELSE name)
      /\ cleared' = (cleared /\ closer.what # "meta")
  BY DEF Accept
<1>2. present' \in BOOLEAN /\ cleared \in BOOLEAN
  BY <1>1 DEF DialogInv, Shapes
<1>3. closer.what # "meta" => cleared' = cleared
  BY <1>1, <1>2
<1>4. cleared' \in BOOLEAN
  BY <1>1, <1>2
<1> QED BY <1>1, <1>2, <1>3, <1>4, CloseKeeps

LEMMA NewPageKeeps == ASSUME DialogInv, NewPage PROVE DialogInv'
<1>1. CASE /\ ShowDialog("meta", "", [i \in {Text} |-> Blank])
           /\ name' = Blank /\ cleared' = TRUE
           /\ UNCHANGED <<editors, params, picture, fresh, changing, guard, typed, mixed, unsent, mailbox>>
  <2>1. present' \in BOOLEAN /\ "meta" \in Topics
    BY DEF NewPage, Topics
  <2>2. [i \in {Text} |-> Blank] \in FieldSets
    BY OneField, DefaultIsData
  <2>3. QED BY <1>1, <2>1, <2>2, ShowKeeps
<1>2. CASE /\ CloseDialog
           /\ name' = (IF closer.what = "meta" THEN Found(form.field, Text) ELSE Blank)
           /\ cleared' = (closer.what # "meta")
  <2>1. present' \in BOOLEAN
    BY DEF NewPage
  <2>2. cleared' \in BOOLEAN /\ (closer.what # "meta" => cleared' = TRUE)
    BY <1>2
  <2>3. QED BY <1>2, <2>1, <2>2, CloseKeeps
<1>3. QED BY <1>1, <1>2 DEF NewPage

LEMMA DialogKeeps == ASSUME DialogInv, [DialogNext]_dialogVars PROVE DialogInv'
<1>1. CASE UNCHANGED dialogVars
  <2>1. UNCHANGED <<overlay, form, closer, present, params, changing, guard, name, typed, mixed, unsent,
                    cleared, mailbox>>
    BY <1>1 DEF dialogVars, pageForm, pageData
  <2>2. Wire' /\ ParamsSaid' /\ NameSaid' /\ GuardSaid'
    BY <2>1, NothingPosted
  <2>3. Shapes'
    BY <2>1 DEF DialogInv, Shapes
  <2>4. Typed'
    BY <2>1 DEF DialogInv, Typed, mailbox
  <2>5. QED BY <2>2, <2>3, <2>4 DEF DialogInv
<1>2. CASE \/ \E n \in Nodes : Configure(n) \/ ConfigureCoded(n)
           \/ ClickConnection \/ BrowseFiles \/ SetMetaData
  BY <1>2, ShowsKeep
<1>3. CASE \E n \in Nodes : \E v \in Values : ConnectEvent(n, v) \/ ConnectThrows(n, v)
  BY <1>3, ConnectKeeps, ThrowKeeps
<1>4. CASE \E i \in 0 .. Text, v \in Values : EditForm(i, v)
  BY <1>4, EditKeeps
<1>5. CASE Accept
  BY <1>5, AcceptKeeps
<1>6. CASE NewPage
  BY <1>6, NewPageKeeps
<1>7. CASE HideDialog \/ FadeEnds
  BY <1>7, OverlayKeeps
<1>8. CASE \E m \in mail : Arrive(m) \/ GuardTold(m) \/ Fail(m)
  BY <1>8, ArriveKeeps, GuardToldKeeps, FailKeeps
<1>9. QED BY <1>1, <1>2, <1>3, <1>4, <1>5, <1>6, <1>7, <1>8 DEF DialogNext

LEMMA FormsRead == ASSUME DialogInv PROVE FormReadByOwner
BY DEF DialogInv, Shapes, Typed, FormReadByOwner, FormIsOwners, NoForeignParams

LEMMA FormsReachServer == ASSUME DialogInv PROVE ServerHasForms
<1> USE DEF DialogInv
<1>1. ParamsReachServer
  BY DEF ParamsSaid, Says, ParamsReachServer
<1>2. TextsReachServer
  BY DEF NameSaid, GuardSaid, Says, TextsReachServer
<1>3. QED BY <1>1, <1>2 DEF ServerHasForms

(* The invariant of the dialog holds of every behaviour of it.             *)
THEOREM DialogCorrect == DialogSpec => []DialogInv
<1>1. DialogInit => DialogInv
  BY DialogStarts
<1>2. DialogInv /\ [DialogNext]_dialogVars => DialogInv'
  BY DialogKeeps
<1>3. QED BY <1>1, <1>2, PTL DEF DialogSpec

(* Whatever is opened over what, Accept gives a form to the node, arrow or *)
(* behaviour it was shown for, and the server has no parameter that its    *)
(* node's own form did not hold in that field, but of nodes that read the  *)
(* form of another when they were connected, and what a connection told an *)
(* event, which outlives a change that threw (lua.js:148).                 *)
THEOREM FormsAreOwners == DialogSpec => []FormReadByOwner
<1>1. DialogInv => FormReadByOwner
  BY FormsRead
<1>2. QED BY <1>1, DialogCorrect, PTL

(* When its last post is the one the server took last, the server has what *)
(* the page shows, for any order and loss of the posts.                    *)
THEOREM FormsReach == DialogSpec => []ServerHasForms
<1>1. DialogInv => ServerHasForms
  BY FormsReachServer
<1>2. QED BY <1>1, DialogCorrect, PTL

-----------------------------------------------------------------------------
(* What is drawn: every change of the parameters of a node draws it anew,  *)
(* in one of three ways that agree on the two options of an event.         *)
DrawnInv ==
  /\ picture \in [Nodes -> {"on", "off"}] /\ editors \subseteq Nodes /\ fresh \subseteq Nodes
  /\ steps \in 0 .. Steps /\ lost \in 0 .. Lost
  /\ PictureSaysParams

LEMMA OptionsDiffer == Default # No /\ Blank # Default /\ Blank # No /\ Steps \in Nat /\ Lost \in Nat
BY DialogAssumption

LEMMA DrawnStarts == ASSUME DialogInit PROVE DrawnInv
<1>0. steps = Steps /\ lost = 0
  BY DEF DialogInit
<1>2. steps \in 0 .. Steps /\ lost \in 0 .. Lost
  BY <1>0, OptionsDiffer
<1> USE DEF DialogInit
<1>1. picture \in [Nodes -> {"on", "off"}] /\ editors \subseteq Nodes /\ fresh \subseteq Nodes
  BY DEF Shows
<1>3. PictureSaysParams
  <2> SUFFICES ASSUME NEW n \in Nodes, HasPicture(n), Reads[n] # "always"
               PROVE  Value(params[n]) # No /\ picture[n] = "on"
    BY DEF PictureSaysParams
  <2>1. picture[n] = "on"
    BY DEF Shows
  <2>2. Value(params[n]) = Default
    BY DEF Value, HasPicture
  <2>3. QED BY <2>1, <2>2, OptionsDiffer
<1>4. QED BY <1>1, <1>2, <1>3 DEF DrawnInv

(* A node drawn by getParams or by update is drawn as its parameter says.  *)
LEMMA DrawnAsSaid ==
  ASSUME NEW n \in Nodes, NEW p, HasPicture(n)
  PROVE  /\ Value(p) = No => PictureRead(n, p) = "off" /\ PictureUpdated(n, p) = "off"
         /\ Value(p) = Default => PictureRead(n, p) = "on" /\ PictureUpdated(n, p) = "on"
BY OptionsDiffer DEF PictureRead, PictureUpdated, PictureOfTimer, PictureOfList, Shows

LEMMA PicturesAreTwo ==
  ASSUME NEW n, NEW p, NEW on
  PROVE  {PictureRead(n, p), PictureUpdated(n, p), Shows(on)} \subseteq {"on", "off"}
BY DEF PictureRead, PictureUpdated, PictureOfTimer, PictureOfList, Shows

(* The parameters and the picture of one node change together.             *)
LEMMA RedrawKeeps ==
  ASSUME DrawnInv, DOMAIN params = Nodes, NEW n \in Nodes, NEW p, NEW pic \in {"on", "off"},
         params' = [params EXCEPT ![n] = p], picture' = [picture EXCEPT ![n] = pic],
         fresh' = fresh \ {n},
         HasPicture(n) => (Value(p) = No => pic = "off") /\ (Value(p) = Default => pic = "on")
  PROVE  PictureSaysParams' /\ picture' \in [Nodes -> {"on", "off"}] /\ fresh' \subseteq Nodes
<1> USE DEF DrawnInv
<1>1. picture' \in [Nodes -> {"on", "off"}] /\ picture'[n] = pic /\ params'[n] = p
  OBVIOUS
<1>2. \A k \in Nodes : k # n => picture'[k] = picture[k] /\ params'[k] = params[k]
  OBVIOUS
<1>3. PictureSaysParams'
  <2> SUFFICES ASSUME NEW k \in Nodes, HasPicture(k), ~(k \in fresh' /\ Reads[k] = "always")
               PROVE  /\ Value(params'[k]) = No => picture'[k] = "off"
                      /\ Value(params'[k]) = Default => picture'[k] = "on"
    BY DEF PictureSaysParams, Value, HasPicture
  <2>1. CASE k = n
    BY <1>1, <2>1
  <2>2. CASE k # n
    BY <1>2, <2>2 DEF PictureSaysParams
  <2>3. QED BY <2>1, <2>2
<1>4. QED BY <1>1, <1>3

LEMMA EditDraws ==
  ASSUME DialogInv, DrawnInv, NEW i \in 0 .. Text, NEW v \in Values, EditForm(i, v)
  PROVE  DrawnInv'
<1> DEFINE n == form.who
           new == [form.field EXCEPT ![i] = v]
<1>1. steps' = steps - 1 /\ steps > 0 /\ UNCHANGED <<editors, lost>>
  BY DEF EditForm, UserStep, mailbox
<1>2. steps' \in 0 .. Steps
  BY <1>1, OptionsDiffer DEF DrawnInv
<1>3. CASE UNCHANGED <<params, picture, fresh>>
  BY <1>1, <1>2, <1>3 DEF DrawnInv, PictureSaysParams
<1>4. CASE /\ form.what = "node" /\ params' = [params EXCEPT ![n] = GetParams(n, new, changing[n])]
           /\ picture' = [picture EXCEPT ![n] = PictureRead(n, params'[n])]
           /\ fresh' = fresh \ {n}
  <2>1. n \in Nodes /\ DOMAIN params = Nodes
    BY <1>4 DEF DialogInv, Shapes
  <2> DEFINE p == GetParams(n, new, changing[n])
             pic == PictureRead(n, p)
  <2>2. params' = [params EXCEPT ![n] = p] /\ picture' = [picture EXCEPT ![n] = pic] /\ fresh' = fresh \ {n}
    <3>1. params' = [params EXCEPT ![n] = p] /\ params'[n] = p
      BY <1>4, <2>1
    <3> HIDE DEF p
    <3>2. QED BY <1>4, <3>1
  <2>3. pic \in {"on", "off"}
    BY PicturesAreTwo
  <2>4. HasPicture(n) => (Value(p) = No => pic = "off") /\ (Value(p) = Default => pic = "on")
    BY <2>1, DrawnAsSaid
  <2> HIDE DEF n, p, pic
  <2>5. PictureSaysParams' /\ picture' \in [Nodes -> {"on", "off"}] /\ fresh' \subseteq Nodes
    BY <2>1, <2>2, <2>3, <2>4, RedrawKeeps
  <2>6. QED BY <1>1, <1>2, <2>5 DEF DrawnInv
<1>5. QED BY <1>3, <1>4 DEF EditForm

LEMMA CloseDraws ==
  ASSUME DialogInv, DrawnInv, CloseDialog
  PROVE  /\ PictureSaysParams' /\ picture' \in [Nodes -> {"on", "off"}] /\ fresh' \subseteq Nodes
         /\ UNCHANGED <<editors, lost>>
<1>1. UNCHANGED <<editors, lost>>
  BY DEF CloseDialog, SendNodeParams, Mail, mailbox
<1>2. CASE closer.what # "node"
  <2>1. UNCHANGED <<params, picture, fresh>>
    BY <1>2 DEF CloseDialog
  <2>2. QED BY <1>1, <2>1 DEF DrawnInv, PictureSaysParams
<1>3. CASE closer.what = "node"
  <2> DEFINE n == closer.who
             p == GetParams(n, form.field, changing[n])
             pic == PictureUpdated(n, p)
  <2>1. n \in Nodes /\ DOMAIN params = Nodes
    BY <1>3 DEF DialogInv, Shapes
  <2>2. params' = [params EXCEPT ![n] = p] /\ picture' = [picture EXCEPT ![n] = pic] /\ fresh' = fresh \ {n}
    <3>1. AcceptConfigure(n)
      BY <1>3 DEF CloseDialog
    <3>2. params' = [params EXCEPT ![n] = p] /\ params'[n] = p
      BY <2>1, <3>1 DEF AcceptConfigure
    <3> HIDE DEF p
    <3>3. QED BY <3>1, <3>2 DEF AcceptConfigure
  <2>3. pic \in {"on", "off"}
    BY PicturesAreTwo
  <2>4. HasPicture(n) => (Value(p) = No => pic = "off") /\ (Value(p) = Default => pic = "on")
    BY <2>1, DrawnAsSaid
  <2> HIDE DEF n, p, pic
  <2>5. QED BY <1>1, <2>1, <2>2, <2>3, <2>4, RedrawKeeps
<1>4. QED BY <1>2, <1>3

(* Connecting an event: a timeout draws the option it is told, which is    *)
(* the one it has then, or it has none.                                    *)
LEMMA ConnectDraws ==
  ASSUME DialogInv, DrawnInv, NEW n \in Nodes, NEW v \in Values, ConnectEvent(n, v)
  PROVE  DrawnInv'
<1> DEFINE read == ReadParams(n, form.field)
           drawn == Reads[n] = "always" /\ HasPicture(n)
           p == GetParams(n, form.field, v)
           pic == IF drawn THEN Shows(v = Default) ELSE PictureUpdated(n, p)
<1>1. steps' = steps - 1 /\ steps > 0 /\ UNCHANGED <<editors, lost>> /\ fresh' = fresh \ {n}
  BY DEF ConnectEvent, UserStep, mailbox, pageForm
<1>2. steps' \in 0 .. Steps
  BY <1>1, OptionsDiffer DEF DrawnInv
<1>3. DOMAIN params = Nodes
  BY DEF DialogInv, Shapes
<1>4. params' = [params EXCEPT ![n] = p] /\ picture' = [picture EXCEPT ![n] = pic]
  <2>1. params' = [params EXCEPT ![n] = p] /\ params'[n] = p
    BY <1>3 DEF ConnectEvent
  <2>2. picture' = [picture EXCEPT ![n] = IF drawn THEN Shows(v = Default) ELSE PictureUpdated(n, params'[n])]
    BY DEF ConnectEvent
  <2> HIDE DEF p, drawn
  <2>3. QED BY <2>1, <2>2
<1>5. pic \in {"on", "off"}
  BY PicturesAreTwo
<1>6. HasPicture(n) => (Value(p) = No => pic = "off") /\ (Value(p) = Default => pic = "on")
  <2>1. CASE ~drawn
    BY <2>1, DrawnAsSaid
  <2>2. CASE drawn
    <3>1. n \in Obeys \ OwnName
      BY <2>2, DialogAssumption DEF HasPicture
    <3>2. CASE Switch \in DOMAIN read
      <4>1. p = [read EXCEPT ![Switch] = v]
        <5>1. v # Blank
          BY DialogAssumption
        <5>2. Told(n, read, v)
          BY <2>2, <3>1, <3>2, <5>1 DEF Told
        <5>3. QED BY <5>2 DEF GetParams
      <4>2. Value(p) = v
        <5> HIDE DEF read, p
        <5>1. QED BY <3>2, <4>1 DEF Value
      <4> HIDE DEF p
      <4>3. QED BY <2>2, <4>2, OptionsDiffer DEF Shows
    <3>3. CASE Switch \notin DOMAIN read
      <4>1. p = read /\ Value(p) = Blank
        <5>1. p = read
          BY <3>3 DEF GetParams, Told
        <5>2. QED BY <3>3, <5>1 DEF Value
      <4>2. QED BY <4>1, OptionsDiffer
    <3>4. QED BY <3>2, <3>3
  <2>3. QED BY <2>1, <2>2
<1> HIDE DEF p, pic
<1>7. PictureSaysParams' /\ picture' \in [Nodes -> {"on", "off"}] /\ fresh' \subseteq Nodes
  BY <1>1, <1>3, <1>4, <1>5, <1>6, RedrawKeeps
<1>8. QED BY <1>1, <1>2, <1>7 DEF DrawnInv

(* One that throws is not drawn, and loses its parameters only when it has *)
(* no picture.                                                             *)
LEMMA ThrowDraws ==
  ASSUME DialogInv, DrawnInv, NEW n \in Nodes, NEW v \in Values, ConnectThrows(n, v)
  PROVE  DrawnInv'
<1>1. steps' = steps - 1 /\ steps > 0 /\ UNCHANGED <<editors, lost, picture, fresh>>
  BY DEF ConnectThrows, UserStep, mailbox, pageForm
<1>2. steps' \in 0 .. Steps
  BY <1>1, OptionsDiffer DEF DrawnInv
<1>3. \A k \in Nodes : params'[k] = params[k] \/ ~HasPicture(k)
  <2>1. DOMAIN params = Nodes
    BY DEF DialogInv, Shapes
  <2>2. params' = params \/ (params' = [params EXCEPT ![n] = <<>>] /\ n \in OwnName)
    BY DEF ConnectThrows
  <2>3. QED BY <2>1, <2>2 DEF HasPicture
<1>4. QED BY <1>1, <1>2, <1>3 DEF DrawnInv, PictureSaysParams, HasPicture

LEMMA DrawnKeeps ==
  ASSUME DialogInv, DrawnInv, [DialogNext]_dialogVars PROVE DrawnInv'
<1>1. CASE UNCHANGED dialogVars
  BY <1>1 DEF DrawnInv, PictureSaysParams, dialogVars, pageForm, pageData, mailbox
<1>2. ASSUME NEW n \in Nodes, Configure(n) \/ ConfigureCoded(n) PROVE DrawnInv'
  <2>1. /\ steps' = steps - 1 /\ steps > 0 /\ editors' \subseteq editors \cup {n}
        /\ UNCHANGED <<params, picture, fresh, lost>>
    BY <1>2 DEF Configure, ConfigureCoded, ShowForm, UserStep, mailbox
  <2>2. QED BY <2>1, OptionsDiffer DEF DrawnInv, PictureSaysParams
<1>3. CASE ClickConnection \/ BrowseFiles \/ SetMetaData \/ HideDialog
  <2>1. /\ steps' = steps - 1 /\ steps > 0
        /\ UNCHANGED <<editors, params, picture, fresh, lost>>
    BY <1>3 DEF ClickConnection, BrowseFiles, SetMetaData, HideDialog, UserStep, mailbox, pageData
  <2>2. QED BY <2>1, OptionsDiffer DEF DrawnInv, PictureSaysParams
<1>4. ASSUME NEW n \in Nodes, NEW v \in Values, ConnectEvent(n, v) \/ ConnectThrows(n, v)
      PROVE  DrawnInv'
  BY <1>4, ConnectDraws, ThrowDraws
<1>5. ASSUME NEW i \in 0 .. Text, NEW v \in Values, EditForm(i, v) PROVE DrawnInv'
  BY <1>5, EditDraws
<1>6. CASE Accept \/ NewPage
  <2>1. steps' = steps - 1 /\ steps > 0
    BY <1>6 DEF Accept, NewPage, UserStep
  <2>2. \/ CloseDialog
        \/ UNCHANGED <<editors, params, picture, fresh, lost>>
    BY <1>6 DEF Accept, NewPage, mailbox
  <2>3. steps' \in 0 .. Steps
    BY <2>1, OptionsDiffer DEF DrawnInv
  <2>4. CASE CloseDialog
    BY <2>3, <2>4, CloseDraws DEF DrawnInv
  <2>5. CASE UNCHANGED <<editors, params, picture, fresh, lost>>
    BY <2>3, <2>5 DEF DrawnInv, PictureSaysParams
  <2>6. QED BY <2>2, <2>4, <2>5
<1>7. CASE FadeEnds
  BY <1>7 DEF FadeEnds, DrawnInv, PictureSaysParams, pageData, mailbox
<1>8. ASSUME NEW m \in mail, Arrive(m) \/ GuardTold(m) \/ Fail(m) PROVE DrawnInv'
  <2>1. CASE UNCHANGED <<editors, params, picture, fresh, steps, lost>>
    BY <2>1 DEF DrawnInv, PictureSaysParams
  <2>2. CASE UNCHANGED <<editors, params, picture, fresh, steps>> /\ lost < Lost /\ lost' = lost + 1
    <3>1. lost' \in 0 .. Lost
      BY <2>2, OptionsDiffer DEF DrawnInv
    <3>2. QED BY <2>2, <3>1 DEF DrawnInv, PictureSaysParams
  <2>3. QED BY <1>8, <2>1, <2>2 DEF Arrive, GuardTold, Fail, pageForm, pageData
<1>9. QED BY <1>1, <1>2, <1>3, <1>4, <1>5, <1>6, <1>7, <1>8 DEF DialogNext

LEMMA DrawnCorrect == DialogSpec => []DrawnInv
<1>1. DialogInit => DrawnInv
  BY DrawnStarts
<1>2. DialogInv /\ DrawnInv /\ [DialogNext]_dialogVars => DrawnInv'
  BY DrawnKeeps
<1>3. QED BY <1>1, <1>2, DialogCorrect, PTL DEF DialogSpec

(* Whatever forms are read, changed and accepted, an event that is told to *)
(* be on is drawn on and one that is told to be off is drawn off, whether  *)
(* getParams or update drew it (start.js, timeout.js, lua.js).             *)
THEOREM PicturesAreRight == DialogSpec => []PictureSaysParams
<1>1. DrawnInv => PictureSaysParams
  BY DEF DrawnInv
<1>2. QED BY <1>1, DrawnCorrect, PTL

(* The types of the dialog follow from both invariants.                    *)
LEMMA DialogTyped == ASSUME DialogInv, DrawnInv PROVE DialogTypeOK
<1> USE DEF DialogInv
<1>1. /\ DOMAIN form.field \subseteq 0 .. Text
      /\ \A i \in DOMAIN form.field : form.field[i] \in Values \cup {Blank}
  <2>1. form.field \in FieldSets
    BY DEF Shapes
  <2>2. PICK D \in SUBSET (0 .. Text) : form.field \in [D -> Data]
    BY <2>1 DEF FieldSets
  <2>3. QED BY <2>2 DEF Data
<1>2. \A n \in Nodes : /\ DOMAIN params[n] \subseteq Attributes(n)
                       /\ \A a \in DOMAIN params[n] : params[n][a] \in Values \cup {Blank}
  BY ParamsInForm DEF Data
<1>3. /\ \A m \in mail : m.slot \in Slots /\ m.value \in Values \cup {Blank} /\ m.n \in 1 .. sentNo[m.slot]
      /\ \A s \in Slots : kept[s] \in Values \cup {Blank} /\ keptNo[s] \in 0 .. sentNo[s]
      /\ toldNo \in 0 .. sentNo[Guard]
  BY SlotFacts DEF Wire, Mails, Data
<1>4. UNION {editors, mixed, fresh} \subseteq Nodes
  BY DEF Shapes, DrawnInv
<1>5. QED BY <1>1, <1>2, <1>3, <1>4 DEF Shapes, DrawnInv, DialogTypeOK, Topics, Data
=============================================================================

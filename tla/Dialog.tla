------------------------------- MODULE Dialog -------------------------------
(***************************************************************************)
(* The one dialog of the editor page, which every form shares (main.js,    *)
(* node.js, connections.js, modules/*.js): its form, the function that     *)
(* closes it, the parameters a node reads from it, and the posts that take *)
(* them to the server one attribute at a time.  How a field is drawn is    *)
(* left out: a form is the values under its numbered fields, and a node    *)
(* that reads the form of another finds what has the number it looks for.  *)
(***************************************************************************)
EXTENDS Naturals, Sequences, FiniteSets

CONSTANTS
  Nodes,        (* nodes of the page, and how each reads the form:          *)
  Reads,        (* "visible", "always" (timeout) or "coded" (Lua)           *)
  Fields,       (* the attributes of its form, in order; an empty one is    *)
                (* a slider or an editor, which has no numbered field       *)
  Live,         (* nodes that take a field over as soon as it is changed    *)
  OwnName,      (* nodes whose id holds the name of their type              *)
  Switch,       (* the attribute a connection to an event changes           *)
  Obeys,        (* nodes whose getParams knows of that change               *)
  Values, Blank, Default,    (* what is typed; nothing; the first option    *)
  No,           (* and the option that turns an event off                   *)
  Steps,        (* the bound of a run: what the user does                   *)
  Lost          (* and how many posts fail                                  *)

Text == 9       (* the field of a form that is no node's                    *)
Guard == <<"arrow", "guard">>
Name == <<"behaviour", "name">>
Attributes(n) == {Fields[n][i] : i \in DOMAIN Fields[n]} \ {""}
Slots == (UNION {{<<n, a>> : a \in Attributes(n)} : n \in Nodes}) \cup {Guard, Name}

ASSUME DialogAssumption ==
  /\ Reads \in [Nodes -> {"visible", "always", "coded"}]
  /\ Fields \in [Nodes -> Seq(STRING)] /\ \A n \in Nodes : Len(Fields[n]) <= Text
  /\ Nodes \cap {Guard[1], Name[1]} = {} /\ OwnName \subseteq Nodes /\ Live \subseteq Nodes
  /\ Obeys \subseteq Nodes /\ \A n \in Nodes : Reads[n] = "always" => n \in Obeys
  /\ {Default, No} \subseteq Values /\ Default # No /\ Blank \notin Values
  /\ Steps \in Nat /\ Lost \in Nat

VARIABLES
  overlay,      (* #overwindow: "hidden", "shown", or "leaving" (fadeOut,   *)
                (* when it is still visible)                                *)
  form,         (* #content: what it is about, whose, and its fields        *)
  closer,       (* Main.closeDialog: what it is about, and whose            *)
  editors,      (* coded nodes whose editor was opened                      *)
  params,       (* Node.params, of the attributes it has                    *)
  picture,      (* on.png or off.png, on the canvas                         *)
  changing,     (* Node.changevalor while changeactivity is true, or Blank  *)
  guard, name,  (* of the connection and of the behaviour, on the page      *)
  present,      (* the nodes are on the page                                *)
  mail,         (* posts under way: slot, value, number, status             *)
  sentNo,       (* how many posts there were of each slot                   *)
  kept,         (* what the server keeps in each slot                       *)
  keptNo,       (* and the number of the post that brought it               *)
  toldNo,       (* the last guard the server confirmed                      *)
  (* history *)
  typed,        (* what was typed in the form of each node, or was there,   *)
                (* or what a connection told it                             *)
  mixed,        (* nodes that read a form of another                        *)
  unsent,       (* nodes whose parameters changed after they were sent      *)
  cleared,      (* the name was cleared after it was sent                   *)
  fresh,        (* nodes whose parameters are as they were loaded           *)
  steps, lost

pageForm == <<overlay, form, closer, editors, present>>
pageData == <<params, picture, fresh, changing, guard, name, typed, mixed, unsent, cleared>>
mailbox == <<mail, sentNo, kept, keptNo, toldNo, lost>>
dialogVars == <<pageForm, pageData, mailbox, steps>>

UserStep == steps > 0 /\ steps' = steps - 1
Visible == overlay # "hidden"

Mail(S) ==
  /\ sentNo' = [s \in Slots |-> sentNo[s] + Cardinality({m \in S : m[1] = s})]
  /\ mail' = mail \cup {[slot |-> m[1], value |-> m[2], n |-> sentNo[m[1]] + 1, status |-> "sent"] : m \in S}
  /\ UNCHANGED <<kept, keptNo, toldNo, lost>>

-----------------------------------------------------------------------------
(* Node.configure and its variants: showDialog, then the form of the node. *)
(* A select whose node has no value for it is left with none.              *)
FormOf(n) ==
  [i \in {j \in 0 .. Len(Fields[n]) - 1 : Fields[n][j + 1] # ""} |->
     IF Fields[n][i + 1] \in DOMAIN params[n] THEN params[n][Fields[n][i + 1]] ELSE Blank]

(* A dialog shown over another keeps its closing function. *)
ShowKeepingClose(what, who, field) ==
  /\ overlay' = "shown"
  /\ form' = [what |-> what, who |-> who, field |-> field]
  /\ closer' = IF Visible THEN closer ELSE [what |-> what, who |-> who]

ShowDialog(what, who, field) ==
  /\ overlay' = "shown"
  /\ form' = [what |-> what, who |-> who, field |-> field]
  /\ closer' = [what |-> what, who |-> who]

(* A click on the node, or the answer that it was created, whatever is     *)
(* shown by then.                                                          *)
ShowForm(n) ==
  /\ ShowDialog("node", n, FormOf(n))
  /\ typed' = [typed EXCEPT ![n] = @ \cup {<<Fields[n][i + 1], FormOf(n)[i]>> : i \in DOMAIN FormOf(n)}]
  /\ UNCHANGED <<params, picture, fresh, changing, guard, name, mixed, unsent, cleared>>

Configure(n) ==
  /\ UserStep /\ present /\ Reads[n] # "coded" /\ ShowForm(n)
  /\ UNCHANGED <<editors, present, mailbox>>

ConfigureCoded(n) ==
  /\ UserStep /\ present /\ Reads[n] = "coded" /\ ShowForm(n)
  /\ editors' = editors \cup {n}
  /\ UNCHANGED <<present, mailbox>>

(* getParams: the attributes a node finds in a form of these fields.       *)
Found(field, i) == IF i \in DOMAIN field THEN field[i] ELSE Blank
FromForm(n, field) ==
  [a \in Attributes(n) |-> Found(field, (CHOOSE i \in DOMAIN Fields[n] : Fields[n][i] = a) - 1)]
VisibleParams(n, field) == IF Visible THEN FromForm(n, field) ELSE params[n]
AlwaysParams(n, field) ==
  LET all == FromForm(n, field)
  IN [a \in {b \in Attributes(n) : n \notin OwnName /\ all[b] # Blank} |-> all[a]]
CodedParams(n, field) ==
  IF Visible /\ n \in OwnName THEN <<>> ELSE VisibleParams(n, field)
ReadParams(n, field) ==
  CASE Reads[n] = "always" -> AlwaysParams(n, field)
    [] Reads[n] = "coded" -> CodedParams(n, field)
    [] OTHER -> VisibleParams(n, field)
(* While changeactivity is true, changevalor replaces what was read of the *)
(* switch.                                                                 *)
Told(n, p, change) ==
  /\ Visible \/ Reads[n] = "always"
  /\ n \in Obeys \ OwnName /\ change # Blank /\ Switch \in DOMAIN p
GetParams(n, field, change) ==
  LET read == ReadParams(n, field)
  IN IF Told(n, read, change) THEN [read EXCEPT ![Switch] = change] ELSE read
OfAnother(n) ==
  /\ Visible \/ Reads[n] = "always"
  /\ form.what # "node" \/ form.who # n

(* What the node looks like: getParams shows an event on when the field    *)
(* has the first option, and update when the parameter is not No.  That of *)
(* a timeout wants the text of an option, which a number or an attribute   *)
(* that is not there is not.                                               *)
HasPicture(n) == Switch \in Attributes(n) /\ n \notin OwnName
Value(p) == IF Switch \in DOMAIN p THEN p[Switch] ELSE Blank
Shows(on) == IF on THEN "on" ELSE "off"
PictureRead(n, p) == Shows(~HasPicture(n) \/ Value(p) = Default)
PictureOfList(p) == Shows(Value(p) # No)
PictureOfTimer(p) == Shows(Value(p) = Default)
PictureUpdated(n, p) ==
  IF ~HasPicture(n) THEN "on"
  ELSE IF Reads[n] = "always" THEN PictureOfTimer(p) ELSE PictureOfList(p)

(* A field that is changed, and realtime_update of the nodes that have it. *)
EditForm(i, v) ==
  LET n == form.who
      new == [form.field EXCEPT ![i] = v]
  IN /\ UserStep /\ overlay = "shown" /\ i \in DOMAIN form.field
     /\ form' = [form EXCEPT !.field = new]
     /\ \/ /\ form.what = "node"
           /\ typed' = [typed EXCEPT ![n] = @ \cup {<<Fields[n][i + 1], v>>}]
           /\ \/ /\ n \in Live
                 /\ params' = [params EXCEPT ![n] = GetParams(n, new, changing[n])]
                 /\ picture' = [picture EXCEPT ![n] = PictureRead(n, params'[n])]
                 /\ unsent' = unsent \cup {n} /\ fresh' = fresh \ {n}
              \/ n \notin Live /\ UNCHANGED <<params, picture, unsent, fresh>>
        \/ form.what # "node" /\ UNCHANGED <<typed, params, picture, unsent, fresh>>
     /\ UNCHANGED <<overlay, closer, editors, present, changing, guard, name, mixed, cleared, mailbox>>

(* The node is drawn before its parameters are read. *)
DrawThenRead(n) ==
  /\ params' = [params EXCEPT ![n] = GetParams(n, form.field, changing[n])]
  /\ picture' = [picture EXCEPT ![n] = PictureUpdated(n, params[n])]
  /\ mixed' = IF OfAnother(n) THEN mixed \cup {n} ELSE mixed
  /\ fresh' = fresh \ {n}

(* acceptConfigure, and sendNodeParams.                                    *)
AcceptConfigure(n) ==
  /\ params' = [params EXCEPT ![n] = GetParams(n, form.field, changing[n])]
  /\ picture' = [picture EXCEPT ![n] = PictureUpdated(n, params'[n])]
  /\ mixed' = IF OfAnother(n) THEN mixed \cup {n} ELSE mixed
  /\ fresh' = fresh \ {n}

(* What was there before it is sent. *)
SendOld(n) ==
  /\ unsent' = unsent \ {n}
  /\ Mail({<<<<n, a>>, params[n][a]>> : a \in DOMAIN params[n]})

SendNodeParams(n) ==
  /\ unsent' = unsent \ {n}
  /\ Mail({<<<<n, a>>, params'[n][a]>> : a \in DOMAIN params'[n]})

(* main.closeDialog(), whatever function it is by now: acceptConfigure and *)
(* sendNodeParams of a node, the guard of an arrow, the name of the        *)
(* behaviour, or what the dialog of files does.                            *)
CloseDialog ==
  /\ overlay' = IF Visible THEN "leaving" ELSE overlay
  /\ CASE closer.what = "node" -> AcceptConfigure(closer.who) /\ SendNodeParams(closer.who)
       [] closer.what = "guard" -> Mail({<<Guard, Found(form.field, Text)>>})
       [] closer.what = "meta" -> Mail({<<Name, Found(form.field, Text)>>})
       [] OTHER -> UNCHANGED mailbox
  /\ closer.what # "node" => UNCHANGED <<params, picture, fresh, mixed, unsent>>
  /\ guard' = IF closer.what = "guard" THEN Found(form.field, Text) ELSE guard
  /\ UNCHANGED <<form, closer, editors, changing, typed>>

Accept ==
  /\ UserStep /\ Visible /\ CloseDialog
  /\ name' = IF closer.what = "meta" THEN Found(form.field, Text) ELSE name
  /\ cleared' = (cleared /\ closer.what # "meta")
  /\ UNCHANGED present

(* Its other buttons, delete and connect, leave the form as it is.         *)
HideDialog ==
  /\ UserStep /\ overlay = "shown" /\ form.what = "node"
  /\ overlay' = "leaving"
  /\ UNCHANGED <<form, closer, editors, present, pageData, mailbox>>

FadeEnds ==
  /\ overlay = "leaving" /\ overlay' = "hidden"
  /\ UNCHANGED <<form, closer, editors, present, pageData, mailbox, steps>>

(* Connection.click, BrowseFiles and setMetaData.  The last one closes     *)
(* what is visible instead: a download without a name comes to it from the *)
(* dialog of files, and does what Accept does.                             *)
ClickConnection ==
  /\ UserStep /\ ~Visible /\ present
  /\ ShowDialog("guard", "arrow", [i \in {Text} |-> guard])
  /\ UNCHANGED <<editors, present, pageData, mailbox>>

BrowseFiles ==
  /\ UserStep /\ ~Visible
  /\ ShowDialog("files", "", <<>>)
  /\ UNCHANGED <<editors, present, pageData, mailbox>>

SetMetaData ==
  /\ UserStep /\ ~Visible
  /\ ShowDialog("meta", "", [i \in {Text} |-> name])
  /\ UNCHANGED <<editors, present, pageData, mailbox>>

(* newBehaviour(): the nodes and the name go, and setMetaData is called,   *)
(* which closes a dialog that is still leaving once more.                  *)
NewPage ==
  /\ UserStep /\ present /\ overlay # "shown"
  /\ present' = FALSE
  /\ \/ /\ ~Visible /\ name' = Blank /\ cleared' = TRUE
        /\ ShowDialog("meta", "", [i \in {Text} |-> Blank])
        /\ UNCHANGED <<editors, params, picture, fresh, changing, guard, typed, mixed, unsent, mailbox>>
     \/ /\ Visible /\ CloseDialog
        /\ name' = IF closer.what = "meta" THEN Found(form.field, Text) ELSE Blank
        /\ cleared' = (closer.what # "meta")

(* Behaviour.connect and disconnect turn an event off and on by its        *)
(* acceptConfigure, between two changes of changeactivity; nothing is sent. *)
ConnectEvent(n, v) ==
  LET told == Told(n, ReadParams(n, form.field), v)
      drawn == Reads[n] = "always" /\ HasPicture(n)
  IN /\ UserStep /\ present /\ Switch \in Attributes(n)
     /\ Reads[n] = "coded" => n \in editors
     /\ params' = [params EXCEPT ![n] = GetParams(n, form.field, v)]
     /\ picture' = [picture EXCEPT ![n] = IF drawn THEN Shows(v = Default)
                                         ELSE PictureUpdated(n, params'[n])]
     /\ fresh' = fresh \ {n}
     /\ typed' = IF told THEN [typed EXCEPT ![n] = @ \cup {<<Switch, v>>}] ELSE typed
     /\ mixed' = IF OfAnother(n) THEN mixed \cup {n} ELSE mixed
     /\ unsent' = unsent \cup {n} /\ changing' = [changing EXCEPT ![n] = Blank]
     /\ UNCHANGED <<pageForm, guard, name, cleared, mailbox>>

(* A coded event whose editor was never opened throws in the middle of it: *)
(* in getParams, or after it when that left its parameters as they were or *)
(* took them all, which it does when it has its own name.  Nothing is      *)
(* drawn, and changeactivity stays true until a change of it succeeds.     *)
ConnectThrows(n, v) ==
  /\ UserStep /\ present /\ Switch \in Attributes(n)
  /\ Reads[n] = "coded" /\ n \notin editors
  /\ params' = IF Visible /\ n \in OwnName THEN [params EXCEPT ![n] = <<>>] ELSE params
  /\ unsent' = unsent \cup {n}
  /\ changing' = [changing EXCEPT ![n] = v]
  /\ typed' = [typed EXCEPT ![n] = @ \cup {<<Switch, v>>}]
  /\ UNCHANGED <<pageForm, picture, fresh, guard, name, mixed, cleared, mailbox>>

-----------------------------------------------------------------------------
(* The server takes a post that is for something it still has; the answer  *)
(* to a guard sets it again.                                               *)
Arrive(m) ==
  /\ m.status = "sent"
  /\ LET there == m.slot = Name \/ present
     IN /\ kept' = IF there THEN [kept EXCEPT ![m.slot] = m.value] ELSE kept
        /\ keptNo' = IF there THEN [keptNo EXCEPT ![m.slot] = m.n] ELSE keptNo
        /\ mail' = (mail \ {m}) \cup {[x EXCEPT !.status = IF there THEN "ok" ELSE "error"] : x \in {m} \cap {y \in mail : y.slot = Guard}}
  /\ UNCHANGED <<pageForm, pageData, sentNo, toldNo, lost, steps>>

GuardOf(m) == IF m.status = "ok" THEN m.value ELSE Blank
GuardTold(m) ==
  /\ m.status # "sent"
  /\ mail' = mail \ {m}
  /\ guard' = GuardOf(m)
  /\ toldNo' = IF m.status = "ok" THEN m.n ELSE 0
  /\ UNCHANGED <<pageForm, params, picture, fresh, changing, name, typed, mixed, unsent, cleared, sentNo, kept, keptNo, lost, steps>>

Fail(m) ==
  /\ lost < Lost /\ lost' = lost + 1 /\ m.status # "error"
  /\ mail' = (mail \ {m}) \cup {[x EXCEPT !.status = "error"] : x \in {m} \cap {y \in mail : y.slot = Guard}}
  /\ UNCHANGED <<pageForm, pageData, sentNo, kept, keptNo, toldNo, steps>>

-----------------------------------------------------------------------------
DialogInit ==
  /\ overlay = "hidden"
  /\ form = [what |-> "nothing", who |-> "", field |-> <<>>]
  /\ closer = [what |-> "nothing", who |-> ""]
  /\ editors = {} /\ present = TRUE
  /\ params = [n \in Nodes |-> [a \in Attributes(n) |-> Default]]
  /\ picture = [n \in Nodes |-> Shows(~HasPicture(n) \/ Reads[n] # "always")]
  /\ fresh = Nodes /\ guard = Blank /\ name = Blank
  /\ changing = [n \in Nodes |-> Blank]
  /\ mail = {} /\ sentNo = [s \in Slots |-> 0]
  /\ kept = [s \in Slots |-> IF s \in {Guard, Name} THEN Blank ELSE Default]
  /\ keptNo = [s \in Slots |-> 0] /\ toldNo = 0
  /\ typed = [n \in Nodes |-> {<<a, Default>> : a \in Attributes(n)}]
  /\ mixed = {} /\ unsent = {} /\ cleared = FALSE /\ steps = Steps /\ lost = 0

DialogNext ==
  \/ \E n \in Nodes : Configure(n) \/ ConfigureCoded(n) \/ \E v \in Values : ConnectEvent(n, v) \/ ConnectThrows(n, v)
  \/ \E i \in 0 .. Text, v \in Values : EditForm(i, v)
  \/ Accept \/ HideDialog \/ FadeEnds \/ ClickConnection \/ BrowseFiles \/ SetMetaData \/ NewPage
  \/ \E m \in mail : Arrive(m) \/ GuardTold(m) \/ Fail(m)
DialogSpec == DialogInit /\ [][DialogNext]_dialogVars

-----------------------------------------------------------------------------
(* Every field of the page and of the server has a value of its kind.      *)
DialogTypeOK ==
  /\ overlay \in {"hidden", "shown", "leaving"} /\ present \in BOOLEAN
  /\ form.what \in {"nothing", "node", "guard", "files", "meta"}
  /\ DOMAIN form.field \subseteq 0 .. Text
  /\ \A i \in DOMAIN form.field : form.field[i] \in Values \cup {Blank}
  /\ UNION {editors, mixed, fresh} \subseteq Nodes /\ picture \in [Nodes -> {"on", "off"}]
  /\ unsent \subseteq Nodes /\ cleared \in BOOLEAN
  /\ \A n \in Nodes : /\ DOMAIN params[n] \subseteq Attributes(n)
                       /\ \A a \in DOMAIN params[n] : params[n][a] \in Values \cup {Blank}
  /\ {guard, name} \subseteq Values \cup {Blank}
  /\ changing \in [Nodes -> Values \cup {Blank}]
  /\ \A m \in mail : m.slot \in Slots /\ m.value \in Values \cup {Blank} /\ m.n \in 1 .. sentNo[m.slot]
  /\ \A s \in Slots : kept[s] \in Values \cup {Blank} /\ keptNo[s] \in 0 .. sentNo[s]
  /\ toldNo \in 0 .. sentNo[Guard] /\ steps \in 0 .. Steps /\ lost \in 0 .. Lost

(* What is shown belongs to the function that will close it: Accept gives  *)
(* the values on the screen to the node, the arrow or the behaviour they   *)
(* were shown for (main.closeDialog is set apart from #content, in three   *)
(* ways); and a parameter of the server is one its node's own form had in  *)
(* that very field, unless the node read the form of another when it was   *)
(* connected (getParams), or it is the switch of an event whose code was   *)
(* not opened when it was connected, which threw (lua.js:148): from then   *)
(* on its Accept sends what the connection wanted, whatever its form says. *)
FormIsOwners == Visible => closer.what = form.what /\ closer.who = form.who
NoForeignParams ==
  \A n \in Nodes \ mixed : \A a \in Attributes(n) : <<a, kept[<<n, a>>]>> \in typed[n]
FormReadByOwner == FormIsOwners /\ NoForeignParams

(* When the last post of an attribute is the one the server took last, it  *)
(* has what the page shows of a node whose form was accepted after its     *)
(* last change (the attributes are posted one by one, some lost or late);  *)
(* the same of the guard once that post was answered too, and of the name  *)
(* if it was not cleared since.                                            *)
ParamsReachServer ==
  \A n \in Nodes \ unsent : \A a \in DOMAIN params[n] :
    keptNo[<<n, a>>] = sentNo[<<n, a>>] => kept[<<n, a>>] = params[n][a]
TextsReachServer ==
  /\ keptNo[Guard] = sentNo[Guard] /\ toldNo = sentNo[Guard] => guard = kept[Guard]
  /\ ~cleared /\ keptNo[Name] = sentNo[Name] => name = kept[Name]
ServerHasForms == ParamsReachServer /\ TextsReachServer

(* An event is drawn off when its parameter says off and on when it says   *)
(* on, whichever of getParams and update drew it last; not a timeout that  *)
(* was just loaded, which is drawn off though it is on (timeout.js:171).   *)
(* Of the value of another form getParams and update think differently.    *)
PictureSaysParams ==
  \A n \in Nodes : HasPicture(n) /\ ~(n \in fresh /\ Reads[n] = "always") =>
    /\ Value(params[n]) = No => picture[n] = "off"
    /\ Value(params[n]) = Default => picture[n] = "on"
=============================================================================

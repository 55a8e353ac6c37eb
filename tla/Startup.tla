------------------------------ MODULE Startup -------------------------------
(***************************************************************************)
(* How the editor page starts (server/static/js/node_factory.js, main.js): *)
(* it asks for the types, for the list of description files, then for all  *)
(* the files at once.  A description gives a type its button and a class   *)
(* of its own kind; the scripts it names replace that class once they ran, *)
(* which is after they are loaded.  When every file came and every script  *)
(* is loaded, main.ready() asks for the behaviour.                         *)
(***************************************************************************)
EXTENDS Naturals, FiniteSets

CONSTANTS
  Files,        (* description files, each with the types it describes      *)
  Scripts,      (* the scripts a type names                                 *)
  Waits,        (* scripts that a script's own require waits for            *)
  Registers,    (* types a script gives a class                             *)
  FirstTypes,   (* types of the nodes the server has                        *)
  Troubles,     (* how many requests may fail                               *)
  Clicks        (* how many nodes the user adds                             *)

Types == UNION {Files[f] : f \in DOMAIN Files}
AllScripts == DOMAIN Waits
ASSUME StartupAssumption ==
  /\ Files # <<>> /\ Scripts \in [Types -> SUBSET AllScripts]
  /\ Waits \in [AllScripts -> SUBSET AllScripts]
  /\ Registers \in [AllScripts -> SUBSET Types]
  /\ Troubles \in Nat /\ Clicks \in Nat

VARIABLES
  stage,        (* what was asked last: "types", "files", "nodes", "scripts"*)
                (* or, all being there, "ready"; "failed" when it never is  *)
  asked,        (* files asked for and not answered                         *)
  parsed,       (* files whose descriptions were read                       *)
  button,       (* types that have a button                                 *)
  class,        (* NodeFactory.known_types: "kind" or "own"                 *)
  javascripts,  (* scripts ready() waits for                                *)
  script,       (* of a script: "idle", "loading", "loaded", "ran", "lost"  *)
  refreshing,   (* the refresh of main.ready is under way                   *)
  shown,        (* types and classes of the nodes of the page               *)
  troubles, clicks,
  preempted     (* types that got a class before their description came     *)

startupVars == <<stage, asked, parsed, button, class, javascripts, script, refreshing, shown,
                 troubles, clicks, preempted>>
scripting == <<script, class, preempted>>
parsing == <<asked, parsed, button, javascripts>>

Trouble == troubles > 0 /\ troubles' = troubles - 1

-----------------------------------------------------------------------------
(* updateAvailableNodes.  None of the requests has an error handler: what  *)
(* fails is waited for for ever.                                           *)
TypesListed ==
  /\ stage = "types" /\ stage' = "files"
  /\ UNCHANGED <<parsing, scripting, refreshing, shown, troubles, clicks>>

FilesListed ==
  /\ stage = "files" /\ stage' = "nodes"
  /\ asked' = DOMAIN Files
  /\ UNCHANGED <<parsed, button, javascripts, scripting, refreshing, shown, troubles, clicks>>

(* Only one script is loaded at a time, and the others are forgotten. *)
FetchOne(S, old) ==
  [s \in AllScripts |-> IF s \in S /\ old[s] = "idle" /\ \A u \in AllScripts : old[u] # "loading"
                        THEN "loading" ELSE old[s]]

Fetch(S, old) == [s \in AllScripts |-> IF s \in S /\ old[s] = "idle" THEN "loading" ELSE old[s]]

(* The first file that came is enough. *)
SomeParsed(P) == P # {}

AllParsed(P) == P = DOMAIN Files
(* parseNodeDescription: a type that has a class already is passed over.   *)
NodeDescriptions(f) ==
  LET new == Files[f] \ DOMAIN class
      named == UNION {Scripts[t] : t \in new}
  IN /\ f \in asked
     /\ asked' = asked \ {f} /\ parsed' = parsed \cup {f}
     /\ button' = button \cup new
     /\ class' = [t \in DOMAIN class \cup new |-> IF t \in new THEN "kind" ELSE class[t]]
     /\ javascripts' = javascripts \cup named
     /\ script' = Fetch(named, script)
     /\ stage' = IF stage = "nodes" /\ AllParsed(parsed') THEN "scripts" ELSE stage
     /\ UNCHANGED <<refreshing, shown, troubles, clicks, preempted>>

RequestFails ==
  /\ Trouble
  /\ \/ stage \in {"types", "files"} /\ stage' = "failed" /\ UNCHANGED asked
     \/ \E f \in asked : asked' = asked \ {f} /\ stage' = "failed"
  /\ UNCHANGED <<parsed, button, javascripts, scripting, refreshing, shown, clicks>>

-----------------------------------------------------------------------------
(* A script is loaded when the browser has run it, but what it does waits  *)
(* in a require of its own, for scripts nobody else may have asked for.    *)
ScriptLoaded(s) ==
  /\ script[s] = "loading"
  /\ script' = Fetch(Waits[s], [script EXCEPT ![s] = "loaded"])
  /\ UNCHANGED <<stage, parsing, class, refreshing, shown, troubles, clicks, preempted>>

ScriptRuns(s) ==
  /\ script[s] = "loaded" /\ \A w \in Waits[s] : script[w] \in {"loaded", "ran"}
  /\ script' = [script EXCEPT ![s] = "ran"]
  /\ class' = [t \in DOMAIN class \cup Registers[s] |->
                 IF t \in Registers[s] THEN "own" ELSE class[t]]
  /\ preempted' = preempted \cup (Registers[s] \ DOMAIN class)
  /\ UNCHANGED <<stage, parsing, refreshing, shown, troubles, clicks>>

ScriptFails(s) ==
  /\ Trouble /\ script[s] = "loading"
  /\ script' = [script EXCEPT ![s] = "lost"]
  /\ UNCHANGED <<stage, parsing, class, refreshing, shown, clicks, preempted>>

(* main.ready(): refresh(), and the first bar of tools.                    *)
Ready ==
  /\ stage = "scripts" /\ \A s \in javascripts : script[s] \in {"loaded", "ran"}
  /\ stage' = "ready" /\ refreshing' = TRUE
  /\ UNCHANGED <<parsing, scripting, shown, troubles, clicks>>

(* A node is always made of the class of its kind. *)
MadeOfKind(t) == [type |-> t, class |-> "kind"]

(* A node is made by the class its type has by then; one of a type without *)
(* class ends the answer.                                                  *)
Made(t) == [type |-> t, class |-> class[t]]
BehaviourShown ==
  /\ refreshing /\ refreshing' = FALSE
  /\ \/ /\ FirstTypes \subseteq DOMAIN class
        /\ shown' = shown \cup {Made(t) : t \in FirstTypes}
     \/ /\ ~(FirstTypes \subseteq DOMAIN class)
        /\ \E T \in SUBSET (FirstTypes \cap DOMAIN class) :
             shown' = shown \cup {Made(t) : t \in T}
  /\ UNCHANGED <<stage, parsing, scripting, troubles, clicks>>

(* Buttons work as soon as they are there.                                 *)
ClickTool(t) ==
  /\ clicks > 0 /\ clicks' = clicks - 1
  /\ t \in button /\ shown' = shown \cup {Made(t)}
  /\ UNCHANGED <<stage, parsing, scripting, refreshing, troubles>>

StartupInit ==
  /\ stage = "types" /\ asked = {} /\ parsed = {} /\ button = {} /\ class = <<>>
  /\ javascripts = {} /\ script = [s \in AllScripts |-> "idle"]
  /\ refreshing = FALSE /\ shown = {} /\ troubles = Troubles /\ clicks = Clicks
  /\ preempted = {}

Browser ==
  \/ TypesListed \/ FilesListed \/ Ready \/ BehaviourShown
  \/ \E f \in DOMAIN Files : NodeDescriptions(f)
  \/ \E s \in AllScripts : ScriptLoaded(s) \/ ScriptRuns(s)
StartupNext ==
  \/ Browser \/ RequestFails
  \/ \E s \in AllScripts : ScriptFails(s)
  \/ \E t \in Types : ClickTool(t)
StartupSpec == StartupInit /\ [][StartupNext]_startupVars /\ WF_startupVars(Browser)
-----------------------------------------------------------------------------
(* Properties.                                                             *)

(* Types of the state.                                                     *)
StartupTypeOK ==
  /\ stage \in {"types", "files", "nodes", "scripts", "ready", "failed"}
  /\ asked \subseteq DOMAIN Files /\ parsed \subseteq DOMAIN Files
  /\ DOMAIN class \subseteq Types /\ button \subseteq DOMAIN class
  /\ javascripts \subseteq AllScripts
  /\ script \in [AllScripts -> {"idle", "loading", "loaded", "ran", "lost"}]

(* When the behaviour is asked for, every type has its button, unless a    *)
(* script of another file gave it a class before its description came:     *)
(* then it never gets one (node_factory.js:56).                            *)
EveryTypeHasButton == stage = "ready" => button = Types \ preempted

(* A node shown with the class of its kind was made before the script of   *)
(* its type had run: main.ready waits until scripts are loaded, and their  *)
(* classes come later (node_factory.js:27, modules/*.js).                  *)
KindBeforeScript ==
  [][\A n \in shown' \ shown : n.class = "kind" =>
       \A s \in AllScripts : n.type \in Registers[s] => script[s] # "ran"]_startupVars

(* The page is ready in the end and every script that can run has run, or  *)
(* a request failed (updateAvailableNodes).                                *)
StartupEnds ==
  <>(\/ stage = "ready" /\ ~refreshing
        /\ \A s \in javascripts : script[s] = "ran"
     \/ troubles < Troubles)
=============================================================================

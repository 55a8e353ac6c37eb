----------------------------- MODULE PageProofs -----------------------------
(***************************************************************************)
(* The start of the page, for every set of description files, scripts and  *)
(* requires, and whatever fails or is clicked meanwhile; the dates of the  *)
(* alarms and the file browser, for every number of alarms and every tree  *)
(* of folders; and that what is proved of the parts holds of the page made *)
(* of them.                                                                *)
(***************************************************************************)
EXTENDS Page, CanvasProofs, DialogProofs, SequenceTheorems

-----------------------------------------------------------------------------
(* The start of the page.                                                  *)
ScriptStates == {"idle", "loading", "loaded", "ran", "lost"}

(* A type has a class when it has a button or a script was first, never    *)
(* both; a script that ran has given its types their own class; and the    *)
(* page asks for its nodes when every file was read.                       *)
StartupInv ==
  /\ StartupTypeOK
  /\ DOMAIN class = button \cup preempted /\ button \cap preempted = {}
  /\ \A f \in parsed : Files[f] \subseteq DOMAIN class
  /\ stage \in {"scripts", "ready"} => parsed = DOMAIN Files
  /\ \A s \in AllScripts : script[s] = "ran" =>
       \A t \in Registers[s] : t \in DOMAIN class /\ class[t] = "own"

LEMMA FetchLoads ==
  ASSUME NEW S, NEW old \in [AllScripts -> ScriptStates]
  PROVE  /\ Fetch(S, old) \in [AllScripts -> ScriptStates]
         /\ \A s \in AllScripts : Fetch(S, old)[s] = "ran" <=> old[s] = "ran"
BY DEF Fetch, ScriptStates

LEMMA StartupStarts == ASSUME StartupInit PROVE StartupInv
<1>1. class = <<>> /\ DOMAIN class = {}
  BY DEF StartupInit
<1>2. script \in [AllScripts -> ScriptStates] /\ \A s \in AllScripts : script[s] # "ran"
  BY DEF StartupInit, ScriptStates
<1>3. QED BY <1>1, <1>2 DEF StartupInit, StartupInv, StartupTypeOK, ScriptStates

LEMMA DescriptionsKeep ==
  ASSUME StartupInv, NEW f \in DOMAIN Files, NodeDescriptions(f) PROVE StartupInv'
<1> USE DEF StartupInv
<1> DEFINE new == Files[f] \ DOMAIN class
           named == UNION {Scripts[t] : t \in new}
<1>1. /\ asked' = asked \ {f} /\ parsed' = parsed \cup {f} /\ f \in asked
      /\ button' = button \cup new
      /\ class' = [t \in DOMAIN class \cup new |-> IF t \in new THEN "kind" ELSE class[t]]
      /\ javascripts' = javascripts \cup named
      /\ script' = Fetch(named, script)
      /\ stage' = IF stage = "nodes" /\ parsed' = DOMAIN Files THEN "scripts" ELSE stage
      /\ preempted' = preempted
  BY DEF NodeDescriptions, AllParsed
<1>2. Files[f] \subseteq Types /\ new \subseteq Types
  BY DEF Types
<1>3. named \subseteq AllScripts
  BY <1>2, StartupAssumption
<1>4. script \in [AllScripts -> ScriptStates]
  BY DEF StartupTypeOK, ScriptStates
<1>5. /\ script' \in [AllScripts -> ScriptStates]
      /\ \A s \in AllScripts : script'[s] = "ran" <=> script[s] = "ran"
  BY <1>1, <1>4, FetchLoads
<1>6. /\ DOMAIN class' = DOMAIN class \cup new
      /\ \A t \in DOMAIN class : class'[t] = class[t]
  BY <1>1
<1> HIDE DEF new, named
<1>7. StartupTypeOK'
  BY <1>1, <1>2, <1>3, <1>5, <1>6 DEF StartupTypeOK, ScriptStates
<1>8. DOMAIN class' = button' \cup preempted' /\ button' \cap preempted' = {}
  BY <1>1, <1>6 DEF new
<1>9. \A g \in parsed' : Files[g] \subseteq DOMAIN class'
  BY <1>1, <1>6 DEF new
<1>10. stage' \in {"scripts", "ready"} => parsed' = DOMAIN Files
  BY <1>1 DEF StartupTypeOK
<1>11. \A s \in AllScripts : script'[s] = "ran" =>
         \A t \in Registers[s] : t \in DOMAIN class' /\ class'[t] = "own"
  BY <1>5, <1>6
<1>12. QED BY <1>7, <1>8, <1>9, <1>10, <1>11

LEMMA ScriptRunsKeeps ==
  ASSUME StartupInv, NEW s \in AllScripts, ScriptRuns(s) PROVE StartupInv'
<1> USE DEF StartupInv
<1>1. /\ script' = [script EXCEPT ![s] = "ran"]
      /\ class' = [t \in DOMAIN class \cup Registers[s] |->
                     IF t \in Registers[s] THEN "own" ELSE class[t]]
      /\ preempted' = preempted \cup (Registers[s] \ DOMAIN class)
      /\ UNCHANGED <<stage, parsing>>
  BY DEF ScriptRuns
<1>2. Registers[s] \subseteq Types
  BY StartupAssumption
<1>3. /\ DOMAIN class' = DOMAIN class \cup Registers[s]
      /\ \A t \in Registers[s] : class'[t] = "own"
      /\ \A t \in DOMAIN class : class'[t] = "own" \/ class'[t] = class[t]
  BY <1>1
<1>4. /\ script \in [AllScripts -> ScriptStates] /\ script' \in [AllScripts -> ScriptStates]
      /\ \A u \in AllScripts : u # s => script'[u] = script[u]
  BY <1>1 DEF StartupTypeOK, ScriptStates
<1>5. StartupTypeOK'
  BY <1>1, <1>2, <1>3, <1>4 DEF StartupTypeOK, ScriptStates, parsing
<1>6. \A u \in AllScripts : script'[u] = "ran" =>
        \A t \in Registers[u] : t \in DOMAIN class' /\ class'[t] = "own"
  BY <1>3, <1>4
<1>7. DOMAIN class' = button' \cup preempted' /\ button' \cap preempted' = {}
  BY <1>1, <1>3 DEF parsing
<1>8. \A g \in parsed' : Files[g] \subseteq DOMAIN class'
  BY <1>1, <1>3 DEF parsing
<1>9. QED BY <1>1, <1>5, <1>6, <1>7, <1>8 DEF parsing

LEMMA StartupKeeps == ASSUME StartupInv, [StartupNext]_startupVars PROVE StartupInv'
<1> USE DEF StartupInv
<1>1. CASE TypesListed \/ FilesListed
  BY <1>1 DEF TypesListed, FilesListed, StartupTypeOK, parsing, scripting
<1>2. CASE RequestFails
  BY <1>2 DEF RequestFails, StartupTypeOK, parsing, scripting
<1>3. ASSUME NEW f \in DOMAIN Files, NodeDescriptions(f) PROVE StartupInv'
  BY <1>3, DescriptionsKeep
<1>4. ASSUME NEW s \in AllScripts, ScriptRuns(s) PROVE StartupInv'
  BY <1>4, ScriptRunsKeeps
<1>5. ASSUME NEW s \in AllScripts, ScriptLoaded(s) \/ ScriptFails(s) PROVE StartupInv'
  <2>1. /\ UNCHANGED <<stage, parsing, class, preempted>>
        /\ script' = Fetch(Waits[s], [script EXCEPT ![s] = "loaded"])
           \/ script' = [script EXCEPT ![s] = "lost"]
    BY <1>5 DEF ScriptLoaded, ScriptFails
  <2>2. /\ script \in [AllScripts -> ScriptStates]
        /\ [script EXCEPT ![s] = "loaded"] \in [AllScripts -> ScriptStates]
        /\ [script EXCEPT ![s] = "lost"] \in [AllScripts -> ScriptStates]
    BY DEF StartupTypeOK, ScriptStates
  <2>3. /\ script' \in [AllScripts -> ScriptStates]
        /\ \A u \in AllScripts : script'[u] = "ran" => script[u] = "ran"
    <3>1. CASE script' = Fetch(Waits[s], [script EXCEPT ![s] = "loaded"])
      <4>1. \A u \in AllScripts : [script EXCEPT ![s] = "loaded"][u] = "ran" => script[u] = "ran"
        BY <2>2
      <4>2. QED BY <2>2, <3>1, <4>1, FetchLoads
    <3>2. CASE script' = [script EXCEPT ![s] = "lost"]
      BY <2>2, <3>2
    <3>3. QED BY <2>1, <3>1, <3>2
  <2>4. QED BY <2>1, <2>3 DEF StartupTypeOK, ScriptStates, parsing
<1>6. CASE Ready
  BY <1>6 DEF Ready, StartupTypeOK, parsing, scripting
<1>7. CASE BehaviourShown \/ \E t \in Types : ClickTool(t)
  BY <1>7 DEF BehaviourShown, ClickTool, StartupTypeOK, parsing, scripting
<1>8. CASE UNCHANGED startupVars
  BY <1>8 DEF startupVars, StartupTypeOK
<1>9. QED BY <1>1, <1>2, <1>3, <1>4, <1>5, <1>6, <1>7, <1>8 DEF StartupNext, Browser

(* The invariant of the start.                                             *)
THEOREM StartupCorrect == StartupSpec => []StartupInv
<1>1. StartupInit => StartupInv
  BY StartupStarts
<1>2. StartupInv /\ [StartupNext]_startupVars => StartupInv'
  BY StartupKeeps
<1>3. QED BY <1>1, <1>2, PTL DEF StartupSpec

(* A page that is ready has a button for every type but those a script     *)
(* was faster to define (parseNodeDescription).                            *)
THEOREM ButtonsComplete == StartupSpec => []EveryTypeHasButton
<1>1. StartupInv => EveryTypeHasButton
  BY DEF StartupInv, StartupTypeOK, EveryTypeHasButton, Types
<1>2. QED BY <1>1, StartupCorrect, PTL

(* A node gets the class of its kind only when no script of its type ran.  *)
THEOREM ClassOfScript == StartupSpec => KindBeforeScript
<1>1. ASSUME StartupInv, [StartupNext]_startupVars
      PROVE  [\A n \in shown' \ shown : n.class = "kind" =>
                \A s \in AllScripts : n.type \in Registers[s] => script[s] # "ran"]_startupVars
  <2> SUFFICES ASSUME StartupNext, NEW n \in shown' \ shown, n.class = "kind",
                      NEW s \in AllScripts, n.type \in Registers[s], script[s] = "ran"
               PROVE  FALSE
    BY <1>1
  <2>1. \E t \in DOMAIN class : n = Made(t)
    <3>1. CASE BehaviourShown
      BY <3>1 DEF BehaviourShown
    <3>2. ASSUME NEW t \in Types, ClickTool(t) PROVE \E u \in DOMAIN class : n = Made(u)
      BY <1>1, <3>2 DEF ClickTool, StartupInv
    <3>3. QED
      BY <3>1, <3>2 DEF StartupNext, Browser, TypesListed, FilesListed, NodeDescriptions,
         ScriptLoaded, ScriptRuns, Ready, RequestFails, ScriptFails
  <2>2. n.class = class[n.type]
    BY <2>1 DEF Made
  <2>3. QED BY <1>1, <2>2 DEF StartupInv
<1>2. QED BY <1>1, StartupCorrect, PTL DEF StartupSpec, KindBeforeScript

-----------------------------------------------------------------------------
(* The inductive invariant of the alarms: the list of days is of the month *)
(* it was last made for, and the form that is visible shows the date over  *)
(* it, of the alarms that read no other form nor over another list.        *)
AlarmMonths == Months \cup {NoMonth}
AllDates == [day : Nat, month : AlarmMonths]
Sound == Alarms \ (strayed \cup misread)
AlarmInv ==
  /\ days \in Nat /\ month \in AlarmMonths /\ day \in Nat
  /\ date \in [Alarms -> AllDates] /\ server \in [Alarms -> AllDates]
  /\ whose \subseteq Alarms /\ \A a, b \in whose : a = b
  /\ \/ listFor = {} /\ days = 31 /\ edited = {}
     \/ listFor # {} /\ \A m \in listFor : days = DayList(m)
  /\ \A a \in whose \cap Sound : window # "hidden" =>
       /\ month = date[a].month /\ day <= days
       /\ a \notin edited => day = IF date[a].day <= days THEN date[a].day ELSE 0
  /\ \A a \in Sound : date[a].month \in Months /\ (a \notin edited => date[a] = FirstDates[a])
  /\ AlarmDates

LEMMA ListOfMonth ==
  /\ \A m \in Months : DayList(m) = LastDay[m]
  /\ \A m \in AlarmMonths : DayList(m) \in 28 .. 31
BY AlarmAssumption DEF DayList

LEMMA AllAreDates ==
  /\ \A d \in Nat, m \in AlarmMonths : /\ ReadDate(d, m) \in AllDates
                                      /\ ReadDate(d, m).month = m /\ ReadDate(d, m).day # 0
  /\ \A a \in Alarms : FirstDates[a] \in AllDates /\ Real(FirstDates[a])
<1>1. \A a \in Alarms : FirstDates[a] \in [day : Nat, month : Months] /\ Real(FirstDates[a])
  BY AlarmAssumption
<1>2. QED BY <1>1 DEF AllDates, AlarmMonths, ReadDate, DateOf

(* What is read from an alarm's own form is a date that exists, and the    *)
(* first one when nothing was changed, unless the list of days was made    *)
(* for another month.                                                      *)
LEMMA AcceptReads ==
  ASSUME AlarmInv, NEW a \in Sound, a \in whose, window # "hidden", listFor \subseteq {month}
  PROVE  /\ Real(ReadDate(day, month))
         /\ a \notin edited => ReadDate(day, month) = FirstDates[a] /\ day = FirstDates[a].day
<1>1. /\ date[a] \in AllDates /\ month = date[a].month /\ month \in Months /\ day <= days
      /\ day \in Nat /\ days \in Nat
      /\ a \notin edited => day = IF date[a].day <= days THEN date[a].day ELSE 0
      /\ a \notin edited => date[a] = FirstDates[a]
  BY DEF AlarmInv, Sound
<1>2. /\ FirstDates[a] \in AllDates /\ FirstDates[a].day <= LastDay[FirstDates[a].month]
      /\ FirstDates[a].day >= 1
  <2>1. FirstDates[a] \in AllDates /\ Real(FirstDates[a])
    BY AllAreDates DEF Sound
  <2>2. LastDay[FirstDates[a].month] \in 28 .. 31
    BY <2>1, ListOfMonth DEF Real, AlarmMonths
  <2>3. QED BY <2>1, <2>2 DEF Real, AllDates
<1>3. LastDay[month] \in 28 .. 31 /\ DayList(month) = LastDay[month]
  BY <1>1, ListOfMonth DEF AlarmMonths
<1>4. days = LastDay[month] \/ (days = 31 /\ a \notin edited)
  BY <1>3 DEF AlarmInv
<1>5. ASSUME a \notin edited PROVE ReadDate(day, month) = FirstDates[a] /\ day = FirstDates[a].day
  <2>1. day = FirstDates[a].day /\ month = FirstDates[a].month /\ day # 0
    BY <1>1, <1>2, <1>3, <1>4, <1>5 DEF AllDates
  <2>2. QED BY <1>2, <2>1 DEF ReadDate, DateOf, AllDates
<1>6. Real(ReadDate(day, month))
  <2>1. CASE a \notin edited
    BY <1>5, <2>1, AllAreDates DEF Sound
  <2>2. CASE a \in edited
    <3>1. day \in 0 .. LastDay[month]
      BY <1>1, <1>4, <2>2
    <3>2. QED BY <1>1, <1>3, <3>1 DEF Real, ReadDate, DateOf
  <2>3. QED BY <2>1, <2>2
<1>7. QED BY <1>5, <1>6

LEMMA AlarmStarts == ASSUME AlarmInit PROVE AlarmInv
<1> USE DEF AlarmInit
<1>1. date \in [Alarms -> AllDates] /\ server \in [Alarms -> AllDates]
  BY AllAreDates, AlarmAssumption
<1>2. \A a \in Alarms : Real(FirstDates[a]) /\ FirstDates[a].month \in Months
  BY AllAreDates DEF Real
<1>3. AlarmDates
  BY <1>2 DEF AlarmDates
<1>4. QED BY <1>1, <1>2, <1>3 DEF AlarmInv, Sound, AlarmMonths

LEMMA ChangeKeeps ==
  ASSUME AlarmInv, NEW a \in Alarms, NEW d \in Nat, NEW m \in AlarmMonths, Change(a, d, m),
         m = month \/ m \in Months
  PROVE  AlarmInv'
<1> DEFINE new == ReadDate(d, m)
           same == <<d, m>> = <<day, month>>
<1>1. /\ a \in whose /\ window = "shown" /\ date' = [date EXCEPT ![a] = new] /\ days' = DayList(m)
      /\ listFor' = {m} /\ day' = (IF new.day <= DayList(m) THEN new.day ELSE 0) /\ month' = new.month
      /\ edited' = (IF same THEN edited ELSE edited \cup {a})
      /\ strayed' = (IF same THEN Stray(a) ELSE strayed)
      /\ UNCHANGED <<window, whose, server, misread>>
  BY DEF Change, Fill
<1>2. new \in AllDates /\ new.month = m
  BY AllAreDates
<1>3. same => new = ReadDate(day, month)
  OBVIOUS
<1>4. Sound' \subseteq Sound
  BY <1>1 DEF Sound, Stray
<1>5. ASSUME a \in Sound' PROVE m \in Months /\ (a \notin edited' => new = FirstDates[a])
  <2>1. a \in Sound
    BY <1>4, <1>5
  <2>2. month = date[a].month /\ date[a].month \in Months
    BY <1>1, <2>1 DEF AlarmInv
  <2>3. a \notin edited' => same /\ a \notin edited /\ listFor \subseteq {month}
    BY <1>1, <1>5 DEF Sound, Stray
  <2>4. QED BY <1>1, <1>3, <2>1, <2>2, <2>3, AcceptReads
<1> HIDE DEF new, same
<1>6. /\ date' \in [Alarms -> AllDates] /\ date'[a] = new /\ \A b \in Alarms : b # a => date'[b] = date[b]
  BY <1>1, <1>2 DEF AlarmInv
<1>7. days' \in Nat /\ day' \in Nat /\ month' = m /\ day' <= days'
  BY <1>1, <1>2, ListOfMonth DEF AllDates
<1>8. \A b \in whose' : b = a
  BY <1>1 DEF AlarmInv
<1>9. \A b \in whose' \cap Sound' : window' # "hidden" =>
        /\ month' = date'[b].month /\ day' <= days'
        /\ b \notin edited' => day' = IF date'[b].day <= days' THEN date'[b].day ELSE 0
  BY <1>1, <1>2, <1>6, <1>7, <1>8
<1>10. \A b \in Sound' : date'[b].month \in Months /\ (b \notin edited' => date'[b] = FirstDates[b])
  <2>1. \A b \in Sound' : b # a => date'[b] = date[b] /\ b \in Sound /\ (b \notin edited' => b \notin edited)
    BY <1>1, <1>4, <1>6 DEF Sound
  <2>2. QED BY <1>2, <1>5, <1>6, <2>1 DEF AlarmInv
<1>11. AlarmDates'
  <2>1. strayed \subseteq strayed' /\ edited \subseteq edited'
    BY <1>1 DEF Stray
  <2>2. QED BY <1>1, <2>1 DEF AlarmInv, AlarmDates, Real
<1>12. whose' \subseteq Alarms /\ \A b, c \in whose' : b = c
  BY <1>1 DEF AlarmInv
<1>13. listFor' # {} /\ \A n \in listFor' : days' = DayList(n)
  BY <1>1
<1>14. server' \in [Alarms -> AllDates]
  BY <1>1 DEF AlarmInv
<1>15. QED BY <1>6, <1>7, <1>9, <1>10, <1>11, <1>12, <1>13, <1>14 DEF AlarmInv

(* Accept and a connection read the form, or another one.                  *)
LEMMA ReadKeeps ==
  ASSUME AlarmInv, NEW a \in Alarms, NEW new \in AllDates, window # "hidden",
         date' = [date EXCEPT ![a] = new],
         server' = server \/ (server' = [server EXCEPT ![a] = new] /\ a \in whose),
         IF a \in whose THEN new = ReadDate(day, month) /\ strayed' = Stray(a) /\ misread' = misread
                        ELSE strayed' = strayed /\ misread' = misread \cup {a},
         UNCHANGED <<days, whose, day, month, listFor, edited>>
  PROVE  AlarmInv'
<1>1. Sound' \subseteq Sound /\ (a \in Sound' => a \in whose /\ listFor \subseteq {month})
  BY DEF Sound, Stray
<1>2. a \in Sound' => new = ReadDate(day, month) /\ Real(new)
                      /\ (a \notin edited => new = FirstDates[a] /\ day = FirstDates[a].day)
  BY <1>1, AcceptReads
<1>3. /\ date' \in [Alarms -> AllDates] /\ date'[a] = new /\ \A b \in Alarms : b # a => date'[b] = date[b]
      /\ server' \in [Alarms -> AllDates] /\ \A b \in Alarms : b # a => server'[b] = server[b]
      /\ server'[a] = server[a] \/ server'[a] = new
  BY DEF AlarmInv
<1>4. \A b \in Sound' : b # a => date'[b] = date[b] /\ server'[b] = server[b] /\ b \in Sound
  BY <1>1, <1>3 DEF Sound
<1>5. \A b \in whose' \cap Sound' : window' # "hidden" =>
        /\ month' = date'[b].month /\ day' <= days'
        /\ b \notin edited' => day' = IF date'[b].day <= days' THEN date'[b].day ELSE 0
  <2> SUFFICES ASSUME NEW b \in whose \cap Sound'
               PROVE  /\ month = date'[b].month /\ day <= days
                      /\ b \notin edited => day = IF date'[b].day <= days THEN date'[b].day ELSE 0
    OBVIOUS
  <2>1. b \in Sound /\ month = date[b].month /\ day <= days
        /\ (b \notin edited => day = IF date[b].day <= days THEN date[b].day ELSE 0)
    BY <1>1 DEF AlarmInv
  <2>2. CASE b # a
    BY <1>4, <2>1, <2>2
  <2>3. CASE b = a
    <3>1. date'[b] = ReadDate(day, month) /\ month \in AlarmMonths /\ day \in Nat
      BY <1>2, <1>3, <2>3 DEF AlarmInv
    <3>2. date'[b].month = month
      BY <3>1, AllAreDates
    <3>3. b \notin edited => date'[b].day = day
      BY <1>2, <1>3, <2>3
    <3>4. QED BY <2>1, <3>2, <3>3
  <2>4. QED BY <2>2, <2>3
<1>6. \A b \in Sound' : date'[b].month \in Months /\ (b \notin edited' => date'[b] = FirstDates[b])
  BY <1>2, <1>3, <1>4 DEF AlarmInv, Real
<1>7. AlarmDates'
  <2> SUFFICES ASSUME NEW b \in Sound'
               PROVE  Real(server'[b]) /\ (b \notin edited => server'[b] = FirstDates[b])
    BY DEF AlarmDates, Real, Sound
  <2>1. b \in Sound /\ b \in Alarms
    BY <1>1 DEF Sound
  <2>2. Real(server[b]) /\ (b \notin edited => server[b] = FirstDates[b])
    BY <2>1 DEF AlarmInv, AlarmDates, Sound
  <2>3. QED BY <1>2, <1>3, <2>1, <2>2
<1>8. QED BY <1>3, <1>5, <1>6, <1>7 DEF AlarmInv

LEMMA AlarmKeeps == ASSUME AlarmInv, [AlarmNext]_alarmVars PROVE AlarmInv'
<1>1. ASSUME NEW a \in Alarms, ConfigureAlarm(a) PROVE AlarmInv'
  <2>1. date[a] \in AllDates
    BY DEF AlarmInv
  <2>2. day' \in Nat /\ month' = date[a].month /\ month' \in AlarmMonths /\ day' <= days
        /\ day' = IF date[a].day <= days THEN date[a].day ELSE 0
    BY <1>1, <2>1 DEF ConfigureAlarm, Fill, AllDates, AlarmInv
  <2>3. UNCHANGED <<days, date, server, listFor, alarmHistory>> /\ whose' = {a}
    BY <1>1 DEF ConfigureAlarm
  <2>4. QED BY <2>2, <2>3 DEF AlarmInv, AlarmDates, Real, Sound, alarmHistory
<1>2. CASE OtherForm
  BY <1>2 DEF AlarmInv, AlarmDates, Real, Sound, alarmHistory, AlarmMonths, OtherForm
<1>3. ASSUME NEW a \in Alarms, AcceptAlarm(a) PROVE AlarmInv'
  <2>1. ReadDate(day, month) \in AllDates
    BY AllAreDates DEF AlarmInv
  <2>2. QED BY <1>3, <2>1, ReadKeeps DEF AcceptAlarm
<1>4. ASSUME NEW a \in Alarms, ConnectAlarm(a) PROVE AlarmInv'
  <2>1. PICK d \in IF whose = {} THEN OfOtherForm ELSE {ReadDate(day, month)} :
          date' = [date EXCEPT ![a] = d]
    BY <1>4 DEF ConnectAlarm
  <2>2. ReadDate(day, month) \in AllDates /\ OfOtherForm \subseteq AllDates
    BY AllAreDates DEF AlarmInv, OfOtherForm, AllDates, AlarmMonths
  <2>3. d \in AllDates /\ (a \in whose => d = ReadDate(day, month))
    BY <2>1, <2>2
  <2>4. QED BY <1>4, <2>1, <2>3, ReadKeeps DEF ConnectAlarm, alarmForm
<1>5. CASE LeaveAlarm \/ FormGone
  BY <1>5 DEF AlarmInv, AlarmDates, Real, Sound, alarmHistory, LeaveAlarm, FormGone
<1>6. CASE ReloadAlarms
  BY <1>6 DEF AlarmInv, AlarmDates, Real, Sound, alarmHistory, alarmForm, ReloadAlarms
<1>7. CASE UNCHANGED alarmVars
  BY <1>7 DEF AlarmInv, AlarmDates, Real, Sound, alarmHistory, alarmForm, alarmVars
<1>8. month \in AlarmMonths /\ day \in Nat /\ \A d \in Picks \cap 1 .. days : d \in Nat
  BY DEF AlarmInv
<1>9. \A m \in Months : m \in AlarmMonths
  BY DEF AlarmMonths
<1>10. CASE \E a \in Alarms : \/ Change(a, day, month)
                              \/ \E d \in Picks \cap 1 .. days : Change(a, d, month)
                              \/ \E m \in Months : Change(a, day, m)
  BY <1>8, <1>9, <1>10, ChangeKeeps
<1>11. QED BY <1>1, <1>2, <1>3, <1>4, <1>5, <1>6, <1>7, <1>10 DEF AlarmNext

(* Their types: a day that is picked is in the list, which has 31 at most. *)
LEMMA AlarmTyped ==
  /\ AlarmInit => AlarmTypeOK
  /\ AlarmTypeOK /\ [AlarmNext]_alarmVars => AlarmTypeOK'
<1>1. ASSUME AlarmInit PROVE AlarmTypeOK
  <2>1. \A a \in Alarms : FirstDates[a] \in Dates
    <3> SUFFICES ASSUME NEW a \in Alarms PROVE FirstDates[a] \in Dates
      OBVIOUS
    <3>1. FirstDates[a] \in [day : Nat, month : Months] /\ Real(FirstDates[a])
      BY AlarmAssumption
    <3>2. FirstDates[a].day \in 0 .. 31
      BY <3>1, ListOfMonth DEF Real, AlarmMonths
    <3>3. QED BY <3>1, <3>2 DEF Dates
  <2>2. FirstDates \in [Alarms -> Dates] /\ Turns \in Nat
    BY <2>1, AlarmAssumption
  <2>3. QED BY <1>1, <2>2 DEF AlarmInit, AlarmTypeOK
<1>2. ASSUME AlarmTypeOK, [AlarmNext]_alarmVars PROVE AlarmTypeOK'
  <2>1. \A d \in 0 .. 31, m \in AlarmMonths : ReadDate(d, m) \in Dates
    BY DEF ReadDate, DateOf, Dates, AlarmMonths
  <2>2. \A d \in Dates, n \in 28 .. 31 : (IF d.day <= n THEN d.day ELSE 0) \in 0 .. 31 /\ d.month \in AlarmMonths
    BY DEF Dates, AlarmMonths
  <2>3. Turn => turns' \in 0 .. Turns
    BY <1>2, AlarmAssumption DEF Turn, AlarmTypeOK
  <2>4. /\ month \in AlarmMonths /\ day \in 0 .. 31 /\ date \in [Alarms -> Dates] /\ days \in 28 .. 31
        /\ server \in [Alarms -> Dates] /\ whose \subseteq Alarms /\ listFor \subseteq AlarmMonths
        /\ edited \subseteq Alarms /\ strayed \subseteq Alarms /\ misread \subseteq Alarms
    BY <1>2 DEF AlarmTypeOK, AlarmMonths
  <2>5. ASSUME days' \in 28 .. 31, day' \in 0 .. 31, month' \in AlarmMonths, date' \in [Alarms -> Dates],
               server' \in [Alarms -> Dates], window' \in {"hidden", "shown", "leaving"},
               whose' \subseteq Alarms, listFor' \subseteq AlarmMonths, edited' \subseteq Alarms,
               strayed' \subseteq Alarms, misread' \subseteq Alarms, turns' \in 0 .. Turns
        PROVE  AlarmTypeOK'
    BY <2>5 DEF AlarmTypeOK, AlarmMonths
  <2>6. ASSUME NEW a \in Alarms, ConfigureAlarm(a) PROVE AlarmTypeOK'
    <3>1. day' \in 0 .. 31 /\ month' \in AlarmMonths
      BY <2>2, <2>4, <2>6 DEF ConfigureAlarm, Fill
    <3>2. QED BY <2>3, <2>4, <2>5, <2>6, <3>1 DEF ConfigureAlarm, alarmHistory
  <2>7. ASSUME NEW a \in Alarms, NEW d \in 0 .. 31, NEW m \in AlarmMonths, Change(a, d, m) PROVE AlarmTypeOK'
    <3> DEFINE new == ReadDate(d, m)
    <3>1. new \in Dates /\ DayList(m) \in 28 .. 31
      BY <2>1, ListOfMonth
    <3>2. /\ date' = [date EXCEPT ![a] = new] /\ days' = DayList(m) /\ listFor' = {m}
          /\ edited' \subseteq edited \cup {a} /\ strayed' \subseteq strayed \cup {a}
          /\ day' = (IF new.day <= DayList(m) THEN new.day ELSE 0) /\ month' = new.month
          /\ window = "shown" /\ turns' \in 0 .. Turns /\ UNCHANGED <<window, whose, server, misread>>
      BY <2>3, <2>7 DEF Change, Fill, Stray
    <3> HIDE DEF new
    <3>3. day' \in 0 .. 31 /\ month' \in AlarmMonths
      BY <2>2, <3>1, <3>2
    <3>4. date' \in [Alarms -> Dates] /\ listFor' \subseteq AlarmMonths
      BY <2>4, <3>1, <3>2
    <3>5. QED BY <2>4, <2>5, <3>1, <3>2, <3>3, <3>4
  <2>8. ASSUME NEW a \in Alarms, AcceptAlarm(a) PROVE AlarmTypeOK'
    <3>1. ReadDate(day, month) \in Dates
      BY <2>1, <2>4
    <3>2. QED BY <2>3, <2>4, <2>5, <2>8, <3>1 DEF AcceptAlarm, Stray
  <2>9. ASSUME NEW a \in Alarms, ConnectAlarm(a) PROVE AlarmTypeOK'
    <3>1. PICK d \in IF whose = {} THEN OfOtherForm ELSE {ReadDate(day, month)} :
            date' = [date EXCEPT ![a] = d]
      BY <2>9 DEF ConnectAlarm
    <3>2. ReadDate(day, month) \in Dates /\ OfOtherForm \subseteq Dates
      BY <2>1, <2>4 DEF OfOtherForm, Dates
    <3>3. date' \in [Alarms -> Dates] /\ strayed' \subseteq Alarms /\ misread' \subseteq Alarms
      BY <2>4, <2>9, <3>1, <3>2 DEF ConnectAlarm, Stray
    <3>4. window' \in {"hidden", "shown", "leaving"}
      BY <1>2, <2>9 DEF ConnectAlarm, alarmForm, AlarmTypeOK
    <3>5. QED BY <2>3, <2>4, <2>5, <2>9, <3>3, <3>4 DEF ConnectAlarm, alarmForm
  <2>10. CASE OtherForm \/ LeaveAlarm \/ FormGone \/ ReloadAlarms
    BY <1>2, <2>3, <2>10 DEF OtherForm, LeaveAlarm, FormGone, ReloadAlarms, alarmForm, alarmHistory, AlarmTypeOK, AlarmMonths
  <2>11. CASE UNCHANGED alarmVars
    BY <1>2, <2>11 DEF alarmVars, alarmForm, alarmHistory, AlarmTypeOK
  <2>12. \A d \in Picks \cap 1 .. days : d \in 0 .. 31
    BY <2>4
  <2>13. \A m \in Months : m \in AlarmMonths
    BY DEF AlarmMonths
  <2>14. QED BY <1>2, <2>4, <2>6, <2>7, <2>8, <2>9, <2>10, <2>11, <2>12, <2>13 DEF AlarmNext
<1>3. QED BY <1>1, <1>2

(* Whatever alarms there are and whatever is picked, connected or shown in *)
(* the dialog, the server gets dates that exist, and those it had of       *)
(* alarms that were not changed, unless an alarm was read over the days of *)
(* another month or from the form of another (alarm.js).                   *)
THEOREM AlarmsExist == AlarmSpec => []AlarmDates
<1>1. AlarmInit => AlarmInv
  BY AlarmStarts
<1>2. AlarmInv /\ [AlarmNext]_alarmVars => AlarmInv'
  BY AlarmKeeps
<1>3. AlarmInv => AlarmDates
  BY DEF AlarmInv
<1>4. QED BY <1>1, <1>2, <1>3, PTL DEF AlarmSpec

-----------------------------------------------------------------------------
(* The inductive invariant of the file browser: where it believes to be is *)
(* what it shows, but before the first answer and after a jump.            *)
FileInv ==
  /\ \/ path = listing
     \/ listing = Nowhere /\ path = <<Empty>>
     \/ jumped /\ path = Root
  /\ ChosenAsShown

LEMMA FilesKeep == ASSUME FileInv, [FileNext]_fileVars PROVE FileInv'
<1> USE DEF FileInv
<1>1. ASSUME NEW kind, OpenBrowser(kind) PROVE FileInv'
  BY <1>1 DEF OpenBrowser, ChosenAsShown
<1>2. ASSUME NEW n, ChdirDown(n) PROVE FileInv'
  BY <1>2 DEF ChdirDown, ChosenAsShown
<1>3. ASSUME NEW i, ChdirFromRoot(i) PROVE FileInv'
  BY <1>3 DEF ChdirFromRoot, ChosenAsShown
<1>4. ASSUME NEW p, Contents(p) \/ CantChdir(p) PROVE FileInv'
  BY <1>4 DEF Contents, CantChdir, ChosenAsShown
<1>5. CASE (\E f \in Stored : OpenFile(f)) \/ AcceptFolder
  <2> DEFINE new == [path |-> path, shown |-> listing, jumped |-> jumped]
  <2>1. chosen' \subseteq chosen \cup {new}
    BY <1>5 DEF OpenFile, AcceptFolder
  <2>2. \A c \in chosen' : c \in chosen \/ (c.path = path /\ c.shown = listing /\ c.jumped = jumped)
    <3>1. new.path = path /\ new.shown = listing /\ new.jumped = jumped
      OBVIOUS
    <3> HIDE DEF new
    <3>2. QED BY <2>1, <3>1
  <2>3. ChosenAsShown'
    BY <2>2 DEF ChosenAsShown
  <2>4. \/ UNCHANGED <<path, listing, jumped>>
        \/ path' = <<Empty>> /\ listing' = Nowhere
    BY <1>5 DEF OpenFile, AcceptFolder
  <2>5. QED BY <2>3, <2>4
<1>6. CASE UNCHANGED fileVars
  BY <1>6 DEF fileVars, ChosenAsShown
<1>7. QED BY <1>1, <1>2, <1>3, <1>4, <1>5, <1>6 DEF FileNext

(* The types of the file browser: paths are sequences of names, and the    *)
(* one that is shown leads to a folder.                                    *)
Parts == STRING \cup {Empty}
FileShapes ==
  /\ FileTypeOK
  /\ path \in Seq(Parts) \ {<<>>}
  /\ asking \subseteq Seq(Parts)

LEMMA FolderFacts ==
  MaxPath \in Nat /\ MaxPath >= 2 /\ Browsing \in Nat /\ Dirs \subseteq Seq(Parts)
<1>1. MaxPath \in Nat \ {0, 1} /\ Browsing \in Nat /\ Dirs \subseteq Seq(STRING)
  BY FileBrowserAssumption, Zenon
<1>2. Dirs \subseteq Seq(Parts)
  BY <1>1, SeqMonotonic DEF Parts
<1>3. QED BY <1>1, <1>2

LEMMA PathsGrow ==
  ASSUME NEW p \in Seq(Parts), p # <<>>, p[1] = Empty
  PROVE  /\ \A x \in Parts : LET q == Append(p, x)
              IN q \in Seq(Parts) /\ q[1] = Empty /\ Len(q) >= 2
         /\ \A q \in Seq(Parts) : LET r == p \o q
              IN r \in Seq(Parts) /\ r[1] = Empty /\ Len(r) = Len(p) + Len(q)
<1>1. Len(p) \in Nat \ {0}
  BY EmptySeq
<1>2. ASSUME NEW x \in Parts
      PROVE  Append(p, x) \in Seq(Parts) /\ Append(p, x)[1] = Empty /\ Len(Append(p, x)) >= 2
  <2>1. /\ Append(p, x) \in Seq(Parts) /\ Len(Append(p, x)) = Len(p) + 1
        /\ \A i \in 1 .. Len(p) : Append(p, x)[i] = p[i]
    BY AppendProperties
  <2>2. QED BY <1>1, <2>1
<1>3. ASSUME NEW q \in Seq(Parts)
      PROVE  p \o q \in Seq(Parts) /\ (p \o q)[1] = Empty /\ Len(p \o q) = Len(p) + Len(q)
  <2>1. /\ p \o q \in Seq(Parts) /\ Len(p \o q) = Len(p) + Len(q)
        /\ \A i \in 1 .. Len(p) + Len(q) : (p \o q)[i] = IF i <= Len(p) THEN p[i] ELSE q[i - Len(p)]
    BY ConcatProperties
  <2>2. Len(q) \in Nat
    BY LenProperties
  <2>3. QED BY <1>1, <2>1, <2>2
<1>4. QED BY <1>2, <1>3

LEMMA RootIsPath ==
  /\ Root \in Seq(Parts) /\ Root # <<>> /\ Root[1] = Empty /\ Len(Root) = 2
  /\ <<Empty>> \in Seq(Parts) /\ <<Empty>> # <<>> /\ <<Empty>>[1] = Empty
<1>0. Empty \in Parts
  BY DEF Parts
<1>1. Root \in Seq(Parts) /\ <<Empty>> \in Seq(Parts)
  BY <1>0 DEF Root
<1>2. Len(Root) = 2 /\ Root # <<>> /\ <<Empty>> # <<>>
  BY DEF Root
<1>3. Root[1] = Empty /\ <<Empty>>[1] = Empty
  BY DEF Root
<1>4. QED BY <1>1, <1>2, <1>3

LEMMA FilesTyped ==
  /\ FileInit => FileShapes
  /\ FileShapes /\ [FileNext]_fileVars => FileShapes'
<1>1. ASSUME FileInit PROVE FileShapes
  <2>1. browsing = Browsing
    BY <1>1 DEF FileInit
  <2>2. browsing \in 0 .. Browsing
    BY <2>1, FolderFacts
  <2>3. QED BY <1>1, <2>2, RootIsPath DEF FileInit, FileShapes, FileTypeOK
<1>2. ASSUME FileShapes, [FileNext]_fileVars PROVE FileShapes'
  <2>1. browsing \in 0 .. Browsing
    BY <1>2 DEF FileShapes, FileTypeOK
  <2>2. Click => browsing' \in 0 .. Browsing
    BY <2>1, FolderFacts DEF Click
  <2>3. ASSUME NEW kind \in {"load", "save"}, OpenBrowser(kind) PROVE FileShapes'
    <3>1. Len(Root) \in 2 .. MaxPath /\ asking' = {Root} /\ path' = <<Empty>> /\ dialog' = kind
      BY <2>3, FolderFacts, RootIsPath DEF OpenBrowser
    <3>2. listing' = Nowhere /\ jumped' = FALSE /\ browsing' \in 0 .. Browsing
      BY <2>2, <2>3 DEF OpenBrowser
    <3>3. QED BY <3>1, <3>2, RootIsPath DEF FileShapes, FileTypeOK
  <2>4. ASSUME NEW new \in Seq(Parts), new[1] = Empty, Len(new) >= 2, UpdateContents(new),
               Click, dialog # "none", UNCHANGED <<dialog, listing, chosen>>,
               path' \in Seq(Parts) \ {<<>>}, path'[1] = Empty, jumped' \in BOOLEAN
        PROVE  FileShapes'
    BY <1>2, <2>1, <2>2, <2>4 DEF UpdateContents, FileShapes, FileTypeOK
  <2>5. ASSUME NEW d \in Dirs \ {<<>>}, ChdirDown(d[Len(d)]) PROVE FileShapes'
    <3>1. d \in Seq(Parts) /\ Len(d) \in DOMAIN d
      <4>1. d \in Seq(Parts)
        BY FolderFacts
      <4>2. Len(d) \in Nat \ {0} /\ DOMAIN d = 1 .. Len(d)
        BY <4>1, EmptySeq, LenProperties
      <4>3. QED BY <4>1, <4>2
    <3>2. d[Len(d)] \in Parts
      BY <3>1
    <3>3. path \in Seq(Parts) /\ path # <<>> /\ path[1] = Empty
      BY <1>2 DEF FileShapes, FileTypeOK
    <3> DEFINE new == Append(path, d[Len(d)])
    <3>4. new \in Seq(Parts) /\ new[1] = Empty /\ Len(new) >= 2
      BY <3>2, <3>3, PathsGrow
    <3>5. UpdateContents(new) /\ Click /\ dialog # "none" /\ UNCHANGED <<dialog, path, listing, chosen, jumped>>
      BY <2>5 DEF ChdirDown
    <3> HIDE DEF new
    <3>6. QED BY <1>2, <2>4, <3>3, <3>4, <3>5 DEF FileShapes, FileTypeOK
  <2>6. ASSUME NEW i \in 0 .. Len(RealDir(listing)), ChdirFromRoot(i) PROVE FileShapes'
    <3> DEFINE real == RealDir(listing)
               new == IF i = 0 THEN Append(Root, Empty) ELSE Root \o SubSeq(real, 1, i)
    <3>1. real \in Seq(Parts) /\ i \in 0 .. Len(real)
      BY <1>2, <2>6, FolderFacts DEF ChdirFromRoot, FileShapes, FileTypeOK
    <3>2. UpdateContents(new) /\ Click /\ dialog # "none" /\ UNCHANGED <<dialog, listing, chosen>>
          /\ path' = Root /\ jumped' = TRUE
      BY <2>6 DEF ChdirFromRoot
    <3> HIDE DEF real
    <3>3. SubSeq(real, 1, i) \in Seq(Parts)
      BY <3>1
    <3>4. new \in Seq(Parts) /\ new[1] = Empty /\ Len(new) >= 2
      <4>1. CASE i = 0
        BY <4>1, RootIsPath, PathsGrow
      <4>2. CASE i # 0
        <5>1. Len(SubSeq(real, 1, i)) \in Nat
          BY <3>3
        <5>2. QED BY <3>3, <4>2, <5>1, RootIsPath, PathsGrow
      <4>3. QED BY <4>1, <4>2
    <3> HIDE DEF new
    <3>5. QED BY <2>4, <3>2, <3>4, RootIsPath
  <2>7. ASSUME NEW p \in asking, Contents(p) \/ CantChdir(p) PROVE FileShapes'
    <3>1. p \in Seq(Parts) /\ p[1] = Empty /\ Len(p) >= 2 /\ p # <<>> /\ dialog # "none"
      BY <1>2, <2>7 DEF FileShapes, FileTypeOK
    <3>2. QED BY <1>2, <2>7, <3>1 DEF Contents, CantChdir, FileShapes, FileTypeOK
  <2>8. CASE (\E f \in Stored : OpenFile(f)) \/ AcceptFolder
    BY <1>2, <2>2, <2>8, RootIsPath DEF OpenFile, AcceptFolder, FileShapes, FileTypeOK, Nowhere
  <2>9. CASE UNCHANGED fileVars
    BY <1>2, <2>9 DEF fileVars, FileShapes, FileTypeOK
  <2>10. QED BY <1>2, <2>3, <2>5, <2>6, <2>7, <2>8, <2>9 DEF FileNext
<1>3. QED BY <1>1, <1>2

(* In any tree of folders and any order of the answers, a file is opened   *)
(* from the folder that is shown and saved there (browsefiles.js), but     *)
(* after a link of the heading.                                            *)
THEOREM FilesFromShown == FileSpec => []ChosenAsShown
<1>1. FileInit => FileInv
  BY DEF FileInit, FileInv, ChosenAsShown, Nowhere
<1>2. FileInv /\ [FileNext]_fileVars => FileInv'
  BY FilesKeep
<1>3. FileInv => ChosenAsShown
  BY DEF FileInv
<1>4. QED BY <1>1, <1>2, <1>3, PTL DEF FileSpec

-----------------------------------------------------------------------------
(* The page implements each of its parts.                                  *)
LEMMA PageParts ==
  PageSpec => CanvasSpec /\ StartupInit /\ [][StartupNext]_startupVars /\ DialogSpec /\ AlarmSpec /\ FileSpec
<1>1. PageInit => CanvasInit /\ StartupInit /\ DialogInit /\ AlarmInit /\ FileInit
  BY DEF PageInit
<1>2. [PageNext]_pageVars => [CanvasNext]_canvasVars
  BY DEF PageNext, pageVars, CanvasMoves, StartupMoves, DialogMoves, AlarmMoves, FileMoves
<1>3. [PageNext]_pageVars => [StartupNext]_startupVars
  BY DEF PageNext, pageVars, CanvasMoves, StartupMoves, DialogMoves, AlarmMoves, FileMoves
<1>4. [PageNext]_pageVars => [DialogNext]_dialogVars
  BY DEF PageNext, pageVars, CanvasMoves, StartupMoves, DialogMoves, AlarmMoves, FileMoves
<1>5. [PageNext]_pageVars => [AlarmNext]_alarmVars
  BY DEF PageNext, pageVars, CanvasMoves, StartupMoves, DialogMoves, AlarmMoves, FileMoves
<1>6. [PageNext]_pageVars => [FileNext]_fileVars
  BY DEF PageNext, pageVars, CanvasMoves, StartupMoves, DialogMoves, AlarmMoves, FileMoves
<1>7. QED BY <1>1, <1>2, <1>3, <1>4, <1>5, <1>6, PTL
          DEF PageSpec, CanvasSpec, DialogSpec, AlarmSpec, FileSpec

(* Every behaviour of the page keeps what is proved of its parts.          *)
THEOREM PageCorrect ==
  PageSpec => [](RememberedInverse /\ ServerHasCanvas /\ HiddenToolsReachable /\ EveryTypeHasButton
                 /\ FormReadByOwner /\ ServerHasForms /\ PictureSaysParams /\ AlarmDates /\ ChosenAsShown)
<1>1. StartupInit => StartupInv
  BY StartupStarts
<1>2. StartupInv /\ [StartupNext]_startupVars => StartupInv'
  BY StartupKeeps
<1>3. StartupInv => EveryTypeHasButton
  BY DEF StartupInv, StartupTypeOK, EveryTypeHasButton, Types
<1>4. QED BY <1>1, <1>2, <1>3, PageParts, InverseRemembered, CanvasReachesServer, ToolsReachable,
             FormsAreOwners, FormsReach, PicturesAreRight, AlarmsExist, FilesFromShown, PTL

(* And the types of all of them.                                           *)
THEOREM PageTyped == PageSpec => []PageTypeOK
<1>1. StartupInit => StartupInv
  BY StartupStarts
<1>2. StartupInv /\ [StartupNext]_startupVars => StartupInv'
  BY StartupKeeps
<1>3. StartupInv => StartupTypeOK
  BY DEF StartupInv
<1>4. DialogSpec => []DialogTypeOK
  <2>1. DialogInv /\ DrawnInv => DialogTypeOK
    BY DialogTyped
  <2>2. QED BY <2>1, DialogCorrect, DrawnCorrect, PTL
<1>5. AlarmSpec => []AlarmTypeOK
  BY AlarmTyped, PTL DEF AlarmSpec
<1>6. FileSpec => []FileTypeOK
  <2>1. FileShapes => FileTypeOK
    BY DEF FileShapes
  <2>2. QED BY <2>1, FilesTyped, PTL DEF FileSpec
<1>7. CanvasSpec => []CanvasTypeOK
  BY CanvasTypes, PTL
<1>8. QED BY <1>1, <1>2, <1>3, <1>4, <1>5, <1>6, <1>7, PageParts, PTL DEF PageTypeOK

=============================================================================

------------------------------ MODULE AlarmDate ------------------------------
(***************************************************************************)
(* The date of an alarm in its form (server/static/js/modules/alarm.js).   *)
(* The days that the form offers depend on the month, and the list of them *)
(* is an attribute of the class: the alarms of a page share it.  They also *)
(* share the one dialog (Dialog), of which this module keeps what the date *)
(* of an alarm depends on: whether it is visible, whose form it holds, and *)
(* the two fields.                                                         *)
(***************************************************************************)
EXTENDS Naturals

CONSTANTS
  Alarms,       (* alarms of the page, and                                  *)
  FirstDates,   (* the date the server has of each                          *)
  Months,       (* months, counted from 0, and                              *)
  LastDay,      (* how long they are                                        *)
  Picks,        (* the days and                                             *)
  Turns         (* how much the user does: bounds of a run                  *)

DateOf(d, m) == [day |-> d, month |-> m]
NoMonth == 12   (* and day 0: the parameter is not a number                 *)
Real(date) == date.month \in Months /\ date.day \in 1 .. LastDay[date.month]
ASSUME AlarmAssumption ==
  /\ 0 \in Months /\ Months \subseteq 0 .. 11 /\ Turns \in Nat
  /\ LastDay \in [Months -> Nat]
  /\ \A m \in Months : LastDay[m] = IF m = 1 THEN 28 ELSE IF m \in {3, 5, 8, 10} THEN 30 ELSE 31
  /\ FirstDates \in [Alarms -> [day : Nat, month : Months]]
  /\ \A a \in Alarms : Real(FirstDates[a])

VARIABLES
  days,         (* the length of paramOptions[0].values                     *)
  date,         (* params of an alarm                                       *)
  window,       (* the dialog: "hidden", "shown", or "leaving" (fadeOut)    *)
  whose,        (* the alarm whose form it holds, if it is that of an alarm *)
  day, month,   (* its fields; 0 and NoMonth when nothing is selected       *)
  server,       (* the dates that were sent last                            *)
  (* history *)
  listFor,      (* months the list was made for, at most one                *)
  edited,       (* alarms with a day or a month that was changed            *)
  strayed,      (* alarms read over a list made for another month           *)
  misread,      (* alarms that read the form of another                     *)
  turns

alarmForm == <<window, whose, day, month>>
alarmHistory == <<edited, strayed, misread>>
alarmVars == <<days, date, alarmForm, server, listFor, alarmHistory, turns>>
Turn == turns > 0 /\ turns' = turns - 1

(* configure: a day that is not in the list leaves the field empty.        *)
Fill(d, n) ==
  /\ day' = IF d.day <= n THEN d.day ELSE 0
  /\ month' = d.month
ConfigureAlarm(a) ==
  /\ Turn /\ window' = "shown" /\ whose' = {a} /\ Fill(date[a], days)
  /\ UNCHANGED <<days, date, server, listFor, alarmHistory>>

(* The form of a node of another type, or of the dialog's other uses.      *)
OtherForm ==
  /\ Turn /\ window' = "shown" /\ whose' = {} /\ day' = 0 /\ month' = NoMonth
  /\ UNCHANGED <<days, date, server, listFor, alarmHistory>>

(* getParams: the number of nothing is 0, and days count from one.         *)
ReadDate(d, m) == DateOf(IF d = 0 THEN 1 ELSE d, m)

(* February like the months around it. *)
SkipFebruary(m) == IF m \in {3, 5, 8, 10} THEN 30 ELSE 31

(* realtime_update, of a day, a month or any other field of the form.      *)
DayList(m) == IF m = 1 THEN 28 ELSE IF m \in {3, 5, 8, 10} THEN 30 ELSE 31
Stray(a) == IF listFor \subseteq {month} THEN strayed ELSE strayed \cup {a}

Change(a, d, m) ==
  LET new == ReadDate(d, m)
      same == <<d, m>> = <<day, month>>
  IN /\ Turn /\ window = "shown" /\ a \in whose
     /\ date' = [date EXCEPT ![a] = new]
     /\ days' = DayList(m) /\ listFor' = {m}
     /\ Fill(new, DayList(m))
     /\ edited' = IF same THEN edited ELSE edited \cup {a}
     /\ strayed' = IF same THEN Stray(a) ELSE strayed
     /\ UNCHANGED <<window, whose, server, misread>>

AcceptAlarm(a) ==
  /\ Turn /\ window # "hidden" /\ a \in whose /\ window' = "leaving"
  /\ date' = [date EXCEPT ![a] = ReadDate(day, month)]
  /\ server' = [server EXCEPT ![a] = ReadDate(day, month)]
  /\ strayed' = Stray(a)
  /\ UNCHANGED <<days, whose, day, month, listFor, edited, misread>>

(* Connecting an alarm or disconnecting it calls its acceptConfigure as    *)
(* well, and nothing is sent.  Whatever form is visible is read: its own,  *)
(* that of another alarm, or one that has what it has under these numbers, *)
(* if anything.                                                            *)
OfOtherForm == [day : (Picks \cap 1 .. 31) \cup {0}, month : Months \cup {NoMonth}]
ConnectAlarm(a) ==
  /\ Turn /\ window # "hidden"
  /\ \E d \in IF whose = {} THEN OfOtherForm ELSE {ReadDate(day, month)} :
       date' = [date EXCEPT ![a] = d]
  /\ misread' = IF a \in whose THEN misread ELSE misread \cup {a}
  /\ strayed' = IF a \in whose THEN Stray(a) ELSE strayed
  /\ UNCHANGED <<days, alarmForm, server, listFor, edited>>

(* The form is left, and what was changed in it stays.                     *)
LeaveAlarm ==
  /\ Turn /\ window = "shown" /\ window' = "leaving"
  /\ UNCHANGED <<days, date, whose, day, month, server, listFor, alarmHistory>>

FormGone ==
  /\ window = "leaving" /\ window' = "hidden"
  /\ UNCHANGED <<days, date, whose, day, month, server, listFor, alarmHistory, turns>>

(* A refresh makes the alarms anew, and not their class.                   *)
ReloadAlarms ==
  /\ Turn /\ window = "hidden" /\ date' = server
  /\ UNCHANGED <<days, alarmForm, server, listFor, alarmHistory>>

AlarmInit ==
  /\ days = 31 /\ date = FirstDates /\ server = FirstDates
  /\ window = "hidden" /\ whose = {} /\ day = 0 /\ month = NoMonth
  /\ listFor = {} /\ edited = {} /\ strayed = {} /\ misread = {} /\ turns = Turns

AlarmNext ==
  \/ \E a \in Alarms :
       \/ ConfigureAlarm(a) \/ AcceptAlarm(a) \/ ConnectAlarm(a) \/ Change(a, day, month)
       \/ \E d \in Picks \cap 1 .. days : Change(a, d, month)
       \/ \E m \in Months : Change(a, day, m)
  \/ OtherForm \/ LeaveAlarm \/ FormGone \/ ReloadAlarms
AlarmSpec == AlarmInit /\ [][AlarmNext]_alarmVars
-----------------------------------------------------------------------------
(* Properties.                                                             *)

(* Types of the state.                                                     *)
Dates == [day : 0 .. 31, month : Months \cup {NoMonth}]
AlarmTypeOK ==
  /\ days \in 28 .. 31 /\ day \in 0 .. 31 /\ month \in Months \cup {NoMonth}
  /\ date \in [Alarms -> Dates] /\ server \in [Alarms -> Dates]
  /\ window \in {"hidden", "shown", "leaving"} /\ whose \subseteq Alarms
  /\ listFor \subseteq Months \cup {NoMonth}
  /\ UNION {edited, strayed, misread} \subseteq Alarms /\ turns \in 0 .. Turns

(* An alarm the server gets has a date that exists, and the one it had     *)
(* when neither its day nor its month was changed.  Two things excuse it:  *)
(* its form was read when the list of days was that of another alarm's     *)
(* month (alarm.js:152), or it was connected or disconnected while the     *)
(* form of another was visible, and read that (alarm.js:172).              *)
AlarmDates ==
  \A a \in Alarms \ (strayed \cup misread) :
    Real(server[a]) /\ (a \notin edited => server[a] = FirstDates[a])
=============================================================================

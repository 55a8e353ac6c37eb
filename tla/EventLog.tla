------------------------------ MODULE EventLog ------------------------------
(***************************************************************************)
(* What the server's event queue promises its browsers: one log, of which  *)
(* the last Window events can still be fetched.  A browser fetches, in     *)
(* order and without repetition, what it has not seen yet; it only misses  *)
(* what was pushed out of the window before it came back.                  *)
(***************************************************************************)
EXTENDS Integers, Sequences

CONSTANTS
  Window,   (* how many of the newest events are kept         *)
  Events,   (* what may be logged                             *)
  Browsers, (* who follows the log                            *)
  NoBatch   (* no answer is on its way to the browser         *)

VARIABLES
  log,      (* everything ever logged                          *)
  cursor,   (* [Browsers -> position the browser has seen]     *)
  inbox     (* [Browsers -> the batch on its way, or NoBatch]  *)

vars == <<log, cursor, inbox>>

Later(a, b) == IF a > b THEN a ELSE b

(* The part of the log after position from that is still in the window. *)
Available(from) == SubSeq(log, Later(from, Len(log) - Window) + 1, Len(log))

Init ==
  /\ log = <<>>
  /\ cursor = [b \in Browsers |-> 0]
  /\ inbox = [b \in Browsers |-> NoBatch]

Record(e) ==
  /\ log' = Append(log, e)
  /\ UNCHANGED <<cursor, inbox>>

(* A batch is only ever sent when there is something new to send. *)
Fetch(b) ==
  /\ inbox[b] = NoBatch
  /\ cursor[b] < Len(log)
  /\ inbox' = [inbox EXCEPT ![b] =
                 [id |-> Len(log), data |-> Available(cursor[b])]]
  /\ UNCHANGED <<log, cursor>>

Consume(b) ==
  /\ inbox[b] # NoBatch
  /\ cursor' = [cursor EXCEPT ![b] = inbox[b].id]
  /\ inbox' = [inbox EXCEPT ![b] = NoBatch]
  /\ UNCHANGED log

(* The connection breaks with a batch on it. *)
Lose(b) ==
  /\ inbox[b] # NoBatch
  /\ inbox' = [inbox EXCEPT ![b] = NoBatch]
  /\ UNCHANGED <<log, cursor>>

Next ==
  \/ \E e \in Events : Record(e)
  \/ \E b \in Browsers : Fetch(b) \/ Consume(b) \/ Lose(b)

Spec == Init /\ [][Next]_vars
=============================================================================

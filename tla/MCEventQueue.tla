---------------------------- MODULE MCEventQueue ----------------------------
(***************************************************************************)
(* A ring of two slots, two browsers, two kinds of event and one event     *)
(* more than twice the ring: every slot is overwritten at least once, also *)
(* while a request sits between its wait and its read.                     *)
(***************************************************************************)
EXTENDS EventQueue
=============================================================================

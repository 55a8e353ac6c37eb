---------------------------- MODULE MCRunControl ----------------------------
(***************************************************************************)
(* Two requests in flight are enough for every race of exec_behaviour;     *)
(* four clicks give run, stop, run again and one click on top.             *)
(***************************************************************************)
EXTENDS RunControl
=============================================================================

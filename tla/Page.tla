-------------------------------- MODULE Page --------------------------------
(***************************************************************************)
(* The parts of the editor page: its canvas, how it starts, its dialog,    *)
(* the dates of its alarms and its file browser.  One of them moves in a   *)
(* behaviour; their interleavings would add nothing.  They share one thing,*)
(* the overlay and the form of the dialog, which an alarm reads too: the   *)
(* dates keep their own picture of it (window, whose), in which every      *)
(* other form comes and goes at any time.  (What the page shares with the  *)
(* server, the nodes and connections, is EditorSync.)                      *)
(***************************************************************************)
EXTENDS Canvas, Startup, Dialog, AlarmDate, FileBrowser

VARIABLE part   (* the one that moves                                       *)

pageVars == <<part, canvasVars, startupVars, dialogVars, alarmVars, fileVars>>

PageInit ==
  /\ part \in {"canvas", "startup", "dialog", "alarms", "files"}
  /\ CanvasInit /\ StartupInit /\ DialogInit /\ AlarmInit /\ FileInit
  /\ part # "canvas" => view = Id /\ gestures = [view |-> 0, node |-> 0, bar |-> 0]

CanvasMoves ==
  /\ part = "canvas" /\ CanvasNext
  /\ UNCHANGED <<part, startupVars, dialogVars, alarmVars, fileVars>>
StartupMoves(A) ==
  /\ part = "startup" /\ A
  /\ UNCHANGED <<part, canvasVars, dialogVars, alarmVars, fileVars>>
DialogMoves ==
  /\ part = "dialog" /\ DialogNext
  /\ UNCHANGED <<part, canvasVars, startupVars, alarmVars, fileVars>>
AlarmMoves ==
  /\ part = "alarms" /\ AlarmNext
  /\ UNCHANGED <<part, canvasVars, startupVars, dialogVars, fileVars>>
FileMoves ==
  /\ part = "files" /\ FileNext
  /\ UNCHANGED <<part, canvasVars, startupVars, dialogVars, alarmVars>>

PageNext == CanvasMoves \/ StartupMoves(StartupNext) \/ DialogMoves \/ AlarmMoves \/ FileMoves
PageSpec == PageInit /\ [][PageNext]_pageVars /\ WF_pageVars(StartupMoves(Browser))
-----------------------------------------------------------------------------
(* The types of every part.                                                *)
PageTypeOK == CanvasTypeOK /\ StartupTypeOK /\ DialogTypeOK /\ AlarmTypeOK /\ FileTypeOK

(* The start of the page ends: StartupEnds of the page that starts.        *)
PageStarts == part = "startup" => StartupEnds
=============================================================================

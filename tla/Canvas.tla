------------------------------- MODULE Canvas -------------------------------
(***************************************************************************)
(* The canvas of the editor (server/static/js/canvas.js): the matrix of    *)
(* its viewpoint under pan, zoom and reset, what of it the server is told, *)
(* the position of a node that is dragged, and the bar of tools.           *)
(* Matrices are the elements of a group that acts on the points; a         *)
(* translation is a shift, and the shifts are a normal subgroup.           *)
(***************************************************************************)
EXTENDS Naturals, FiniteSets

CONSTANTS
  Points, Matrices, Shifts,
  Id, Mul(_, _), Inv(_),     (* createSVGMatrix(), multiply, inverse        *)
  Act(_, _),                 (* matrixTransform                             *)
  Shift(_, _),               (* translate(q - p)                            *)
  Zooms, Zoom(_, _),         (* translate(p) scale(z) translate(-p)         *)
  Unset,                     (* a field not yet assigned                    *)
  Axes(_),                   (* a coordinate of the point is 0              *)
  Tools,                     (* how many buttons each bar has, by name      *)
  NoTool,                    (* no bar is open                              *)
  Widths, ButtonWidth, Margin,
  FirstPlace, FirstWidth,
  Gestures,                  (* the bound of a run: how many gestures move  *)
                             (* the view, the node and the bar              *)
  Losses                     (* and how many posts fail                     *)

ASSUME PointsAssumption ==
  /\ Unset \notin Points /\ Unset \notin Matrices /\ NoTool \notin DOMAIN Tools
  /\ Tools \in [DOMAIN Tools -> Nat] /\ ButtonWidth \in Nat \ {0} /\ Margin \in Nat
  /\ FirstPlace \in Points /\ FirstWidth \in Widths
  /\ Widths \subseteq Nat /\ \A w \in Widths : w >= ButtonWidth
ASSUME GroupAssumption ==
  /\ Id \in Matrices
  /\ \A a \in Matrices : /\ Inv(a) \in Matrices
                         /\ Mul(Id, a) = a /\ Mul(a, Id) = a
                         /\ Mul(a, Inv(a)) = Id /\ Mul(Inv(a), a) = Id
  /\ \A a, b \in Matrices : Mul(a, b) \in Matrices
  /\ \A a, b, c \in Matrices : Mul(Mul(a, b), c) = Mul(a, Mul(b, c))
ASSUME ActionAssumption ==
  /\ \A a \in Matrices, p \in Points : Act(a, p) \in Points /\ Act(Id, p) = p
  /\ \A a, b \in Matrices, p \in Points : Act(Mul(a, b), p) = Act(a, Act(b, p))
ASSUME ShiftAssumption ==
  /\ Shifts \subseteq Matrices /\ Id \in Shifts
  /\ \A s \in Shifts : Inv(s) \in Shifts
  /\ \A s, t \in Shifts : Mul(s, t) \in Shifts
  /\ \A a \in Matrices, s \in Shifts : Mul(Inv(a), Mul(s, a)) \in Shifts
  /\ \A p, q \in Points : Shift(p, q) \in Shifts /\ Act(Shift(p, q), p) = q
ASSUME ZoomAssumption ==
  \A z \in Zooms, p \in Points : Zoom(z, p) \in Matrices /\ Act(Zoom(z, p), p) = p

VARIABLES
  ctm,        (* the transform of g#viewpoint                               *)
  st,         (* "none", "pan" or ""                                        *)
  stTf,       (* the inverse it remembers                                   *)
  stOrigin,   (* the point of the drawing that was grabbed                  *)
  posts,      (* what was posted and neither arrived nor failed             *)
  posted,     (* how many there were, of each kind                          *)
  view,       (* the viewpoint the server has                               *)
  loading,    (* the refresh under way, at most one                         *)
  at, drawn,  (* where the node is, and where it is drawn                   *)
  dragged,    (* the node is between dragstart and dragstop                 *)
  put,        (* where the server has it                                    *)
  tool, index,      (* the bar that is open, and its first visible tool     *)
  left, right,      (* the arrows that scroll it are shown                  *)
  width,
  (* history *)
  newest,     (* the last post to arrive, of each kind                      *)
  astray,     (* why the server may have another view than the page         *)
  fitted,     (* viewAll came after everything else that sets stTf          *)
  widened,    (* the window grew over a bar that was scrolled               *)
  gestures, failed

look == <<ctm, st, stTf, stOrigin, fitted>>
wire == <<posts, posted, view, put, newest, failed>>
piece == <<at, drawn, dragged>>
bar == <<tool, index, left, right, width, widened>>
canvasVars == <<look, wire, loading, piece, bar, astray, gestures>>

Gesture(on) == gestures[on] > 0 /\ gestures' = [gestures EXCEPT ![on] = @ - 1]
Post(kind, value) ==
  /\ posted' = [posted EXCEPT ![kind] = @ + 1]
  /\ posts' = posts \cup {[kind |-> kind, value |-> value, n |-> posted[kind] + 1]}
  /\ UNCHANGED <<view, put, newest, failed>>
Arrived(kind) == \A p \in posts : p.kind # kind
KeepBar == UNCHANGED <<bar, loading>>

-----------------------------------------------------------------------------
(* The viewpoint.  Only events on the svg itself are handled: a button     *)
(* released over a node leaves st as it is.                                *)
MouseDown(p) ==
  /\ Gesture("view") /\ ~dragged
  /\ st' = "pan" /\ stTf' = Inv(ctm) /\ stOrigin' = Act(Inv(ctm), p)
  /\ fitted' = FALSE
  /\ UNCHANGED <<ctm, wire, piece, astray>> /\ KeepBar

(* The shift on the wrong side of the matrix. *)
PannedReversed(p) == Mul(Shift(stOrigin, Act(stTf, p)), Inv(stTf))

Panned(p) == Mul(Inv(stTf), Shift(stOrigin, Act(stTf, p)))
MouseMove(p) ==
  /\ Gesture("view") /\ st = "pan"
  /\ ctm' = Panned(p)
  /\ astray' = astray \cup {"pan"}
  /\ UNCHANGED <<st, stTf, stOrigin, fitted, wire, piece>> /\ KeepBar

(* The matrix itself is posted. *)
SettleUninverted(matrix) ==
  /\ ctm' = matrix /\ stTf' = Inv(matrix) /\ fitted' = FALSE
  /\ Post("view", matrix) /\ astray' = {}
  /\ UNCHANGED piece /\ KeepBar

(* What every gesture ends with: updateServer(g.getCTM().inverse()).       *)
Settle(matrix) ==
  /\ ctm' = matrix /\ stTf' = Inv(matrix) /\ fitted' = FALSE
  /\ Post("view", Inv(matrix)) /\ astray' = {}
  /\ UNCHANGED piece /\ KeepBar

MouseUp ==
  /\ Gesture("view") /\ st = "pan" /\ st' = ""
  /\ Settle(ctm)
  /\ UNCHANGED <<stOrigin>>

MouseWheel(p, z) ==
  /\ Gesture("view")
  /\ Settle(Mul(ctm, Zoom(z, Act(Inv(ctm), p))))
  /\ UNCHANGED <<st, stOrigin>>

(* resetViewpoint: a double click, its button, a cleared behaviour and a   *)
(* node added by a click.                                                  *)
ResetViewpoint ==
  /\ Gesture("view") /\ Settle(Mul(Inv(ctm), ctm))
  /\ UNCHANGED <<st, stOrigin>>

(* viewAll: the centre p of the nodes to the centre c of the window, then  *)
(* the scale.  Without nodes it fails after the first assignments.         *)
ViewAll(p, c, z) ==
  LET moved == Mul(Inv(Id), Shift(p, c))
      k == Zoom(z, p)
  IN /\ Gesture("view")
     /\ ctm' = Mul(moved, k) /\ stTf' = Mul(Inv(moved), Inv(k)) /\ fitted' = TRUE
     /\ Post("view", Inv(ctm')) /\ astray' = {}
     /\ UNCHANGED <<st, stOrigin, piece>> /\ KeepBar

ViewNothing ==
  /\ Gesture("view")
  /\ ctm' = Mul(Inv(ctm), ctm) /\ stTf' = Inv(ctm') /\ fitted' = FALSE
  /\ astray' = astray \cup {"nothing"}
  /\ UNCHANGED <<st, stOrigin, wire, piece>> /\ KeepBar

(* Main.download posts the inverse that is remembered.                     *)
Download ==
  /\ Gesture("view")
  /\ Post("view", IF stTf = Unset THEN Id ELSE stTf)
  /\ astray' = IF st = "pan" \/ fitted THEN {"download"} ELSE {}
  /\ UNCHANGED <<look, piece>> /\ KeepBar

(* refresh(force) reads the viewpoint of the server.  Its answer clears    *)
(* the page first when it is forced, and the viewpoint comes last: nodes   *)
(* that execute and connections that dangle end the handler before it.     *)
AskRefresh(forced) ==
  /\ Gesture("view") /\ loading = {}
  /\ loading' = {[forced |-> forced, served |-> FALSE, value |-> Id, after |-> 0]}
  /\ UNCHANGED <<look, wire, piece, bar, astray>>

ServeRefresh(r) ==
  /\ ~r.served
  /\ loading' = {[r EXCEPT !.served = TRUE, !.value = view, !.after = newest.view]}
  /\ UNCHANGED <<look, wire, piece, bar, astray, gestures>>

(* The matrix of the server is inverted twice. *)
SetViewpointTwice(value) ==
  /\ ctm' = Inv(value) /\ stTf' = Inv(value) /\ fitted' = FALSE

(* setViewpoint: the matrix of the server is the inverse of the page's.    *)
SetViewpoint(value) ==
  /\ ctm' = Inv(value) /\ stTf' = value /\ fitted' = FALSE
Cleared == ctm' = Mul(Inv(ctm), ctm) /\ stTf' = Inv(ctm') /\ fitted' = FALSE

Refreshed(r) ==
  /\ r.served /\ loading' = {}
  /\ \/ /\ r.forced /\ Post("view", Inv(Mul(Inv(ctm), ctm)))
        /\ \/ SetViewpoint(r.value) /\ astray' = {"load"}
           \/ Cleared /\ astray' = {}
     \/ /\ ~r.forced /\ SetViewpoint(r.value)
        /\ astray' = IF r.after = newest.view /\ Arrived("view") THEN {} ELSE {"race"}
        /\ UNCHANGED wire
     \/ UNCHANGED <<look, wire, astray>>
  /\ UNCHANGED <<st, stOrigin, piece, bar, gestures>>

-----------------------------------------------------------------------------
(* A node dragged over the canvas.                                         *)
DragStart ==
  /\ Gesture("node") /\ ~dragged /\ dragged' = TRUE
  /\ UNCHANGED <<look, wire, at, drawn, astray>> /\ KeepBar

Drag(p) ==
  LET to == Act(Inv(ctm), p)
  IN /\ Gesture("node") /\ dragged
     /\ drawn' = IF Axes(to) THEN drawn ELSE to
     /\ at' = to
     /\ UNCHANGED <<look, wire, dragged, astray>> /\ KeepBar

DragStop ==
  /\ Gesture("node") /\ dragged /\ dragged' = FALSE
  /\ Post("place", at)
  /\ UNCHANGED <<look, at, drawn, astray>> /\ KeepBar

(* Posts arrive in any order, or fail.                                     *)
Arrives(p) ==
  /\ p \in posts /\ posts' = posts \ {p}
  /\ \/ /\ view' = IF p.kind = "view" THEN p.value ELSE view
        /\ put' = IF p.kind = "place" THEN p.value ELSE put
        /\ newest' = [newest EXCEPT ![p.kind] = p.n]
        /\ UNCHANGED failed
     \/ /\ failed < Losses /\ failed' = failed + 1
        /\ UNCHANGED <<view, put, newest>>
  /\ UNCHANGED <<look, loading, piece, bar, astray, posted, gestures>>

-----------------------------------------------------------------------------
(* The bar of tools.                                                       *)
PerBar(w) == w \div ButtonWidth

(* The left arrow comes one tool late. *)
UpdateToolsOffByOne(t, i, w) ==
  IF t = NoTool THEN UNCHANGED <<left, right>>
  ELSE LET tight == Tools[t] * ButtonWidth + Margin > w
       IN left' = (tight /\ i > 1) /\ right' = (tight /\ i + PerBar(w) < Tools[t])

UpdateTools(t, i, w) ==
  IF t = NoTool THEN UNCHANGED <<left, right>>
  ELSE LET tight == Tools[t] * ButtonWidth + Margin > w
       IN left' = (tight /\ i > 0) /\ right' = (tight /\ i + PerBar(w) < Tools[t])
KeepCanvas == UNCHANGED <<look, wire, loading, piece, astray>>

ChangeTool(t) ==
  /\ Gesture("bar")
  /\ tool' = IF tool = t THEN NoTool ELSE t
  /\ index' = 0 /\ widened' = FALSE
  /\ UpdateTools(tool', 0, width)
  /\ UNCHANGED width /\ KeepCanvas

UpdateCanvasSize(w) ==
  /\ Gesture("bar") /\ w # width /\ width' = w
  /\ UpdateTools(tool, index, w)
  /\ widened' = (widened \/ (w > width /\ index > 0))
  /\ UNCHANGED <<tool, index>> /\ KeepCanvas

ScrollTo(i) ==
  /\ Gesture("bar") /\ index' = i /\ UpdateTools(tool, i, width)
  /\ widened' = (widened /\ i > 0)
  /\ UNCHANGED <<tool, width>> /\ KeepCanvas

(* No stop at the first tool. *)
UnboundedBack == index + 1 - PerBar(width)

ScrolledBack == IF index + 1 < PerBar(width) THEN 0 ELSE index + 1 - PerBar(width)
ToolsScrollR == tool # NoTool /\ right /\ ScrollTo(index + PerBar(width) - 1)
ToolsScrollL == tool # NoTool /\ left /\ ScrollTo(ScrolledBack)

-----------------------------------------------------------------------------
CanvasInit ==
  /\ ctm = Id /\ st = "none" /\ stTf = Unset /\ stOrigin = Unset /\ fitted = FALSE
  /\ posts = {} /\ posted = [view |-> 0, place |-> 0] /\ view \in Matrices
  /\ loading = {[forced |-> FALSE, served |-> FALSE, value |-> Id, after |-> 0]}
  /\ at = FirstPlace /\ drawn = at /\ put = at /\ dragged = FALSE
  /\ tool = NoTool /\ index = 0 /\ left = FALSE /\ right = FALSE /\ width = FirstWidth
  /\ newest = [view |-> 0, place |-> 0] /\ astray = {"unread"} /\ widened = FALSE
  /\ gestures \in Gestures /\ failed = 0

PanZoom ==
  \/ \E p \in Points : MouseDown(p) \/ MouseMove(p) \/ \E z \in Zooms : MouseWheel(p, z)
  \/ MouseUp \/ ResetViewpoint \/ ViewNothing \/ Download
  \/ \E p, c \in Points, z \in Zooms : ViewAll(p, c, z)
  \/ \E forced \in BOOLEAN : AskRefresh(forced)
  \/ \E r \in loading : ServeRefresh(r) \/ Refreshed(r)
Pieces == DragStart \/ (\E p \in Points : Drag(p)) \/ DragStop
Bar ==
  \/ \E t \in DOMAIN Tools : ChangeTool(t)
  \/ \E w \in Widths : UpdateCanvasSize(w)
  \/ ToolsScrollR \/ ToolsScrollL

CanvasNext == PanZoom \/ Pieces \/ Bar \/ \E p \in posts : Arrives(p)
CanvasSpec == CanvasInit /\ [][CanvasNext]_canvasVars
-----------------------------------------------------------------------------
(* Properties.                                                             *)

(* Types of the state.                                                     *)
Look ==
  /\ ctm \in Matrices /\ st \in {"none", "pan", ""}
  /\ stTf \in Matrices \cup {Unset} /\ stOrigin \in Points \cup {Unset}
  /\ fitted \in BOOLEAN
CanvasTypeOK ==
  /\ Look
  /\ \A p \in posts : p.kind \in {"view", "place"} /\ p.n <= posted[p.kind]
  /\ view \in Matrices /\ {at, drawn, put} \subseteq Points
  /\ \A r \in loading : r.value \in Matrices
  /\ tool \in DOMAIN Tools \cup {NoTool} /\ index \in Nat /\ width \in Widths

(* What the page remembers as the inverse of its matrix is the inverse:    *)
(* outside a pan, and not after viewAll, which multiplies it in the wrong  *)
(* order (canvas.js:575).                                                  *)
RememberedInverse ==
  stTf # Unset /\ st # "pan" /\ ~fitted => stTf = Inv(ctm)

(* Even then it is the inverse up to a shift: whatever comes between the   *)
(* press of the button and a move, the move shifts the drawing, never      *)
(* scales or turns it, and brings what was grabbed under the cursor        *)
(* (handleMouseMove).                                                      *)
PanFollowsCursor ==
  [][\A p \in Points : MouseMove(p) =>
       Mul(ctm', Inv(ctm)) \in Shifts /\ Act(ctm', stOrigin) = p]_canvasVars

(* Once every post is in, the last one last, the server has the place of a *)
(* node whose drag is over (dragstop), and the view of the page, unless    *)
(* the page moved it and posted nothing (a pan, viewAll without nodes), or *)
(* posted another (download, a forced refresh).                            *)
LastIn(kind) == Arrived(kind) /\ newest[kind] = posted[kind]
ServerHasView == LastIn("view") /\ astray = {} => view = Inv(ctm)
ServerHasPlace == LastIn("place") /\ ~dragged => put = at
ServerHasCanvas == ServerHasView /\ ServerHasPlace

(* A refresh leaves the page and the server with one view: "update canvas, *)
(* to be properly sync with server" (main.js:366).                         *)
RefreshSyncs == LastIn("view") /\ astray \subseteq {"load"} => view = Inv(ctm)

(* A bar is never scrolled past its last tool, and a tool that is not      *)
(* shown can be scrolled to, unless the window grew while the bar was      *)
(* scrolled: then both arrows are gone (updateTools).                      *)
HiddenToolsReachable ==
  tool # NoTool =>
    /\ Tools[tool] > 0 => index < Tools[tool]
    /\ ~widened => (index > 0 => left) /\ (index + PerBar(width) < Tools[tool] => right)
=============================================================================

---------------------------- MODULE CanvasProofs ----------------------------
(***************************************************************************)
(* The viewpoint of the canvas, what the server is told of it, a dragged   *)
(* node and the bar of tools, for every group of transforms with its       *)
(* shifts and zooms, every set of tools and any number of gestures.        *)
(***************************************************************************)
EXTENDS Canvas, TLAPS

-----------------------------------------------------------------------------
(* What the axioms of the group give.                                      *)
LEMMA InverseOfInverse ==
  ASSUME NEW a \in Matrices
  PROVE  Inv(a) \in Matrices /\ Inv(Inv(a)) = a
<1>1. Inv(a) \in Matrices /\ Inv(Inv(a)) \in Matrices
  BY GroupAssumption
<1>2. Mul(Mul(a, Inv(a)), Inv(Inv(a))) = Mul(a, Mul(Inv(a), Inv(Inv(a))))
  BY <1>1, GroupAssumption
<1>3. Mul(a, Inv(a)) = Id /\ Mul(Inv(a), Inv(Inv(a))) = Id
  BY <1>1, GroupAssumption
<1>4. Mul(Id, Inv(Inv(a))) = Inv(Inv(a)) /\ Mul(a, Id) = a
  BY <1>1, GroupAssumption
<1>5. QED BY <1>1, <1>2, <1>3, <1>4

LEMMA InverseOfId == Id \in Matrices /\ Inv(Id) = Id
<1>1. Id \in Matrices /\ Inv(Id) \in Matrices /\ Mul(Id, Inv(Id)) = Id
  BY GroupAssumption
<1>2. Mul(Id, Inv(Id)) = Inv(Id)
  BY <1>1, GroupAssumption
<1>3. QED BY <1>1, <1>2

LEMMA Undone ==
  ASSUME NEW a \in Matrices, NEW b \in Matrices
  PROVE  Mul(a, Mul(Inv(a), b)) = b /\ Mul(Inv(a), Mul(a, b)) = b
<1>1. Inv(a) \in Matrices /\ Mul(a, Inv(a)) = Id /\ Mul(Inv(a), a) = Id /\ Mul(Id, b) = b
  BY GroupAssumption
<1>2. /\ Mul(Mul(a, Inv(a)), b) = Mul(a, Mul(Inv(a), b))
      /\ Mul(Mul(Inv(a), a), b) = Mul(Inv(a), Mul(a, b))
  BY <1>1, GroupAssumption
<1>3. QED BY <1>1, <1>2

(* A pan of what a remembered matrix undoes up to a shift is a shift, and  *)
(* brings the grabbed point under the cursor.                              *)
LEMMA PanIsShift ==
  ASSUME NEW m \in Matrices, NEW tf \in Matrices, Mul(tf, m) \in Shifts,
         NEW o \in Points, NEW p \in Points
  PROVE  LET new == Mul(Inv(tf), Shift(o, Act(tf, p)))
         IN /\ new \in Matrices /\ Mul(tf, new) \in Shifts
            /\ Mul(new, Inv(m)) \in Shifts
            /\ Act(new, o) = p
<1> DEFINE s == Shift(o, Act(tf, p))
           new == Mul(Inv(tf), s)
           d == Mul(tf, m)
<1>1. Act(tf, p) \in Points /\ s \in Shifts /\ s \in Matrices /\ Act(s, o) = Act(tf, p)
  BY ActionAssumption, ShiftAssumption
<1>2. Inv(tf) \in Matrices /\ Inv(m) \in Matrices /\ new \in Matrices
  BY <1>1, GroupAssumption
<1>3. Mul(tf, new) \in Shifts
  BY <1>1, Undone
<1>4. Act(new, o) = p
  <2>1. Act(new, o) = Act(Inv(tf), Act(tf, p))
    BY <1>1, <1>2, ActionAssumption
  <2>2. Act(Mul(Inv(tf), tf), p) = Act(Inv(tf), Act(tf, p))
    BY <1>2, ActionAssumption
  <2>3. Mul(Inv(tf), tf) = Id /\ Act(Id, p) = p
    BY GroupAssumption, ActionAssumption
  <2>4. QED BY <2>1, <2>2, <2>3
<1>5. Mul(new, Inv(m)) \in Shifts
  <2>1. d \in Shifts /\ d \in Matrices /\ Inv(d) \in Shifts /\ Inv(d) \in Matrices
    BY ShiftAssumption
  <2>2. Mul(s, Inv(d)) \in Shifts /\ Mul(s, Inv(d)) \in Matrices
    BY <1>1, <2>1, ShiftAssumption
  <2>3. Mul(Inv(d), Mul(tf, m)) = Id
    BY <2>1, GroupAssumption
  <2>4. Mul(Inv(d), tf) \in Matrices /\ Mul(Mul(Inv(d), tf), m) = Id
    BY <2>1, <2>3, GroupAssumption
  <2>5. Mul(Inv(d), tf) = Inv(m)
    <3>1. Mul(Mul(Mul(Inv(d), tf), m), Inv(m)) = Mul(Mul(Inv(d), tf), Mul(m, Inv(m)))
      BY <2>4, <1>2, GroupAssumption
    <3>2. Mul(m, Inv(m)) = Id /\ Mul(Mul(Inv(d), tf), Id) = Mul(Inv(d), tf) /\ Mul(Id, Inv(m)) = Inv(m)
      BY <2>4, <1>2, GroupAssumption
    <3>3. QED BY <2>4, <3>1, <3>2
  <2>6. Mul(Mul(s, Inv(d)), tf) = Mul(s, Inv(m))
    BY <1>1, <2>1, <2>5, GroupAssumption
  <2>7. Mul(new, Inv(m)) = Mul(Inv(tf), Mul(s, Inv(m)))
    BY <1>1, <1>2, GroupAssumption
  <2>8. Mul(Inv(tf), Mul(Mul(s, Inv(d)), tf)) \in Shifts
    BY <2>2, ShiftAssumption
  <2>9. QED BY <2>6, <2>7, <2>8
<1>6. QED BY <1>2, <1>3, <1>4, <1>5

(* The wrong order of viewAll is wrong by a shift only.                    *)
LEMMA WrongByShift ==
  ASSUME NEW s \in Shifts, NEW k \in Matrices
  PROVE  /\ Mul(s, k) \in Matrices /\ Mul(Inv(s), Inv(k)) \in Matrices
         /\ Mul(Mul(Inv(s), Inv(k)), Mul(s, k)) \in Shifts
<1>1. s \in Matrices /\ Inv(s) \in Shifts /\ Inv(s) \in Matrices /\ Inv(k) \in Matrices
  BY ShiftAssumption, GroupAssumption
<1>2. Mul(s, k) \in Matrices /\ Mul(Inv(s), Inv(k)) \in Matrices
  BY <1>1, GroupAssumption
<1>3. Mul(Mul(Inv(s), Inv(k)), Mul(s, k)) = Mul(Inv(s), Mul(Inv(k), Mul(s, k)))
  BY <1>1, <1>2, GroupAssumption
<1>4. Mul(Inv(k), Mul(s, k)) \in Shifts
  BY ShiftAssumption
<1>5. QED BY <1>1, <1>2, <1>3, <1>4, ShiftAssumption
-----------------------------------------------------------------------------
(* The inductive invariant.                                                *)

PostKinds == {"view", "place"}
AllPosts == [kind : PostKinds, value : Matrices \cup Points, n : Nat]
Loadings == [forced : BOOLEAN, served : BOOLEAN, value : Matrices, after : Nat]

Kinds ==
  /\ Look
  /\ posts \subseteq AllPosts
  /\ \A p \in posts : p.value \in (IF p.kind = "view" THEN Matrices ELSE Points)
  /\ posted \in [PostKinds -> Nat] /\ newest \in [PostKinds -> Nat]
  /\ view \in Matrices /\ {at, drawn, put} \subseteq Points /\ dragged \in BOOLEAN
  /\ loading \subseteq Loadings

(* Posts of a kind are numbered; the last to arrive is none of those under *)
(* way.                                                                    *)
Numbered ==
  /\ \A p \in posts : p.n \in 1 .. posted[p.kind] /\ p.n # newest[p.kind]
  /\ \A p, q \in posts : p.kind = q.kind /\ p.n = q.n => p = q
  /\ \A k \in PostKinds : newest[k] <= posted[k]

(* A pan has grabbed a point, and what is remembered undoes the matrix up  *)
(* to a shift.                                                             *)
Remembered ==
  /\ st = "pan" => stTf # Unset /\ stOrigin # Unset
  /\ stTf = Unset => ctm = Id
  /\ stTf # Unset => Mul(stTf, ctm) \in Shifts

(* The answer to a refresh that was overtaken by no post has the view of   *)
(* the server.                                                             *)
Answers ==
  \A r \in loading : r.served =>
    /\ r.after <= posted["view"]
    /\ r.after = newest["view"] => r.value = view
    /\ \A p \in posts : p.kind = "view" => p.n # r.after

(* The last post says what the page shows.                                 *)
ViewTold ==
  astray = {} =>
    /\ newest["view"] = posted["view"] => view = Inv(ctm)
    /\ \A p \in posts : p.kind = "view" /\ p.n = posted["view"] => p.value = Inv(ctm)
PlaceTold ==
  ~dragged =>
    /\ newest["place"] = posted["place"] => put = at
    /\ \A p \in posts : p.kind = "place" /\ p.n = posted["place"] => p.value = at

CanvasInv ==
  /\ Kinds /\ Numbered /\ Remembered /\ RememberedInverse
  /\ Answers /\ ViewTold /\ PlaceTold

LEMMA CanvasStarts == ASSUME CanvasInit PROVE CanvasInv
<1> USE DEF CanvasInit
<1>1. Kinds
  <2>1. Look
    BY GroupAssumption DEF Look
  <2>2. [view |-> 0, place |-> 0] \in [PostKinds -> Nat]
    BY DEF PostKinds
  <2>3. loading \subseteq Loadings
    BY GroupAssumption DEF Loadings
  <2>4. QED BY <2>1, <2>2, <2>3, PointsAssumption, GroupAssumption DEF Kinds
<1>2. Numbered
  BY DEF Numbered, PostKinds
<1>3. Remembered /\ RememberedInverse
  BY DEF Remembered, RememberedInverse
<1>4. Answers /\ ViewTold /\ PlaceTold
  BY DEF Answers, ViewTold, PlaceTold
<1>5. QED BY <1>1, <1>2, <1>3, <1>4 DEF CanvasInv

-----------------------------------------------------------------------------
(* What a post and its arrival do to the numbers.                          *)
LEMMA PostNumbers ==
  ASSUME Kinds, Numbered, NEW kind \in PostKinds, NEW value, Post(kind, value),
         value \in (IF kind = "view" THEN Matrices ELSE Points)
  PROVE  /\ posts' \subseteq AllPosts
         /\ \A p \in posts' : p.value \in (IF p.kind = "view" THEN Matrices ELSE Points)
         /\ posted' \in [PostKinds -> Nat]
         /\ newest' \in [PostKinds -> Nat]
         /\ Numbered'
         /\ newest'[kind] # posted'[kind]
         /\ \A p \in posts' : p.kind = kind /\ p.n = posted'[kind] => p.value = value
         /\ \A k \in PostKinds \ {kind} : posted'[k] = posted[k]
         /\ \A p \in posts' : p \in posts \/ (p.kind = kind /\ p.n = posted[kind] + 1)
         /\ posted'[kind] = posted[kind] + 1
<1> DEFINE new == [kind |-> kind, value |-> value, n |-> posted[kind] + 1]
<1>1. /\ posts' = posts \cup {new} /\ newest' = newest
      /\ posted' = [posted EXCEPT ![kind] = posted[kind] + 1]
  BY DEF Post
<1>2. /\ posted[kind] \in Nat /\ posted' \in [PostKinds -> Nat]
      /\ posted'[kind] = posted[kind] + 1
      /\ \A k \in PostKinds \ {kind} : posted'[k] = posted[k]
  BY <1>1 DEF Kinds
<1>3. new \in AllPosts /\ new.kind = kind /\ new.value = value /\ new.n = posted[kind] + 1
  BY <1>2 DEF AllPosts
<1>4. \A p \in posts : p.kind \in PostKinds /\ p.n \in Nat /\ p.n <= posted[p.kind]
  BY DEF Kinds, AllPosts, Numbered
<1>5. \A k \in PostKinds : newest[k] \in Nat /\ posted[k] \in Nat /\ newest[k] <= posted[k]
  BY DEF Kinds, Numbered
<1>6. \A p \in posts' : p = new \/ p \in posts
  BY <1>1
<1>7. Numbered'
  <2>1. \A p \in posts' : p.n \in 1 .. posted'[p.kind] /\ p.n # newest'[p.kind]
    <3> SUFFICES ASSUME NEW p \in posts'
                 PROVE  p.n \in 1 .. posted'[p.kind] /\ p.n # newest'[p.kind]
      OBVIOUS
    <3>1. CASE p = new
      BY <3>1, <1>1, <1>2, <1>3, <1>5
    <3>2. CASE p \in posts
      <4>1. p.kind \in PostKinds /\ p.n \in 1 .. posted[p.kind] /\ p.n # newest[p.kind]
        BY <3>2, <1>4 DEF Numbered
      <4>2. posted[p.kind] \in Nat /\ posted'[p.kind] \in Nat /\ posted[p.kind] <= posted'[p.kind]
        BY <4>1, <1>2, <1>5
      <4>3. QED BY <4>1, <4>2, <1>1
    <3>3. QED BY <1>6, <3>1, <3>2
  <2>2. \A p, q \in posts' : p.kind = q.kind /\ p.n = q.n => p = q
    <3>1. \A p \in posts : ~(p.kind = kind /\ p.n = posted[kind] + 1)
      BY <1>4, <1>5
    <3>2. QED BY <1>3, <1>6, <3>1 DEF Numbered
  <2>3. \A k \in PostKinds : newest'[k] <= posted'[k]
    BY <1>1, <1>2, <1>5
  <2>4. QED BY <2>1, <2>2, <2>3 DEF Numbered
<1>8. newest'[kind] # posted'[kind]
  BY <1>1, <1>2, <1>5
<1>9. \A p \in posts' : p.kind = kind /\ p.n = posted'[kind] => p.value = value
  BY <1>2, <1>3, <1>4, <1>5, <1>6
<1>10. /\ posts' \subseteq AllPosts /\ newest' \in [PostKinds -> Nat]
       /\ \A p \in posts' : p.value \in (IF p.kind = "view" THEN Matrices ELSE Points)
  BY <1>1, <1>3, <1>6 DEF Kinds
<1>11. QED BY <1>2, <1>3, <1>6, <1>7, <1>8, <1>9, <1>10

(* A post of a view leaves the rest true, and is the only one to say what  *)
(* the page shows.                                                         *)
WireOK ==
  /\ posts \subseteq AllPosts
  /\ \A p \in posts : p.value \in (IF p.kind = "view" THEN Matrices ELSE Points)
  /\ posted \in [PostKinds -> Nat] /\ newest \in [PostKinds -> Nat]
  /\ view \in Matrices /\ {at, drawn, put} \subseteq Points /\ dragged \in BOOLEAN

LEMMA ViewPosted ==
  ASSUME CanvasInv, NEW value \in Matrices, Post("view", value), UNCHANGED piece,
         loading' \subseteq loading
  PROVE  /\ WireOK' /\ loading' \subseteq Loadings /\ Numbered' /\ Answers' /\ PlaceTold'
         /\ newest'["view"] # posted'["view"]
         /\ \A p \in posts' : p.kind = "view" /\ p.n = posted'["view"] => p.value = value
<1> USE DEF CanvasInv
<1>1. "view" \in PostKinds /\ "place" \in PostKinds \ {"view"}
  BY DEF PostKinds
<1>2. /\ posts' \subseteq AllPosts
      /\ \A p \in posts' : p.value \in (IF p.kind = "view" THEN Matrices ELSE Points)
      /\ posted' \in [PostKinds -> Nat] /\ newest' \in [PostKinds -> Nat]
      /\ Numbered'
      /\ newest'["view"] # posted'["view"]
      /\ \A p \in posts' : p.kind = "view" /\ p.n = posted'["view"] => p.value = value
      /\ posted'["place"] = posted["place"]
      /\ \A p \in posts' : p \in posts \/ (p.kind = "view" /\ p.n = posted["view"] + 1)
      /\ posted'["view"] = posted["view"] + 1
  BY <1>1, PostNumbers
<1>3. UNCHANGED <<view, put, newest, at, drawn, dragged>>
  BY DEF Post, piece
<1>4. WireOK' /\ loading' \subseteq Loadings
  BY <1>2, <1>3 DEF WireOK, Kinds
<1>5. Answers'
  <2> SUFFICES ASSUME NEW r \in loading', r.served
               PROVE  /\ r.after <= posted'["view"]
                      /\ r.after = newest'["view"] => r.value = view'
                      /\ \A p \in posts' : p.kind = "view" => p.n # r.after
    BY DEF Answers
  <2>1. r \in loading /\ r.after \in Nat /\ posted["view"] \in Nat
    BY <1>1 DEF Kinds, Loadings
  <2>2. /\ r.after <= posted["view"]
        /\ r.after = newest["view"] => r.value = view
        /\ \A p \in posts : p.kind = "view" => p.n # r.after
    BY <2>1 DEF Answers
  <2>3. QED BY <1>2, <1>3, <2>1, <2>2
<1>6. PlaceTold'
  BY <1>2, <1>3 DEF PlaceTold
<1>7. QED BY <1>2, <1>4, <1>5, <1>6

(* So does every gesture that ends in one.                                 *)
LEMMA ViewSettled ==
  ASSUME CanvasInv, NEW value \in Matrices, Post("view", value), UNCHANGED piece,
         loading' \subseteq loading, Look', Remembered', RememberedInverse',
         astray' = {} => value = Inv(ctm')
  PROVE  CanvasInv'
<1>1. /\ WireOK' /\ loading' \subseteq Loadings /\ Numbered' /\ Answers' /\ PlaceTold'
      /\ newest'["view"] # posted'["view"]
      /\ \A p \in posts' : p.kind = "view" /\ p.n = posted'["view"] => p.value = value
  BY ViewPosted
<1>2. Kinds'
  BY <1>1 DEF Kinds, WireOK
<1>3. ViewTold'
  BY <1>1 DEF ViewTold
<1>4. QED BY <1>1, <1>2, <1>3 DEF CanvasInv

(* settle: the matrix and its inverse.                                     *)
LEMMA SettleKeeps ==
  ASSUME CanvasInv, NEW matrix \in Matrices, Settle(matrix), st' = st \/ st' = "",
         UNCHANGED stOrigin
  PROVE  CanvasInv'
<1> USE DEF CanvasInv
<1>1. /\ ctm' = matrix /\ stTf' = Inv(matrix) /\ fitted' = FALSE /\ astray' = {}
      /\ Post("view", Inv(matrix)) /\ UNCHANGED piece /\ loading' = loading
  BY DEF Settle, KeepBar
<1>2. Inv(matrix) \in Matrices /\ Mul(Inv(matrix), matrix) \in Shifts /\ Unset \notin Matrices
  BY GroupAssumption, ShiftAssumption, PointsAssumption
<1>3. Look'
  BY <1>1, <1>2 DEF Kinds, Look
<1>4. Remembered' /\ RememberedInverse'
  BY <1>1, <1>2 DEF Remembered, RememberedInverse
<1>5. QED BY <1>1, <1>2, <1>3, <1>4, ViewSettled

(* What neither posts nor moves the view.                                  *)
LEMMA OthersKeep ==
  ASSUME CanvasInv, UNCHANGED <<look, wire, loading, piece, astray>>
  PROVE  CanvasInv'
BY DEF CanvasInv, Kinds, Look, Numbered, Remembered, RememberedInverse, Answers, ViewTold,
       PlaceTold, look, wire, piece
-----------------------------------------------------------------------------
(* The actions on the viewpoint, one by one.                               *)
LEMMA MouseDownKeeps ==
  ASSUME CanvasInv, NEW p \in Points, MouseDown(p) PROVE CanvasInv'
<1> USE DEF CanvasInv
<1>1. /\ st' = "pan" /\ stTf' = Inv(ctm) /\ stOrigin' = Act(Inv(ctm), p) /\ fitted' = FALSE
      /\ UNCHANGED <<ctm, astray, loading, wire, piece>>
  BY DEF MouseDown, KeepBar
<1>2. /\ ctm \in Matrices /\ Inv(ctm) \in Matrices /\ Mul(Inv(ctm), ctm) \in Shifts
      /\ Act(Inv(ctm), p) \in Points /\ Unset \notin Matrices /\ Unset \notin Points
  BY GroupAssumption, ActionAssumption, ShiftAssumption, PointsAssumption DEF Kinds, Look
<1>3. Look' /\ Remembered' /\ RememberedInverse'
  BY <1>1, <1>2 DEF Look, Remembered, RememberedInverse
<1>4. Kinds' /\ Numbered' /\ Answers' /\ ViewTold' /\ PlaceTold'
  BY <1>1, <1>3 DEF Kinds, Numbered, Answers, ViewTold, PlaceTold, wire, piece
<1>5. QED BY <1>3, <1>4

LEMMA MouseMoveKeeps ==
  ASSUME CanvasInv, NEW p \in Points, MouseMove(p)
  PROVE  /\ CanvasInv'
         /\ Mul(ctm', Inv(ctm)) \in Shifts /\ Act(ctm', stOrigin) = p
<1> USE DEF CanvasInv
<1>1. /\ st = "pan" /\ ctm' = Mul(Inv(stTf), Shift(stOrigin, Act(stTf, p))) /\ astray' # {}
      /\ UNCHANGED <<st, stTf, stOrigin, fitted, loading, wire, piece>>
  BY DEF MouseMove, Panned, KeepBar
<1>2. ctm \in Matrices /\ stTf \in Matrices /\ stOrigin \in Points /\ Mul(stTf, ctm) \in Shifts
  BY <1>1 DEF Kinds, Look, Remembered
<1>3. /\ ctm' \in Matrices /\ Mul(stTf, ctm') \in Shifts
      /\ Mul(ctm', Inv(ctm)) \in Shifts /\ Act(ctm', stOrigin) = p
  BY <1>1, <1>2, PanIsShift
<1>4. Look' /\ Remembered' /\ RememberedInverse'
  BY <1>1, <1>2, <1>3, PointsAssumption DEF Kinds, Look, Remembered, RememberedInverse
<1>5. Kinds' /\ Numbered' /\ Answers' /\ ViewTold' /\ PlaceTold'
  BY <1>1, <1>4 DEF Kinds, Numbered, Answers, ViewTold, PlaceTold, wire, piece
<1>6. QED BY <1>3, <1>4, <1>5

LEMMA ViewAllKeeps ==
  ASSUME CanvasInv, NEW p \in Points, NEW c \in Points, NEW z \in Zooms, ViewAll(p, c, z)
  PROVE  CanvasInv'
<1> USE DEF CanvasInv
<1> DEFINE moved == Mul(Inv(Id), Shift(p, c))
           k == Zoom(z, p)
<1>1. /\ ctm' = Mul(moved, k) /\ stTf' = Mul(Inv(moved), Inv(k)) /\ fitted' = TRUE
      /\ Post("view", Inv(ctm')) /\ astray' = {} /\ loading' = loading
      /\ UNCHANGED <<st, stOrigin, piece>>
  BY DEF ViewAll, KeepBar
<1>2. moved \in Shifts /\ k \in Matrices
  <2>1. Shift(p, c) \in Shifts /\ Shift(p, c) \in Matrices
    BY ShiftAssumption
  <2>2. moved = Shift(p, c)
    BY <2>1, InverseOfId, GroupAssumption
  <2>3. QED BY <2>1, <2>2, ZoomAssumption
<1>3. /\ Mul(moved, k) \in Matrices /\ Mul(Inv(moved), Inv(k)) \in Matrices
      /\ Mul(Mul(Inv(moved), Inv(k)), Mul(moved, k)) \in Shifts
  BY <1>2, WrongByShift
<1> HIDE DEF moved, k
<1>4. Inv(ctm') \in Matrices
  BY <1>1, <1>3, GroupAssumption
<1>5. Look' /\ Remembered' /\ RememberedInverse'
  BY <1>1, <1>3, PointsAssumption DEF Kinds, Look, Remembered, RememberedInverse
<1>6. QED BY <1>1, <1>4, <1>5, ViewSettled

LEMMA ViewNothingKeeps ==
  ASSUME CanvasInv, ViewNothing PROVE CanvasInv'
<1> USE DEF CanvasInv
<1>1. /\ ctm' = Mul(Inv(ctm), ctm) /\ stTf' = Inv(ctm') /\ fitted' = FALSE /\ astray' # {}
      /\ UNCHANGED <<st, stOrigin, loading, wire, piece>>
  BY DEF ViewNothing, KeepBar
<1>2. /\ ctm' = Id /\ stTf' = Id /\ Id \in Matrices /\ Mul(Id, Id) = Id /\ Id \in Shifts
      /\ Unset \notin Matrices
  BY <1>1, InverseOfId, GroupAssumption, ShiftAssumption, PointsAssumption DEF Kinds, Look
<1>3. Look' /\ Remembered' /\ RememberedInverse'
  BY <1>1, <1>2 DEF Kinds, Look, Remembered, RememberedInverse
<1>4. Kinds' /\ Numbered' /\ Answers' /\ ViewTold' /\ PlaceTold'
  BY <1>1, <1>3 DEF Kinds, Numbered, Answers, ViewTold, PlaceTold, wire, piece
<1>5. QED BY <1>3, <1>4

LEMMA DownloadKeeps ==
  ASSUME CanvasInv, Download PROVE CanvasInv'
<1> USE DEF CanvasInv
<1> DEFINE value == IF stTf = Unset THEN Id ELSE stTf
<1>1. /\ Post("view", value) /\ UNCHANGED <<look, piece>> /\ loading' = loading
      /\ astray' = IF st = "pan" \/ fitted THEN {"download"} ELSE {}
  BY DEF Download, KeepBar
<1>2. value \in Matrices
  BY GroupAssumption DEF Kinds, Look
<1>3. astray' = {} => value = Inv(ctm')
  BY <1>1, InverseOfId DEF look, Remembered, RememberedInverse
<1>4. Look' /\ Remembered' /\ RememberedInverse'
  BY <1>1 DEF Kinds, Look, Remembered, RememberedInverse, look
<1> HIDE DEF value
<1>5. QED BY <1>1, <1>2, <1>3, <1>4, ViewSettled

-----------------------------------------------------------------------------
(* A refresh, the node and the posts.                                      *)
LEMMA AskKeeps ==
  ASSUME CanvasInv, NEW forced \in BOOLEAN, AskRefresh(forced) PROVE CanvasInv'
<1> USE DEF CanvasInv
<1>1. /\ loading' = {[forced |-> forced, served |-> FALSE, value |-> Id, after |-> 0]}
      /\ UNCHANGED <<look, wire, piece, astray>>
  BY DEF AskRefresh
<1>2. loading' \subseteq Loadings /\ Answers'
  BY <1>1, GroupAssumption DEF Loadings, Answers
<1>3. Kinds' /\ Numbered' /\ Remembered' /\ RememberedInverse' /\ ViewTold' /\ PlaceTold'
  BY <1>1, <1>2 DEF Kinds, Look, Numbered, Remembered, RememberedInverse, ViewTold, PlaceTold,
                    look, wire, piece
<1>4. QED BY <1>2, <1>3

LEMMA ServeKeeps ==
  ASSUME CanvasInv, NEW r \in loading, ServeRefresh(r) PROVE CanvasInv'
<1> USE DEF CanvasInv
<1> DEFINE s == [r EXCEPT !.served = TRUE, !.value = view, !.after = newest["view"]]
<1>1. loading' = {s} /\ UNCHANGED <<look, wire, piece, astray>>
  BY DEF ServeRefresh
<1>2. "view" \in PostKinds /\ newest["view"] \in Nat /\ view \in Matrices /\ r \in Loadings
  BY DEF Kinds, PostKinds
<1>3. s \in Loadings /\ s.value = view /\ s.after = newest["view"]
  BY <1>2 DEF Loadings
<1>4. Answers'
  <2>1. newest["view"] <= posted["view"] /\ \A p \in posts : p.kind = "view" => p.n # newest["view"]
    BY <1>2 DEF Numbered
  <2>2. QED BY <1>1, <1>3, <2>1 DEF Answers, wire
<1>5. Kinds' /\ Numbered' /\ Remembered' /\ RememberedInverse' /\ ViewTold' /\ PlaceTold'
  BY <1>1, <1>3 DEF Kinds, Look, Numbered, Remembered, RememberedInverse, ViewTold, PlaceTold,
                    look, wire, piece
<1>6. QED BY <1>4, <1>5

LEMMA RefreshedKeeps ==
  ASSUME CanvasInv, NEW r \in loading, Refreshed(r) PROVE CanvasInv'
<1> USE DEF CanvasInv
<1> DEFINE value == r.value
           home == Mul(Inv(ctm), ctm)
<1>1. r.served /\ loading' = {} /\ UNCHANGED <<st, stOrigin, piece>>
  BY DEF Refreshed
<1>2. /\ value \in Matrices /\ Inv(value) \in Matrices /\ Inv(Inv(value)) = value
      /\ Mul(value, Inv(value)) \in Shifts
      /\ home = Id /\ Id \in Matrices /\ Inv(Id) = Id /\ Mul(Id, Id) \in Shifts
      /\ Unset \notin Matrices
  BY InverseOfId, InverseOfInverse, GroupAssumption, ShiftAssumption, PointsAssumption
     DEF Kinds, Look, Loadings
<1>3. SetViewpoint(value) => Look' /\ Remembered' /\ RememberedInverse'
  BY <1>1, <1>2 DEF SetViewpoint, Kinds, Look, Remembered, RememberedInverse
<1>4. Cleared => Look' /\ Remembered' /\ RememberedInverse'
  BY <1>1, <1>2 DEF Cleared, Kinds, Look, Remembered, RememberedInverse
<1>5. CASE r.forced /\ Post("view", Inv(home)) /\ SetViewpoint(value) /\ astray' = {"load"}
  BY <1>1, <1>2, <1>3, <1>5, ViewSettled
<1>6. CASE r.forced /\ Post("view", Inv(home)) /\ Cleared /\ astray' = {}
  <2>1. Inv(home) = Inv(ctm')
    BY <1>6 DEF Cleared
  <2>2. QED BY <1>1, <1>2, <1>4, <1>6, <2>1, ViewSettled
<1>7. CASE /\ ~r.forced /\ SetViewpoint(value) /\ UNCHANGED wire
           /\ astray' = IF r.after = newest["view"] /\ Arrived("view") THEN {} ELSE {"race"}
  <2>1. Answers' /\ Kinds' /\ Numbered' /\ PlaceTold'
    BY <1>1, <1>3, <1>7 DEF Answers, Kinds, Numbered, PlaceTold, wire, piece
  <2>2. ViewTold'
    <3>1. CASE r.after = newest["view"] /\ Arrived("view")
      <4>1. value = view
        BY <1>1, <3>1 DEF Answers
      <4>2. view' = Inv(ctm')
        BY <1>2, <1>7, <4>1 DEF SetViewpoint, wire
      <4>3. \A p \in posts' : p.kind # "view"
        BY <1>7, <3>1 DEF Arrived, wire
      <4>4. QED BY <4>2, <4>3 DEF ViewTold
    <3>2. CASE ~(r.after = newest["view"] /\ Arrived("view"))
      BY <1>7, <3>2 DEF ViewTold
    <3>3. QED BY <3>1, <3>2
  <2>3. QED BY <1>3, <1>7, <2>1, <2>2
<1>8. CASE UNCHANGED <<look, wire, astray>>
  BY <1>1, <1>8 DEF Kinds, Look, Numbered, Remembered, RememberedInverse, Answers, ViewTold,
                    PlaceTold, look, wire, piece
<1>9. QED BY <1>5, <1>6, <1>7, <1>8 DEF Refreshed

LEMMA DragKeeps ==
  ASSUME CanvasInv, DragStart \/ \E p \in Points : Drag(p) PROVE CanvasInv'
<1> USE DEF CanvasInv
<1>1. /\ UNCHANGED <<look, wire, loading, astray>> /\ dragged' = TRUE
      /\ at' \in Points /\ drawn' \in Points
  <2>1. Inv(ctm) \in Matrices /\ at \in Points /\ drawn \in Points /\ dragged \in BOOLEAN
    BY GroupAssumption DEF Kinds, Look
  <2>2. QED BY <2>1, ActionAssumption DEF DragStart, Drag, KeepBar
<1>2. Kinds' /\ Numbered' /\ Remembered' /\ RememberedInverse' /\ Answers' /\ ViewTold' /\ PlaceTold'
  BY <1>1 DEF Kinds, Look, Numbered, Remembered, RememberedInverse, Answers, ViewTold,
              PlaceTold, look, wire
<1>3. QED BY <1>2

LEMMA DragStopKeeps ==
  ASSUME CanvasInv, DragStop PROVE CanvasInv'
<1> USE DEF CanvasInv
<1>1. dragged' = FALSE /\ Post("place", at) /\ UNCHANGED <<look, loading, at, drawn, astray>>
  BY DEF DragStop, KeepBar
<1>2. "place" \in PostKinds /\ "view" \in PostKinds \ {"place"} /\ at \in Points
  BY DEF PostKinds, Kinds
<1>3. /\ posts' \subseteq AllPosts
      /\ \A p \in posts' : p.value \in (IF p.kind = "view" THEN Matrices ELSE Points)
      /\ posted' \in [PostKinds -> Nat] /\ newest' \in [PostKinds -> Nat]
      /\ Numbered'
      /\ newest'["place"] # posted'["place"]
      /\ \A p \in posts' : p.kind = "place" /\ p.n = posted'["place"] => p.value = at
      /\ posted'["view"] = posted["view"]
      /\ \A p \in posts' : p \in posts \/ (p.kind = "place" /\ p.n = posted["place"] + 1)
  BY <1>1, <1>2, PostNumbers
<1>4. UNCHANGED <<view, put, newest>>
  BY <1>1 DEF Post
<1>5. Kinds'
  BY <1>1, <1>3, <1>4 DEF Kinds, Look, look
<1>6. Remembered' /\ RememberedInverse'
  BY <1>1 DEF Remembered, RememberedInverse, look
<1>7. Answers'
  BY <1>1, <1>3, <1>4 DEF Answers
<1>8. ViewTold'
  BY <1>1, <1>3, <1>4 DEF ViewTold, look
<1>9. PlaceTold'
  BY <1>1, <1>3, <1>4 DEF PlaceTold
<1>10. QED BY <1>3, <1>5, <1>6, <1>7, <1>8, <1>9

LEMMA ArrivesKeeps ==
  ASSUME CanvasInv, NEW p \in posts, Arrives(p) PROVE CanvasInv'
<1> USE DEF CanvasInv
<1>1. posts' = posts \ {p} /\ UNCHANGED <<look, loading, piece, astray, posted>>
  BY DEF Arrives
<1>2. /\ p.kind \in PostKinds /\ p.n \in Nat /\ p.n <= posted[p.kind]
      /\ p.value \in (IF p.kind = "view" THEN Matrices ELSE Points)
      /\ \A q \in posts : q.kind = p.kind /\ q.n = p.n => q = p
  BY DEF Kinds, AllPosts, Numbered
<1>3. CASE UNCHANGED <<view, put, newest>>
  BY <1>1, <1>3 DEF Kinds, Look, Numbered, Remembered, RememberedInverse, Answers, ViewTold,
                    PlaceTold, look, piece
<1>4. CASE /\ view' = IF p.kind = "view" THEN p.value ELSE view
           /\ put' = IF p.kind = "place" THEN p.value ELSE put
           /\ newest' = [newest EXCEPT ![p.kind] = p.n]
  <2>1. newest \in [PostKinds -> Nat] /\ newest' \in [PostKinds -> Nat]
    BY <1>2, <1>4 DEF Kinds
  <2>2. newest'[p.kind] = p.n /\ \A k \in PostKinds \ {p.kind} : newest'[k] = newest[k]
    BY <1>2, <1>4, <2>1
  <2>3. Kinds'
    BY <1>1, <1>2, <1>4, <2>1 DEF Kinds, Look, PostKinds, look, piece
  <2>4. Numbered'
    <3>1. \A q \in posts' : q.n \in 1 .. posted'[q.kind] /\ q.n # newest'[q.kind]
      <4> SUFFICES ASSUME NEW q \in posts'
                   PROVE  q.n \in 1 .. posted'[q.kind] /\ q.n # newest'[q.kind]
        OBVIOUS
      <4>1. q \in posts /\ q # p /\ q.kind \in PostKinds
        BY <1>1 DEF Kinds, AllPosts
      <4>2. q.n \in 1 .. posted[q.kind] /\ q.n # newest[q.kind]
        BY <4>1 DEF Numbered
      <4>3. QED BY <1>1, <1>2, <2>2, <4>1, <4>2
    <3>2. \A q, o \in posts' : q.kind = o.kind /\ q.n = o.n => q = o
      BY <1>1 DEF Numbered
    <3>3. \A k \in PostKinds : newest'[k] <= posted'[k]
      BY <1>1, <1>2, <2>2 DEF Numbered
    <3>4. QED BY <3>1, <3>2, <3>3 DEF Numbered
  <2>5. Remembered' /\ RememberedInverse'
    BY <1>1 DEF Remembered, RememberedInverse, look
  <2>6. Answers' /\ ViewTold'
    <3>1. CASE p.kind = "view"
      <4>1. newest'["view"] = p.n /\ view' = p.value
        BY <1>4, <2>2, <3>1
      <4>2. Answers'
        BY <1>1, <3>1, <4>1 DEF Answers
      <4>3. ViewTold'
        BY <1>1, <3>1, <4>1 DEF ViewTold, look
      <4>4. QED BY <4>2, <4>3
    <3>2. CASE p.kind # "view"
      <4>1. newest'["view"] = newest["view"] /\ view' = view
        BY <1>4, <2>2, <3>2 DEF PostKinds
      <4>2. QED BY <1>1, <4>1 DEF Answers, ViewTold, look
    <3>3. QED BY <3>1, <3>2
  <2>7. PlaceTold'
    <3>1. CASE p.kind = "place"
      <4>1. newest'["place"] = p.n /\ put' = p.value
        BY <1>4, <2>2, <3>1
      <4>2. QED BY <1>1, <3>1, <4>1 DEF PlaceTold, piece
    <3>2. CASE p.kind # "place"
      <4>1. newest'["place"] = newest["place"] /\ put' = put
        BY <1>4, <2>2, <3>2 DEF PostKinds
      <4>2. QED BY <1>1, <4>1 DEF PlaceTold, piece
    <3>3. QED BY <3>1, <3>2
  <2>8. QED BY <2>3, <2>4, <2>5, <2>6, <2>7
<1>5. QED BY <1>3, <1>4 DEF Arrives

-----------------------------------------------------------------------------
(* Every step keeps the invariant.                                         *)
LEMMA CanvasKeeps == ASSUME CanvasInv, [CanvasNext]_canvasVars PROVE CanvasInv'
<1>1. CASE PanZoom
  <2>1. ASSUME NEW p \in Points, MouseDown(p) PROVE CanvasInv'
    BY <2>1, MouseDownKeeps
  <2>2. ASSUME NEW p \in Points, MouseMove(p) PROVE CanvasInv'
    BY <2>2, MouseMoveKeeps
  <2>3. ASSUME NEW p \in Points, NEW z \in Zooms, MouseWheel(p, z) PROVE CanvasInv'
    <3>1. ctm \in Matrices /\ Act(Inv(ctm), p) \in Points
      BY GroupAssumption, ActionAssumption DEF CanvasInv, Kinds, Look
    <3>2. Mul(ctm, Zoom(z, Act(Inv(ctm), p))) \in Matrices
      BY <3>1, ZoomAssumption, GroupAssumption
    <3>3. QED BY <2>3, <3>2, SettleKeeps DEF MouseWheel
  <2>4. CASE MouseUp
    <3>1. ctm \in Matrices
      BY DEF CanvasInv, Kinds, Look
    <3>2. QED BY <2>4, <3>1, SettleKeeps DEF MouseUp
  <2>5. CASE ResetViewpoint
    <3>1. Mul(Inv(ctm), ctm) \in Matrices
      BY GroupAssumption DEF CanvasInv, Kinds, Look
    <3>2. QED BY <2>5, <3>1, SettleKeeps DEF ResetViewpoint
  <2>6. CASE ViewNothing \/ Download
    BY <2>6, ViewNothingKeeps, DownloadKeeps
  <2>7. ASSUME NEW p \in Points, NEW c \in Points, NEW z \in Zooms, ViewAll(p, c, z) PROVE CanvasInv'
    BY <2>7, ViewAllKeeps
  <2>8. ASSUME NEW forced \in BOOLEAN, AskRefresh(forced) PROVE CanvasInv'
    BY <2>8, AskKeeps
  <2>9. ASSUME NEW r \in loading, ServeRefresh(r) \/ Refreshed(r) PROVE CanvasInv'
    BY <2>9, ServeKeeps, RefreshedKeeps
  <2>10. QED
    BY <1>1, <2>1, <2>2, <2>3, <2>4, <2>5, <2>6, <2>7, <2>8, <2>9 DEF PanZoom
<1>2. CASE Pieces
  BY <1>2, DragKeeps, DragStopKeeps DEF Pieces
<1>3. CASE Bar
  BY <1>3, OthersKeep DEF Bar, ChangeTool, UpdateCanvasSize, ToolsScrollR, ToolsScrollL, ScrollTo,
                          KeepCanvas
<1>4. ASSUME NEW p \in posts, Arrives(p) PROVE CanvasInv'
  BY <1>4, ArrivesKeeps
<1>5. CASE UNCHANGED canvasVars
  BY <1>5, OthersKeep DEF canvasVars
<1>6. QED BY <1>1, <1>2, <1>3, <1>4, <1>5 DEF CanvasNext

(* The invariant of the viewpoint, its posts and the dragged node.         *)
THEOREM CanvasCorrect == CanvasSpec => []CanvasInv
<1>1. CanvasInit => CanvasInv
  BY CanvasStarts
<1>2. CanvasInv /\ [CanvasNext]_canvasVars => CanvasInv'
  BY CanvasKeeps
<1>3. QED BY <1>1, <1>2, PTL DEF CanvasSpec

(* What the page remembers is the inverse of its matrix, outside a pan and *)
(* not after viewAll (canvas.js:575).                                      *)
THEOREM InverseRemembered == CanvasSpec => []RememberedInverse
<1>1. CanvasInv => RememberedInverse
  BY DEF CanvasInv
<1>2. QED BY <1>1, CanvasCorrect, PTL

(* Every move of a pan shifts the drawing, whatever came between, and puts *)
(* the grabbed point under the cursor (handleMouseMove).                   *)
THEOREM PansAreShifts == CanvasSpec => PanFollowsCursor
<1>1. CanvasInv /\ [CanvasNext]_canvasVars =>
        [\A p \in Points : MouseMove(p) =>
           Mul(ctm', Inv(ctm)) \in Shifts /\ Act(ctm', stOrigin) = p]_canvasVars
  BY MouseMoveKeeps
<1>2. QED BY <1>1, CanvasCorrect, PTL DEF CanvasSpec, PanFollowsCursor

(* Once the last post of each kind came in last, the server has the view   *)
(* and the place of the node that the page shows (updateServer, dragstop). *)
THEOREM CanvasReachesServer == CanvasSpec => []ServerHasCanvas
<1>1. CanvasInv => ServerHasCanvas
  BY DEF CanvasInv, ViewTold, PlaceTold, ServerHasCanvas, ServerHasView, ServerHasPlace, LastIn
<1>2. QED BY <1>1, CanvasCorrect, PTL

-----------------------------------------------------------------------------
(* The bar of tools.                                                       *)
Tight == Tools[tool] * ButtonWidth + Margin > width
BarInv ==
  /\ tool \in DOMAIN Tools \cup {NoTool} /\ index \in Nat /\ width \in Widths
  /\ widened \in BOOLEAN /\ (tool = NoTool => index = 0)
  /\ tool # NoTool =>
       /\ Tools[tool] > 0 => index < Tools[tool]
       /\ left = (Tight /\ index > 0)
       /\ right = (Tight /\ index + PerBar(width) < Tools[tool])
       /\ index > 0 /\ ~widened => Tight

(* A window shows a tool at least, and no more tools than it has room for. *)
LEMMA RoomForOne ==
  ASSUME NEW w \in Widths
  PROVE  /\ w \in Nat /\ ButtonWidth \in Nat \ {0} /\ PerBar(w) \in Nat /\ PerBar(w) >= 1
         /\ \A n \in Nat : PerBar(w) < n => n * ButtonWidth > w
<1>1. w \in Nat /\ ButtonWidth \in Nat \ {0} /\ w >= ButtonWidth
  BY PointsAssumption
<1> DEFINE q == w \div ButtonWidth
<1>2. q \in Nat /\ q * ButtonWidth <= w /\ w < q * ButtonWidth + ButtonWidth
  BY <1>1
<1>3. q >= 1
  BY <1>1, <1>2
<1>4. ASSUME NEW n \in Nat, q < n PROVE n * ButtonWidth > w
  <2>1. n * ButtonWidth >= (q + 1) * ButtonWidth
    BY <1>1, <1>2, <1>3, <1>4
  <2>2. (q + 1) * ButtonWidth = q * ButtonWidth + ButtonWidth
    BY <1>1, <1>2
  <2>3. n * ButtonWidth \in Nat /\ q * ButtonWidth \in Nat
    BY <1>1, <1>2
  <2>4. QED BY <1>1, <1>2, <2>1, <2>2, <2>3
<1>5. QED BY <1>1, <1>2, <1>3, <1>4 DEF PerBar

LEMMA BarStarts == ASSUME CanvasInit PROVE BarInv
<1>1. tool = NoTool /\ index = 0 /\ width \in Widths /\ widened = FALSE
  BY PointsAssumption DEF CanvasInit
<1>2. QED BY <1>1 DEF BarInv

LEMMA BarKeeps == ASSUME BarInv, [CanvasNext]_canvasVars PROVE BarInv'
<1> USE DEF BarInv, Tight
<1>1. \A t \in DOMAIN Tools : Tools[t] \in Nat /\ Tools[t] * ButtonWidth \in Nat /\ t # NoTool
  BY PointsAssumption
<1>2. Margin \in Nat /\ width \in Nat /\ ButtonWidth \in Nat \ {0}
  BY PointsAssumption
<1>3. ASSUME NEW t \in DOMAIN Tools, ChangeTool(t) PROVE BarInv'
  <2>1. /\ tool' = (IF tool = t THEN NoTool ELSE t) /\ index' = 0 /\ widened' = FALSE
        /\ width' = width /\ UpdateTools(tool', 0, width)
    BY <1>3 DEF ChangeTool
  <2>2. CASE tool = t
    BY <2>1, <2>2
  <2>3. CASE tool # t
    <3>1. /\ tool' = t
          /\ left' = (Tools[t] * ButtonWidth + Margin > width /\ 0 > 0)
          /\ right' = (Tools[t] * ButtonWidth + Margin > width /\ 0 + PerBar(width) < Tools[t])
      BY <1>1, <2>1, <2>3 DEF UpdateTools
    <3>2. Tight' <=> Tools[t] * ButtonWidth + Margin > width
      BY <2>1, <3>1
    <3>3. tool' \in DOMAIN Tools /\ index' = 0 /\ width' \in Widths /\ widened' = FALSE
      BY <2>1, <3>1
    <3>4. left' = (Tight' /\ index' > 0)
      BY <3>1, <3>2, <3>3
    <3>5. right' = (Tight' /\ index' + PerBar(width') < Tools[tool'])
      BY <2>1, <3>1, <3>2, <3>3
    <3>6. tool' # NoTool /\ (Tools[tool'] > 0 => index' < Tools[tool'])
      BY <1>1, <3>3
    <3>7. ~(index' > 0)
      BY <3>3
    <3> HIDE DEF Tight
    <3>8. QED BY <3>3, <3>4, <3>5, <3>6, <3>7
  <2>4. QED BY <2>2, <2>3
<1>4. ASSUME NEW w \in Widths, UpdateCanvasSize(w) PROVE BarInv'
  <2>1. /\ width' = w /\ w \in Nat /\ UNCHANGED <<tool, index>> /\ UpdateTools(tool, index, w)
        /\ widened' = (widened \/ (w > width /\ index > 0))
    BY <1>4, RoomForOne DEF UpdateCanvasSize
  <2>2. CASE tool = NoTool
    BY <2>1, <2>2
  <2>3. CASE tool # NoTool
    <3>1. /\ tool \in DOMAIN Tools
          /\ left' = (Tools[tool] * ButtonWidth + Margin > w /\ index > 0)
          /\ right' = (Tools[tool] * ButtonWidth + Margin > w /\ index + PerBar(w) < Tools[tool])
      BY <2>1, <2>3 DEF UpdateTools
    <3>2. index > 0 /\ ~widened' => Tools[tool] * ButtonWidth + Margin > w
      <4> SUFFICES ASSUME index > 0, ~widened' PROVE Tools[tool] * ButtonWidth + Margin > w
        OBVIOUS
      <4>1. ~widened /\ ~(w > width)
        BY <2>1
      <4>2. Tools[tool] * ButtonWidth + Margin > width
        BY <2>3, <4>1
      <4>3. Tools[tool] * ButtonWidth \in Nat
        BY <1>1, <3>1
      <4>4. QED BY <1>2, <2>1, <4>1, <4>2, <4>3
    <3>3. QED BY <2>1, <2>3, <3>1, <3>2
  <2>4. QED BY <2>2, <2>3
<1>5. ASSUME NEW i \in Nat, tool \in DOMAIN Tools, ScrollTo(i), i < Tools[tool] \/ Tools[tool] = 0, Tight
      PROVE  BarInv'
  <2>1. /\ index' = i /\ UNCHANGED <<tool, width>>
        /\ widened' = (widened /\ i > 0)
        /\ left' = (Tight /\ i > 0)
        /\ right' = (Tight /\ i + PerBar(width) < Tools[tool])
    BY <1>1, <1>5 DEF ScrollTo, UpdateTools
  <2>2. QED BY <1>1, <1>5, <2>1
<1>6. CASE ToolsScrollR
  <2>1. /\ tool \in DOMAIN Tools /\ Tight /\ index + PerBar(width) < Tools[tool]
        /\ ScrollTo(index + PerBar(width) - 1)
    BY <1>6 DEF ToolsScrollR
  <2>2. index + PerBar(width) - 1 \in Nat /\ index + PerBar(width) - 1 < Tools[tool]
    BY <1>1, <2>1, RoomForOne
  <2>3. QED BY <1>5, <2>1, <2>2
<1>7. CASE ToolsScrollL
  <2>1. tool \in DOMAIN Tools /\ Tight /\ index > 0 /\ ScrollTo(ScrolledBack)
    BY <1>7 DEF ToolsScrollL
  <2>2. ScrolledBack \in Nat /\ ScrolledBack <= index
    BY RoomForOne DEF ScrolledBack
  <2>3. QED BY <1>1, <1>5, <2>1, <2>2
<1>8. CASE UNCHANGED bar
  BY <1>8 DEF bar
<1>9. (PanZoom \/ Pieces \/ (\E p \in posts : Arrives(p)) \/ UNCHANGED canvasVars) => UNCHANGED bar
  BY DEF PanZoom, Pieces, Arrives, canvasVars, MouseDown, MouseMove, MouseUp, MouseWheel, Settle,
         ResetViewpoint, ViewAll, ViewNothing, Download, AskRefresh, ServeRefresh, Refreshed,
         DragStart, Drag, DragStop, KeepBar
<1>10. QED BY <1>3, <1>4, <1>6, <1>7, <1>8, <1>9 DEF CanvasNext, Bar

(* A tool that is not shown can be scrolled to and none is skipped, for    *)
(* every width and number of tools, unless the window grew over a scrolled *)
(* bar (updateTools).                                                      *)
THEOREM ToolsReachable == CanvasSpec => []HiddenToolsReachable
<1>1. CanvasInit => BarInv
  BY BarStarts
<1>2. BarInv /\ [CanvasNext]_canvasVars => BarInv'
  BY BarKeeps
<1>3. BarInv => HiddenToolsReachable
  <2> SUFFICES ASSUME BarInv, tool # NoTool, ~widened, index + PerBar(width) < Tools[tool]
               PROVE  Tight
    BY DEF BarInv, HiddenToolsReachable
  <2>1. Tools[tool] \in Nat /\ Margin \in Nat /\ PerBar(width) < Tools[tool] /\ width \in Nat
    BY PointsAssumption, RoomForOne DEF BarInv
  <2>2. Tools[tool] * ButtonWidth > width /\ Tools[tool] * ButtonWidth \in Nat
    BY <2>1, RoomForOne DEF BarInv
  <2>3. QED BY <2>1, <2>2 DEF Tight
<1>4. QED BY <1>1, <1>2, <1>3, PTL DEF CanvasSpec

(* Types of the canvas.                                                    *)
THEOREM CanvasTypes == CanvasSpec => []CanvasTypeOK
<1>1. CanvasInit => BarInv
  BY BarStarts
<1>2. BarInv /\ [CanvasNext]_canvasVars => BarInv'
  BY BarKeeps
<1>3. CanvasInv /\ BarInv => CanvasTypeOK
  BY DEF CanvasInv, Kinds, Numbered, AllPosts, PostKinds, Loadings, BarInv, CanvasTypeOK
<1>4. QED BY <1>1, <1>2, <1>3, CanvasCorrect, PTL DEF CanvasSpec
=============================================================================

------------------------------ MODULE MCCanvas ------------------------------
EXTENDS Canvas
(* x -> a x + b over the integers modulo 3, the smallest field where zooms *)
(* and shifts do not commute.                                              *)
MCPoints == 0 .. 2
MCMatrices == {1, 2} \X MCPoints
MCShifts == {1} \X MCPoints
MCId == <<1, 0>>
MCMul(a, b) == <<(a[1] * b[1]) % 3, (a[1] * b[2] + a[2]) % 3>>
MCInv(a) == <<a[1], (2 * a[1] * a[2]) % 3>>
MCAct(a, p) == (a[1] * p + a[2]) % 3
MCShift(p, q) == <<1, (q + 2 * p) % 3>>
MCZoom(z, p) == <<z, (p + 2 * z * p) % 3>>
MCAxes(p) == p = 0
MCTools == [Control |-> 5, Sound |-> 2]
MCWidths == {2, 4, 6}
MCUsers == {[view |-> 3, node |-> 0, bar |-> 0], [view |-> 1, node |-> 4, bar |-> 0],
            [view |-> 0, node |-> 0, bar |-> 6], [view |-> 0, node |-> 0, bar |-> 0]}
=============================================================================

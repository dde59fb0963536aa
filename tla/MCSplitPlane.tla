------------------------------ MODULE MCSplitPlane ------------------------------
(***************************************************************************)
(* Constants of the instances of SplitPlane that TLC checks.               *)
(***************************************************************************)
EXTENDS SplitPlane, TLC

CONSTANTS p1, p2, x1, x2, x3

At(x, w, sx, sw) == [crtc_x |-> x, crtc_w |-> w, src_x |-> sx, src_w |-> sw]

(* On a screen of seven columns with the seam at three: the whole screen,  *)
(* each half up to the seam, across the seam and over the left edge, one   *)
(* column each side, reduced to a half across the seam, reduced and over   *)
(* the right edge.                                                         *)
MCRequests == {At(0, 3, 1, 3), At(3, 2, 0, 2), At(-1, 5, 2, 5),
               At(1, 4, 0, 8), At(5, 3, 1, 6)}

PipeSymmetry == Permutations({x1, x2, x3})

==============================================================================

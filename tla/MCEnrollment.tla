------------------------------ MODULE MCEnrollment ------------------------------
(* Enrollment for TLC: two calls under way at a time.  They are told apart by *)
(* nothing, so the safety run takes them as interchangeable.                  *)
EXTENDS Enrollment, TLC
CONSTANTS k1, k2
MCSymmetry == Permutations(Slots)
=============================================================================

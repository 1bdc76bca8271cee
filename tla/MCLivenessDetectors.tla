------------------------- MODULE MCLivenessDetectors -------------------------
(* An instance of LivenessDetectors for TLC: sessions are interchangeable. *)
EXTENDS LivenessDetectors, TLC

Symmetry == Permutations(SessionId)
=============================================================================

------------------------------- MODULE MCLoginFlow -------------------------------
(* LoginFlow for TLC.  Calls and sessions are told apart by nothing: the safety *)
(* run takes them as interchangeable.                                           *)
EXTENDS LoginFlow, TLC
CONSTANTS k1, k2, s1, s2
MCSymmetry == Permutations(Slots) \union Permutations(SessionId)
=============================================================================

------------------------------- MODULE MCLockout -------------------------------
(* A small instance of Lockout: a bucket of two tokens, and a schedule of two *)
(* steps.  The clients are interchangeable.                                   *)
EXTENDS Lockout, TLC

CONSTANTS c1, c2, frame

MCCapacity == [e \in {frame} |-> 2]
MCRate == [e \in {frame} |-> 1]
MCThresholds == {2, 3}
MCLockoutSeconds == [t \in MCThresholds |-> t - 1]
MCSymmetry == Permutations({c1, c2})
=============================================================================

---------------------------- MODULE MCAuthSession ----------------------------
(* Instances of AuthSession for TLC. *)
EXTENDS AuthSession

CONSTANTS alice, bob

MCFace == {alice, bob}
MCSimilar == {<<alice, alice>>, <<bob, bob>>}
MCRiskScore == {0, 1, 2}
=============================================================================

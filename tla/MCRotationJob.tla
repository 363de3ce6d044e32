---------------------------- MODULE MCRotationJob ----------------------------
EXTENDS RotationJob, TLC

CONSTANTS a, b, c, t1

\* The creator and another admin, who has a tab open; a member.
TwoAdmins == (a :> "admin") @@ (b :> "admin") @@ (c :> "member")
OneTab == (t1 :> b)
=============================================================================

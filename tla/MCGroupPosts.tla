---------------------------- MODULE MCGroupPosts ----------------------------
EXTENDS GroupPosts, TLC

CONSTANTS a, b, c

\* One admin who created the group, one admin promoted later, one member.
TwoAdmins == (a :> "admin") @@ (b :> "admin") @@ (c :> "member")
=============================================================================

---------------------------- MODULE MCGroupVault ----------------------------
EXTENDS GroupVault, TLC

CONSTANTS a, b, c

\* The creator, an admin and a member.
TwoAdmins == (a :> "admin") @@ (b :> "admin") @@ (c :> "member")
=============================================================================

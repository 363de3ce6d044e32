----------------------------- MODULE MCGroupRoles -----------------------------
EXTENDS GroupRoles, TLC

CONSTANTS alice, bob, carol

SlowClocks == {0, -1}

\* Carol is made an ambassador only; a claim may still make her an admin.
SomeRoles == (alice :> {"admin", "member"}) @@ (bob :> {"admin", "member"})
             @@ (carol :> {"ambassador"})
=============================================================================

--------------------------- MODULE MCGroupInvites ---------------------------
EXTENDS GroupInvites, TLC

CONSTANTS ann, ben, cat, dan, i1, i2, s1, s2

\* An admin, and an ambassador who sends the invites; one is accepted already.
Pair == [u \in User |-> CASE u = ann -> "admin" [] u = ben -> "ambassador" [] OTHER -> "none"]
One  == [i \in Invite |-> IF i = i1 THEN cat ELSE NoOne]

SlotSymmetry == Permutations(Slot)
=============================================================================

---------------------------- MODULE MCAccountFlows ----------------------------
EXTENDS AccountFlows

CONSTANTS laptop, phone

\* One device signs up and rotates, the other recovers and changes passwords.
TwoTabs == {laptop, phone}
Divided == [t \in TwoTabs |-> IF t = laptop THEN {"signup", "login", "reauth", "rotate"}
                                          ELSE {"login", "recovery", "change"}]
=============================================================================

----------------------------- MODULE MCKeyWorker -----------------------------
EXTENDS KeyWorker

\* A request of each family that behaves differently.
SomeKinds == {"completeLogin", "sealPost", "signPin", "beginKeyRotation", "commitKeyRotation",
              "generateSignupMaterial"}
=============================================================================

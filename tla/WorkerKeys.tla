------------------------------ MODULE WorkerKeys ------------------------------
(* What the crypto worker of a tab holds, and what each request asks of it     *)
(* (src/web/src/lib/crypto/worker.ts, rotation-material.ts). The keys are       *)
(* numbers: the client can tell two keypairs apart and nothing more.            *)
EXTENDS Integers

CONSTANTS User, None

Pair(u, k) == [user |-> u, key |-> k]

\* A fresh worker instance: `live` is liveKeys, `pending` the RotationState's.
Cold == [live |-> None, pending |-> None]

\* requireLiveKeys: the cached keys exist and are the requester's.
Warm(s, u) == s.live # None /\ s.live.user = u

\* RotationState.assertIdle and RotationState.require.
Idle(s) == s.pending = None
Begun(s, u) == s.pending # None /\ s.pending.user = u

-----------------------------------------------------------------------------
(* The requests, by what they need.                                        *)

\* Password work on material the request carries: no live keys involved.
PasswordKinds == {"generateSignupMaterial", "completeRecovery", "completeChangePassword"}

\* Signatures and seals refused while a rotation is in flight: they would be
\* made under a key about to be replaced.
SealKinds == {"sealPost", "sealPostEdit", "sealComment", "sealCommentEdit", "sealReaction"}
PinKinds == {"signPin", "signWrapRecord", "signVerification"}
IdleKinds == SealKinds \cup PinKinds

\* Signatures about a group, made whether or not a rotation is in flight.
GrantKinds == {"signGroupCreation", "signRoleGrant", "signSuccessorDesignation",
               "signSuccessorClaim", "signReadmission", "signLeaveRotationStart"}
InviteKinds == {"signInviteCreation", "signInviteAcceptance", "completeInvite"}

\* Minting, wrapping and re-wrapping a group key.
GroupKeyKinds == {"startGroupRotation", "startApprovalRekey", "startSelfRekey",
                  "selfWrapFromHandoff", "rewrapGroupKey"}

\* Opening what others sealed, and the texts of a group.
OpenKinds == {"openPosts", "openComments", "openReactions"}
TextKinds == {"decryptGroupNames", "encryptGroupText"}

\* The caller's own public key, to show or to check with.
OwnKinds == {"getOwnSigningKey", "getOwnFingerprint"}

\* The two steps of a key rotation that use both pairs.
PairKinds == {"wrapHandoff", "signKeyRotation"}

KeyKinds == IdleKinds \cup GrantKinds \cup InviteKinds \cup GroupKeyKinds \cup OpenKinds
            \cup TextKinds \cup OwnKinds \cup PairKinds \cup {"beginKeyRotation"}

Kind == PasswordKinds \cup KeyKinds
        \cup {"completeLogin", "hasLiveKeys", "commitKeyRotation", "discardKeyRotation", "clearLiveKeys"}

\* The handlers that await nothing: their effect and answer are one step.
SyncKinds == PinKinds \cup OwnKinds
             \cup {"signRoleGrant", "signSuccessorDesignation", "signSuccessorClaim",
                   "signReadmission", "signLeaveRotationStart", "hasLiveKeys",
                   "beginKeyRotation", "commitKeyRotation", "discardKeyRotation", "clearLiveKeys"}

\* Handlers that post signupProgress under the request's id before they end.
ProgressKinds == PasswordKinds \cup {"signKeyRotation"}

-----------------------------------------------------------------------------
\* The handler throws before it does anything: the guards of worker.ts, in
\* the order they are written.
Refused(s, kind, u) ==
  \/ kind \in IdleKinds /\ ~Idle(s)
  \/ kind \in KeyKinds /\ ~Warm(s, u)
  \/ kind \in PairKinds \cup {"commitKeyRotation"} /\ ~Begun(s, u)

\* beginKeyRotation mints a pair and drops the one of an unfinished attempt.
Begin(s, u, fresh) == [s EXCEPT !.pending = Pair(u, fresh)]

\* The server accepted: the new pair is the live one.
Commit(s) == [live |-> s.pending, pending |-> None]

Discard(s) == [s EXCEPT !.pending = None]

\* clearLiveKeys, posted on logout.
Clear(s) == Cold

\* The state after a handler that was not refused; completeLogin sets the live
\* keys when it ends (Login), whatever happened while it was unwrapping them.
After(s, kind, u, fresh) ==
  CASE kind = "beginKeyRotation"   -> Begin(s, u, fresh)
    [] kind = "commitKeyRotation"  -> Commit(s)
    [] kind = "discardKeyRotation" -> Discard(s)
    [] kind = "clearLiveKeys"      -> Clear(s)
    [] OTHER -> s

Login(s, u, k) == [s EXCEPT !.live = Pair(u, k)]
=============================================================================

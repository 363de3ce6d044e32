---------------------------- MODULE KeyMaterial ----------------------------
(***************************************************************************)
(* The client's cryptographic material (web/src/lib/crypto): what each     *)
(* function of the worker seals, signs and opens, and under which key and  *)
(* additional data.  The primitives are symbolic: a box opens only under   *)
(* the key and the additional data it was sealed with, a signature         *)
(* verifies only under its key, context and payload.  Bytes, base64, salts *)
(* and nonces are not represented.  Every term is a tuple that starts with *)
(* a tag, or a record of such tuples.                                      *)
(***************************************************************************)
EXTENDS Naturals, Sequences, FiniteSets

\* A function that throws makes Fail in place of a term; one that makes a
\* record is the set of what it makes, empty when it throws.
Fail == <<"fail">>
Unless(failed, made) == IF failed THEN {} ELSE {made}

---------------------------------------------------------------------------
(* Primitives *)

Encrypt(key, plain, aad) == <<"box", key, aad, plain>>
Decrypt(key, box, aad) ==
    IF box # Fail /\ box[2] = key /\ box[3] = aad THEN box[4] ELSE Fail

\* A wrap is sealed to a public key and opens with the private half of the
\* same pair; the pair is one term.
Wrap(pub, plain, aad) == Encrypt(pub, plain, aad)
Unwrap(pair, box, aad) == Decrypt(pair, box, aad)

Sign(pair, context, payload) == <<"sig", context, pair, payload>>
Verify(pub, context, payload, sig) ==
    /\ sig[2] = context
    /\ sig[3] = pub
    /\ sig[4] = payload

\* The n-th key pair of an account, and the group key of a generation.
KeyPair(user, n) == <<"keys", user, n>>
GroupKey(group, n) == <<"groupkey", group, n>>

DeriveKey(password) == <<"derived", password>>
RecoveryWrapKey(code) == <<"recoverywrap", code>>
RecoveryVerifier(code) == <<"verifier", code>>

---------------------------------------------------------------------------
(* Additional data: what a ciphertext is bound to *)

CredentialWrapAAD(user, copy) == <<"credential", user, copy>>
MemberWrapAAD(group, user, generation) == <<"member", group, user, generation>>
GenKeyAAD(group, generation) == <<"genkey", group, generation>>
PostAAD(group, sortKey, generation) == <<"post", group, sortKey, generation>>
CommentAAD(post, path, generation) == <<"comment", post, path, generation>>
ReactionAAD(post, target, user, generation) == <<"reaction", post, target, user, generation>>
GroupNameAAD(group, field, generation) == <<"groupname", group, field, generation>>
HandoffWrapAAD(user, group, generation, pub) == <<"handoff", user, group, generation, pub>>

---------------------------------------------------------------------------
(* Credentials: one bundle of private keys under a password and under a    *)
(* recovery code                                                           *)

\* The worker's cache: whose keys, and the pair.
LiveKeys(user, pair) == [userId |-> user, pair |-> pair]

WrapNewCredentials(user, password, code, bundle) ==
    [profile |-> Encrypt(DeriveKey(password), bundle, CredentialWrapAAD(user, "PROFILE")),
     recovery |-> Encrypt(RecoveryWrapKey(code), bundle, CredentialWrapAAD(user, "RECOVERY")),
     verifier |-> RecoveryVerifier(code),
     recoveryCode |-> code]

GenerateSignupMaterial(user, password, code, pair) ==
    [pub |-> pair, wrapped |-> WrapNewCredentials(user, password, code, pair)]

\* The keys a sealed copy holds; Fail is the DecryptionFailedError of a wrong
\* password, a wrong code or another account's copy.
UnwrapAndValidate(key, box, user, copy) == Decrypt(key, box, CredentialWrapAAD(user, copy))

CompleteLogin(user, password, profile, nonce) ==
    LET pair == UnwrapAndValidate(DeriveKey(password), profile, user, "PROFILE")
    IN  Unless(pair = Fail,
               [signature |-> Sign(pair, "LoginChallenge", nonce), keys |-> LiveKeys(user, pair)])

\* Recovery and a password change re-wrap the SAME pair under new secrets.
CompleteRecovery(user, code, recovery, newPassword, newCode) ==
    LET pair == UnwrapAndValidate(RecoveryWrapKey(code), recovery, user, "RECOVERY")
    IN  Unless(pair = Fail, WrapNewCredentials(user, newPassword, newCode, pair))

CompleteChangePassword(user, oldPassword, profile, newPassword, newCode) ==
    LET pair == UnwrapAndValidate(DeriveKey(oldPassword), profile, user, "PROFILE")
    IN  Unless(pair = Fail, WrapNewCredentials(user, newPassword, newCode, pair))

---------------------------------------------------------------------------
(* Key rotation: the next pair of an account *)

KeyRotationPayload(user, old, new, epoch, roster) == <<user, old, new, epoch, roster>>

SignKeyRotation(keys, pending, epoch, roster, newPassword, newCode) ==
    LET payload == KeyRotationPayload(keys.userId, keys.pair, pending, epoch, roster)
    IN  [new |-> pending,
         oldSignature |-> Sign(keys.pair, "KeyRotation", payload),
         newSignature |-> Sign(pending, "KeyRotation", payload),
         credentials |-> WrapNewCredentials(keys.userId, newPassword, newCode, pending)]

---------------------------------------------------------------------------
(* The group's keys *)

\* What the server serves a member to reach the group's keys with: the
\* generation of the member's own entry, the entry, and the chain of links.
OwnKey(keys, group, m) ==
    Unwrap(keys.pair, m.wrapped, MemberWrapAAD(group, keys.userId, m.generation))

\* Link n holds generation n's key under generation n+1's: each step down
\* opens one link with the key just recovered, and there is no step up.
WalkChainDown(start, group, from, to, chain) ==
    LET key[n \in Nat] ==
            IF n >= from THEN start
            ELSE IF n \notin DOMAIN chain THEN Fail
            ELSE Decrypt(key[n + 1], chain[n], GenKeyAAD(group, n))
    IN  IF to > from THEN Fail ELSE key[to]

KeyOfGeneration(keys, group, m, generation) ==
    LET own == OwnKey(keys, group, m)
    IN  IF own = Fail THEN Fail
        ELSE WalkChainDown(own, group, m.generation, generation, m.chain)

\* One unwrap, then a key per generation; a generation that cannot be derived
\* is remembered as such.
GenerationKeys(keys, group, m, generations) ==
    [n \in generations |-> KeyOfGeneration(keys, group, m, n)]

SignGroupCreation(keys, group, sortKey) ==
    [anchor |-> Sign(keys.pair, "TrustAnchor", <<keys.userId, keys.pair, group>>),
     rootGrant |-> Sign(keys.pair, "RoleGrant", <<group, keys.userId, "admin", sortKey, <<>>>>),
     wrapped |-> Wrap(keys.pair, GroupKey(group, 0), MemberWrapAAD(group, keys.userId, 0))]

Mint_LinkOfNew(keys, group, oldKey, generation) ==   \* faulty: bound to the new generation
    [generation |-> generation + 1,
     link |-> Encrypt(GroupKey(group, generation + 1), oldKey, GenKeyAAD(group, generation + 1)),
     own |-> Wrap(keys.pair, GroupKey(group, generation + 1),
                  MemberWrapAAD(group, keys.userId, generation + 1))]

Mint_LinkUp(keys, group, oldKey, generation) ==      \* faulty: the link walks up
    [generation |-> generation + 1,
     link |-> Encrypt(oldKey, GroupKey(group, generation + 1), GenKeyAAD(group, generation)),
     own |-> Wrap(keys.pair, GroupKey(group, generation + 1),
                  MemberWrapAAD(group, keys.userId, generation + 1))]

\* The mint every re-key shares: the new key wrapped to the caller, and the
\* link that lets its holders walk back to the old one.
Mint(keys, group, oldKey, generation) ==
    [generation |-> generation + 1,
     link |-> Encrypt(GroupKey(group, generation + 1), oldKey, GenKeyAAD(group, generation)),
     own |-> Wrap(keys.pair, GroupKey(group, generation + 1),
                  MemberWrapAAD(group, keys.userId, generation + 1))]

RotationStartPayload(group, by, subject, generation) == <<group, by, subject, generation>>
RotationRekeyPayload(group, by, subject, generation, reason) ==
    <<group, by, subject, generation, reason>>

StartGroupRotation(keys, group, m, subject) ==
    LET old == OwnKey(keys, group, m)
    IN  Unless(old = Fail,
               [mint |-> Mint(keys, group, old, m.generation),
                start |-> Sign(keys.pair, "RotationStart",
                               RotationStartPayload(group, keys.userId, subject, m.generation + 1))])

\* A leaver mints nothing: they sign the start that names themselves.
SignLeaveRotationStart(keys, group, generation) ==
    Sign(keys.pair, "RotationStart",
         RotationStartPayload(group, keys.userId, keys.userId, generation + 1))

\* The key a handoff row holds, wrapped to the caller's new pair.
HandedOffKey(keys, group, h) ==
    Unwrap(keys.pair, h.wrapped, HandoffWrapAAD(keys.userId, group, h.generation, keys.pair))

WrapHandoff_OldPub(keys, pending, group, m) ==   \* faulty: bound to the old pair
    LET own == OwnKey(keys, group, m)
    IN  Unless(own = Fail,
               [generation |-> m.generation,
                wrapped |-> Wrap(pending, own,
                                 HandoffWrapAAD(keys.userId, group, m.generation, keys.pair))])

WrapHandoff(keys, pending, group, m) ==
    LET own == OwnKey(keys, group, m)
    IN  Unless(own = Fail,
               [generation |-> m.generation,
                wrapped |-> Wrap(pending, own,
                                 HandoffWrapAAD(keys.userId, group, m.generation, pending))])

StartSelfRekey(keys, group, h) ==
    LET old == HandedOffKey(keys, group, h)
    IN  Unless(old = Fail,
               [mint |-> Mint(keys, group, old, h.generation),
                start |-> Sign(keys.pair, "RotationRekey",
                               RotationRekeyPayload(group, keys.userId, keys.userId,
                                                    h.generation + 1, "self"))])

\* An Open group mints nothing: the same key moves to the entry's own place.
SelfWrapFromHandoff(keys, group, h) ==
    LET old == HandedOffKey(keys, group, h)
    IN  IF old = Fail THEN Fail
        ELSE Wrap(keys.pair, old, MemberWrapAAD(group, keys.userId, h.generation))

StartApprovalRekey(keys, group, m, member, memberPub) ==
    LET old == OwnKey(keys, group, m)
        next == m.generation + 1
    IN  Unless(member = keys.userId \/ old = Fail,
               [mint |-> Mint(keys, group, old, m.generation),
                member |-> Wrap(memberPub, GroupKey(group, next), MemberWrapAAD(group, member, next)),
                start |-> Sign(keys.pair, "RotationRekey",
                               RotationRekeyPayload(group, keys.userId, member, next, "approval"))])

\* Refuses the whole batch when the caller is among the recipients.
RewrapGroupKey(keys, group, m, recipients, pubOf) ==
    LET own == OwnKey(keys, group, m)
    IN  Unless(own = Fail \/ keys.userId \in recipients,
               [r \in recipients |-> Wrap(pubOf[r], own, MemberWrapAAD(group, r, m.generation))])

---------------------------------------------------------------------------
(* Invites *)

InviteMACKey(pair, invite) == <<"invitemac", pair, invite>>
InviteMAC(macKey, payload) == <<"mac", macKey, payload>>
InviteAcceptancePayload(invite, pub) == <<invite, pub>>

SignInviteCreation(keys, invite, group) ==
    [signature |-> Sign(keys.pair, "Invite", <<invite, group, keys.pair>>),
     macKey |-> InviteMACKey(keys.pair, invite)]

SignInviteAcceptance(keys, invite, macKey) ==
    LET payload == InviteAcceptancePayload(invite, keys.pair)
    IN  [pub |-> keys.pair,
         signature |-> Sign(keys.pair, "Invite", payload),
         mac |-> InviteMAC(macKey, payload)]

AdmissionPayload(group, by, member, pub, invite, generation) ==
    <<group, by, member, pub, invite, generation>>

\* The MAC check comes before the unwrap, the wrap and the admission.
CompleteInvite(keys, invite, group, m, invited, pub, mac) ==
    LET own == OwnKey(keys, group, m)
        payload == InviteAcceptancePayload(invite, pub)
    IN  Unless(mac # InviteMAC(InviteMACKey(keys.pair, invite), payload) \/ own = Fail,
               [wrapped |-> Wrap(pub, own, MemberWrapAAD(group, invited, m.generation)),
                generation |-> m.generation,
                admission |-> Sign(keys.pair, "Admission",
                                   AdmissionPayload(group, keys.userId, invited, pub, invite,
                                                    m.generation))])

SignReadmission(keys, group, member, pub, slot, generation) ==
    Sign(keys.pair, "Admission",
         AdmissionPayload(group, keys.userId, member, pub, slot, generation))

---------------------------------------------------------------------------
(* Content *)

SignedPayload(author, group, sortKey, generation, day, box) ==
    <<author, group, sortKey, generation, day, box>>

\* faulty: bound to the writer's generation, not the content's
SealPostContent_OwnGeneration(keys, group, m, sortKey, generation, content, day) ==
    LET key == KeyOfGeneration(keys, group, m, generation)
        box == Encrypt(key, content, PostAAD(group, sortKey, m.generation))
    IN  Unless(key = Fail,
               [author |-> keys.userId, sortKey |-> sortKey, generation |-> generation,
                day |-> day, box |-> box,
                signature |-> Sign(keys.pair, "Post",
                                   SignedPayload(keys.userId, group, sortKey, generation, day, box))])

SealPostContent(keys, group, m, sortKey, generation, content, day) ==
    LET key == KeyOfGeneration(keys, group, m, generation)
        box == Encrypt(key, content, PostAAD(group, sortKey, generation))
    IN  Unless(key = Fail,
               [author |-> keys.userId, sortKey |-> sortKey, generation |-> generation,
                day |-> day, box |-> box,
                signature |-> Sign(keys.pair, "Post",
                                   SignedPayload(keys.userId, group, sortKey, generation, day, box))])

\* A sort key holds the day it was filed; the client draws it, because the
\* signature covers it.
PostSortKey(day, n) == <<"POST", day, n>>
Later(x, y) == IF x > y THEN x ELSE y

SealPost(keys, group, m, generation, text, n, now) ==
    SealPostContent(keys, group, m, PostSortKey(now, n), generation,
                    <<text, now, 0>>, now)

\* An edit keeps the sort key, and is dated no earlier than the post and its
\* filing day, whatever the device's clock shows.
SealPostEdit(keys, group, m, sortKey, generation, text, at, now) ==
    SealPostContent(keys, group, m, sortKey, generation,
                    <<text, at, Later(now, at)>>, Later(now, sortKey[2]))

OpenPosts(keys, group, m, posts) ==
    LET keyFor == GenerationKeys(keys, group, m, {p.generation : p \in posts})
    IN  [p \in posts |-> IF keyFor[p.generation] = Fail THEN Fail
                         ELSE Decrypt(keyFor[p.generation], p.box,
                                      PostAAD(group, p.sortKey, p.generation))]

SealCommentContent(keys, group, m, post, path, generation, content, day) ==
    LET key == KeyOfGeneration(keys, group, m, generation)
        box == Encrypt(key, content, CommentAAD(post, path, generation))
    IN  Unless(key = Fail,
               [author |-> keys.userId, post |-> post, path |-> path,
                generation |-> generation, day |-> day, box |-> box,
                signature |-> Sign(keys.pair, "Comment",
                                   SignedPayload(keys.userId, group, path, generation, day, box))])

SealComment(keys, group, m, post, path, generation, text, now) ==
    SealCommentContent(keys, group, m, post, path, generation, <<text, now, 0>>, now)

\* Unlike a post's edit, a comment's is dated by the device's clock alone.
SealCommentEdit(keys, group, m, post, path, generation, text, at, now) ==
    SealCommentContent(keys, group, m, post, path, generation, <<text, at, now>>, now)

OpenComments(keys, group, m, comments) ==
    LET keyFor == GenerationKeys(keys, group, m, {c.generation : c \in comments})
    IN  [c \in comments |-> IF keyFor[c.generation] = Fail THEN Fail
                            ELSE Decrypt(keyFor[c.generation], c.box,
                                         CommentAAD(c.post, c.path, c.generation))]

SealReaction(keys, group, m, post, target, generation, index) ==
    LET key == KeyOfGeneration(keys, group, m, generation)
    IN  Unless(key = Fail,
               [post |-> post, target |-> target, by |-> keys.userId, generation |-> generation,
                box |-> Encrypt(key, index, ReactionAAD(post, target, keys.userId, generation))])

OpenReactions(keys, group, m, reactions) ==
    LET keyFor == GenerationKeys(keys, group, m, {x.generation : x \in reactions})
    IN  [x \in reactions |-> IF keyFor[x.generation] = Fail THEN Fail
                             ELSE Decrypt(keyFor[x.generation], x.box,
                                          ReactionAAD(x.post, x.target, x.by, x.generation))]

\* The name and the description, sealed under the caller's own generation.
EncryptGroupText(keys, group, m, text) ==
    LET own == OwnKey(keys, group, m)
    IN  Unless(own = Fail,
               [generation |-> m.generation,
                name |-> Encrypt(own, text, GroupNameAAD(group, "NAME", m.generation)),
                desc |-> Encrypt(own, text, GroupNameAAD(group, "DESC", m.generation))])

\* The name's generation may lie below the reader's: rotation re-encrypts no
\* name.  A failure of either field leaves both unread.
DecryptGroupName(keys, group, m, sealed) ==
    LET key == KeyOfGeneration(keys, group, m, sealed.generation)
        name == Decrypt(key, sealed.name, GroupNameAAD(group, "NAME", sealed.generation))
        desc == Decrypt(key, sealed.desc, GroupNameAAD(group, "DESC", sealed.generation))
    IN  IF Fail \in {key, name, desc} THEN Fail ELSE <<name, desc>>
=============================================================================

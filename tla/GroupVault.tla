----------------------------- MODULE GroupVault -----------------------------
(***************************************************************************)
(* The ciphertexts behind the rows of GroupKeys.  Every request that moves *)
(* an entry point, mints a key or hands one off stores boxes a client made *)
(* with KeyMaterial; the server never opens one, so nothing on its side    *)
(* can tell a box that opens from one that does not.  Here each such step  *)
(* of GroupKeys also stores the box the client computes from what the      *)
(* server serves it, and the properties ask who can open what: of the      *)
(* rows as they are, and of everything that was ever stored.               *)
(*                                                                         *)
(* A client whose own entry does not open stops before it sends anything,  *)
(* so its request does not happen.  One item of content is followed at a   *)
(* time: the group's name, a post, or a comment or a reaction on an older  *)
(* post.                                                                   *)
(***************************************************************************)
EXTENDS GroupKeys

CONSTANTS
  Writers,  \* bound: the accounts that post, comment, react and rename
  MaxDay    \* bound: the days a device's clock may show

ASSUME VaultAssumption == Writers \subseteq User /\ MaxDay \in Nat

KM == INSTANCE KeyMaterial

VARIABLES
  entryBox,    \* the wrapped key in each MEMBER# row
  linkBox,     \* the GENKEY# links
  handoffBox,  \* the wrapped key in each HANDOFF# row
  item,        \* the stored item that is followed
  seen,        \* history: every box that was ever stored
  departed     \* history: the current generation when an account last left

vault     == <<entryBox, linkBox, handoffBox>>
vaultVars == <<vars, vault, item, seen, departed>>

NoBox == KM!Fail
Group == "g"
Never == -1

Keys(u)     == KM!LiveKeys(u, KM!KeyPair(u, wrapKey[u]))
Material(u) == [generation |-> member[u].gen, wrapped |-> entryBox[u], chain |-> linkBox]
HandedOff(u) == [generation |-> handoff[u].gen, wrapped |-> handoffBox[u]]
Pub(u)      == KM!KeyPair(u, wrapKey[u])

Stored == {entryBox[u] : u \in User} \cup {linkBox[n] : n \in DOMAIN linkBox}
          \cup {handoffBox[u] : u \in User}

\* The history variables follow any step.
Witness ==
  /\ seen' = seen \cup Stored'
  /\ departed' = [u \in User |-> IF u \in Members /\ u \notin Members'
                                 THEN CurrentGeneration ELSE departed[u]]

VaultInit ==
  LET creation == KM!SignGroupCreation(Keys(Creator), Group, "root")
      creators == [generation |-> 0, wrapped |-> creation.wrapped, chain |-> <<>>]
      others   == Members \ {Creator}
  IN  /\ Init
      /\ \E wraps \in KM!RewrapGroupKey(Keys(Creator), Group, creators, others,
                                        [u \in others |-> Pub(u)]) :
           entryBox = [u \in User |-> IF u = Creator THEN creation.wrapped
                                      ELSE IF u \in others THEN wraps[u] ELSE NoBox]
      /\ linkBox = <<>>
      /\ handoffBox = [u \in User |-> NoBox]
      /\ item \in KM!EncryptGroupText(Keys(Creator), Group, creators, <<"name">>)
      /\ seen = Stored
      /\ departed = [u \in User |-> Never]

-----------------------------------------------------------------------------
(* The requests that carry ciphertext.                                     *)

\* A start stores its link and moves the caller; the row that goes with it (the
\* subject's, a used handoff) takes its box along.
StoreMint(u, made) ==
  /\ linkBox' = [n \in links' |-> IF n \in links THEN linkBox[n] ELSE made.mint.link]
  /\ handoffBox' = [v \in User |-> IF handoff'[v] = NoHandoff THEN NoBox ELSE handoffBox[v]]

InviteOf(v) == <<"invite", v>>

VaultJoin(i, v) ==
  LET link == KM!SignInviteCreation(Keys(i), InviteOf(v), Group)
      acceptance == KM!SignInviteAcceptance(Keys(v), InviteOf(v), link.macKey)
  IN  \E made \in KM!CompleteInvite(Keys(i), InviteOf(v), Group, Material(i),
                                   v, acceptance.pub, acceptance.mac) :
        /\ CompleteInvite(i, v)
        /\ entryBox' = [entryBox EXCEPT ![v] = made.wrapped]
        /\ UNCHANGED <<linkBox, handoffBox>>

VaultRemove(q) ==
  \E made \in KM!StartGroupRotation(Keys(q.by), Group, Material(q.by), q.who) :
    /\ CommitRemoveRotating(q)
    /\ StoreMint(q.by, made)
    /\ entryBox' = [entryBox EXCEPT ![q.by] = made.mint.own, ![q.who] = NoBox]

VaultTakeOver(u) ==
  \E made \in KM!StartGroupRotation(Keys(u), Group, Material(u), marker.removed) :
    /\ TakeOverLeaveRotation(u)
    /\ StoreMint(u, made)
    /\ entryBox' = [entryBox EXCEPT ![u] = made.mint.own]

VaultSelfRekey(q) ==
  \E made \in KM!StartSelfRekey(Keys(q.by), Group, HandedOff(q.by)) :
    /\ CommitSelfRekey(q)
    /\ StoreMint(q.by, made)
    /\ entryBox' = [entryBox EXCEPT ![q.by] = made.mint.own]

VaultApproveRekey(q) ==
  /\ q.who \in User
  /\ \E made \in KM!StartApprovalRekey(Keys(q.by), Group, Material(q.by), q.who, Pub(q.who)) :
       /\ CommitApproveRekey(q)
       /\ StoreMint(q.by, made)
       /\ entryBox' = [entryBox EXCEPT ![q.by] = made.mint.own, ![q.who] = made.member]

\* A batch of re-wraps, for a rotation or for one approved member.
Rewrapped(u, batch) ==
  \E wraps \in KM!RewrapGroupKey(Keys(u), Group, Material(u), batch, [v \in User |-> Pub(v)]) :
    /\ entryBox' = [v \in User |-> IF v \in batch THEN wraps[v] ELSE entryBox[v]]
    /\ UNCHANGED <<linkBox, handoffBox>>

VaultRewrap(u, batch) == RewrapMembers(u, batch) /\ Rewrapped(u, batch)
VaultApproveRewrap(u, v) == ApproveRewrap(u, v) /\ Rewrapped(u, {v})

VaultPutHandoff(u, k) ==
  \E made \in KM!WrapHandoff(Keys(u), KM!KeyPair(u, k), Group, Material(u)) :
    /\ PutHandoff(u, k)
    /\ handoffBox' = [handoffBox EXCEPT ![u] = made.wrapped]
    /\ UNCHANGED <<entryBox, linkBox>>

VaultSelfWrap(u) ==
  LET made == KM!SelfWrapFromHandoff(Keys(u), Group, HandedOff(u))
  IN  /\ SelfWrap(u)
      /\ made # KM!Fail
      /\ entryBox' = [entryBox EXCEPT ![u] = made]
      /\ handoffBox' = [handoffBox EXCEPT ![u] = NoBox]
      /\ UNCHANGED linkBox

\* Every other step writes no ciphertext: a row that goes takes its box along.  A
\* re-admission, which only signs a record, is left out.
Quiet ==
  /\ \/ Reads
     \/ \E q \in reqs : \/ CommitRemoveOpen(q) \/ CommitLeaveRotating(q) \/ CommitLeaveOpen(q)
                        \/ CommitDeleteGroup(q) \/ SweepGroup(q)
                        \/ CommitComplete(q) \/ CommitConvert(q) \/ CommitRotateKeys(q)
                        \/ CommitDeleteAccount(q) \/ Drop(q)
     \/ \E u \in User : \/ DeleteHandoff(u)
                        \/ \E v \in User, r \in Role : ChangeMemberRole(u, v, r)
  /\ entryBox' = [u \in User |-> IF u \in Members' THEN entryBox[u] ELSE NoBox]
  /\ handoffBox' = [u \in User |-> IF handoff'[u] = NoHandoff THEN NoBox ELSE handoffBox[u]]
  /\ linkBox' = [n \in links' |-> linkBox[n]]

-----------------------------------------------------------------------------
(* Content.                                                                *)

\* The generation new content is sealed for: one below a running rotation's.
ContentGeneration == IF marker # NoMarker THEN marker.gen - 1 ELSE CurrentGeneration

MayWrite(u) ==
  /\ u \in Writers /\ u \in Members /\ ~Dormant(u)
  /\ member[u].gen >= ContentGeneration

\* A kind of item is known by a field only it has.
Kind(x) == CHOOSE k \in {"sortKey", "path", "target", "desc"} : k \in DOMAIN x
IsName == Kind(item) = "desc"
OldPost == KM!PostSortKey(1, 0)

WritePost(u, now) ==
  /\ MayWrite(u) /\ IsName
  /\ item' \in KM!SealPost(Keys(u), Group, Material(u), ContentGeneration, "first", 1, now)

EditPost(u, now) ==
  /\ MayWrite(u) /\ Kind(item) = "sortKey" /\ item.author = u
  /\ item' \in KM!SealPostEdit(Keys(u), Group, Material(u), item.sortKey, ContentGeneration,
                               "edited", item.sortKey[2], now)

WriteComment(u, now) ==
  /\ MayWrite(u) /\ IsName
  /\ item' \in KM!SealComment(Keys(u), Group, Material(u), OldPost, "0001",
                              ContentGeneration, "first", now)

EditComment(u, now) ==
  /\ MayWrite(u) /\ Kind(item) = "path" /\ item.author = u
  /\ item' \in KM!SealCommentEdit(Keys(u), Group, Material(u), item.post, item.path,
                                  ContentGeneration, "edited", item.day, now)

React(u) ==
  /\ MayWrite(u) /\ (IsName \/ Kind(item) = "target")
  /\ item' \in KM!SealReaction(Keys(u), Group, Material(u), OldPost, "0000",
                               ContentGeneration, <<"index">>)

\* An admin renames the group: sealed under the admin's own generation, which
\* the server compares with the row's.
Rename(u) ==
  /\ u \in Writers /\ IsAdmin(u) /\ mode # "gone" /\ IsName
  /\ item' \in KM!EncryptGroupText(Keys(u), Group, Material(u), <<"name">>)

-----------------------------------------------------------------------------
KeySteps ==
  /\ \/ \E q \in reqs : VaultRemove(q) \/ VaultSelfRekey(q) \/ VaultApproveRekey(q)
     \/ \E u, v \in User : VaultJoin(u, v) \/ VaultApproveRewrap(u, v)
     \/ \E u \in User : \/ VaultTakeOver(u) \/ VaultSelfWrap(u)
                        \/ \E batch \in SUBSET User : VaultRewrap(u, batch)
                        \/ \E k \in 1..MaxKey : VaultPutHandoff(u, k)
     \/ Quiet
  /\ UNCHANGED item

ContentSteps ==
  \E u \in User :
    \/ WritePost(u, MaxDay) \/ WriteComment(u, MaxDay) \/ EditComment(u, MaxDay)
    \/ \E now \in 1..MaxDay : EditPost(u, now)
    \/ React(u) \/ Rename(u)

VaultNext == (KeySteps \/ (ContentSteps /\ UNCHANGED <<vars, vault>>)) /\ Witness

VaultSpec == VaultInit /\ [][VaultNext]_vaultVars

-----------------------------------------------------------------------------
(* Properties.                                                             *)

\* What someone who holds these secrets derives from all that was ever stored.
Derived(secrets) ==
  LET known[n \in Nat] ==
        IF n = 0 THEN secrets
        ELSE LET known_1 == known[n - 1]
             IN  known_1 \cup {b[4] : b \in {x \in seen \ {NoBox} : x[2] \in known_1}}
  IN  known[MaxGen + 2]

Secrets(u) == {KM!KeyPair(u, k) : k \in 1..wrapKey[u]}

\* A member whose entry is wrapped to the pair they hold opens it, and walks
\* back from it to the key of every generation before (sealPost, openPosts and
\* decryptGroupNames all start there): no row, link or wrap was made for
\* another key, generation or member than the one it is served to.
CurrentMembersReadBack ==
  mode # "gone" =>
    \A u \in Members : ~Dormant(u) =>
      KM!GenerationKeys(Keys(u), Group, Material(u), 0..member[u].gen) =
        [n \in 0..member[u].gen |-> KM!GroupKey(Group, n)]

\* The handoff row of a committed rotation opens with the new pair to the key
\* its start needs: it is the only way a dormant admin gets back alone.
PendingHandoffOpens ==
  \A u \in Members : Dormant(u) /\ handoff[u].key = wrapKey[u] =>
    KM!HandedOffKey(Keys(u), Group, HandedOff(u)) = KM!GroupKey(Group, handoff[u].gen)

\* An account outside the group derives no key that was minted after it left,
\* from all of its pairs and everything the server ever stored: rotation does
\* what removal and leaving promise.
DepartedLearnNothingNew ==
  \A u \in User \ Members :
    Derived(Secrets(u)) \cap {KM!GroupKey(Group, n) : n \in (departed[u] + 1)..MaxGen} = {}

\* When a dormant member of a Rotating group comes back (self re-key, approval),
\* the key the entry moves to is one the pairs they gave up cannot derive.
RetiredPairLearnsNothingNew ==
  [][\A u \in Members : Dormant(u) /\ u \in Members' /\ ~Dormant(u)' /\ mode = "rotating"
       => KM!GroupKey(Group, member'[u].gen)
            \notin Derived(Secrets(u) \ {Pub(u)})']_vaultVars

\* Stored content and the group's name read back as written for every member
\* who is not behind it, whatever rotated since, and signed by its author.
ContentReadable ==
  \A u \in {v \in Members : ~Dormant(v) /\ member[v].gen >= item.generation} :
    LET m == Material(u)
        opened == CASE Kind(item) = "sortKey" -> KM!OpenPosts(Keys(u), Group, m, {item})[item]
                    [] Kind(item) = "path" -> KM!OpenComments(Keys(u), Group, m, {item})[item]
                    [] Kind(item) = "target" -> KM!OpenReactions(Keys(u), Group, m, {item})[item]
                    [] IsName -> KM!DecryptGroupName(Keys(u), Group, m, item)
    IN  IF IsName THEN opened # KM!Fail ELSE opened = item.box[4]
=============================================================================

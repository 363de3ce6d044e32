------------------------------ MODULE GroupKeys ------------------------------
(***************************************************************************)
(* The group-key protocol of one private group as the API runs it over     *)
(* DynamoDB.  The group's partition holds META (the revocation mode), the  *)
(* MEMBER# rows (role, the generation of the group key the row wraps, and  *)
(* the key epoch of the account key it is wrapped to), the ROTATION        *)
(* marker, the GENKEY# chain links and the ADMISSION# records; an account  *)
(* holds its PROFILE (key epoch, wrapping key, tombstone) and its HANDOFF# *)
(* row for this group.                                                     *)
(*                                                                         *)
(* A TransactWriteItems call is one atomic step.  A handler that first     *)
(* reads rows whose values its transaction does not check again is split   *)
(* in two: Begin... records in reqs what the handler read, Commit... is    *)
(* the transaction, and any request may run in between.  A handler whose   *)
(* transaction checks everything it read is a single action.               *)
(*                                                                         *)
(* Key material is abstracted to what the rows say of it: a generation     *)
(* number for a group key, a number for an account's wrapping key.         *)
(* Grants and their signatures are left out; so are direct messages.       *)
(***************************************************************************)
EXTENDS Integers, FiniteSets

CONSTANTS
  User,       \* the accounts
  NoOne,      \* an absent attribute
  Creator,    \* the account that created the group; it has no ADMISSION#
  Founder,    \* the roster at the start: user -> role, or "none"
  Inviters, Leavers, Rotators, Closers,
              \* bounds: the accounts that invite, leave, rotate, are deleted
  Promoters,  \* bound: the admins that change roles
  Converts,   \* bound: whether the group may be converted to Open
  MaxGen, MaxEpoch, MaxKey, MaxReq
              \* bounds: generations, key epochs, wrapping keys of an account,
              \* requests in flight at once

Role == {"admin", "ambassador", "member"}

ASSUME UserAssumption == NoOne \notin User
ASSUME FounderAssumption ==
  /\ Founder \in [User -> Role \cup {"none"}]
  /\ Creator \in User
  /\ Founder[Creator] = "admin"
ASSUME BoundAssumption ==
  /\ Inviters \subseteq User /\ Leavers \subseteq User
  /\ Rotators \subseteq User /\ Closers \subseteq User
  /\ Promoters \subseteq User /\ Converts \in BOOLEAN
  /\ MaxGen \in Nat /\ MaxEpoch \in Nat /\ MaxKey \in Nat /\ MaxReq \in Nat

VARIABLES
  mode,      \* META's RevocationMode, or "gone" when META is deleted
  member,    \* the MEMBER# rows
  marker,    \* the ROTATION marker
  links,     \* the generations that have a GENKEY# link
  admitted,  \* the accounts that have an ADMISSION# record
  keyEpoch,  \* PROFILE's KeyEpoch
  wrapKey,   \* PROFILE's WrappingPublicKey
  deleted,   \* the accounts whose PROFILE has DeletedAt
  handoff,   \* the HANDOFF# rows for this group
  reqs       \* handlers between their reads and their transaction

groupRows   == <<mode, member, marker, links, admitted>>
accountRows == <<keyEpoch, wrapKey, deleted, handoff>>
vars        == <<groupRows, accountRows, reqs>>

-----------------------------------------------------------------------------
Row       == [role : Role \cup {"none"}, gen : Nat, epoch : Nat]
NoRow     == [role |-> "none", gen |-> 0, epoch |-> 0]
Marker    == [gen : Nat, by : User \cup {NoOne}, removed : User \cup {NoOne}]
NoMarker  == [gen |-> 0, by |-> NoOne, removed |-> NoOne]
Handoff   == [gen : Nat, key : Nat]
NoHandoff == [gen |-> 0, key |-> 0]     \* wrapping keys are numbered from 1

Op == {"remove", "leave", "rekey", "approve", "complete", "convert",
       "rotateKeys", "deleteAccount", "deleteGroup", "sweepGroup"}

\* What a handler carries into its transaction: the operation, the caller, the
\* other account, its role as read, the generation (for rotateKeys the key
\* epoch) as read, the new wrapping key, and whether META read Rotating.
Request == [op : Op, by : User, who : User \cup {NoOne},
            role : Role \cup {"none"}, gen : Nat, key : Nat, rotating : BOOLEAN]

Req(op, u) == [op |-> op, by |-> u, who |-> NoOne, role |-> "none",
               gen |-> member[u].gen, key |-> 0, rotating |-> TRUE]

Members     == {u \in User : member[u].role # "none"}
IsAdmin(u)  == member[u].role = "admin"
Inviting(u) == member[u].role \in {"admin", "ambassador"}
AdminAt(u, g) == IsAdmin(u) /\ member[u].gen = g
Live(u)     == u \notin deleted
Dormant(u)  == member[u].epoch < keyEpoch[u]

CurrentGeneration ==
  IF links = {} THEN 0
  ELSE 1 + CHOOSE n \in links : \A m \in links : m <= n

\* The marker condition of a transaction that runs with or without a rotation.
MarkerAllows(g) == marker = NoMarker \/ marker.gen = g

\* A marker a leave wrote and no admin has taken over: it has no key yet.
BareLeave == marker # NoMarker /\ marker.by = marker.removed

\* u's entry point moved to generation g, wrapped to the key u holds now.
MovedTo_SameGeneration(u, g) == [member[u] EXCEPT !.epoch = keyEpoch[u]]   \* faulty

MovedTo(u, g) == [member[u] EXCEPT !.gen = g, !.epoch = keyEpoch[u]]

Begin(q) == /\ mode # "gone"
            /\ Cardinality(reqs) < MaxReq
            /\ reqs' = reqs \cup {q}
            /\ UNCHANGED <<groupRows, accountRows>>
Done(q)  == q \in reqs /\ reqs' = reqs \ {q}

TypeOK ==
  /\ mode \in {"rotating", "open", "gone"}
  /\ member \in [User -> Row]
  /\ marker \in Marker
  /\ links \subseteq Nat
  /\ admitted \subseteq User
  /\ keyEpoch \in [User -> Nat]
  /\ wrapKey \in [User -> Nat]
  /\ deleted \subseteq User
  /\ handoff \in [User -> Handoff]
  /\ reqs \subseteq Request

Init ==
  /\ mode = "rotating"
  /\ member = [u \in User |-> [NoRow EXCEPT !.role = Founder[u]]]
  /\ marker = NoMarker
  /\ links = {}
  /\ admitted = {u \in User : Founder[u] # "none"} \ {Creator}
  /\ keyEpoch = [u \in User |-> 0]
  /\ wrapKey = [u \in User |-> 1]
  /\ deleted = {}
  /\ handoff = [u \in User |-> NoHandoff]
  /\ reqs = {}

-----------------------------------------------------------------------------
(* Joining, roles, re-admission.                                           *)

\* The inviter is re-checked at the generation the invitee is wrapped for; it
\* need not be the group's current one.  The invite rows and the member cap
\* are not part of this module.
JoinAllowed_NoTombstone(i, v) ==   \* faulty: a deleted account may join
  mode # "gone" /\ i \in Inviters /\ Inviting(i) /\ v \notin Members

JoinAllowed(i, v) ==
  /\ mode # "gone"
  /\ i \in Inviters /\ Inviting(i)
  /\ v \notin Members /\ Live(v)

NewMember(i, v) == [role |-> "member", gen |-> member[i].gen, epoch |-> keyEpoch[v]]

CompleteInvite_NoAdmission(i, v) ==   \* faulty: no signed admission is kept
  /\ JoinAllowed(i, v)
  /\ member' = [member EXCEPT ![v] = NewMember(i, v)]
  /\ UNCHANGED <<mode, marker, links, admitted, accountRows, reqs>>

CompleteInvite(i, v) ==
  /\ JoinAllowed(i, v)
  /\ member' = [member EXCEPT ![v] = NewMember(i, v)]
  /\ admitted' = admitted \cup {v}
  /\ UNCHANGED <<mode, marker, links, accountRows, reqs>>

ChangeMemberRole(a, v, r) ==
  /\ mode # "gone"
  /\ a \in Promoters /\ IsAdmin(a)
  /\ v \in Members \ {a} /\ member[v].role # r
  /\ r # "member" => Live(v)
  /\ member' = [member EXCEPT ![v].role = r]
  /\ UNCHANGED <<mode, marker, links, admitted, accountRows, reqs>>

ReadmitMember(a, v) ==
  /\ mode # "gone"
  /\ Inviting(a)
  /\ v \in Members \ {a} /\ Live(v)
  /\ admitted' = admitted \cup {v}
  /\ UNCHANGED <<mode, member, marker, links, accountRows, reqs>>

-----------------------------------------------------------------------------
(* Starting a rotation.                                                    *)

\* The link, the marker and the caller's checks common to every start.  The
\* revocation mode is not among them.
MintAllowed_Twice(u, g) ==         \* faulty: the link may exist already
  g < MaxGen /\ AdminAt(u, g) /\ Live(u)

MintAllowed(u, g) == g \notin links /\ g < MaxGen /\ AdminAt(u, g) /\ Live(u)

Mint_Down(u, g, removed) ==        \* faulty: the marker counts down
  /\ MintAllowed(u, g) /\ links' = links \cup {g}
  /\ marker' = [gen |-> g - 1, by |-> u, removed |-> removed]

Mint_NoLink(u, g, removed) ==      \* faulty: the link is forgotten
  /\ MintAllowed(u, g) /\ links' = links
  /\ marker' = [gen |-> g + 1, by |-> u, removed |-> removed]

Mint(u, g, removed) ==
  /\ MintAllowed(u, g)
  /\ links' = links \cup {g}
  /\ marker' = [gen |-> g + 1, by |-> u, removed |-> removed]

BeginRemove(u, v) ==
  /\ IsAdmin(u) /\ v \in Members \ {u}
  /\ Begin([Req("remove", u) EXCEPT !.who = v, !.role = member[v].role,
                                    !.rotating = (mode = "rotating")])

\* No rotation runs, and the subject's role is the one the handler read.
RemovalStart_AnyMarker(q) ==       \* faulty: a running rotation is no obstacle
  q.op = "remove" /\ q.rotating /\ member[q.who].role = q.role

RemovalStart(q) ==
  /\ q.op = "remove" /\ q.rotating
  /\ marker = NoMarker /\ member[q.who].role = q.role

\* The start is also what the remover's handoff row was kept for: the row goes
\* whatever key it names, and HANDOFFSEQ does not move.
CommitRemoveRotating(q) ==
  /\ RemovalStart(q) /\ Done(q)
  /\ Mint(q.by, q.gen, q.who)
  /\ member' = [member EXCEPT ![q.by] = MovedTo(q.by, q.gen + 1),
                              ![q.who] = NoRow]
  /\ admitted' = admitted \ {q.who}
  /\ handoff' = [handoff EXCEPT ![q.by] = NoHandoff]
  /\ UNCHANGED <<mode, keyEpoch, wrapKey, deleted>>

CommitRemoveOpen(q) ==
  /\ q.op = "remove" /\ ~q.rotating /\ Done(q)
  /\ IsAdmin(q.by) /\ member[q.who].role = q.role
  /\ member' = [member EXCEPT ![q.who] = NoRow]
  /\ admitted' = admitted \ {q.who}
  /\ UNCHANGED <<mode, marker, links, accountRows>>

BeginSelfRekey(u) ==
  /\ IsAdmin(u) /\ mode = "rotating"
  /\ Begin(Req("rekey", u))

\* A re-key removes no one, and it requires the handoff row it consumes.
CommitSelfRekey(q) ==
  /\ q.op = "rekey" /\ Done(q)
  /\ marker = NoMarker
  /\ Mint(q.by, q.gen, NoOne)
  /\ handoff[q.by] = [gen |-> q.gen, key |-> wrapKey[q.by]]
  /\ member' = [member EXCEPT ![q.by] = MovedTo(q.by, q.gen + 1)]
  /\ handoff' = [handoff EXCEPT ![q.by] = NoHandoff]
  /\ UNCHANGED <<mode, admitted, keyEpoch, wrapKey, deleted>>

BeginApproveRekey(u, v) ==
  /\ IsAdmin(u) /\ mode = "rotating" /\ v \in Members \ {u}
  /\ Begin([Req("approve", u) EXCEPT !.who = v])

\* The admin and the dormant member it vouches for move in one transaction.
CommitApproveRekey(q) ==
  /\ q.op = "approve" /\ Done(q)
  /\ marker = NoMarker
  /\ Mint(q.by, q.gen, NoOne)
  /\ q.who \in Members /\ member[q.who].gen = q.gen
  /\ Dormant(q.who) /\ Live(q.who)
  /\ member' = [member EXCEPT ![q.by] = MovedTo(q.by, q.gen + 1),
                              ![q.who] = MovedTo(q.who, q.gen + 1)]
  /\ UNCHANGED <<mode, admitted, accountRows>>

\* An admin at the leaver's generation mints the key the leave could not.
TakeOverLeaveRotation(u) ==
  /\ BareLeave /\ marker.gen = member[u].gen + 1
  /\ Mint(u, member[u].gen, marker.removed)
  /\ member' = [member EXCEPT ![u] = MovedTo(u, member[u].gen + 1)]
  /\ admitted' = admitted \ {marker.removed}
  /\ handoff' = [handoff EXCEPT ![u] = NoHandoff]
  /\ UNCHANGED <<mode, keyEpoch, wrapKey, deleted, reqs>>

-----------------------------------------------------------------------------
(* Leaving.                                                                *)

BeginLeave(u) ==
  /\ u \in Leavers /\ u \in Members /\ Members # {u}
  /\ \E s \in Members \cup {NoOne} :
       /\ IF IsAdmin(u) THEN s \in Members \ {u} /\ IsAdmin(s) /\ Live(s)
                        ELSE s = NoOne
       /\ Begin([Req("leave", u) EXCEPT !.who = s, !.role = member[u].role,
                                        !.rotating = (mode = "rotating")])

LeaveAllowed_NoSuccessorCheck(q) ==   \* faulty: the successor is only read
  q.op = "leave" /\ Done(q) /\ member[q.by].role = q.role

\* The successor is checked again: still an admin, its account not deleted.
LeaveAllowed(q) ==
  /\ q.op = "leave" /\ Done(q)
  /\ member[q.by].role = q.role
  /\ q.role = "admin" => IsAdmin(q.who) /\ Live(q.who)

\* The leaver's row is where the signed start says, and no rotation runs.
LeaveStart(q) ==
  /\ q.rotating /\ member[q.by].gen = q.gen /\ q.gen < MaxGen
  /\ marker = NoMarker

CommitLeaveRotating_NoAdmission(q) ==   \* faulty: the admission goes at once
  /\ LeaveAllowed(q) /\ LeaveStart(q)
  /\ marker' = [gen |-> q.gen + 1, by |-> q.by, removed |-> q.by]
  /\ member' = [member EXCEPT ![q.by] = NoRow]
  /\ admitted' = admitted \ {q.by}
  /\ UNCHANGED <<mode, links, accountRows>>

\* The leaver mints nothing: the marker waits for an admin to take it over, and
\* the admission is kept for the check that admin makes.
CommitLeaveRotating(q) ==
  /\ LeaveAllowed(q) /\ LeaveStart(q)
  /\ marker' = [gen |-> q.gen + 1, by |-> q.by, removed |-> q.by]
  /\ member' = [member EXCEPT ![q.by] = NoRow]
  /\ UNCHANGED <<mode, links, admitted, accountRows>>

CommitLeaveOpen(q) ==
  /\ LeaveAllowed(q) /\ ~q.rotating
  /\ member' = [member EXCEPT ![q.by] = NoRow]
  /\ admitted' = admitted \ {q.by}
  /\ UNCHANGED <<mode, marker, links, accountRows>>

\* The only member leaving deletes the group: META and the row at once, then
\* the rest of the partition.
BeginLastLeave(u) ==
  /\ u \in Leavers /\ Members = {u}
  /\ Begin(Req("deleteGroup", u))

CommitDeleteGroup(q) ==
  /\ q.op = "deleteGroup" /\ q \in reqs
  /\ q.by \in Members /\ mode # "gone"
  /\ mode' = "gone"
  /\ member' = [member EXCEPT ![q.by] = NoRow]
  /\ reqs' = (reqs \ {q}) \cup {[q EXCEPT !.op = "sweepGroup"]}
  /\ UNCHANGED <<marker, links, admitted, accountRows>>

SweepGroup(q) ==
  /\ q.op = "sweepGroup" /\ Done(q)
  /\ member' = [u \in User |-> NoRow]
  /\ marker' = NoMarker /\ links' = {} /\ admitted' = {}
  /\ UNCHANGED <<mode, accountRows>>

-----------------------------------------------------------------------------
(* Running a rotation and catching members up.                             *)

MayRewrap_Dormant(u, v) ==         \* faulty: dormant recipients
  /\ Live(v) /\ member[v].gen <= member[u].gen
  /\ marker = NoMarker => member[v].gen # member[u].gen

MayRewrap_AnyGeneration(u, v) ==   \* faulty: recipients ahead of the caller
  ~Dormant(v) /\ Live(v)

\* A wrap goes only to an account whose entry is wrapped to the key it holds
\* now; without a marker the members must be strictly behind the caller.
MayRewrap(u, v) ==
  /\ ~Dormant(v) /\ Live(v)
  /\ member[v].gen <= member[u].gen
  /\ marker = NoMarker => member[v].gen # member[u].gen

RewrapMembers(u, batch) ==
  /\ IsAdmin(u)
  /\ batch # {} /\ batch \subseteq Members \ {u}
  /\ MarkerAllows(member[u].gen)
  /\ \A v \in batch : MayRewrap(u, v)
  /\ member' = [v \in User |->
                  IF v \in batch THEN [member[v] EXCEPT !.gen = member[u].gen]
                  ELSE member[v]]
  /\ UNCHANGED <<mode, marker, links, admitted, accountRows, reqs>>

\* Faulty: dormant members hold a completion up.
NoneLeftBehind_DormantToo(g) == \A v \in Members : member[v].gen >= g

NoneLeftBehind(g) == \A v \in Members : member[v].gen >= g \/ Dormant(v)

BeginComplete(u) ==
  /\ IsAdmin(u) /\ marker # NoMarker /\ marker.gen = member[u].gen
  /\ NoneLeftBehind(member[u].gen)
  /\ Begin(Req("complete", u))

\* The scan of the members is not repeated by the transaction.
CommitComplete(q) ==
  /\ q.op = "complete" /\ Done(q)
  /\ AdminAt(q.by, q.gen)
  /\ marker # NoMarker /\ marker.gen = q.gen
  /\ marker' = NoMarker
  /\ UNCHANGED <<mode, member, links, admitted, accountRows>>

BeginConvert(u) ==
  /\ Converts /\ IsAdmin(u) /\ mode = "rotating"
  /\ marker = NoMarker /\ NoneLeftBehind(member[u].gen)
  /\ Begin(Req("convert", u))

CommitConvert(q) ==
  /\ q.op = "convert" /\ Done(q)
  /\ AdminAt(q.by, q.gen) /\ marker = NoMarker /\ mode = "rotating"
  /\ mode' = "open"
  /\ UNCHANGED <<member, marker, links, admitted, accountRows>>

\* An approval of a dormant member that mints nothing.  A Rotating group needs
\* the member strictly behind: the old keys then do not hold the current key.
ApproveRewrap(a, v) ==
  /\ mode # "gone" /\ Inviting(a)
  /\ v \in Members \ {a} /\ Dormant(v) /\ Live(v)
  /\ MarkerAllows(member[a].gen)
  /\ IF mode = "open" THEN member[v].gen <= member[a].gen
                      ELSE member[v].gen < member[a].gen
  /\ member' = [member EXCEPT ![v] = MovedTo(v, member[a].gen)]
  /\ UNCHANGED <<mode, marker, links, admitted, accountRows, reqs>>

-----------------------------------------------------------------------------
(* An account rotates its own keys: handoff rows, the commit, the self-wrap. *)

OwesHandoff(u) == IsAdmin(u) \/ (u \in Members /\ mode = "open")

\* HANDOFFSEQ moves with every PUT and DELETE of a row and fails the account's
\* key rotations that read it before: such a request is gone.
BumpHandoffSeq(u) ==
  reqs' = {q \in reqs : ~(q.op = "rotateKeys" /\ q.by = u)}

\* The row names a new key, and no row of a committed rotation is replaced.
HandoffFree_Overwrite(u, k) == k > wrapKey[u]   \* faulty: a pending row is

HandoffFree(u, k) == k > wrapKey[u] /\ handoff[u].key # wrapKey[u]

PutHandoff(u, k) ==
  /\ mode # "gone" /\ u \in Rotators /\ Live(u)
  /\ OwesHandoff(u) /\ member[u].gen = CurrentGeneration
  /\ HandoffFree(u, k)
  /\ handoff' = [handoff EXCEPT ![u] = [gen |-> member[u].gen, key |-> k]]
  /\ BumpHandoffSeq(u)
  /\ UNCHANGED <<groupRows, keyEpoch, wrapKey, deleted>>

\* The client deletes a row only when the start it was kept for can no longer
\* use it.
DeleteHandoff(u) ==
  /\ u \in Rotators /\ Live(u) /\ handoff[u] # NoHandoff
  /\ \/ ~OwesHandoff(u)
     \/ handoff[u].gen # member[u].gen
     \/ mode = "rotating" /\ handoff[u].gen \in links /\ marker = NoMarker
  /\ handoff' = [handoff EXCEPT ![u] = NoHandoff]
  /\ BumpHandoffSeq(u)
  /\ UNCHANGED <<groupRows, keyEpoch, wrapKey, deleted>>

BeginRotateKeys(u, k) ==
  /\ u \in Rotators /\ Live(u) /\ keyEpoch[u] < MaxEpoch
  /\ k > wrapKey[u]
  /\ OwesHandoff(u) => /\ member[u].gen = CurrentGeneration
                       /\ handoff[u] = [gen |-> CurrentGeneration, key |-> k]
  /\ Begin([Req("rotateKeys", u) EXCEPT !.gen = keyEpoch[u], !.key = k,
                     !.role = member[u].role, !.rotating = (mode = "rotating")])

\* Whether the account owed a row when its key change was checked.
OwedWhenRead(q) == q.role = "admin" \/ (q.role # "none" /\ ~q.rotating)

\* The commit does not see the rows; the sweep after it drops the rows that
\* name another key or a group the account cannot re-key.
CommitRotateKeys(q) ==
  /\ q.op = "rotateKeys" /\ Done(q)
  /\ Live(q.by) /\ keyEpoch[q.by] = q.gen
  /\ keyEpoch' = [keyEpoch EXCEPT ![q.by] = @ + 1]
  /\ wrapKey' = [wrapKey EXCEPT ![q.by] = q.key]
  /\ handoff' = IF handoff[q.by].key = q.key /\ OwesHandoff(q.by) THEN handoff
                ELSE [handoff EXCEPT ![q.by] = NoHandoff]
  /\ UNCHANGED <<groupRows, deleted>>

SelfWrap(u) ==
  /\ mode = "open" /\ u \in Members /\ Live(u)
  /\ handoff[u] = [gen |-> member[u].gen, key |-> wrapKey[u]]
  /\ member' = [member EXCEPT ![u] = MovedTo(u, member[u].gen)]
  /\ handoff' = [handoff EXCEPT ![u] = NoHandoff]
  /\ UNCHANGED <<mode, marker, links, admitted, keyEpoch, wrapKey, deleted, reqs>>

\* The check that the account is in no group is a read; the tombstone does not
\* repeat it.
BeginDeleteAccount(u) ==
  /\ u \in Closers /\ Live(u) /\ u \notin Members
  /\ Begin([Req("deleteAccount", u) EXCEPT !.gen = 0])

CommitDeleteAccount(q) ==
  /\ q.op = "deleteAccount" /\ Done(q)
  /\ Live(q.by)
  /\ deleted' = deleted \cup {q.by}
  /\ handoff' = [handoff EXCEPT ![q.by] = NoHandoff]
  /\ UNCHANGED <<groupRows, keyEpoch, wrapKey>>

\* A request is refused, times out or dies with its process.
Drop(q) == Done(q) /\ UNCHANGED <<groupRows, accountRows>>

-----------------------------------------------------------------------------
Reads ==
  \E u \in User :
    \/ \E v \in User : BeginRemove(u, v) \/ BeginApproveRekey(u, v)
    \/ BeginSelfRekey(u) \/ BeginLeave(u) \/ BeginLastLeave(u)
    \/ BeginComplete(u) \/ BeginConvert(u) \/ BeginDeleteAccount(u)
    \/ \E k \in 1..MaxKey : BeginRotateKeys(u, k)

Transactions ==
  \E q \in reqs :
    \/ CommitRemoveRotating(q) \/ CommitRemoveOpen(q)
    \/ CommitSelfRekey(q) \/ CommitApproveRekey(q)
    \/ CommitLeaveRotating(q) \/ CommitLeaveOpen(q)
    \/ CommitDeleteGroup(q) \/ SweepGroup(q)
    \/ CommitComplete(q) \/ CommitConvert(q)
    \/ CommitRotateKeys(q) \/ CommitDeleteAccount(q)
    \/ Drop(q)

Handlers ==
  \E u \in User :
    \/ \E v \in User : \/ CompleteInvite(u, v) \/ ReadmitMember(u, v)
                       \/ ApproveRewrap(u, v)
                       \/ \E r \in Role : ChangeMemberRole(u, v, r)
    \/ TakeOverLeaveRotation(u)
    \/ \E batch \in SUBSET User : RewrapMembers(u, batch)
    \/ \E k \in 1..MaxKey : PutHandoff(u, k)
    \/ DeleteHandoff(u) \/ SelfWrap(u)

Next == Reads \/ Transactions \/ Handlers

Spec == Init /\ [][Next]_vars

\* An admin's client that opens the group takes a leave over, or resumes the
\* rotation when its entry is at the marker's generation: it re-wraps those
\* behind and completes, again on every load, so a try that other requests keep
\* interrupting is repeated (strong fairness).  Every request ends.
Resume(u) ==
  /\ WF_vars(TakeOverLeaveRotation(u))
  /\ SF_vars(\E batch \in SUBSET User : marker # NoMarker /\ RewrapMembers(u, batch))
  /\ SF_vars(BeginComplete(u))
  /\ SF_vars(\E q \in reqs : q.by = u /\ CommitComplete(q))

FairSpec ==
  /\ Spec
  /\ WF_vars(\E q \in reqs : Drop(q))
  /\ \A u \in User : Resume(u)

-----------------------------------------------------------------------------
(* Properties.                                                             *)

\* The links are those of every generation below the current one, and no entry
\* point is past it: a member walks back from its own key to the first.
ChainUnbroken ==
  /\ links = 0..(CurrentGeneration - 1)
  /\ \A u \in Members : member[u].gen <= CurrentGeneration

\* A rotation that has a key runs towards the current generation, so an admin
\* whose entry is there holds what RewrapMembers hands out.
ClaimedMarkerIsCurrent ==
  marker # NoMarker /\ ~BareLeave => marker.gen = CurrentGeneration

\* Somebody in the group holds the newest key (CompleteRotation passes over
\* dormant members, so "everybody" would be too much).
CurrentKeyHeld ==
  mode # "gone" => \E u \in Members : member[u].gen = CurrentGeneration

\* No account is left in the group without the signed record of who let it in:
\* a rotation would skip it and never complete.
EveryMemberAdmitted == Members \subseteq admitted \cup {Creator}

\* The check of the leaver's key that a takeover makes has its record.
LeaverStillAdmitted ==
  BareLeave => marker.removed \in admitted \cup {Creator}

\* A group that exists and has members has an admin (leave, removal, role
\* changes: two admins that act at once never both go).
AdminRemains == mode # "gone" /\ Members # {} => \E u \in User : IsAdmin(u)

\* An entry point never moves to an older key while its member stays.
NeverBackward ==
  [][\A u \in Members : member'[u].role # "none"
        => member[u].gen <= member'[u].gen]_vars

\* Whatever moves or rewraps an entry leaves it wrapped to the account's key as
\* it is when the write commits, whenever the recipient rotated.
WrapsAreCurrent ==
  [][\A u \in User :
        /\ member'[u].role # "none"
        /\ <<member[u].gen, member[u].epoch>> # <<member'[u].gen, member'[u].epoch>>
        => member'[u].epoch = keyEpoch[u]]_vars

\* The handoff row of a committed key rotation is the only copy of a group key:
\* while its start can still use it, only that start (or the self-wrap) ends it.
\* The exception is a further key change that was checked while the account owed
\* no row here, and commits after a promotion (or the conversion) made it owe one.
PendingRowKept ==
  [][\A u \in User :
        /\ handoff[u].key = wrapKey[u] /\ handoff[u].gen = member[u].gen
        /\ OwesHandoff(u) /\ handoff[u].gen \notin links /\ Live(u)
        /\ handoff'[u] # handoff[u]
        => \/ member'[u].epoch = keyEpoch[u] \/ u \in deleted'
           \/ \E q \in reqs : /\ q.op = "rotateKeys" /\ q.by = u
                             /\ ~OwedWhenRead(q) /\ CommitRotateKeys(q)]_vars

\* One rotation at a time: a marker is ended by its completion or, when no key
\* has been minted for it, taken over for the same leaver at the same generation.
OneRotationAtATime ==
  [][marker # NoMarker /\ marker' # marker
        => \/ marker' = NoMarker
           \/ /\ BareLeave
              /\ marker' = [marker EXCEPT !.by = marker'.by]
              /\ marker'.by # marker.by]_vars

\* A deleted account never becomes a member, and nobody joins a group whose META
\* is gone: neither sweep is repeated, so such a row would stay.
OnlyTheLivingJoin ==
  [][\A u \in User \ Members :
       u \in Members' => u \notin deleted /\ mode # "gone"]_vars

\* A marker some admin can run to its end, or take over.
Resumable ==
  \E u \in User :
    \/ ~BareLeave /\ AdminAt(u, marker.gen)
    \/ BareLeave /\ MintAllowed(u, marker.gen - 1)

\* A rotation that somebody can run ends: members who went dormant meanwhile do
\* not hold it up.
RotationEnds ==
  (marker # NoMarker /\ Resumable) ~> (marker = NoMarker \/ ~Resumable)

-----------------------------------------------------------------------------
(* What the documentation says and some runs refute.                       *)

\* leave_takeover.go: the link a takeover writes "must not exist yet: the leave
\* wrote none".
BareMarkerUnminted == BareLeave => marker.gen - 1 \notin links

-----------------------------------------------------------------------------
\* The chain as an outsider sees it: where each member's entry point is, and
\* whether a rotation runs towards the newest generation.  A leave's marker does
\* not count until it is taken over: its key does not exist.
Entry   == [u \in User |-> IF u \in Members THEN member[u].gen ELSE -1]
Settled == marker = NoMarker \/ marker.gen # CurrentGeneration

Chain == INSTANCE KeyChain WITH
  current <- CurrentGeneration, settled <- Settled, entry <- Entry
ChainSpec == Chain!ChainSpec
=============================================================================

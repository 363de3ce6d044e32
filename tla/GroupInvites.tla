---------------------------- MODULE GroupInvites ----------------------------
(***************************************************************************)
(* The invite handshake of one group and its member cap.  An invite is two *)
(* rows, INVITE#<id> and the inviter's own SENT#<id>: the inviter creates  *)
(* it and hands out the link, somebody accepts it, and the inviter's       *)
(* client completes it at a later login, which writes the membership.  A   *)
(* Rotating group has at most Cap members; a join there reads META's       *)
(* JoinSeq, counts the members, and writes only if JoinSeq is still what   *)
(* it read, up to Attempts times.                                          *)
(*                                                                         *)
(* A slot is a request the server is working on.  A transaction is one     *)
(* step; a handler whose transaction does not check again what it read is  *)
(* split, with the request's state in slots.  Keys are numbers, signatures *)
(* and MACs are the key they were made under.  Generations, grants and the *)
(* wrapped keys of a join are in GroupKeys, GroupRoles and GroupVault.     *)
(***************************************************************************)
EXTENDS Integers, FiniteSets

CONSTANTS
  User, NoOne, Invite, NoInvite, Slot,
  Founder,    \* the roster at the start: user -> role, or "none"
  Inviter,    \* the account that sent the invites of Waiting
  Waiting,    \* the invites already accepted at the start: invite -> user, or NoOne
  Cap,        \* MaxRotatingGroupMembers
  Attempts,   \* maxJoinAttempts
  Life,       \* the longest signed lifetime, in days
  Wait,       \* completion deadline and grace, in days
  Makers, Leavers, Rotators, Closers, Promoted,
              \* bounds: the accounts that create invites, leave or are removed,
              \* change keys, are deleted, change roles
  Converts,   \* bound: whether the group may be converted to Open
  MaxDay, MaxKey, MaxUpsets
              \* bounds: days, key epochs, upsets

Role == {"admin", "ambassador", "member"}

ASSUME UserAssumption ==
  IsFiniteSet(User) /\ NoOne \notin User /\ NoInvite \notin Invite
ASSUME FounderAssumption ==
  /\ Founder \in [User -> Role \cup {"none"}]
  /\ Inviter \in User /\ Waiting \in [Invite -> User \cup {NoOne}]
  /\ \A i \in Invite : Waiting[i] # NoOne => Founder[Waiting[i]] = "none"
ASSUME CapAssumption ==
  /\ Cap \in Nat /\ Attempts \in Nat \ {0} /\ Life \in Nat /\ Wait \in Nat
  /\ Cardinality({u \in User : Founder[u] # "none"}) <= Cap
ASSUME BoundAssumption ==
  /\ Makers \subseteq User /\ Leavers \subseteq User /\ Rotators \subseteq User
  /\ Closers \subseteq User /\ Promoted \subseteq User /\ Converts \in BOOLEAN
  /\ MaxDay \in Nat /\ MaxKey \in Nat /\ MaxUpsets \in Nat

VARIABLES
  mode,      \* META's RevocationMode, or "gone" when META is deleted
  joinSeq,   \* META's JoinSeq, or Absent
  role,      \* the MEMBER# rows
  keys,      \* PROFILE's KeyEpoch, which names the account's current keys
  deleted,   \* the accounts whose PROFILE has DeletedAt
  invite,    \* the INVITE# rows
  sent,      \* the SENT# rows
  day,
  slots,     \* the requests in progress
  form,      \* each inviter's open CreateInviteScreen: the pending attempt
  made,      \* the invite ids a client has generated
  shown,     \* the invites whose link a screen has shown
  upsets,    \* how many times a request died, collided or lost its answer, or
             \* a role, a key, an account, a membership or the mode changed
  \* what has happened, for the properties
  told,      \* invite -> whom the server answered that they accepted it
  joins,     \* invite -> how many memberships it has written
  revoked,   \* the invites whose revocation the server confirmed
  excused    \* the invites whose accepter has joined, or that were accepted by a
             \* member or when their INVITE# row was gone

groupRows   == <<mode, joinSeq, role>>
accountRows == <<keys, deleted>>
inviteRows  == <<invite, sent>>
client      == <<form, made, shown>>
history     == <<told, joins, revoked, excused>>
vars == <<groupRows, accountRows, inviteRows, day, slots, client, upsets, history>>

-----------------------------------------------------------------------------
Absent == -1

\* An invite row: the inviter, the key its link's MAC key is derived from, the
\* signed expiry, the accepter and the keys it signed with, the TTL.
Row   == [by : User \cup {NoOne}, mac : Nat, exp : Nat,
          to : User \cup {NoOne}, key : Nat, ttl : Nat]
NoRow == [by |-> NoOne, mac |-> 0, exp |-> 0, to |-> NoOne, key |-> 0, ttl |-> 0]

Op == {"idle", "create", "accept", "seq", "count", "write", "clean",
       "left", "closing", "closed", "sweep"}

\* What a request carries from its reads: the caller, the invite, the invitee,
\* the key epoch and expiry, whether the cap applies, JoinSeq and the count, the
\* attempts made, and the rows a sweep has still to delete.
Request == [op : Op, by : User \cup {NoOne}, invite : Invite \cup {NoInvite},
            who : User \cup {NoOne}, key : Nat, exp : Nat, capped : BOOLEAN,
            seq : Nat, n : Nat, tries : Nat,
            rows : SUBSET ({"invite", "sent"} \X Invite)]
Idle == [op |-> "idle", by |-> NoOne, invite |-> NoInvite, who |-> NoOne,
         key |-> 0, exp |-> 0, capped |-> FALSE, seq |-> 0, n |-> 0, tries |-> 0,
         rows |-> {}]

Form   == [id : Invite \cup {NoInvite}, exp : Nat,
           said : {"nothing", "sending", "uncommitted", "ambiguous"}]
NoForm == [id |-> NoInvite, exp |-> 0, said |-> "nothing"]

Members     == {u \in User : role[u] # "none"}
Inviting(u) == role[u] \in {"admin", "ambassador"}
Live(u)     == u \notin deleted
Free(s)     == slots[s].op = "idle"

Upset      == upsets < MaxUpsets /\ upsets' = upsets + 1

Set(s, q)  == slots' = [slots EXCEPT ![s] = q]
End(s)     == Set(s, Idle)

\* What the accepter's screen lists.
ReceivedInvites(v) == {i \in Invite : invite[i].to = v}

TypeOK ==
  /\ mode \in {"rotating", "open", "gone"}
  /\ joinSeq \in Nat \cup {Absent}
  /\ role \in [User -> Role \cup {"none"}]
  /\ keys \in [User -> Nat] /\ deleted \subseteq User
  /\ invite \in [Invite -> Row] /\ sent \in [Invite -> Row]
  /\ day \in Nat /\ upsets \in Nat
  /\ slots \in [Slot -> Request]
  /\ form \in [User -> Form] /\ made \subseteq Invite /\ shown \subseteq Invite
  /\ told \in [Invite -> SUBSET User] /\ joins \in [Invite -> Nat]
  /\ revoked \subseteq Invite /\ excused \subseteq Invite

Accepted(v) == [NoRow EXCEPT !.by = Inviter, !.exp = Life, !.to = v, !.ttl = Wait]

Init ==
  LET start == [i \in Invite |->
                  IF Waiting[i] = NoOne THEN NoRow ELSE Accepted(Waiting[i])]
      begun == {i \in Invite : Waiting[i] # NoOne}
  IN  /\ mode = "rotating" /\ joinSeq = Absent /\ role = Founder
      /\ keys = [u \in User |-> 0] /\ deleted = {}
      /\ invite = start /\ sent = start
      /\ day = 0 /\ upsets = 0
      /\ slots = [s \in Slot |-> Idle]
      /\ form = [u \in User |-> NoForm] /\ made = begun /\ shown = begun
      /\ told = [i \in Invite |-> {Waiting[i]} \ {NoOne}]
      /\ joins = [i \in Invite |-> 0] /\ revoked = {} /\ excused = {}

-----------------------------------------------------------------------------
(* Step 1: create, and revoke.                                             *)

\* createInvite's early answer to a full group; completion enforces the cap.
Room == mode = "rotating" => Cardinality(Members) < Cap

\* A screen has one pending attempt: a resubmission reuses its id and expiry.
Attempted(u, i, exp) ==
  IF form[u].id = NoInvite THEN i \notin made /\ exp \in day..(day + Life)
  ELSE i = form[u].id /\ exp = form[u].exp

BeginCreate(s, u, i, exp) ==
  /\ Free(s) /\ u \in Makers /\ form[u].said # "sending"
  /\ Attempted(u, i, exp)
  /\ Inviting(u) /\ Room /\ day <= exp
  /\ Set(s, [Idle EXCEPT !.op = "create", !.by = u, !.invite = i,
                         !.key = keys[u], !.exp = exp])
  /\ form' = [form EXCEPT ![u] = [id |-> i, exp |-> exp, said |-> "sending"]]
  /\ made' = made \cup {i}
  /\ UNCHANGED <<groupRows, accountRows, inviteRows, day, shown, upsets, history>>

\* A resubmission answered 403 or group_full clears the pending attempt.
CreateRefused(u) ==
  /\ form[u].id # NoInvite /\ form[u].said # "sending"
  /\ ~Inviting(u) \/ ~Room
  /\ form' = [form EXCEPT ![u] = NoForm]
  /\ UNCHANGED <<groupRows, accountRows, inviteRows, day, slots, made, shown, upsets,
                 history>>

\* The transaction, and the answer as the screen takes it: the link is shown; a
\* taken id, like every other status below 500, is "definitelyUncommitted"; a
\* lost answer is "ambiguous".  The role is not checked again.
CommitCreate(s, answered) ==
  LET q == slots[s]
      i == q.invite
      row == [NoRow EXCEPT !.by = q.by, !.mac = q.key, !.exp = q.exp, !.ttl = q.exp]
      free == invite[i] = NoRow
  IN  /\ q.op = "create" /\ End(s)
      /\ IF answered THEN upsets' = upsets ELSE Upset
      /\ invite' = IF free THEN [invite EXCEPT ![i] = row] ELSE invite
      /\ sent' = IF free THEN [sent EXCEPT ![i] = row] ELSE sent
      /\ revoked' = IF free THEN revoked \ {i} ELSE revoked
      /\ form' = [form EXCEPT ![q.by] =
           IF answered /\ free THEN NoForm
           ELSE [@ EXCEPT !.said = IF answered THEN "uncommitted" ELSE "ambiguous"]]
      /\ shown' = IF answered /\ free THEN shown \cup {i} ELSE shown
      /\ UNCHANGED <<groupRows, accountRows, day, made, told, joins, excused>>

\* The read names the rows and the transaction checks the rest again.
RevokeAllowed(i) == invite[i].to = NoOne /\ sent[i].to = NoOne

RevokeInvite(u, i) ==
  /\ invite[i].by = u /\ sent[i] # NoRow
  /\ RevokeAllowed(i)
  /\ invite' = [invite EXCEPT ![i] = NoRow]
  /\ sent' = [sent EXCEPT ![i] = NoRow]
  /\ revoked' = revoked \cup {i}
  /\ UNCHANGED <<groupRows, accountRows, day, slots, client, upsets, told, joins, excused>>

-----------------------------------------------------------------------------
(* Step 2: accept.                                                         *)

\* The link opens the invite; the row must carry the inviter's signature, so a
\* partial one is refused; the signed expiry and the caller's membership are
\* read here and not in the transaction.  A deleted account's other session may
\* still call this.
BeginAccept(s, v, i) ==
  /\ Free(s) /\ i \in shown
  /\ invite[i].by # NoOne /\ day <= invite[i].exp
  /\ v \notin Members
  /\ Set(s, [Idle EXCEPT !.op = "accept", !.by = invite[i].by, !.invite = i,
                         !.who = v, !.key = keys[v]])
  /\ UNCHANGED <<groupRows, accountRows, inviteRows, day, client, upsets, history>>

Single_Dropped(i) == TRUE                   \* faulty: a later accepter is taken

\* attribute_not_exists(InvitedUserID), which a missing row satisfies too.
Single(i) == invite[i].to = NoOne

SentThere_Dropped(i) == TRUE                \* faulty: the copy may be upserted

SentThere(i) == sent[i] # NoRow

CommitAccept(s) ==
  LET q == slots[s]
      i == q.invite
      By(row) == [row EXCEPT !.to = q.who, !.key = q.key, !.ttl = day + Wait]
      over == invite[i].by = NoOne \/ q.who \in Members
  IN  /\ q.op = "accept" /\ End(s)
      /\ \/ /\ Single(i) /\ SentThere(i)
            /\ invite' = [invite EXCEPT ![i] = By(invite[i])]
            /\ sent' = [sent EXCEPT ![i] = By(sent[i])]
            /\ told' = [told EXCEPT ![i] = @ \cup {q.who}]
            /\ excused' = IF over THEN excused \cup {i} ELSE excused
         \/ /\ ~(Single(i) /\ SentThere(i))
            /\ UNCHANGED <<inviteRows, told, excused>>
      /\ UNCHANGED <<groupRows, accountRows, day, client, upsets, joins, revoked>>

-----------------------------------------------------------------------------
(* Step 3: complete.  The inviter's client runs it for every accepted      *)
(* invite at each login, in as many tabs as sign in.                       *)

\* The client checks the MAC under the key its signing seed gives now; the
\* handler checks the inviter's role and that the invitee's keys are the ones
\* that accepted.  A deleted invitee is left to the transaction.
Completable(i) ==
  /\ sent[i].to # NoOne /\ mode # "gone"
  /\ Inviting(sent[i].by)
  /\ keys[sent[i].by] = sent[i].mac

BeginComplete(s, i) ==
  LET v == sent[i].to
      first == IF Live(v) /\ keys[v] # sent[i].key THEN "clean"
               ELSE IF mode = "rotating" THEN "seq" ELSE "write"
  IN  /\ Free(s) /\ Completable(i)
      /\ Set(s, [Idle EXCEPT !.op = first, !.by = sent[i].by, !.invite = i, !.who = v,
                             !.key = keys[v], !.capped = (mode = "rotating")])
      /\ UNCHANGED <<groupRows, accountRows, inviteRows, day, client, upsets, history>>

SeqRead == IF joinSeq = Absent THEN 0 ELSE joinSeq

ReadSeq(s) ==
  LET q == slots[s]
  IN  /\ q.op = "seq"
      /\ Set(s, IF mode = "gone" THEN [q EXCEPT !.op = "clean"]
                ELSE [q EXCEPT !.op = "count", !.seq = SeqRead])
      /\ UNCHANGED <<groupRows, accountRows, inviteRows, day, client, upsets, history>>

\* A full group refuses the join, but an invitee who is in it already is cleaned up.
Count(s) ==
  LET q == slots[s]
      n == Cardinality(Members)
  IN  /\ q.op = "count"
      /\ \/ n < Cap /\ Set(s, [q EXCEPT !.op = "write", !.n = n])
         \/ n >= Cap /\ q.who \in Members /\ Set(s, [q EXCEPT !.op = "clean"])
         \/ n >= Cap /\ q.who \notin Members /\ End(s)
      /\ UNCHANGED <<groupRows, accountRows, inviteRows, day, client, upsets, history>>

SeqStill_Exists(q) == mode # "gone"         \* faulty: JoinSeq is not compared

\* The condition on META.
SeqStill(q) ==
  /\ mode # "gone"
  /\ q.capped => joinSeq = q.seq \/ (q.seq = 0 /\ joinSeq = Absent)

\* The other conditions of the transaction, in the order their refusals are told.
InviteeSame(q)     == Live(q.who) /\ keys[q.who] = q.key
InviterEligible(q) == Inviting(q.by)
NotMember(q)       == q.who \notin Members

SentKept_Dropped(q) == TRUE                 \* faulty: a second tab may join too

SentKept(q) == sent[q.invite] # NoRow

Joins(s) ==
  LET q == slots[s]
      i == q.invite
  IN  /\ q.op = "write"
      /\ SeqStill(q)
      /\ InviteeSame(q) /\ InviterEligible(q) /\ NotMember(q) /\ SentKept(q)
      /\ role' = [role EXCEPT ![q.who] = "member"]
      /\ joinSeq' = IF q.capped THEN q.seq + 1 ELSE joinSeq
      /\ invite' = [invite EXCEPT ![i] = NoRow]
      /\ sent' = [sent EXCEPT ![i] = NoRow]
      /\ joins' = [joins EXCEPT ![i] = @ + 1]
      /\ excused' = excused \cup {j \in Invite : sent[j].to = q.who}
      /\ End(s)
      /\ UNCHANGED <<mode, accountRows, day, client, upsets, told, revoked>>

Again(q) ==
  IF q.tries + 1 < Attempts THEN [q EXCEPT !.op = "seq", !.tries = @ + 1] ELSE Idle

\* Another join moved JoinSeq: read and count again, or give up.
JoinRaced(s) ==
  LET q == slots[s]
  IN  /\ q.op = "write" /\ InviteeSame(q)
      /\ q.capped /\ mode # "gone" /\ ~SeqStill(q)
      /\ Set(s, Again(q))
      /\ UNCHANGED <<groupRows, accountRows, inviteRows, day, client, upsets, history>>

\* DynamoDB cancels a transaction that meets another on the same rows.
JoinCollides(s) ==
  LET q == slots[s]
  IN  /\ q.op = "write" /\ Upset
      /\ \E t \in Slot \ {s} : ~Free(t)
      /\ Set(s, IF q.capped THEN Again(q) ELSE Idle)
      /\ UNCHANGED <<groupRows, accountRows, inviteRows, day, client, history>>

\* The invite can never complete: the invitee is gone, has other keys or is a
\* member already, or the group is gone.
JoinMoot(s) ==
  LET q == slots[s]
  IN  /\ q.op = "write"
      /\ \/ ~InviteeSame(q)
         \/ mode = "gone"
         \/ SeqStill(q) /\ InviterEligible(q) /\ ~NotMember(q)
      /\ Set(s, [q EXCEPT !.op = "clean"])
      /\ UNCHANGED <<groupRows, accountRows, inviteRows, day, client, upsets, history>>

\* The inviter lost the role, or another request finished the invite first.
JoinRefused(s) ==
  LET q == slots[s]
  IN  /\ q.op = "write" /\ InviteeSame(q) /\ SeqStill(q)
      /\ \/ ~InviterEligible(q)
         \/ NotMember(q) /\ ~SentKept(q)
      /\ End(s)
      /\ UNCHANGED <<groupRows, accountRows, inviteRows, day, client, upsets, history>>

\* CleanupAlreadyMemberInvite: both rows, whatever is left of them.
Clean(s) ==
  /\ slots[s].op = "clean" /\ End(s)
  /\ invite' = [invite EXCEPT ![slots[s].invite] = NoRow]
  /\ sent' = [sent EXCEPT ![slots[s].invite] = NoRow]
  /\ UNCHANGED <<groupRows, accountRows, day, client, upsets, history>>

-----------------------------------------------------------------------------
(* What ends an invite from outside: departures, deletions, keys, the TTL. *)

\* A departure commits, and then the departed member's own invites are read and
\* deleted row by row.
Departs(s, u) ==
  /\ Set(s, [Idle EXCEPT !.op = "left", !.by = u])
  /\ Upset
  /\ UNCHANGED <<joinSeq, accountRows, inviteRows, day, client, history>>

LeaveGroup(s, u) ==
  LET alone == Members = {u}
  IN  /\ Free(s) /\ u \in Leavers /\ u \in Members /\ mode # "gone"
      /\ alone \/ role[u] # "admin" \/ \E a \in Members \ {u} : role[a] = "admin" /\ Live(a)
      /\ role' = [role EXCEPT ![u] = "none"]
      /\ mode' = IF alone THEN "gone" ELSE mode
      /\ Departs(s, u)

RemoveMember(s, a, u) ==
  /\ Free(s) /\ u \in Leavers /\ u \in Members \ {a} /\ role[a] = "admin" /\ mode # "gone"
  /\ role' = [role EXCEPT ![u] = "none"]
  /\ mode' = mode
  /\ Departs(s, u)

\* A demoted inviter's invites are left as they are.
ChangeMemberRole(u, r) ==
  /\ u \in Promoted /\ u \in Members /\ role[u] # r /\ mode # "gone"
  /\ \E a \in Members \ {u} : role[a] = "admin"
  /\ r # "member" => Live(u)
  /\ role' = [role EXCEPT ![u] = r]
  /\ Upset
  /\ UNCHANGED <<mode, joinSeq, accountRows, inviteRows, day, slots, client, history>>

ConvertGroupToOpen ==
  /\ Converts /\ mode = "rotating"
  /\ mode' = "open"
  /\ Upset
  /\ UNCHANGED <<joinSeq, role, accountRows, inviteRows, day, slots, client, history>>

RotateKeys(u) ==
  /\ u \in Rotators /\ Live(u) /\ keys[u] < MaxKey
  /\ keys' = [keys EXCEPT ![u] = @ + 1]
  /\ Upset
  /\ UNCHANGED <<groupRows, deleted, inviteRows, day, slots, client, history>>

\* The memberships are read before the tombstone and not checked with it; a
\* repeated deletion only sweeps.
BeginDeleteAccount(s, u) ==
  /\ Free(s) /\ u \in Closers /\ (Live(u) => u \notin Members)
  /\ Set(s, [Idle EXCEPT !.op = IF Live(u) THEN "closing" ELSE "closed",
                         !.by = u, !.who = u])
  /\ Upset
  /\ UNCHANGED <<groupRows, accountRows, inviteRows, day, client, history>>

Tombstone(s) ==
  /\ slots[s].op = "closing"
  /\ deleted' = deleted \cup {slots[s].by}
  /\ Set(s, [slots[s] EXCEPT !.op = "closed"])
  /\ UNCHANGED <<groupRows, keys, inviteRows, day, client, upsets, history>>

\* Both rows of the invites the account sent; after an account deletion the
\* INVITE# rows addressed to it too, whose SENT# copies are left to the TTL.
ReadSweep(s) ==
  LET q == slots[s]
      own == {i \in Invite : sent[i].by = q.by}
      toThem == IF q.op = "closed" THEN ReceivedInvites(q.who) ELSE {}
  IN  /\ q.op \in {"left", "closed"}
      /\ Set(s, [q EXCEPT !.op = "sweep",
                          !.rows = ({"invite", "sent"} \X own) \cup ({"invite"} \X toThem)])
      /\ UNCHANGED <<groupRows, accountRows, inviteRows, day, client, upsets, history>>

SweepRow(s, r) ==
  /\ slots[s].op = "sweep" /\ r \in slots[s].rows
  /\ Set(s, [slots[s] EXCEPT !.rows = @ \ {r}])
  /\ invite' = IF r[1] = "invite" THEN [invite EXCEPT ![r[2]] = NoRow] ELSE invite
  /\ sent' = IF r[1] = "sent" THEN [sent EXCEPT ![r[2]] = NoRow] ELSE sent
  /\ UNCHANGED <<groupRows, accountRows, day, client, upsets, history>>

Swept(s) ==
  /\ slots[s].op = "sweep" /\ slots[s].rows = {} /\ End(s)
  /\ UNCHANGED <<groupRows, accountRows, inviteRows, day, client, upsets, history>>

\* A request dies before its next step; the screen that sent it cannot tell.
Die(s) ==
  LET q == slots[s]
  IN  /\ ~Free(s) /\ End(s) /\ Upset
      /\ form' = IF q.op # "create" THEN form
                 ELSE [form EXCEPT ![q.by].said = "ambiguous"]
      /\ UNCHANGED <<groupRows, accountRows, inviteRows, day, made, shown, history>>

\* DynamoDB deletes each row on its own, some time after its TTL.
ExpireInvite(i) ==
  /\ invite[i] # NoRow /\ day > invite[i].ttl
  /\ invite' = [invite EXCEPT ![i] = NoRow]
  /\ UNCHANGED <<groupRows, accountRows, sent, day, slots, client, upsets, history>>

ExpireSent(i) ==
  /\ sent[i] # NoRow /\ day > sent[i].ttl
  /\ sent' = [sent EXCEPT ![i] = NoRow]
  /\ UNCHANGED <<groupRows, accountRows, invite, day, slots, client, upsets, history>>

NextDay ==
  /\ day < MaxDay
  /\ day' = day + 1
  /\ UNCHANGED <<groupRows, accountRows, inviteRows, slots, client, upsets, history>>

-----------------------------------------------------------------------------
\* The steps of a completion once it is begun, and of a sweep.
Completes(s) ==
  ReadSeq(s) \/ Count(s) \/ Joins(s) \/ JoinRaced(s) \/ JoinMoot(s) \/ JoinRefused(s)
  \/ Clean(s)

Closes(s) ==
  Tombstone(s) \/ ReadSweep(s) \/ Swept(s)
  \/ \E r \in {"invite", "sent"} \X Invite : SweepRow(s, r)

Requests(s) ==
  \/ \E u \in User, i \in Invite, exp \in 0..(MaxDay + Life) : BeginCreate(s, u, i, exp)
  \/ \E answered \in BOOLEAN : CommitCreate(s, answered)
  \/ \E v \in User, i \in Invite : BeginAccept(s, v, i)
  \/ CommitAccept(s)
  \/ \E i \in Invite : BeginComplete(s, i)
  \/ Completes(s) \/ JoinCollides(s)
  \/ \E u \in User : LeaveGroup(s, u) \/ BeginDeleteAccount(s, u)
  \/ \E a, u \in User : RemoveMember(s, a, u)
  \/ Closes(s) \/ Die(s)

Next ==
  \/ \E s \in Slot : Requests(s)
  \/ \E u \in User : CreateRefused(u) \/ RotateKeys(u)
  \/ \E u \in User, i \in Invite : RevokeInvite(u, i)
  \/ \E u \in User, r \in Role : ChangeMemberRole(u, r)
  \/ ConvertGroupToOpen
  \/ \E i \in Invite : ExpireInvite(i) \/ ExpireSent(i)
  \/ NextDay

Spec == Init /\ [][Next]_vars

-----------------------------------------------------------------------------
(* Properties.                                                             *)

\* A Rotating group never has more than Cap members, although the count and the
\* write are separate and any number of completions run at once (CompleteInvite).
CapHolds == mode = "rotating" => Cardinality(Members) <= Cap

\* One invite writes at most one membership, in however many tabs it is
\* completed and whoever leaves in between (completeInviteOnce's SENT# condition).
AdmitsOnce == \A i \in Invite : joins[i] <= 1

\* Nobody is told that they accepted an invite whose revocation was confirmed,
\* or joins by it (RevokeInvite, AcceptInvite's SENT# condition).
RevokedIsVoid == \A i \in revoked : told[i] = {} /\ joins[i] = 0

\* What the first accepter was told stands: the invite stays on their list and on
\* the inviter's until they join, unless they or the inviter have deleted the
\* account, they changed keys, the inviter's departure is being swept, the group
\* is gone or the grace period is over (AcceptInvite, RevokeInvite, the cleanup
\* and the sweeps).
Waits(i, v) == i \in ReceivedInvites(v) /\ sent[i].to = v
AcceptedStands ==
  [][\A i \in Invite, v \in User :
       Waits(i, v) /\ ~Waits(i, v)' =>
         \/ i \in excused'
         \/ v \in deleted' \/ sent[i].by \in deleted'
         \/ \E s \in Slot : slots[s].op = "sweep" /\ slots[s].by = sent[i].by
         \/ keys'[v] # sent[i].key
         \/ mode' = "gone"
         \/ day > sent[i].ttl]_vars
=============================================================================

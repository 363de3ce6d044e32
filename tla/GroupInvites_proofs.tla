------------------------- MODULE GroupInvites_proofs -------------------------
(* The member cap of a Rotating group, and what an invite promises: it admits *)
(* once, a revoked one admits nobody, and what its first accepter was told    *)
(* stands.  For any set of users, invites and requests, any cap, any number   *)
(* of attempts, and whatever else happens to the group meanwhile.             *)
EXTENDS GroupInvites, FiniteSetTheorems, TLAPS

-----------------------------------------------------------------------------
(* Types.                                                                  *)

\* The fields of a request that its next step relies on.
Formed(q) ==
  /\ q.op = "create"  => q.by \in User /\ q.invite \in Invite
  /\ q.op = "accept"  => q.who \in User /\ q.invite \in Invite
  /\ q.op = "closing" => q.by \in User

TypeInv == TypeOK /\ \A s \in Slot : Formed(slots[s])

LEMMA IdleRequest == Idle \in Request /\ Formed(Idle)
BY DEF Idle, Request, Op, Formed

LEMMA NoRowIsRow == NoRow \in Row
BY DEF NoRow, Row

LEMMA MembersFinite == IsFiniteSet(Members)
BY UserAssumption, FS_Subset DEF Members

LEMMA SetKeepsTypes ==
  ASSUME TypeInv, NEW s \in Slot, NEW q \in Request, Formed(q), Set(s, q)
  PROVE  slots' \in [Slot -> Request] /\ \A t \in Slot : Formed(slots'[t])
BY DEF TypeInv, TypeOK, Set

LEMMA TypeInit == Init => TypeInv
<1> SUFFICES ASSUME Init PROVE TypeInv
  OBVIOUS
<1>1. \A v \in User : Accepted(v) \in Row
  BY FounderAssumption, CapAssumption DEF Accepted, NoRow, Row
<1>2. invite \in [Invite -> Row] /\ sent \in [Invite -> Row]
  BY <1>1, NoRowIsRow, FounderAssumption DEF Init
<1>3. slots \in [Slot -> Request] /\ \A s \in Slot : Formed(slots[s])
  BY IdleRequest DEF Init
<1>4. form \in [User -> Form]
  BY DEF Init, Form, NoForm
<1>5. told \in [Invite -> SUBSET User] /\ joins \in [Invite -> Nat]
  BY FounderAssumption DEF Init
<1> QED
  BY <1>2, <1>3, <1>4, <1>5, FounderAssumption DEF Init, TypeInv, TypeOK, Absent

-----------------------------------------------------------------------------
LEMMA TypeNext == TypeInv /\ [Next]_vars => TypeInv'
<1> SUFFICES ASSUME TypeInv, [Next]_vars PROVE TypeInv'
  OBVIOUS
<1>a. /\ Idle \in Request /\ Formed(Idle) /\ NoRow \in Row
      /\ \A s \in Slot : slots[s] \in Request /\ Formed(slots[s])
  BY IdleRequest, NoRowIsRow DEF TypeInv, TypeOK
<1> DEFINE SlotsTyped == slots' \in [Slot -> Request] /\ \A t \in Slot : Formed(slots'[t])
<1>1. ASSUME NEW s \in Slot, NEW u \in User, NEW i \in Invite, NEW exp \in 0..(MaxDay + Life),
             BeginCreate(s, u, i, exp)
      PROVE  TypeInv'
  <2> DEFINE q == [Idle EXCEPT !.op = "create", !.by = u, !.invite = i,
                               !.key = keys[u], !.exp = exp]
  <2>1. exp \in Nat
    BY CapAssumption, BoundAssumption
  <2>2. q \in Request /\ Formed(q)
    BY <2>1 DEF TypeInv, TypeOK, Idle, Request, Op, Formed
  <2>3. SlotsTyped
    BY <1>1, <2>2, SetKeepsTypes DEF BeginCreate
  <2>4. form' \in [User -> Form]
    BY <1>1, <2>1 DEF BeginCreate, TypeInv, TypeOK, Form
  <2> QED
    BY <1>1, <2>3, <2>4 DEF BeginCreate, groupRows, accountRows, inviteRows, history, TypeInv, TypeOK
<1>2. ASSUME NEW u \in User, CreateRefused(u) PROVE TypeInv'
  BY <1>2 DEF CreateRefused, groupRows, accountRows, inviteRows, history, TypeInv, TypeOK, Form, NoForm
<1>3. ASSUME NEW s \in Slot, NEW answered \in BOOLEAN, CommitCreate(s, answered) PROVE TypeInv'
  <2> DEFINE q == slots[s]
             row == [NoRow EXCEPT !.by = q.by, !.mac = q.key, !.exp = q.exp, !.ttl = q.exp]
  <2>1. q \in Request /\ q.by \in User /\ q.invite \in Invite
    BY <1>3, <1>a DEF CommitCreate, Formed
  <2>2. row \in Row
    BY <2>1 DEF Request, Row, NoRow
  <2>3. SlotsTyped
    BY <1>3, <1>a, SetKeepsTypes DEF CommitCreate, End
  <2>4. invite' \in [Invite -> Row] /\ sent' \in [Invite -> Row]
    BY <1>3, <2>1, <2>2 DEF CommitCreate, TypeInv, TypeOK
  <2>5. form' \in [User -> Form]
    BY <1>3, <2>1 DEF CommitCreate, TypeInv, TypeOK, Form, NoForm
  <2>6. /\ revoked' \subseteq Invite /\ shown' \subseteq Invite /\ upsets' \in Nat
    BY <1>3, <2>1 DEF Upset, CommitCreate, TypeInv, TypeOK
  <2> QED
    BY <1>3, <2>3, <2>4, <2>5, <2>6 DEF CommitCreate, groupRows, accountRows, TypeInv, TypeOK
<1>4. ASSUME NEW u \in User, NEW i \in Invite, RevokeInvite(u, i) PROVE TypeInv'
  BY <1>4, <1>a DEF RevokeInvite, groupRows, accountRows, client, TypeInv, TypeOK
<1>5. ASSUME NEW s \in Slot, NEW v \in User, NEW i \in Invite, BeginAccept(s, v, i)
      PROVE  TypeInv'
  <2> DEFINE q == [Idle EXCEPT !.op = "accept", !.by = invite[i].by, !.invite = i,
                               !.who = v, !.key = keys[v]]
  <2>1. q \in Request /\ Formed(q)
    BY DEF TypeInv, TypeOK, Idle, Request, Op, Formed, Row
  <2>2. SlotsTyped
    BY <1>5, <2>1, SetKeepsTypes DEF BeginAccept
  <2> QED
    BY <1>5, <2>2 DEF BeginAccept, groupRows, accountRows, inviteRows, client, history, TypeInv, TypeOK
<1>6. ASSUME NEW s \in Slot, CommitAccept(s) PROVE TypeInv'
  <2> DEFINE q == slots[s]
             By(row) == [row EXCEPT !.to = q.who, !.key = q.key, !.ttl = day + Wait]
  <2>1. q \in Request /\ q.who \in User /\ q.invite \in Invite
    BY <1>6, <1>a DEF CommitAccept, Formed
  <2>2. \A row \in Row : By(row) \in Row
    <3>1. day + Wait \in Nat
      BY CapAssumption DEF TypeInv, TypeOK
    <3>2. q.key \in Nat
      BY <2>1 DEF Request
    <3>3. TAKE row \in Row
    <3> QED
      BY <2>1, <3>1, <3>2 DEF Row
  <2>3. SlotsTyped
    BY <1>6, <1>a, SetKeepsTypes DEF CommitAccept, End
  <2>4. invite' \in [Invite -> Row] /\ sent' \in [Invite -> Row]
    <3>1. invite \in [Invite -> Row] /\ sent \in [Invite -> Row]
      BY DEF TypeInv, TypeOK
    <3>2. CASE UNCHANGED inviteRows
      BY <3>1, <3>2 DEF inviteRows
    <3>3. CASE /\ invite' = [invite EXCEPT ![q.invite] = By(invite[q.invite])]
               /\ sent' = [sent EXCEPT ![q.invite] = By(sent[q.invite])]
      <4> HIDE DEF By
      <4> QED
        BY <2>1, <2>2, <3>1, <3>3
    <3> QED
      BY <1>6, <3>2, <3>3 DEF CommitAccept
  <2>5. told' \in [Invite -> SUBSET User] /\ excused' \subseteq Invite
    BY <1>6, <2>1 DEF CommitAccept, TypeInv, TypeOK
  <2> QED
    BY <1>6, <2>3, <2>4, <2>5
    DEF CommitAccept, groupRows, accountRows, client, history, TypeInv, TypeOK
<1>7. ASSUME NEW s \in Slot, NEW i \in Invite, BeginComplete(s, i) PROVE TypeInv'
  <2> DEFINE v == sent[i].to
             first == IF Live(v) /\ keys[v] # sent[i].key THEN "clean"
                      ELSE IF mode = "rotating" THEN "seq" ELSE "write"
             q == [Idle EXCEPT !.op = first, !.by = sent[i].by, !.invite = i, !.who = v,
                               !.key = keys[v], !.capped = (mode = "rotating")]
  <2>1. sent[i] \in Row /\ keys \in [User -> Nat]
    BY DEF TypeInv, TypeOK
  <2>2. v \in User /\ sent[i].by \in User \cup {NoOne}
    BY <1>7, <2>1 DEF BeginComplete, Completable, Row
  <2>3. first \in {"clean", "seq", "write"}
    OBVIOUS
  <2>4. q \in Request /\ Formed(q)
    <3> HIDE DEF first, v
    <3> QED
      BY <2>1, <2>2, <2>3 DEF Idle, Request, Op, Formed
  <2>5. SlotsTyped
    BY <1>7, <2>4, SetKeepsTypes DEF BeginComplete
  <2> QED
    BY <1>7, <2>5
    DEF BeginComplete, groupRows, accountRows, inviteRows, client, history, TypeInv, TypeOK
<1>8. ASSUME NEW s \in Slot, ReadSeq(s) PROVE TypeInv'
  <2> DEFINE q == slots[s]
  <2>1. SeqRead \in Nat
    BY DEF SeqRead, TypeInv, TypeOK, Absent
  <2>2. /\ [q EXCEPT !.op = "clean"] \in Request /\ Formed([q EXCEPT !.op = "clean"])
        /\ [q EXCEPT !.op = "count", !.seq = SeqRead] \in Request
        /\ Formed([q EXCEPT !.op = "count", !.seq = SeqRead])
    BY <1>a, <2>1 DEF Request, Op, Formed
  <2>3. SlotsTyped
    BY <1>8, <2>2, SetKeepsTypes DEF ReadSeq
  <2> QED
    BY <1>8, <2>3
    DEF ReadSeq, groupRows, accountRows, inviteRows, client, history, TypeInv, TypeOK
<1>9. ASSUME NEW s \in Slot, Count(s) PROVE TypeInv'
  <2> DEFINE q == slots[s]
             n == Cardinality(Members)
  <2>1. n \in Nat
    BY MembersFinite, FS_CardinalityType
  <2>2. /\ [q EXCEPT !.op = "clean"] \in Request /\ Formed([q EXCEPT !.op = "clean"])
        /\ [q EXCEPT !.op = "write", !.n = n] \in Request
        /\ Formed([q EXCEPT !.op = "write", !.n = n])
    BY <1>a, <2>1 DEF Request, Op, Formed
  <2>3. SlotsTyped
    BY <1>9, <1>a, <2>2, SetKeepsTypes DEF Count, End
  <2> QED
    BY <1>9, <2>3
    DEF Count, groupRows, accountRows, inviteRows, client, history, TypeInv, TypeOK
<1>10. ASSUME NEW s \in Slot, Joins(s) PROVE TypeInv'
  <2> DEFINE q == slots[s]
  <2>1. q.seq \in Nat
    BY <1>a DEF Request
  <2>2. SlotsTyped
    BY <1>10, <1>a, SetKeepsTypes DEF Joins, End
  <2>3. joinSeq' \in Nat \cup {Absent} /\ role' \in [User -> Role \cup {"none"}]
    <3>1. /\ joinSeq' = IF q.capped THEN q.seq + 1 ELSE joinSeq
          /\ role' = [role EXCEPT ![q.who] = "member"]
      BY <1>10 DEF Joins
    <3> HIDE DEF q
    <3>2. "member" \in Role \cup {"none"}
      BY DEF Role
    <3>3. role' \in [User -> Role \cup {"none"}]
      BY <3>1, <3>2 DEF TypeInv, TypeOK
    <3> QED
      BY <2>1, <3>1, <3>3 DEF TypeInv, TypeOK
  <2>4. invite' \in [Invite -> Row] /\ sent' \in [Invite -> Row]
    BY <1>10, <1>a DEF Joins, TypeInv, TypeOK
  <2>5. joins' \in [Invite -> Nat] /\ excused' \subseteq Invite
    <3>1. /\ joins' = [joins EXCEPT ![q.invite] = @ + 1]
          /\ excused' = excused \cup {j \in Invite : sent[j].to = q.who}
      BY <1>10 DEF Joins
    <3> HIDE DEF q
    <3>2. excused' \subseteq Invite
      BY <3>1 DEF TypeInv, TypeOK
    <3>3. joins \in [Invite -> Nat]
      BY DEF TypeInv, TypeOK
    <3>4. \A i \in Invite : joins'[i] \in Nat
      BY <3>1, <3>3
    <3> QED
      BY <3>1, <3>2, <3>3, <3>4
  <2> QED
    BY <1>10, <2>2, <2>3, <2>4, <2>5 DEF Joins, accountRows, client, TypeInv, TypeOK
<1>11. \A s \in Slot : Again(slots[s]) \in Request /\ Formed(Again(slots[s]))
  <2> TAKE s \in Slot
  <2>1. slots[s].tries + 1 \in Nat
    BY <1>a DEF Request
  <2> QED
    BY <1>a, <2>1 DEF Again, Request, Op, Formed
<1>12. ASSUME NEW s \in Slot, JoinRaced(s) \/ JoinCollides(s) PROVE TypeInv'
  <2>1. SlotsTyped
    BY <1>12, <1>11, <1>a, SetKeepsTypes DEF JoinRaced, JoinCollides
  <2> QED
    BY <1>12, <2>1
    DEF Upset, JoinRaced, JoinCollides, groupRows, accountRows, inviteRows, client, history,
        TypeInv, TypeOK
<1>13. ASSUME NEW s \in Slot, JoinMoot(s) PROVE TypeInv'
  <2>1. /\ [slots[s] EXCEPT !.op = "clean"] \in Request
        /\ Formed([slots[s] EXCEPT !.op = "clean"])
    BY <1>a DEF Request, Op, Formed
  <2>2. SlotsTyped
    BY <1>13, <2>1, SetKeepsTypes DEF JoinMoot
  <2> QED
    BY <1>13, <2>2
    DEF JoinMoot, groupRows, accountRows, inviteRows, client, history, TypeInv, TypeOK
<1>14. ASSUME NEW s \in Slot, JoinRefused(s) \/ Swept(s) PROVE TypeInv'
  <2>1. SlotsTyped
    BY <1>14, <1>a, SetKeepsTypes DEF JoinRefused, Swept, End
  <2> QED
    BY <1>14, <2>1
    DEF JoinRefused, Swept, groupRows, accountRows, inviteRows, client, history, TypeInv, TypeOK
<1>15. ASSUME NEW s \in Slot, Clean(s) PROVE TypeInv'
  <2>1. SlotsTyped
    BY <1>15, <1>a, SetKeepsTypes DEF Clean, End
  <2> QED
    BY <1>15, <1>a, <2>1
    DEF Clean, groupRows, accountRows, client, history, TypeInv, TypeOK
<1>16. ASSUME NEW s \in Slot, NEW u \in User, Departs(s, u)
       PROVE  SlotsTyped /\ excused' \subseteq Invite /\ upsets' \in Nat
  <2> DEFINE q == [Idle EXCEPT !.op = "left", !.by = u]
  <2>1. q \in Request /\ Formed(q)
    BY DEF Idle, Request, Op, Formed
  <2>2. SlotsTyped /\ excused' \subseteq Invite
    BY <1>16, <2>1, SetKeepsTypes DEF Departs, history, TypeInv, TypeOK
  <2>3. upsets' \in Nat
    BY <1>16 DEF Departs, Upset, TypeInv, TypeOK
  <2> QED
    BY <2>2, <2>3
<1>17. ASSUME NEW s \in Slot, NEW u \in User, LeaveGroup(s, u) PROVE TypeInv'
  <2>1. role' \in [User -> Role \cup {"none"}] /\ mode' \in {"rotating", "open", "gone"}
    BY <1>17 DEF LeaveGroup, TypeInv, TypeOK
  <2> QED
    BY <1>17, <1>16, <2>1 DEF LeaveGroup, Departs, accountRows, inviteRows, client, history, TypeInv, TypeOK
<1>18. ASSUME NEW s \in Slot, NEW a \in User, NEW u \in User, RemoveMember(s, a, u)
       PROVE  TypeInv'
  <2>1. role' \in [User -> Role \cup {"none"}]
    BY <1>18 DEF RemoveMember, TypeInv, TypeOK
  <2> QED
    BY <1>18, <1>16, <2>1 DEF RemoveMember, Departs, accountRows, inviteRows, client, history,
     TypeInv, TypeOK
<1>19. ASSUME NEW u \in User, NEW r \in Role, ChangeMemberRole(u, r) PROVE TypeInv'
  BY <1>19 DEF Upset, ChangeMemberRole, accountRows, inviteRows, client, history, TypeInv, TypeOK
<1>20. ASSUME ConvertGroupToOpen \/ NextDay PROVE TypeInv'
  BY <1>20
  DEF Upset, ConvertGroupToOpen, NextDay, groupRows, accountRows, inviteRows, client, history,
      TypeInv, TypeOK
<1>21. ASSUME NEW u \in User, RotateKeys(u) PROVE TypeInv'
  BY <1>21 DEF Upset, RotateKeys, groupRows, inviteRows, client, history, TypeInv, TypeOK
<1>22. ASSUME NEW s \in Slot, NEW u \in User, BeginDeleteAccount(s, u) PROVE TypeInv'
  <2> DEFINE q == [Idle EXCEPT !.op = IF Live(u) THEN "closing" ELSE "closed",
                               !.by = u, !.who = u]
  <2>1. q \in Request /\ Formed(q)
    BY DEF Idle, Request, Op, Formed
  <2>2. SlotsTyped
    BY <1>22, <2>1, SetKeepsTypes DEF BeginDeleteAccount
  <2> QED
    BY <1>22, <2>2
    DEF Upset, BeginDeleteAccount, groupRows, accountRows, inviteRows, client, history, TypeInv, TypeOK
<1>23. ASSUME NEW s \in Slot, Tombstone(s) PROVE TypeInv'
  <2> DEFINE q == [slots[s] EXCEPT !.op = "closed"]
  <2>1. q \in Request /\ Formed(q) /\ slots[s].by \in User
    BY <1>23, <1>a DEF Tombstone, Request, Op, Formed
  <2>2. SlotsTyped
    BY <1>23, <2>1, SetKeepsTypes DEF Tombstone
  <2> QED
    BY <1>23, <2>1, <2>2
    DEF Tombstone, groupRows, inviteRows, client, history, TypeInv, TypeOK
<1>24. ASSUME NEW s \in Slot, ReadSweep(s) PROVE TypeInv'
  <2>1. PICK rows \in SUBSET ({"invite", "sent"} \X Invite) :
          Set(s, [slots[s] EXCEPT !.op = "sweep", !.rows = rows])
    BY <1>24 DEF ReadSweep, ReceivedInvites
  <2> DEFINE q == [slots[s] EXCEPT !.op = "sweep", !.rows = rows]
  <2>2. q \in Request /\ Formed(q)
    BY <1>a DEF Request, Op, Formed
  <2>3. SlotsTyped
    BY <2>1, <2>2, SetKeepsTypes
  <2> QED
    BY <1>24, <2>3
    DEF ReadSweep, groupRows, accountRows, inviteRows, client, history, TypeInv, TypeOK
<1>25. ASSUME NEW s \in Slot, NEW r \in {"invite", "sent"} \X Invite, SweepRow(s, r)
       PROVE  TypeInv'
  <2> DEFINE q == [slots[s] EXCEPT !.rows = @ \ {r}]
  <2>1. q \in Request /\ Formed(q)
    BY <1>25, <1>a DEF SweepRow, Request, Formed
  <2>2. SlotsTyped
    BY <1>25, <2>1, SetKeepsTypes DEF SweepRow
  <2> QED
    BY <1>25, <1>a, <2>2 DEF SweepRow, groupRows, accountRows, client, history, TypeInv, TypeOK
<1>26. ASSUME NEW s \in Slot, Die(s) PROVE TypeInv'
  <2>1. SlotsTyped
    BY <1>26, <1>a, SetKeepsTypes DEF Die, End
  <2>2. form' \in [User -> Form]
    BY <1>26 DEF Die, TypeInv, TypeOK, Form
  <2> QED
    BY <1>26, <2>1, <2>2 DEF Upset, Die, groupRows, accountRows, inviteRows, history, TypeInv, TypeOK
<1>27. ASSUME NEW i \in Invite, ExpireInvite(i) \/ ExpireSent(i) PROVE TypeInv'
  BY <1>27, <1>a
  DEF ExpireInvite, ExpireSent, groupRows, accountRows, client, history, TypeInv, TypeOK
<1>28. CASE UNCHANGED vars
  BY <1>28
  DEF vars, groupRows, accountRows, inviteRows, client, history, TypeInv, TypeOK
<1> QED
  BY <1>1, <1>2, <1>3, <1>4, <1>5, <1>6, <1>7, <1>8, <1>9, <1>10, <1>12, <1>13, <1>14, <1>15,
     <1>17, <1>18, <1>19, <1>20, <1>21, <1>22, <1>23, <1>24, <1>25, <1>26, <1>27, <1>28
  DEF Next, Requests, Completes, Closes

\* The rows, the requests and the screens are what the code's types say, and a
\* request carries what its next step uses.
THEOREM TypeCorrect == Spec => []TypeOK
<1>1. TypeInv => TypeOK
  BY DEF TypeInv
<1> QED
  BY <1>1, TypeInit, TypeNext, PTL DEF Spec

-----------------------------------------------------------------------------
(* The cap.  A request about to write counted fewer than Cap members, and as  *)
(* long as JoinSeq is what it read there are no more of them than it counted: *)
(* every join under the cap moves JoinSeq on.  A request that started without *)
(* the cap can only write once the group is no longer Rotating, and a group   *)
(* never becomes Rotating again.                                              *)

Joining == {"seq", "count", "write"}

Counted(q) ==
  /\ q.op \in Joining /\ ~q.capped => mode # "rotating"
  /\ q.op \in {"count", "write"} => q.seq <= SeqRead
  /\ q.op = "write" /\ q.capped =>
       /\ q.n < Cap
       /\ mode = "rotating" /\ SeqRead = q.seq => Cardinality(Members) <= q.n

CapInv == CapHolds /\ \A s \in Slot : Counted(slots[s])

LEMMA SeqReadNat == ASSUME TypeInv PROVE SeqRead \in Nat
BY DEF TypeInv, TypeOK, SeqRead, Absent

LEMMA MembersCount ==
  /\ Cardinality(Members) \in Nat
  /\ Cardinality(Members') \in Nat
  /\ Members' \subseteq Members => Cardinality(Members') <= Cardinality(Members)
<1>1. IsFiniteSet(Members')
  BY UserAssumption, FS_Subset DEF Members
<1> QED
  BY <1>1, MembersFinite, FS_CardinalityType, FS_Subset

LEMMA IdleCounted == Counted(Idle) /\ Counted(Idle)'
BY DEF Counted, Idle, Joining

\* Nobody joins, and each request is where it was, is not joining, or counts right.
LEMMA NobodyJoins ==
  ASSUME TypeInv, CapInv,
         mode' = mode \/ mode' # "rotating",
         joinSeq' = joinSeq,
         Members' \subseteq Members,
         \A s \in Slot : \/ slots'[s] = slots[s]
                         \/ slots'[s].op \notin Joining
                         \/ Counted(slots[s])'
  PROVE  CapInv'
<1>1. SeqRead' = SeqRead
  BY DEF SeqRead
<1>2. CapHolds'
  BY MembersCount, CapAssumption DEF CapInv, CapHolds
<1>3. ASSUME NEW s \in Slot PROVE Counted(slots[s])'
  <2>1. CASE slots'[s] = slots[s]
    <3>1. Counted(slots[s]) /\ slots[s].n \in Nat
      BY DEF CapInv, TypeInv, TypeOK, Request
    <3> QED
      BY <1>1, <2>1, <3>1, MembersCount DEF Counted
  <2>2. CASE slots'[s].op \notin Joining
    BY <2>2 DEF Counted, Joining
  <2> QED
    BY <2>1, <2>2
<1> QED
  BY <1>2, <1>3 DEF CapInv

\* A step that rewrites one request only.
LEMMA OneRequest ==
  ASSUME TypeInv, NEW s \in Slot, NEW q, Set(s, q)
  PROVE  slots'[s] = q /\ \A t \in Slot \ {s} : slots'[t] = slots[t]
BY DEF TypeInv, TypeOK, Set

LEMMA CapNext == TypeInv /\ CapInv /\ [Next]_vars => CapInv'
<1> SUFFICES ASSUME TypeInv, CapInv, [Next]_vars PROVE CapInv'
  OBVIOUS
<1>a. \A s \in Slot : slots[s] \in Request /\ Counted(slots[s])
  BY DEF TypeInv, TypeOK, CapInv
<1> DEFINE Still == groupRows' = groupRows
           Bystander(s) == slots'[s] = slots[s] \/ slots'[s].op \notin Joining
<1>b. ASSUME Still, \A s \in Slot : Bystander(s) \/ Counted(slots[s])'
      PROVE  CapInv'
  <2>1. mode' = mode /\ joinSeq' = joinSeq /\ Members' = Members
    BY <1>b DEF groupRows, Members
  <2> QED
    BY <1>b, <2>1, NobodyJoins
<1>1. ASSUME NEW s \in Slot, NEW q, Set(s, q), q.op \notin Joining \/ Counted(q)', Still
      PROVE  CapInv'
  BY <1>1, <1>b, OneRequest DEF Counted
<1>2. ASSUME NEW s \in Slot,
             \/ \E u \in User, i \in Invite, exp \in 0..(MaxDay + Life) : BeginCreate(s, u, i, exp)
             \/ \E v \in User, i \in Invite : BeginAccept(s, v, i)
             \/ \E u \in User : BeginDeleteAccount(s, u)
      PROVE  CapInv'
  BY <1>1, <1>2 DEF BeginCreate, BeginAccept, BeginDeleteAccount, Idle, Joining, groupRows
<1>3. ASSUME NEW s \in Slot,
             \/ \E answered \in BOOLEAN : CommitCreate(s, answered)
             \/ CommitAccept(s) \/ JoinRefused(s) \/ Clean(s) \/ Swept(s) \/ Die(s)
      PROVE  CapInv'
  <2>1. End(s) /\ Still
    BY <1>3 DEF CommitCreate, CommitAccept, JoinRefused, Clean, Swept, Die, groupRows
  <2> QED
    BY <1>1, <2>1 DEF End, Idle, Joining
<1>4. ASSUME NEW s \in Slot,
             \/ JoinMoot(s) \/ Tombstone(s) \/ ReadSweep(s)
             \/ \E r \in {"invite", "sent"} \X Invite : SweepRow(s, r)
      PROVE  CapInv'
  <2>1. ASSUME NEW op \in Op \ Joining, NEW rows,
               \/ Set(s, [slots[s] EXCEPT !.op = op])
               \/ Set(s, [slots[s] EXCEPT !.op = op, !.rows = rows])
               \/ slots[s].op = op /\ Set(s, [slots[s] EXCEPT !.rows = rows]),
               Still
        PROVE  CapInv'
    BY <1>1, <1>a, <2>1 DEF Request, Joining
  <2>2. Still
    BY <1>4 DEF JoinMoot, Tombstone, ReadSweep, SweepRow, groupRows
  <2>3. CASE JoinMoot(s) \/ Tombstone(s)
    BY <2>1, <2>2, <2>3 DEF JoinMoot, Tombstone, Op, Joining
  <2>4. CASE ReadSweep(s)
    BY <2>1, <2>2, <2>4 DEF ReadSweep, Op, Joining
  <2>5. ASSUME NEW r \in {"invite", "sent"} \X Invite, SweepRow(s, r)
        PROVE  CapInv'
    BY <2>1, <2>2, <2>5 DEF SweepRow, Op, Joining
  <2> QED
    BY <1>4, <2>3, <2>4, <2>5
<1>5. ASSUME NEW s \in Slot, NEW i \in Invite, BeginComplete(s, i) PROVE CapInv'
  <2> DEFINE v == sent[i].to
             first == IF Live(v) /\ keys[v] # sent[i].key THEN "clean"
                      ELSE IF mode = "rotating" THEN "seq" ELSE "write"
             q == [Idle EXCEPT !.op = first, !.by = sent[i].by, !.invite = i, !.who = v,
                               !.key = keys[v], !.capped = (mode = "rotating")]
  <2>1. /\ q.op = first /\ q.seq = 0
        /\ ~q.capped => mode # "rotating"
        /\ first = "write" => ~q.capped
        /\ first = "write" => mode # "rotating"
        /\ first \in {"clean", "seq", "write"}
    BY DEF Idle
  <2>2. mode' = mode /\ SeqRead' = SeqRead /\ SeqRead \in Nat /\ Still /\ Set(s, q)
    BY <1>5, SeqReadNat DEF BeginComplete, groupRows, SeqRead
  <2>3. PICK c : c = q
    OBVIOUS
  <2> HIDE DEF q, first
  <2>4. Counted(c)' \/ c.op = "clean"
    BY <2>1, <2>2, <2>3 DEF Counted, Joining
  <2> QED
    BY <1>1, <2>2, <2>3, <2>4 DEF Joining
<1>6. SeqRead \in Nat
  BY SeqReadNat
<1>7. ASSUME NEW s \in Slot, ReadSeq(s) PROVE CapInv'
  <2>1. mode' = mode /\ SeqRead' = SeqRead /\ Still
    BY <1>7 DEF ReadSeq, groupRows, SeqRead
  <2>2. PICK c : c = [slots[s] EXCEPT !.op = "count", !.seq = SeqRead]
    OBVIOUS
  <2>3. c.op = "count" /\ c.seq = SeqRead /\ c.capped = slots[s].capped
    BY <1>a, <2>2 DEF Request
  <2>4. Counted(c)'
    BY <1>7, <1>a, <1>6, <2>1, <2>3 DEF ReadSeq, Counted, Joining
  <2>5. PICK d : d = [slots[s] EXCEPT !.op = "clean"]
    OBVIOUS
  <2>6. d.op = "clean"
    BY <1>a, <2>5 DEF Request
  <2> QED
    BY <1>1, <1>7, <2>1, <2>2, <2>4, <2>5, <2>6 DEF ReadSeq, Joining
<1>8. ASSUME NEW s \in Slot, Count(s) PROVE CapInv'
  <2>1. mode' = mode /\ SeqRead' = SeqRead /\ Members' = Members /\ Still
    BY <1>8 DEF Count, groupRows, SeqRead, Members
  <2>2. PICK c : c = [slots[s] EXCEPT !.op = "write", !.n = Cardinality(Members)]
    OBVIOUS
  <2>3. /\ c.op = "write" /\ c.n = Cardinality(Members)
        /\ c.seq = slots[s].seq /\ c.capped = slots[s].capped
    BY <1>a, <2>2 DEF Request
  <2>4. ASSUME Cardinality(Members) < Cap PROVE Counted(c)'
    BY <1>8, <1>a, <2>1, <2>3, <2>4, MembersCount DEF Count, Counted, Joining
  <2>5. PICK d : d = [slots[s] EXCEPT !.op = "clean"]
    OBVIOUS
  <2>6. d.op = "clean" /\ Idle.op = "idle"
    BY <1>a, <2>5 DEF Request, Idle
  <2> QED
    BY <1>1, <1>8, <2>1, <2>2, <2>4, <2>5, <2>6 DEF Count, End, Joining
<1>9. ASSUME NEW s \in Slot, JoinRaced(s) \/ JoinCollides(s) PROVE CapInv'
  <2>1. mode' = mode /\ Still
    BY <1>9 DEF JoinRaced, JoinCollides, groupRows
  <2>2. Set(s, IF slots[s].capped THEN Again(slots[s]) ELSE Idle)
    BY <1>9 DEF JoinRaced, JoinCollides
  <2>3. PICK c : c = IF slots[s].capped THEN Again(slots[s]) ELSE Idle
    OBVIOUS
  <2>4. c.op = "idle" \/ (c.op = "seq" /\ c.capped)
    BY <1>a, <2>3 DEF Again, Request, Idle
  <2>5. c.op \notin Joining \/ Counted(c)'
    BY <2>4 DEF Counted, Joining
  <2> QED
    BY <1>1, <2>1, <2>2, <2>3, <2>5
\* The one step that adds a member.
<1>10. ASSUME NEW s \in Slot, Joins(s) PROVE CapInv'
  <2> DEFINE q == slots[s]
  <2>1. /\ q.op = "write" /\ SeqStill(q) /\ mode' = mode
        /\ role' = [role EXCEPT ![q.who] = "member"]
        /\ joinSeq' = IF q.capped THEN q.seq + 1 ELSE joinSeq
        /\ Set(s, Idle)
    BY <1>10 DEF Joins, End
  <2>2. Members' \subseteq Members \cup {q.who}
    BY <2>1 DEF Members, TypeInv, TypeOK
  <2>3. Cardinality(Members') <= Cardinality(Members) + 1
    <3>1. /\ IsFiniteSet(Members \cup {q.who})
          /\ Cardinality(Members \cup {q.who}) <= Cardinality(Members) + 1
      BY MembersFinite, MembersCount, FS_AddElement
    <3>2. Cardinality(Members') <= Cardinality(Members \cup {q.who})
      BY <2>2, <3>1, FS_Subset
    <3> QED
      BY <3>1, <3>2, FS_CardinalityType, MembersCount
  <2>4. q \in Request /\ Counted(q) /\ q.n \in Nat /\ q.seq \in Nat
    BY <1>a DEF Request
  <2>5. q.capped => SeqRead = q.seq /\ SeqRead' = SeqRead + 1
    BY <2>1, <2>4 DEF SeqStill, SeqRead, Absent
  <2>6. ~q.capped => mode # "rotating" /\ SeqRead' = SeqRead
    BY <2>1, <2>4 DEF Counted, Joining, SeqRead
  <2>7. CapHolds'
    BY <2>1, <2>3, <2>4, <2>5, <2>6, MembersCount, CapAssumption DEF Counted, CapHolds
  <2>8. ASSUME NEW t \in Slot PROVE Counted(slots[t])'
    <3>1. CASE t = s
      BY <2>1, <3>1, OneRequest, IdleCounted DEF Counted, Idle, Joining
    <3>2. CASE t # s
      <4>1. slots'[t] = slots[t] /\ slots[t].seq \in Nat /\ Counted(slots[t])
        BY <2>1, <3>2, <1>a, OneRequest DEF Request
      <4> QED
        BY <2>1, <2>5, <2>6, <4>1, <1>6 DEF Counted
    <3> QED
      BY <3>1, <3>2
  <2> QED
    BY <2>7, <2>8 DEF CapInv
<1>11. ASSUME NEW u \in User,
              \/ \E s \in Slot : LeaveGroup(s, u)
              \/ \E s \in Slot, a \in User : RemoveMember(s, a, u)
       PROVE  CapInv'
  <2>1. PICK s \in Slot : /\ role' = [role EXCEPT ![u] = "none"] /\ joinSeq' = joinSeq
                          /\ mode' \in {mode, "gone"}
                          /\ Set(s, [Idle EXCEPT !.op = "left", !.by = u])
    BY <1>11 DEF LeaveGroup, RemoveMember, Departs
  <2>2. Members' \subseteq Members
    BY <2>1 DEF Members, TypeInv, TypeOK
  <2>3. [Idle EXCEPT !.op = "left", !.by = u].op = "left"
    BY DEF Idle
  <2>4. \A t \in Slot : Bystander(t)
    BY <2>1, <2>3, OneRequest DEF Joining
  <2> QED
    BY <2>1, <2>2, <2>4, NobodyJoins
<1>12. ASSUME NEW u \in User, NEW r \in Role, ChangeMemberRole(u, r) PROVE CapInv'
  <2>1. Members' \subseteq Members
    BY <1>12 DEF ChangeMemberRole, Members, TypeInv, TypeOK
  <2> QED
    BY <1>12, <2>1, NobodyJoins DEF ChangeMemberRole
<1>13. ASSUME ConvertGroupToOpen PROVE CapInv'
  BY <1>13, NobodyJoins DEF ConvertGroupToOpen, Members
<1>14. ASSUME \/ \E u \in User : CreateRefused(u) \/ RotateKeys(u)
              \/ \E u \in User, i \in Invite : RevokeInvite(u, i)
              \/ \E i \in Invite : ExpireInvite(i) \/ ExpireSent(i)
              \/ NextDay \/ UNCHANGED vars
       PROVE  CapInv'
  BY <1>14, <1>b
  DEF CreateRefused, RevokeInvite, RotateKeys, ExpireInvite, ExpireSent, NextDay, vars, groupRows
<1>15. ASSUME NEW s \in Slot, Requests(s) PROVE CapInv'
  BY <1>15, <1>2, <1>3, <1>4, <1>5, <1>7, <1>8, <1>9, <1>10, <1>11
  DEF Requests, Completes, Closes
<1> QED
  BY <1>12, <1>13, <1>14, <1>15 DEF Next

LEMMA CapInit == Init => CapInv
BY CapAssumption DEF Init, CapInv, CapHolds, Counted, Idle, Joining, Members

\* A Rotating group never has more than Cap members, however many completions
\* run at once: CompleteInvite's JoinSeq makes the count it wrote under current.
THEOREM MemberCap == Spec => []CapHolds
<1>1. CapInv => CapHolds
  BY DEF CapInv
<1> QED
  BY <1>1, TypeInit, TypeNext, CapInit, CapNext, PTL DEF Spec
-----------------------------------------------------------------------------
(* One link, one invite.  An id that a screen may still send is on one form,  *)
(* in one request, and its link has been shown to nobody: so nobody accepts   *)
(* it, and rows that once belonged to a shown link are never created again.   *)
(* From then on only SENT# tells whether the invite may admit somebody.       *)

\* The steps after creation: they work on an invite whose link was shown.
Answering == {"accept", "seq", "count", "write", "clean"}

Unshown ==
  /\ shown \subseteq made
  /\ \A u \in User : form[u].id # NoInvite => form[u].id \in made \ shown
  /\ \A u, v \in User : form[u].id = form[v].id /\ form[u].id # NoInvite => u = v

Pending ==
  /\ \A s \in Slot : slots[s].op = "create" =>
       form[slots[s].by].id = slots[s].invite /\ form[slots[s].by].said = "sending"
  /\ \A s, t \in Slot :
       slots[s].op = "create" /\ slots[t].op = "create" /\ slots[s].by = slots[t].by => s = t

Followed(s) == slots[s].op \in Answering => slots[s].invite \in shown

Spent(i) ==
  /\ i \notin shown => told[i] = {} /\ joins[i] = 0 /\ sent[i].to = NoOne
  /\ joins[i] <= 1
  /\ joins[i] # 0 => sent[i] = NoRow
  /\ told[i] # {} => sent[i] = NoRow \/ sent[i].to # NoOne
  /\ i \in revoked => sent[i] = NoRow /\ told[i] = {} /\ joins[i] = 0

LinkInv == Unshown /\ Pending /\ (\A s \in Slot : Followed(s)) /\ (\A i \in Invite : Spent(i))

LEMMA LinkInit == Init => LinkInv
<1> SUFFICES ASSUME Init PROVE LinkInv
  OBVIOUS
<1>1. Unshown /\ Pending /\ \A s \in Slot : Followed(s)
  BY DEF Init, Unshown, Pending, Followed, NoForm, Idle, Answering
<1>2. ASSUME NEW i \in Invite PROVE Spent(i)
  <2>1. CASE Waiting[i] = NoOne
    BY <2>1 DEF Init, Spent, NoRow
  <2>2. CASE Waiting[i] # NoOne
    <3>1. Accepted(Waiting[i]).to # NoOne
      BY <2>2 DEF Accepted, NoRow
    <3> QED
      BY <2>2, <3>1 DEF Init, Spent
  <2> QED
    BY <2>1, <2>2
<1> QED
  BY <1>1, <1>2 DEF LinkInv

\* A row that stays or goes, and nothing else.
LEMMA RowStays ==
  ASSUME NEW i \in Invite, Spent(i),
         sent'[i] = sent[i] \/ sent'[i] = NoRow,
         shown' = shown, told'[i] = told[i], joins'[i] = joins[i], revoked' = revoked
  PROVE  Spent(i)'
BY DEF Spent, NoRow

\* A step of one request that creates nothing, while the screens stay as they are.
LEMMA RequestMoves ==
  ASSUME TypeInv, LinkInv, NEW s \in Slot, NEW q, Set(s, q), client' = client,
         q.op # "create", q.op \in Answering => q.invite \in shown
  PROVE  Unshown' /\ Pending' /\ \A t \in Slot : Followed(t)'
<1>1. form' = form /\ made' = made /\ shown' = shown
  BY DEF client
<1>2. slots'[s] = q /\ \A t \in Slot \ {s} : slots'[t] = slots[t]
  BY OneRequest
<1>3. Unshown'
  BY <1>1 DEF LinkInv, Unshown
<1>4. Pending'
  BY <1>1, <1>2 DEF LinkInv, Pending
<1>5. \A t \in Slot : Followed(t)'
  BY <1>1, <1>2 DEF LinkInv, Followed
<1> QED
  BY <1>3, <1>4, <1>5

\* The screen sends an id that is its own or new.
LEMMA LinkBegins ==
  ASSUME TypeInv, LinkInv, NEW s \in Slot, NEW u \in User, NEW i \in Invite, NEW exp,
         BeginCreate(s, u, i, exp)
  PROVE  LinkInv'
<1> DEFINE q == [Idle EXCEPT !.op = "create", !.by = u, !.invite = i,
                             !.key = keys[u], !.exp = exp]
<1>1. q.op = "create" /\ q.by = u /\ q.invite = i
  BY DEF Idle
<1>2. /\ slots'[s] = q /\ \A t \in Slot \ {s} : slots'[t] = slots[t]
      /\ form' = [form EXCEPT ![u] = [id |-> i, exp |-> exp, said |-> "sending"]]
      /\ made' = made \cup {i} /\ shown' = shown
      /\ form[u].said # "sending" /\ Attempted(u, i, exp)
      /\ UNCHANGED <<sent, told, joins, revoked>>
  BY OneRequest DEF BeginCreate, inviteRows, history
<1>3. /\ form'[u].id = i /\ form'[u].said = "sending"
      /\ \A v \in User \ {u} : form'[v] = form[v]
  BY <1>2 DEF TypeInv, TypeOK
<1> HIDE DEF q
<1>4. i \notin shown /\ \A v \in User \ {u} : form[v].id # i
  <2>1. CASE form[u].id = NoInvite
    BY <1>2, <2>1, UserAssumption DEF Attempted, LinkInv, Unshown
  <2>2. CASE form[u].id # NoInvite
    BY <1>2, <2>2 DEF Attempted, LinkInv, Unshown
  <2> QED
    BY <2>1, <2>2
<1>5. Unshown'
  BY <1>2, <1>3, <1>4 DEF LinkInv, Unshown
<1>6. \A t \in Slot \ {s} : slots[t].op = "create" => slots[t].by \in User \ {u}
  BY <1>2 DEF LinkInv, Pending, TypeInv, Formed
<1>7. Pending'
  BY <1>1, <1>2, <1>3, <1>6 DEF LinkInv, Pending
<1>8. \A t \in Slot : Followed(t)'
  BY <1>1, <1>2 DEF LinkInv, Followed, Answering
<1>9. \A j \in Invite : Spent(j)'
  BY <1>2, RowStays DEF LinkInv
<1> QED
  BY <1>5, <1>7, <1>8, <1>9 DEF LinkInv

\* The invite is created, or its id was taken; the link is shown or not.
LEMMA LinkCommits ==
  ASSUME TypeInv, LinkInv, NEW s \in Slot, NEW answered \in BOOLEAN, CommitCreate(s, answered)
  PROVE  LinkInv'
<1> DEFINE q == slots[s]
           i == q.invite
           free == invite[i] = NoRow
           row == [NoRow EXCEPT !.by = q.by, !.mac = q.key, !.exp = q.exp, !.ttl = q.exp]
<1>1. /\ q.op = "create" /\ q.by \in User /\ i \in Invite
      /\ slots'[s] = Idle /\ \A t \in Slot \ {s} : slots'[t] = slots[t]
      /\ made' = made /\ told' = told /\ joins' = joins
  BY OneRequest DEF CommitCreate, End, TypeInv, Formed
<1>2. /\ sent' = IF free THEN [sent EXCEPT ![i] = row] ELSE sent
      /\ revoked' = IF free THEN revoked \ {i} ELSE revoked
      /\ shown' = IF answered /\ free THEN shown \cup {i} ELSE shown
  BY DEF CommitCreate
<1>3. /\ answered /\ free => form'[q.by].id = NoInvite
      /\ ~(answered /\ free) => form'[q.by].id = form[q.by].id
      /\ \A u \in User \ {q.by} : form'[u] = form[u]
  BY <1>1 DEF CommitCreate, TypeInv, TypeOK, Form, NoForm
<1>4. row # NoRow /\ row.to = NoOne
  BY <1>1, UserAssumption DEF NoRow
<1>5. form[q.by].id = i /\ i \notin shown
  BY <1>1, UserAssumption DEF LinkInv, Pending, Unshown
<1>a. \A t \in Slot \ {s} : slots[t].op = "create" => slots[t].by \in User \ {q.by}
  BY <1>1 DEF LinkInv, Pending, TypeInv, Formed
<1> HIDE DEF q, i, free, row
<1>6. Unshown'
  <2>1. shown' \subseteq made'
    BY <1>1, <1>2, <1>5, UserAssumption DEF LinkInv, Unshown
  <2>2. \A u \in User : form'[u].id # NoInvite => form'[u].id = form[u].id
    BY <1>1, <1>3
  <2>3. \A u \in User : form'[u].id # NoInvite => form'[u].id \in made' \ shown'
    BY <1>1, <1>2, <1>3, <1>5, <2>2 DEF LinkInv, Unshown
  <2>4. \A u, v \in User : form'[u].id = form'[v].id /\ form'[u].id # NoInvite => u = v
    BY <2>2 DEF LinkInv, Unshown
  <2> QED
    BY <2>1, <2>3, <2>4 DEF Unshown
<1>7. Pending'
  <2>1. \A t \in Slot : slots'[t].op = "create" => t # s /\ slots'[t] = slots[t]
    BY <1>1 DEF Idle
  <2>2. \A t \in Slot : slots'[t].op = "create" => form'[slots'[t].by] = form[slots[t].by]
    BY <1>3, <1>a, <2>1
  <2> QED
    BY <2>1, <2>2 DEF LinkInv, Pending
<1>8. \A t \in Slot : Followed(t)'
  BY <1>1, <1>2 DEF LinkInv, Followed, Answering, Idle
<1>9. ASSUME NEW j \in Invite PROVE Spent(j)'
  <2>1. CASE free /\ j = i
    <3>1. told[j] = {} /\ joins[j] = 0
      BY <1>5, <2>1 DEF LinkInv, Spent
    <3>2. sent'[j] = row /\ j \notin revoked'
      BY <1>2, <2>1 DEF TypeInv, TypeOK
    <3> QED
      BY <1>1, <1>4, <3>1, <3>2 DEF Spent
  <2>2. CASE ~free \/ j # i
    <3>1. /\ sent'[j] = sent[j] /\ (j \in revoked' <=> j \in revoked)
          /\ (j \in shown' <=> j \in shown)
      BY <1>2, <2>2 DEF TypeInv, TypeOK
    <3> QED
      BY <1>1, <3>1 DEF LinkInv, Spent
  <2> QED
    BY <2>1, <2>2
<1> QED
  BY <1>6, <1>7, <1>8, <1>9 DEF LinkInv

\* A form is emptied; a dead request leaves its form's id as it was.
LEMMA FormEmptied ==
  ASSUME TypeInv, LinkInv, NEW u \in User, CreateRefused(u)
  PROVE  LinkInv'
<1>1. /\ form[u].said # "sending" /\ form' = [form EXCEPT ![u] = NoForm]
      /\ UNCHANGED <<slots, made, shown, sent, told, joins, revoked>>
  BY DEF CreateRefused, inviteRows, history
<1>2. form'[u].id = NoInvite /\ \A v \in User \ {u} : form'[v] = form[v]
  BY <1>1 DEF TypeInv, TypeOK, NoForm
<1>3. Unshown'
  BY <1>1, <1>2 DEF LinkInv, Unshown
<1>4. \A s \in Slot : slots[s].op = "create" => slots[s].by \in User \ {u}
  BY <1>1 DEF LinkInv, Pending, TypeInv, Formed
<1>5. Pending'
  BY <1>1, <1>2, <1>4 DEF LinkInv, Pending
<1>6. \A s \in Slot : Followed(s)'
  BY <1>1 DEF LinkInv, Followed
<1>7. \A i \in Invite : Spent(i)'
  BY <1>1, RowStays DEF LinkInv
<1> QED
  BY <1>3, <1>5, <1>6, <1>7 DEF LinkInv

LEMMA RequestDies ==
  ASSUME TypeInv, LinkInv, NEW s \in Slot, Die(s)
  PROVE  LinkInv'
<1> DEFINE q == slots[s]
<1>1. /\ slots'[s] = Idle /\ \A t \in Slot \ {s} : slots'[t] = slots[t]
      /\ form' = IF q.op # "create" THEN form ELSE [form EXCEPT ![q.by].said = "ambiguous"]
      /\ UNCHANGED <<made, shown, sent, told, joins, revoked>>
  BY OneRequest DEF Die, End, inviteRows, history
<1>2. /\ \A u \in User : form'[u].id = form[u].id
      /\ \A u \in User : q.op # "create" \/ u # q.by => form'[u] = form[u]
  BY <1>1 DEF TypeInv, TypeOK, Form
<1>3. \A t \in Slot \ {s} : slots[t].op = "create" =>
        slots[t].by \in User /\ (q.op = "create" => slots[t].by # q.by)
  BY DEF LinkInv, Pending, TypeInv, Formed
<1> HIDE DEF q
<1>4. Unshown'
  BY <1>1, <1>2 DEF LinkInv, Unshown
<1>5. Pending'
  <2>1. \A t \in Slot : slots'[t].op = "create" => t # s /\ slots'[t] = slots[t]
    BY <1>1 DEF Idle
  <2>2. \A t \in Slot : slots'[t].op = "create" => form'[slots'[t].by] = form[slots[t].by]
    BY <1>2, <1>3, <2>1
  <2> QED
    BY <2>1, <2>2 DEF LinkInv, Pending
<1>6. \A t \in Slot : Followed(t)'
  BY <1>1 DEF LinkInv, Followed, Answering, Idle
<1>7. \A i \in Invite : Spent(i)'
  BY <1>1, RowStays DEF LinkInv
<1> QED
  BY <1>4, <1>5, <1>6, <1>7 DEF LinkInv

\* The first accepter is told; a revoked invite has no SENT# row to accept.
LEMMA LinkAccepted ==
  ASSUME TypeInv, LinkInv, NEW s \in Slot, CommitAccept(s)
  PROVE  LinkInv'
<1> DEFINE q == slots[s]
           i == q.invite
           By(row) == [row EXCEPT !.to = q.who, !.key = q.key, !.ttl = day + Wait]
<1>1. q.op = "accept" /\ q.who \in User /\ i \in Invite /\ i \in shown
  BY DEF CommitAccept, TypeInv, Formed, LinkInv, Followed, Answering
<1>2. Set(s, Idle) /\ client' = client /\ UNCHANGED <<shown, joins, revoked>>
  BY DEF CommitAccept, End, client
<1>3. Unshown' /\ Pending' /\ \A t \in Slot : Followed(t)'
  BY <1>2, RequestMoves DEF Idle, Answering
<1>4. ASSUME NEW j \in Invite PROVE Spent(j)'
  <2>1. CASE UNCHANGED <<sent, told>>
    BY <1>2, <2>1, RowStays DEF LinkInv
  <2>2. CASE /\ SentThere(i)
             /\ sent' = [sent EXCEPT ![i] = By(sent[i])]
             /\ told' = [told EXCEPT ![i] = @ \cup {q.who}]
    <3>1. CASE j # i
      <4>1. sent'[j] = sent[j] /\ told'[j] = told[j]
        BY <2>2, <3>1 DEF TypeInv, TypeOK
      <4> QED
        BY <1>2, <4>1, RowStays DEF LinkInv
    <3>2. CASE j = i
      <4>1. sent'[i].to = q.who /\ q.who # NoOne
        BY <1>1, <2>2, UserAssumption DEF TypeInv, TypeOK, Row
      <4>2. i \notin revoked /\ joins[i] = 0
        BY <1>1, <2>2 DEF SentThere, LinkInv, Spent
      <4> HIDE DEF q, i, By
      <4> QED
        BY <1>1, <1>2, <3>2, <4>1, <4>2 DEF Spent
    <3> QED
      BY <3>1, <3>2
  <2> QED
    BY <2>1, <2>2 DEF CommitAccept, inviteRows
<1> QED
  BY <1>3, <1>4 DEF LinkInv

\* The one join of an invite: both rows go with it, for good.
LEMMA LinkJoins ==
  ASSUME TypeInv, LinkInv, NEW s \in Slot, Joins(s)
  PROVE  LinkInv'
<1> DEFINE q == slots[s]
           i == q.invite
<1>1. q.op = "write" /\ i \in shown /\ SentKept(q)
  BY DEF Joins, LinkInv, Followed, Answering
<1>2. /\ Set(s, Idle) /\ client' = client /\ UNCHANGED <<shown, told, revoked>>
      /\ sent' = [sent EXCEPT ![i] = NoRow] /\ joins' = [joins EXCEPT ![i] = @ + 1]
  BY DEF Joins, End, client
<1>3. Unshown' /\ Pending' /\ \A t \in Slot : Followed(t)'
  BY <1>2, RequestMoves DEF Idle, Answering
<1>a. i \in Invite
  BY <1>1 DEF TypeInv, TypeOK
<1>b. joins[i] = 0 /\ i \notin revoked /\ sent'[i] = NoRow /\ joins'[i] = 1
  <2>1. joins[i] = 0 /\ i \notin revoked
    BY <1>1, <1>a DEF SentKept, LinkInv, Spent
  <2>2. joins \in [Invite -> Nat] /\ sent \in [Invite -> Row]
    BY DEF TypeInv, TypeOK
  <2> HIDE DEF q, i
  <2> QED
    BY <1>2, <1>a, <2>1, <2>2
<1> HIDE DEF q, i
<1>4. ASSUME NEW j \in Invite PROVE Spent(j)'
  <2>1. CASE j # i
    <3>1. sent'[j] = sent[j] /\ joins'[j] = joins[j]
      BY <1>2, <2>1 DEF TypeInv, TypeOK
    <3> QED
      BY <1>2, <3>1, RowStays DEF LinkInv
  <2>2. CASE j = i
    BY <1>1, <1>2, <1>b, <2>2 DEF Spent
  <2> QED
    BY <2>1, <2>2
<1> QED
  BY <1>3, <1>4 DEF LinkInv

LEMMA LinkRevoked ==
  ASSUME TypeInv, LinkInv, NEW u \in User, NEW i \in Invite, RevokeInvite(u, i)
  PROVE  LinkInv'
<1>1. /\ UNCHANGED <<slots, form, made, shown, told, joins>>
      /\ sent' = [sent EXCEPT ![i] = NoRow] /\ revoked' = revoked \cup {i}
      /\ sent[i] # NoRow /\ sent[i].to = NoOne
  BY DEF RevokeInvite, RevokeAllowed, client
<1>2. Unshown' /\ Pending' /\ \A t \in Slot : Followed(t)'
  BY <1>1 DEF LinkInv, Unshown, Pending, Followed
<1>3. ASSUME NEW j \in Invite PROVE Spent(j)'
  <2>1. CASE j # i
    BY <1>1, <2>1 DEF LinkInv, Spent, TypeInv, TypeOK
  <2>2. CASE j = i
    <3>1. told[i] = {} /\ joins[i] = 0
      BY <1>1 DEF LinkInv, Spent
    <3>2. sent'[i] = NoRow
      BY <1>1 DEF TypeInv, TypeOK
    <3> QED
      BY <1>1, <2>2, <3>1, <3>2 DEF Spent, NoRow
  <2> QED
    BY <2>1, <2>2
<1> QED
  BY <1>2, <1>3 DEF LinkInv

LEMMA LinkNext == TypeInv /\ LinkInv /\ [Next]_vars => LinkInv'
<1> SUFFICES ASSUME TypeInv, LinkInv, [Next]_vars PROVE LinkInv'
  OBVIOUS
<1> DEFINE Told == UNCHANGED <<client, told, joins, revoked>>
           RowsGo == \A i \in Invite : sent'[i] = sent[i] \/ sent'[i] = NoRow
<1>a. \A s \in Slot : slots[s] \in Request /\ Followed(s)
  BY DEF TypeInv, TypeOK, LinkInv
<1>b. ASSUME Told, RowsGo PROVE \A i \in Invite : Spent(i)'
  <2>1. shown' = shown /\ told' = told /\ joins' = joins /\ revoked' = revoked
    BY <1>b DEF client
  <2> QED
    BY <1>b, <2>1, RowStays DEF LinkInv
<1>c. ASSUME NEW s \in Slot, NEW q, Set(s, q), Told, RowsGo,
             q.op # "create", q.op \in Answering => q.invite \in shown
      PROVE  LinkInv'
  BY <1>b, <1>c, RequestMoves DEF LinkInv
<1>d. ASSUME sent' = sent \/ \E i \in Invite : sent' = [sent EXCEPT ![i] = NoRow]
      PROVE  RowsGo
  BY <1>d DEF TypeInv, TypeOK
<1>1. ASSUME NEW s \in Slot, NEW v \in User, NEW i \in Invite, BeginAccept(s, v, i)
      PROVE  LinkInv'
  BY <1>1, <1>c DEF BeginAccept, Idle, inviteRows, client, history
<1>2. ASSUME NEW s \in Slot, NEW i \in Invite, BeginComplete(s, i) PROVE LinkInv'
  <2>1. i \in shown
    BY <1>2 DEF BeginComplete, Completable, LinkInv, Spent
  <2>2. PICK q : q.op \in {"clean", "seq", "write"} /\ q.invite = i /\ Set(s, q)
    <3> DEFINE v == sent[i].to
               first == IF Live(v) /\ keys[v] # sent[i].key THEN "clean"
                        ELSE IF mode = "rotating" THEN "seq" ELSE "write"
               c == [Idle EXCEPT !.op = first, !.by = sent[i].by, !.invite = i, !.who = v,
                                 !.key = keys[v], !.capped = (mode = "rotating")]
    <3>1. Set(s, c)
      BY <1>2 DEF BeginComplete
    <3>2. first \in {"clean", "seq", "write"} /\ c.op = first /\ c.invite = i
      BY DEF Idle
    <3> HIDE DEF c, first
    <3> QED
      BY <3>1, <3>2
  <2> QED
    BY <1>2, <1>c, <2>1, <2>2 DEF BeginComplete, inviteRows, client, history
<1>3. ASSUME NEW s \in Slot,
             ReadSeq(s) \/ Count(s) \/ JoinRaced(s) \/ JoinMoot(s) \/ JoinRefused(s)
             \/ JoinCollides(s)
      PROVE  LinkInv'
  <2>1. Told /\ RowsGo
    BY <1>3
    DEF ReadSeq, Count, JoinRaced, JoinMoot, JoinRefused, JoinCollides, inviteRows, history
  <2>2. PICK q : /\ Set(s, q)
                 /\ q.op = "idle" \/ (q.op \in Answering /\ q.invite = slots[s].invite)
    <3> DEFINE p == slots[s]
    <3>1. /\ [p EXCEPT !.op = "clean"].op = "clean" /\ [p EXCEPT !.op = "clean"].invite = p.invite
          /\ LET q == [p EXCEPT !.op = "count", !.seq = SeqRead]
             IN  q.op = "count" /\ q.invite = p.invite
          /\ LET q == [p EXCEPT !.op = "write", !.n = Cardinality(Members)]
             IN  q.op = "write" /\ q.invite = p.invite
          /\ Again(p).op = "idle" \/ (Again(p).op = "seq" /\ Again(p).invite = p.invite)
          /\ Idle.op = "idle"
      BY <1>a DEF Again, Idle, Request
    <3> DEFINE Steps(q) == /\ Set(s, q)
                           /\ q.op = "idle" \/ (q.op \in Answering /\ q.invite = p.invite)
    <3>2. CASE Set(s, Idle)
      <4>1. Steps(Idle)
        BY <3>1, <3>2
      <4> QED
        BY <4>1
    <3>3. CASE Set(s, Again(p))
      <4>1. Steps(Again(p))
        BY <3>1, <3>3 DEF Answering
      <4> QED
        BY <4>1
    <3>4. CASE Set(s, [p EXCEPT !.op = "clean"])
      <4>1. Steps([p EXCEPT !.op = "clean"])
        BY <3>1, <3>4 DEF Answering
      <4> QED
        BY <4>1
    <3>5. CASE ReadSeq(s)
      <4>1. CASE Set(s, [p EXCEPT !.op = "count", !.seq = SeqRead])
        <5>1. Steps([p EXCEPT !.op = "count", !.seq = SeqRead])
          BY <3>1, <4>1 DEF Answering
        <5> QED
          BY <5>1
      <4> QED
        BY <3>4, <3>5, <4>1 DEF ReadSeq
    <3>6. CASE Count(s)
      <4>1. CASE Set(s, [p EXCEPT !.op = "write", !.n = Cardinality(Members)])
        <5>1. Steps([p EXCEPT !.op = "write", !.n = Cardinality(Members)])
          BY <3>1, <4>1 DEF Answering
        <5> QED
          BY <5>1
      <4> QED
        BY <3>2, <3>4, <3>6, <4>1 DEF Count, End
    <3> HIDE DEF p
    <3> QED
      BY <1>3, <3>2, <3>3, <3>4, <3>5, <3>6
      DEF p, JoinRaced, JoinMoot, JoinRefused, JoinCollides, End
  <2>3. slots[s].invite \in shown
    BY <1>3, <1>a
    DEF ReadSeq, Count, JoinRaced, JoinMoot, JoinRefused, JoinCollides, Followed, Answering
  <2> QED
    BY <1>c, <2>1, <2>2, <2>3 DEF Answering
<1>4. ASSUME NEW s \in Slot, Clean(s) PROVE LinkInv'
  <2>1. RowsGo
    BY <1>4, <1>a DEF Clean, TypeInv, TypeOK
  <2> QED
    BY <1>4, <1>c, <2>1 DEF Clean, End, Idle, Answering, history
<1>5. ASSUME NEW s \in Slot, NEW u \in User,
             LeaveGroup(s, u) \/ (\E a \in User : RemoveMember(s, a, u))
             \/ BeginDeleteAccount(s, u)
      PROVE  LinkInv'
  <2>1. Told /\ RowsGo
    BY <1>5
    DEF LeaveGroup, RemoveMember, Departs, BeginDeleteAccount, inviteRows, client, history
  <2>2. PICK q : Set(s, q) /\ q.op \in {"left", "closing", "closed"}
    <3>1. \E op \in {"closing", "closed"} :
            \/ Set(s, [Idle EXCEPT !.op = "left", !.by = u])
            \/ Set(s, [Idle EXCEPT !.op = op, !.by = u, !.who = u])
      BY <1>5 DEF LeaveGroup, RemoveMember, Departs, BeginDeleteAccount
    <3>2. /\ [Idle EXCEPT !.op = "left", !.by = u].op = "left"
          /\ \A op \in {"closing", "closed"} : [Idle EXCEPT !.op = op, !.by = u, !.who = u].op = op
      BY DEF Idle
    <3> QED
      BY <3>1, <3>2
  <2> QED
    BY <1>c, <2>1, <2>2 DEF Answering
<1>6. ASSUME NEW s \in Slot, Closes(s) PROVE LinkInv'
  <2>1. Told
    BY <1>6 DEF Closes, Tombstone, ReadSweep, Swept, SweepRow, client, history
  <2>2. RowsGo
    <3>1. CASE Tombstone(s) \/ ReadSweep(s) \/ Swept(s)
      BY <3>1 DEF Tombstone, ReadSweep, Swept, inviteRows
    <3>2. CASE \E r \in {"invite", "sent"} \X Invite : SweepRow(s, r)
      <4>1. PICK r \in {"invite", "sent"} \X Invite : SweepRow(s, r)
        BY <3>2
      <4> QED
        BY <1>d, <4>1 DEF SweepRow
    <3> QED
      BY <1>6, <3>1, <3>2 DEF Closes
  <2>3. PICK q : Set(s, q) /\ q.op \in {"closed", "sweep", "idle"}
    <3>1. \/ Set(s, [slots[s] EXCEPT !.op = "closed"])
          \/ \E rows : Set(s, [slots[s] EXCEPT !.op = "sweep", !.rows = rows])
          \/ slots[s].op = "sweep" /\ \E rows : Set(s, [slots[s] EXCEPT !.rows = rows])
          \/ Set(s, Idle)
      BY <1>6 DEF Closes, Tombstone, ReadSweep, Swept, SweepRow, End
    <3>2. /\ [slots[s] EXCEPT !.op = "closed"].op = "closed"
          /\ \A rows : [slots[s] EXCEPT !.op = "sweep", !.rows = rows].op = "sweep"
          /\ \A rows : [slots[s] EXCEPT !.rows = rows].op = slots[s].op
          /\ Idle.op = "idle"
      BY <1>a DEF Request, Idle
    <3> QED
      BY <3>1, <3>2
  <2> QED
    BY <1>c, <2>1, <2>2, <2>3 DEF Answering
<1>7. ASSUME \/ \E u \in User : RotateKeys(u)
             \/ \E u \in User, r \in Role : ChangeMemberRole(u, r)
             \/ \E i \in Invite : ExpireInvite(i) \/ ExpireSent(i)
             \/ ConvertGroupToOpen \/ NextDay \/ UNCHANGED vars
      PROVE  LinkInv'
  <2>1. Told /\ slots' = slots
    BY <1>7
    DEF RotateKeys, ChangeMemberRole, ExpireInvite, ExpireSent, ConvertGroupToOpen, NextDay,
        vars, client, history
  <2>2. RowsGo
    <3>1. sent' = sent \/ \E i \in Invite : sent' = [sent EXCEPT ![i] = NoRow]
      BY <1>7
      DEF RotateKeys, ChangeMemberRole, ExpireInvite, ExpireSent, ConvertGroupToOpen, NextDay,
          vars, inviteRows
    <3> QED
      BY <1>d, <3>1
  <2>3. Unshown' /\ Pending' /\ \A t \in Slot : Followed(t)'
    BY <2>1 DEF client, LinkInv, Unshown, Pending, Followed
  <2> QED
    BY <1>b, <2>1, <2>2, <2>3 DEF LinkInv
<1>8. ASSUME NEW s \in Slot, Requests(s) PROVE LinkInv'
  BY <1>8, <1>1, <1>2, <1>3, <1>4, <1>5, <1>6, LinkBegins, LinkCommits, LinkAccepted, LinkJoins,
     RequestDies
  DEF Requests, Completes
<1> QED
  BY <1>7, <1>8, FormEmptied, LinkRevoked DEF Next

\* One invite writes at most one membership, in however many tabs and by however
\* many requests it is completed: completeInviteOnce takes the SENT# row with it,
\* and no screen can create the rows of a shown link again.
THEOREM OneMembership == Spec => []AdmitsOnce
<1>1. LinkInv => AdmitsOnce
  BY DEF LinkInv, Spent, AdmitsOnce
<1> QED
  BY <1>1, TypeInit, TypeNext, LinkInit, LinkNext, PTL DEF Spec

\* Nobody is told they accepted an invite whose revocation was confirmed, nor
\* joins by it: AcceptInvite and completeInviteOnce need the SENT# row.
THEOREM RevocationStands == Spec => []RevokedIsVoid
<1>1. TypeInv /\ LinkInv => RevokedIsVoid
  BY DEF TypeInv, TypeOK, LinkInv, Spent, RevokedIsVoid
<1> QED
  BY <1>1, TypeInit, TypeNext, LinkInit, LinkNext, PTL DEF Spec

-----------------------------------------------------------------------------
(* What an accepter was told stands.  The two rows of an invite are accepted  *)
(* together, so they name the same accepter and the same deadline for as long *)
(* as both are there; an id stays its screen's own, so a sweep never meets a  *)
(* row another account made; and a completion that will clean up has seen a   *)
(* reason that no later step takes back.                                      *)

\* The two rows of an invite.
Paired(i) ==
  /\ sent[i] # NoRow => i \in made
  /\ invite[i].to # NoOne => i \in shown
  /\ sent[i].to # NoOne =>
       /\ sent[i].key <= keys[sent[i].to]
       /\ sent[i].to \in Members => i \in excused
       /\ invite[i] # NoRow => invite[i].to = sent[i].to /\ invite[i].ttl = sent[i].ttl

\* An id on a screen is that of its own invite.
Authored(u) == form[u].id # NoInvite /\ sent[form[u].id] # NoRow => sent[form[u].id].by = u

\* What a completion q has found of invite i.
Settled(q, i) ==
  \/ sent[i] = NoRow
  \/ i \in excused
  \/ /\ sent[i].to = q.who
     /\ \/ q.who \in deleted
        \/ q.op = "clean" /\ (keys[q.who] # sent[i].key \/ mode = "gone")
        \/ q.op # "clean" /\ q.key = sent[i].key

\* Only u ever makes the rows of i.
Owned(i, u) ==
  /\ i \in made /\ (sent[i] # NoRow => sent[i].by = u)
  /\ \A w \in User : form[w].id = i => w = u

\* A row that a sweep has read: one that the account made, or one that names it
\* as its accepter.
Deletes(q, r) ==
  \/ Owned(r[2], q.by)
  \/ /\ r[1] = "invite" /\ q.who \in deleted /\ r[2] \in shown
     /\ invite[r[2]] = NoRow \/ invite[r[2]].to = q.who \/ r[2] \in excused

Grounded(q) ==
  /\ q.op = "accept" => q.key <= keys[q.who]
  /\ q.op \in Answering \ {"accept"} => q.who \in User /\ Settled(q, q.invite)
  /\ q.op \in {"left", "closing", "closed", "sweep"} => q.by \in User
  /\ q.op \in {"closing", "closed"} => q.who = q.by
  /\ q.op = "closed" => q.by \in deleted
  /\ q.op = "sweep" => \A r \in q.rows : Deletes(q, r)

StandInv ==
  /\ \A i \in Invite : Paired(i)
  /\ \A u \in User : Authored(u)
  /\ \A s \in Slot : Grounded(slots[s])

LEMMA StandInit == Init => StandInv
<1> SUFFICES ASSUME Init PROVE StandInv
  OBVIOUS
<1>1. ASSUME NEW i \in Invite PROVE Paired(i)
  <2>1. CASE Waiting[i] = NoOne
    BY <2>1 DEF Init, Paired, NoRow
  <2>2. CASE Waiting[i] # NoOne
    <3>1. /\ invite[i] = Accepted(Waiting[i]) /\ sent[i] = Accepted(Waiting[i])
          /\ i \in made /\ i \in shown /\ Waiting[i] \in User
          /\ keys[Waiting[i]] = 0 /\ Waiting[i] \notin Members
      BY <2>2, FounderAssumption DEF Init, Members
    <3>2. Accepted(Waiting[i]).to = Waiting[i] /\ Accepted(Waiting[i]).key = 0
      BY DEF Accepted, NoRow
    <3> QED
      BY <3>1, <3>2 DEF Paired
  <2> QED
    BY <2>1, <2>2
<1>2. \A u \in User : Authored(u)
  BY DEF Init, Authored, NoForm
<1>3. \A s \in Slot : Grounded(slots[s])
  BY DEF Init, Grounded, Idle, Answering
<1> QED
  BY <1>1, <1>2, <1>3 DEF StandInv

\* What every step keeps for the requests it does not touch: nothing that a
\* request has seen of an invite it works on is taken back.
Advances ==
  /\ made \subseteq made' /\ shown \subseteq shown' /\ excused \subseteq excused'
  /\ deleted \subseteq deleted' /\ (mode = "gone" => mode' = "gone")
  /\ \A u \in User :
       /\ keys[u] <= keys'[u]
       /\ form'[u].id \in made => form'[u].id = form[u].id
  /\ \A i \in made :
       \/ sent'[i] \in {sent[i], NoRow}
       \/ /\ sent[i] # NoRow /\ sent'[i].by = sent[i].by
          /\ sent[i].to = NoOne \/ i \in excused'
       \/ \E u \in User : form[u].id = i /\ sent'[i].by = u
  /\ \A i \in shown :
       \/ invite'[i] \in {invite[i], NoRow}
       \/ invite[i] # NoRow /\ invite[i].to = NoOne
       \/ i \in excused'

LEMMA SettledStays ==
  ASSUME TypeInv, TypeInv', LinkInv, StandInv, Advances,
         NEW q \in Request, q.who \in User, NEW i \in shown, Settled(q, i)
  PROVE  Settled(q, i)'
<1>1. i \in Invite /\ i \in made /\ ~ \E u \in User : form[u].id = i
  BY UserAssumption DEF TypeInv, TypeOK, LinkInv, Unshown
<1>2. \/ sent'[i] \in {sent[i], NoRow}
      \/ sent[i] # NoRow /\ (sent[i].to = NoOne \/ i \in excused')
  BY <1>1 DEF Advances
<1>3. CASE sent[i] = NoRow \/ i \in excused
  BY <1>2, <1>3 DEF Settled, Advances
<1>4. CASE /\ sent[i].to = q.who
           /\ \/ q.who \in deleted
              \/ q.op = "clean" /\ (keys[q.who] # sent[i].key \/ mode = "gone")
              \/ q.op # "clean" /\ q.key = sent[i].key
  <2>1. sent[i].to # NoOne /\ sent[i].key <= keys[q.who]
    BY <1>1, <1>4, UserAssumption DEF StandInv, Paired
  <2>2. keys[q.who] <= keys'[q.who] /\ keys[q.who] \in Nat /\ keys'[q.who] \in Nat
    BY DEF Advances, TypeInv, TypeOK
  <2>3. sent[i].key \in Nat
    BY <1>1 DEF TypeInv, TypeOK, Row
  <2>4. keys[q.who] # sent[i].key => keys'[q.who] # sent[i].key
    BY <2>1, <2>2, <2>3
  <2>5. sent'[i] \in {sent[i], NoRow} \/ i \in excused'
    BY <1>2, <2>1
  <2>6. deleted \subseteq deleted' /\ (mode = "gone" => mode' = "gone")
    BY DEF Advances
  <2>7. CASE sent'[i] = sent[i]
    BY <1>4, <2>4, <2>6, <2>7 DEF Settled
  <2> QED
    BY <2>5, <2>7 DEF Settled
<1> QED
  BY <1>3, <1>4 DEF Settled

LEMMA OwnedStays ==
  ASSUME TypeInv, LinkInv, StandInv, Advances, NEW i \in Invite, NEW u \in User, Owned(i, u)
  PROVE  Owned(i, u)'
<1>1. i \in made' /\ \A w \in User : form'[w].id = i => w = u
  BY DEF Owned, Advances
<1>2. sent'[i] # NoRow => sent'[i].by = u
  BY DEF Owned, Advances
<1> QED
  BY <1>1, <1>2 DEF Owned

LEMMA DeletesStay ==
  ASSUME TypeInv, LinkInv, StandInv, Advances,
         NEW q \in Request, q.by \in User, NEW r \in {"invite", "sent"} \X Invite, Deletes(q, r)
  PROVE  Deletes(q, r)'
<1>1. CASE Owned(r[2], q.by)
  BY <1>1, OwnedStays DEF Deletes
<1>2. CASE /\ r[1] = "invite" /\ q.who \in deleted /\ r[2] \in shown
           /\ invite[r[2]] = NoRow \/ invite[r[2]].to = q.who \/ r[2] \in excused
  <2>1. q.who # NoOne
    BY <1>2, UserAssumption DEF TypeInv, TypeOK
  <2>2. /\ q.who \in deleted' /\ r[2] \in shown'
        /\ invite'[r[2]] = NoRow \/ invite'[r[2]].to = q.who \/ r[2] \in excused'
    BY <1>2, <2>1 DEF Advances
  <2> QED
    BY <1>2, <2>2 DEF Deletes
<1> QED
  BY <1>1, <1>2 DEF Deletes

LEMMA GroundedStays ==
  ASSUME TypeInv, TypeInv', LinkInv, StandInv, Advances,
         NEW s \in Slot, slots'[s] = slots[s]
  PROVE  Grounded(slots[s])'
<1>1. PICK q \in Request :
        /\ q = slots[s] /\ Formed(q) /\ Grounded(q)
        /\ q.op \in Answering => q.invite \in shown
  BY DEF TypeInv, TypeOK, LinkInv, StandInv, Followed
<1>2. q.op = "accept" => q.key <= keys'[q.who]
  <2> SUFFICES ASSUME q.op = "accept" PROVE q.key <= keys'[q.who]
    OBVIOUS
  <2>1. q.who \in User /\ q.key \in Nat /\ q.key <= keys[q.who]
    BY <1>1 DEF Formed, Request, Grounded
  <2>2. keys[q.who] <= keys'[q.who] /\ keys[q.who] \in Nat /\ keys'[q.who] \in Nat
    BY <2>1 DEF Advances, TypeInv, TypeOK
  <2> QED
    BY <2>1, <2>2
<1>3. q.op \in Answering \ {"accept"} => q.who \in User /\ Settled(q, q.invite)'
  BY <1>1, SettledStays DEF Grounded
<1>4. q.op = "sweep" => \A r \in q.rows : Deletes(q, r)'
  BY <1>1, DeletesStay DEF Grounded, Request
<1>5. q.op = "closed" => q.by \in deleted'
  BY <1>1 DEF Grounded, Advances
<1>6. Grounded(q)'
  BY <1>1, <1>2, <1>3, <1>4, <1>5 DEF Grounded
<1> QED
  BY <1>1, <1>6

\* A step that only takes away: rows go, forms are emptied, and whoever becomes a
\* member excuses what waits for them.
Fades ==
  /\ made' = made /\ shown' = shown /\ excused \subseteq excused'
  /\ deleted \subseteq deleted' /\ (mode = "gone" => mode' = "gone")
  /\ \A u \in User : keys[u] <= keys'[u] /\ form'[u].id \in {form[u].id, NoInvite}
  /\ \A i \in Invite : sent'[i] \in {sent[i], NoRow} /\ invite'[i] \in {invite[i], NoRow}
  /\ \A u \in Members' : u \in Members \/ \A i \in Invite : sent[i].to = u => i \in excused'

LEMMA FadingStands ==
  ASSUME TypeInv, TypeInv', LinkInv, StandInv, Fades,
         \A s \in Slot : slots'[s] = slots[s] \/ Grounded(slots[s])'
  PROVE  StandInv'
<1>1. Advances
  BY UserAssumption DEF Fades, Advances, TypeInv, TypeOK
<1>2. ASSUME NEW i \in Invite PROVE Paired(i)'
  <2>1. Paired(i) /\ sent'[i] \in {sent[i], NoRow} /\ invite'[i] \in {invite[i], NoRow}
    BY DEF StandInv, Fades
  <2>2. NoRow.to = NoOne
    BY DEF NoRow
  <2>3. ASSUME sent'[i].to # NoOne PROVE sent'[i].key <= keys'[sent'[i].to]
    <3>1. /\ sent'[i] = sent[i] /\ sent[i].to \in User /\ sent[i].key \in Nat
          /\ sent[i].key <= keys[sent[i].to]
      BY <2>1, <2>2, <2>3 DEF Paired, TypeInv, TypeOK, Row
    <3>2. /\ keys[sent[i].to] <= keys'[sent[i].to]
          /\ keys[sent[i].to] \in Nat /\ keys'[sent[i].to] \in Nat
      BY <3>1 DEF Fades, TypeInv, TypeOK
    <3> QED
      BY <3>1, <3>2
  <2>4. ASSUME sent'[i].to # NoOne, sent'[i].to \in Members' PROVE i \in excused'
    BY <2>1, <2>2, <2>4 DEF Paired, Fades
  <2> QED
    BY <2>1, <2>2, <2>3, <2>4 DEF Paired, Fades
<1>3. \A u \in User : Authored(u)'
  BY UserAssumption DEF StandInv, Authored, Fades, TypeInv, TypeOK, Form
<1>4. \A s \in Slot : Grounded(slots[s])'
  BY <1>1, GroundedStays
<1> QED
  BY <1>2, <1>3, <1>4 DEF StandInv

\* A step of one request that changes nothing else.
LEMMA RequestStands ==
  ASSUME TypeInv, TypeInv', LinkInv, StandInv, NEW s \in Slot, NEW q, Set(s, q), Grounded(q),
         UNCHANGED <<groupRows, accountRows, inviteRows, client, history>>
  PROVE  StandInv'
<1>1. /\ UNCHANGED <<mode, role, keys, deleted, invite, sent, form, made, shown, excused>>
      /\ slots'[s] = q /\ \A t \in Slot \ {s} : slots'[t] = slots[t]
  BY OneRequest DEF groupRows, accountRows, inviteRows, client, history
<1>2. Fades
  <2>1. \A u \in User : keys[u] <= keys'[u]
    BY <1>1 DEF TypeInv, TypeOK
  <2> QED
    BY <1>1, <2>1 DEF Fades, Members
<1>3. Grounded(q)'
  BY <1>1 DEF Grounded, Settled, Deletes, Owned
<1> QED
  BY <1>1, <1>2, <1>3, FadingStands

\* What a request has found stays found in the later phases of its completion.
LEMMA LaterPhase ==
  ASSUME NEW q, NEW c, NEW i, Settled(q, i), q.op # "clean", c.who = q.who, c.key = q.key,
         \/ c.op # "clean"
         \/ mode = "gone" \/ q.key # keys[q.who]
         \/ sent[i].to = q.who => i \in excused
  PROVE  Settled(c, i)
BY DEF Settled

LEMMA StandCompletes ==
  ASSUME TypeInv, TypeInv', LinkInv, StandInv, NEW s \in Slot,
         \/ \E i \in Invite : BeginComplete(s, i)
         \/ ReadSeq(s) \/ Count(s) \/ JoinRaced(s) \/ JoinCollides(s) \/ JoinMoot(s)
         \/ JoinRefused(s)
  PROVE  StandInv'
<1>1. UNCHANGED <<groupRows, accountRows, inviteRows, client, history>>
  BY DEF BeginComplete, ReadSeq, Count, JoinRaced, JoinCollides, JoinMoot, JoinRefused
<1>2. PICK p \in Request :
        p = slots[s] /\ Grounded(p) /\ (p.op \in Answering => p.invite \in shown)
  BY DEF TypeInv, TypeOK, StandInv, LinkInv, Followed
<1>3. CASE Set(s, Idle)
  BY <1>1, <1>3, RequestStands DEF Grounded, Idle, Answering
<1>4. ASSUME NEW i \in Invite, BeginComplete(s, i) PROVE StandInv'
  <2> DEFINE v == sent[i].to
             first == IF Live(v) /\ keys[v] # sent[i].key THEN "clean"
                      ELSE IF mode = "rotating" THEN "seq" ELSE "write"
             c == [Idle EXCEPT !.op = first, !.by = sent[i].by, !.invite = i, !.who = v,
                               !.key = keys[v], !.capped = (mode = "rotating")]
  <2>1. Set(s, c) /\ v \in User
    BY <1>4 DEF BeginComplete, Completable, TypeInv, TypeOK, Row
  <2>2. c.op = first /\ c.invite = i /\ c.who = v /\ c.key = keys[v]
    BY DEF Idle
  <2>3. /\ first \in {"clean", "seq", "write"}
        /\ first = "clean" => keys[v] # sent[i].key
        /\ first # "clean" => v \in deleted \/ keys[v] = sent[i].key
    BY DEF Live
  <2>4. PICK d : d = c
    OBVIOUS
  <2> HIDE DEF c, first
  <2>5. Settled(d, i)
    BY <2>2, <2>3, <2>4 DEF Settled
  <2>6. Grounded(d)
    BY <2>1, <2>2, <2>3, <2>4, <2>5 DEF Grounded, Answering
  <2> QED
    BY <1>1, <2>1, <2>4, <2>6, RequestStands
<1>5. ASSUME NEW c, Set(s, c), p.op \in Answering \ {"accept", "clean"},
             c.op \in Answering \ {"accept"},
             c.who = p.who, c.key = p.key, c.invite = p.invite,
             \/ c.op # "clean"
             \/ mode = "gone" \/ p.key # keys[p.who]
             \/ p.who \in Members \/ p.who \in deleted
      PROVE  StandInv'
  <2>1. p.who \in User /\ Settled(p, p.invite) /\ p.invite \in Invite
    BY <1>2, <1>5 DEF Grounded, TypeInv, TypeOK
  <2>2. sent[p.invite].to = p.who /\ p.who \in Members => p.invite \in excused
    BY <2>1, UserAssumption DEF StandInv, Paired
  <2>3. Settled(c, p.invite)
    <3>1. CASE p.who \in deleted
      BY <1>5, <2>1, <3>1 DEF Settled, Answering
    <3>2. CASE p.who \notin deleted
      BY <1>5, <2>1, <2>2, <3>2, LaterPhase
    <3> QED
      BY <3>1, <3>2
  <2>4. Grounded(c)
    BY <1>5, <2>1, <2>3 DEF Grounded, Answering
  <2> QED
    BY <1>1, <1>5, <2>4, RequestStands
<1>6. ASSUME p.op \in {"seq", "count", "write"}, Set(s, [p EXCEPT !.op = "clean"]),
             \/ mode = "gone" \/ p.key # keys[p.who]
             \/ p.who \in Members \/ p.who \in deleted
      PROVE  StandInv'
  <2>1. PICK c : c = [p EXCEPT !.op = "clean"]
    OBVIOUS
  <2>2. c.op = "clean" /\ c.who = p.who /\ c.key = p.key /\ c.invite = p.invite
    BY <2>1 DEF Request
  <2> QED
    BY <1>5, <1>6, <2>1, <2>2 DEF Answering
<1>7. CASE ReadSeq(s)
  <2>1. PICK c : c = [p EXCEPT !.op = "count", !.seq = SeqRead]
    OBVIOUS
  <2>2. c.op = "count" /\ c.who = p.who /\ c.key = p.key /\ c.invite = p.invite
    BY <2>1 DEF Request
  <2> QED
    BY <1>2, <1>5, <1>6, <1>7, <2>1, <2>2 DEF ReadSeq, Answering
<1>8. CASE Count(s)
  <2>1. PICK c : c = [p EXCEPT !.op = "write", !.n = Cardinality(Members)]
    OBVIOUS
  <2>2. c.op = "write" /\ c.who = p.who /\ c.key = p.key /\ c.invite = p.invite
    BY <2>1 DEF Request
  <2> QED
    BY <1>2, <1>3, <1>5, <1>6, <1>8, <2>1, <2>2 DEF Count, End, Answering
<1>9. CASE JoinRaced(s) \/ JoinCollides(s)
  <2>1. p.op = "write" /\ (Set(s, Again(p)) \/ Set(s, Idle))
    BY <1>2, <1>9 DEF JoinRaced, JoinCollides
  <2>2. PICK c : c = Again(p)
    OBVIOUS
  <2>3. \/ c = Idle
        \/ c.op = "seq" /\ c.who = p.who /\ c.key = p.key /\ c.invite = p.invite
    BY <2>2 DEF Again, Request
  <2> QED
    BY <1>3, <1>5, <2>1, <2>2, <2>3 DEF Answering
<1>10. CASE JoinMoot(s)
  BY <1>2, <1>6, <1>10 DEF JoinMoot, InviteeSame, NotMember, Live
<1> QED
  BY <1>3, <1>4, <1>7, <1>8, <1>9, <1>10 DEF JoinRefused, End

LEMMA StandBegins ==
  ASSUME TypeInv, TypeInv', LinkInv, StandInv,
         NEW s \in Slot, NEW u \in User, NEW i \in Invite, NEW exp, BeginCreate(s, u, i, exp)
  PROVE  StandInv'
<1>1. /\ \A t \in Slot \ {s} : slots'[t] = slots[t]
      /\ slots'[s] = [Idle EXCEPT !.op = "create", !.by = u, !.invite = i,
                                  !.key = keys[u], !.exp = exp]
      /\ form' = [form EXCEPT ![u] = [id |-> i, exp |-> exp, said |-> "sending"]]
      /\ made' = made \cup {i} /\ Attempted(u, i, exp)
      /\ UNCHANGED <<shown, invite, sent, keys, deleted, mode, role, excused>>
  BY OneRequest DEF BeginCreate, groupRows, accountRows, inviteRows, history
<1>2. form'[u].id = i /\ \A v \in User \ {u} : form'[v] = form[v]
  BY <1>1 DEF TypeInv, TypeOK
<1>3. i \in made => form[u].id = i
  BY <1>1 DEF Attempted
<1>4. Advances
  BY <1>1, <1>2, <1>3 DEF Advances, TypeInv, TypeOK
<1>5. \A j \in Invite : Paired(j)'
  BY <1>1 DEF StandInv, Paired, Members
<1>6. \A v \in User : Authored(v)'
  <2>1. CASE i \in made
    BY <1>1, <1>2, <1>3, <2>1 DEF StandInv, Authored
  <2>2. CASE i \notin made
    <3>1. sent'[i] = NoRow
      BY <1>1, <2>2 DEF StandInv, Paired
    <3> QED
      BY <1>1, <1>2, <3>1 DEF StandInv, Authored
  <2> QED
    BY <2>1, <2>2
<1>7. Grounded(slots[s])'
  BY <1>1 DEF Grounded, Idle, Answering
<1> QED
  BY <1>1, <1>4, <1>5, <1>6, <1>7, GroundedStays DEF StandInv

LEMMA StandCommits ==
  ASSUME TypeInv, TypeInv', LinkInv, StandInv,
         NEW s \in Slot, NEW answered \in BOOLEAN, CommitCreate(s, answered)
  PROVE  StandInv'
<1> DEFINE q == slots[s]
           i == q.invite
           free == invite[i] = NoRow
           row == [NoRow EXCEPT !.by = q.by, !.mac = q.key, !.exp = q.exp, !.ttl = q.exp]
<1>1. /\ q.op = "create" /\ q.by \in User /\ i \in Invite
      /\ slots'[s] = Idle /\ \A t \in Slot \ {s} : slots'[t] = slots[t]
      /\ made' = made /\ UNCHANGED <<keys, deleted, mode, role, excused>>
      /\ form[q.by].id = i /\ i \in made /\ i \notin shown
  BY OneRequest, UserAssumption
  DEF CommitCreate, End, TypeInv, Formed, groupRows, accountRows, LinkInv, Pending, Unshown
<1>2. /\ sent' = IF free THEN [sent EXCEPT ![i] = row] ELSE sent
      /\ invite' = IF free THEN [invite EXCEPT ![i] = row] ELSE invite
      /\ shown' = IF answered /\ free THEN shown \cup {i} ELSE shown
  BY DEF CommitCreate
<1>3. \A u \in User : form'[u].id \in {form[u].id, NoInvite}
  BY <1>1 DEF CommitCreate, TypeInv, TypeOK, Form, NoForm
<1>4. row.by = q.by /\ row.to = NoOne /\ NoRow.to = NoOne
  BY DEF NoRow
<1>5. \A j \in Invite :
        \/ sent'[j] = sent[j] /\ invite'[j] = invite[j]
        \/ j = i /\ sent'[j] = row /\ invite'[j] = row
  BY <1>1, <1>2 DEF TypeInv, TypeOK
<1> HIDE DEF q, i, free, row
<1>6. Advances
  BY <1>1, <1>2, <1>3, <1>4, <1>5, UserAssumption DEF Advances, TypeInv, TypeOK
<1>7. \A j \in Invite : Paired(j)'
  BY <1>1, <1>2, <1>4, <1>5 DEF StandInv, Paired, Members
<1>8. ASSUME NEW u \in User PROVE Authored(u)'
  <2> SUFFICES ASSUME form'[u].id # NoInvite, sent'[form'[u].id] # NoRow
               PROVE  sent'[form'[u].id].by = u
    BY DEF Authored
  <2>1. form'[u].id = form[u].id /\ form[u].id \in Invite
    BY <1>3 DEF TypeInv, TypeOK, Form
  <2>2. CASE sent'[form[u].id] = sent[form[u].id]
    BY <2>1, <2>2 DEF StandInv, Authored
  <2>3. CASE form[u].id = i /\ sent'[i] = row
    BY <1>1, <1>4, <2>1, <2>3 DEF LinkInv, Unshown
  <2> QED
    BY <1>5, <2>1, <2>2, <2>3
<1>9. Grounded(slots[s])'
  BY <1>1 DEF Grounded, Idle, Answering
<1> QED
  BY <1>1, <1>6, <1>7, <1>8, <1>9, GroundedStays DEF StandInv

\* The acceptance writes both rows, or it finds the INVITE# row gone and says so.
LEMMA StandAccepts ==
  ASSUME TypeInv, TypeInv', LinkInv, StandInv, NEW s \in Slot, CommitAccept(s)
  PROVE  StandInv'
<1> DEFINE q == slots[s]
           i == q.invite
           By(row) == [row EXCEPT !.to = q.who, !.key = q.key, !.ttl = day + Wait]
<1>1. /\ q.op = "accept" /\ q.who \in User /\ i \in Invite /\ i \in shown
      /\ q.key <= keys[q.who]
      /\ slots'[s] = Idle /\ \A t \in Slot \ {s} : slots'[t] = slots[t]
      /\ UNCHANGED <<form, made, shown, keys, deleted, mode, role>>
  BY OneRequest
  DEF CommitAccept, End, TypeInv, Formed, LinkInv, Followed, Answering, StandInv, Grounded,
      groupRows, accountRows, client
<1>2. Grounded(slots[s])'
  BY <1>1 DEF Grounded, Idle, Answering
<1>3. CASE UNCHANGED <<inviteRows, told, excused>>
  <2>1. Fades
    BY <1>1, <1>3 DEF Fades, inviteRows, Members, TypeInv, TypeOK
  <2> QED
    BY <1>1, <1>2, <2>1, FadingStands
<1>4. CASE /\ Single(i) /\ SentThere(i)
           /\ invite' = [invite EXCEPT ![i] = By(invite[i])]
           /\ sent' = [sent EXCEPT ![i] = By(sent[i])]
           /\ excused' = IF invite[i].by = NoOne \/ q.who \in Members
                         THEN excused \cup {i} ELSE excused
  <2>1. /\ \A j \in Invite \ {i} : sent'[j] = sent[j] /\ invite'[j] = invite[j]
        /\ sent'[i] = By(sent[i]) /\ invite'[i] = By(invite[i])
    BY <1>1, <1>4 DEF TypeInv, TypeOK
  <2>2. /\ sent'[i].to = q.who /\ sent'[i].key = q.key /\ sent'[i].by = sent[i].by
        /\ sent'[i].ttl = day + Wait /\ invite'[i].to = q.who /\ invite'[i].ttl = day + Wait
    BY <1>1, <2>1 DEF TypeInv, TypeOK, Row
  <2>3. sent[i] # NoRow /\ invite[i].to = NoOne /\ NoRow.by = NoOne /\ i \in made
    BY <1>1, <1>4 DEF SentThere, Single, NoRow, LinkInv, Unshown
  <2>4. excused \subseteq excused' /\ (invite[i].by = NoOne \/ q.who \in Members => i \in excused')
    BY <1>4
  <2>5. invite[i] = NoRow => i \in excused'
    BY <2>3, <2>4
  <2>6. sent[i].to = NoOne \/ i \in excused'
    BY <1>1, <2>3, <2>5 DEF StandInv, Paired
  <2>7. \A u \in User : form[u].id # i
    BY <1>1, UserAssumption DEF LinkInv, Unshown
  <2> HIDE DEF q, i, By
  <2>8. Advances
    BY <1>1, <2>1, <2>2, <2>3, <2>4, <2>5, <2>6 DEF Advances, TypeInv, TypeOK
  <2>9. \A j \in Invite : Paired(j)'
    BY <1>1, <2>1, <2>2, <2>3, <2>4 DEF StandInv, Paired, Members
  <2>10. ASSUME NEW u \in User PROVE Authored(u)'
    BY <1>1, <2>1, <2>7 DEF StandInv, Authored, TypeInv, TypeOK, Form
  <2> QED
    BY <1>1, <1>2, <2>8, <2>9, <2>10, GroundedStays DEF StandInv
<1> QED
  BY <1>3, <1>4 DEF CommitAccept

LEMMA StandSweeps ==
  ASSUME TypeInv, TypeInv', LinkInv, StandInv, NEW s \in Slot, Closes(s)
  PROVE  StandInv'
<1>1. PICK p \in Request : p = slots[s] /\ Grounded(p) /\ Formed(p)
  BY DEF TypeInv, TypeOK, StandInv
<1>2. CASE Tombstone(s)
  <2>1. PICK c : c = [p EXCEPT !.op = "closed"]
    OBVIOUS
  <2>2. c.op = "closed" /\ c.by = p.by /\ c.who = p.who
    BY <2>1 DEF Request
  <2>3. /\ slots'[s] = c /\ \A t \in Slot \ {s} : slots'[t] = slots[t]
        /\ p.op = "closing" /\ deleted' = deleted \cup {p.by}
        /\ UNCHANGED <<mode, role, keys, invite, sent, form, made, shown, excused>>
    BY <1>1, <1>2, <2>1, OneRequest
    DEF Tombstone, groupRows, inviteRows, client, history
  <2>4. Fades
    BY <2>3 DEF Fades, Members, TypeInv, TypeOK
  <2>5. Grounded(c)'
    BY <1>1, <2>2, <2>3 DEF Grounded, Answering
  <2> QED
    BY <2>3, <2>4, <2>5, FadingStands
<1>3. CASE ReadSweep(s)
  <2> DEFINE own == {i \in Invite : sent[i].by = p.by}
             toThem == IF p.op = "closed" THEN ReceivedInvites(p.who) ELSE {}
             rows == ({"invite", "sent"} \X own) \cup ({"invite"} \X toThem)
  <2>1. /\ Set(s, [p EXCEPT !.op = "sweep", !.rows = rows]) /\ p.op \in {"left", "closed"}
        /\ UNCHANGED <<groupRows, accountRows, inviteRows, client, history>>
    BY <1>1, <1>3 DEF ReadSweep
  <2>2. PICK c : c = [p EXCEPT !.op = "sweep", !.rows = rows]
    OBVIOUS
  <2>3. c.op = "sweep" /\ c.by = p.by /\ c.who = p.who /\ c.rows = rows
    BY <2>2 DEF Request
  <2>4. c.by \in User /\ c.by # NoOne
    BY <1>1, <2>1, <2>3, UserAssumption DEF Grounded
  <2>5. ASSUME NEW i \in Invite, sent[i].by = c.by PROVE Owned(i, c.by)
    <3>1. sent[i] # NoRow
      BY <2>4, <2>5 DEF NoRow
    <3> QED
      BY <2>5, <3>1, UserAssumption DEF Owned, StandInv, Paired, Authored
  <2>6. ASSUME p.op = "closed", NEW i \in Invite, invite[i].to = c.who
        PROVE  c.who \in deleted /\ i \in shown
    BY <1>1, <2>3, <2>4, <2>6 DEF Grounded, StandInv, Paired
  <2>7. \A r \in rows : Deletes(c, r)
    BY <2>3, <2>5, <2>6 DEF Deletes, ReceivedInvites
  <2>8. Grounded(c)
    BY <2>3, <2>4, <2>7 DEF Grounded, Answering
  <2> QED
    BY <2>1, <2>2, <2>8, RequestStands
<1>4. ASSUME NEW r \in {"invite", "sent"} \X Invite, SweepRow(s, r) PROVE StandInv'
  <2>1. PICK c : c = [p EXCEPT !.rows = @ \ {r}]
    OBVIOUS
  <2>2. c.op = "sweep" /\ c.by = p.by /\ c.who = p.who /\ c.rows \subseteq p.rows /\ p.op = "sweep"
    BY <1>1, <1>4, <2>1 DEF Request, SweepRow
  <2>3. /\ slots'[s] = c /\ \A t \in Slot \ {s} : slots'[t] = slots[t]
        /\ UNCHANGED <<mode, role, keys, deleted, form, made, shown, excused>>
        /\ invite' = IF r[1] = "invite" THEN [invite EXCEPT ![r[2]] = NoRow] ELSE invite
        /\ sent' = IF r[1] = "sent" THEN [sent EXCEPT ![r[2]] = NoRow] ELSE sent
    BY <1>1, <1>4, <2>1, OneRequest DEF SweepRow, groupRows, accountRows, client, history
  <2>4. \A i \in Invite : sent'[i] \in {sent[i], NoRow} /\ invite'[i] \in {invite[i], NoRow}
    BY <2>3 DEF TypeInv, TypeOK
  <2>5. Fades
    BY <2>3, <2>4 DEF Fades, Members, TypeInv, TypeOK
  <2>6. ASSUME NEW d \in c.rows PROVE Deletes(c, d)'
    <3>1. Deletes(p, d) /\ d \in {"invite", "sent"} \X Invite /\ p.by \in User
      BY <1>1, <2>2 DEF Grounded, Request
    <3>2. Deletes(p, d)'
      <4>1. Advances
        BY <2>5, UserAssumption DEF Fades, Advances, TypeInv, TypeOK
      <4> QED
        BY <3>1, <4>1, DeletesStay
    <3> QED
      BY <2>2, <3>2 DEF Deletes
  <2>7. Grounded(c)'
    BY <1>1, <2>2, <2>6 DEF Grounded, Answering
  <2> QED
    BY <2>3, <2>5, <2>7, FadingStands
<1>5. CASE Swept(s)
  BY <1>5, RequestStands DEF Swept, End, Grounded, Idle, Answering
<1> QED
  BY <1>2, <1>3, <1>4, <1>5 DEF Closes

LEMMA StandNext ==
  TypeInv /\ TypeInv' /\ LinkInv /\ StandInv /\ [Next]_vars => StandInv'
<1> SUFFICES ASSUME TypeInv, TypeInv', LinkInv, StandInv, [Next]_vars PROVE StandInv'
  OBVIOUS
<1>a. Grounded(Idle)' /\ Grounded(Idle)
  BY DEF Grounded, Idle, Answering
\* Steps that end a request, or none, and whose rows only go.
<1>b. ASSUME Fades, slots' = slots \/ \E s \in Slot : End(s) PROVE StandInv'
  <2>1. \A s \in Slot : slots'[s] = slots[s] \/ slots'[s] = Idle
    BY <1>b, OneRequest DEF End
  <2> QED
    BY <1>a, <1>b, <2>1, FadingStands DEF Grounded, Idle, Answering
<1>c. \A u \in User : keys[u] <= keys[u]
  BY DEF TypeInv, TypeOK
<1>1. ASSUME NEW s \in Slot, NEW v \in User, NEW i \in Invite, BeginAccept(s, v, i)
      PROVE  StandInv'
  <2>1. PICK c : c = [Idle EXCEPT !.op = "accept", !.by = invite[i].by, !.invite = i,
                                  !.who = v, !.key = keys[v]]
    OBVIOUS
  <2>2. c.op = "accept" /\ c.who = v /\ c.key = keys[v]
    BY <2>1 DEF Idle
  <2>3. Grounded(c)
    BY <1>c, <2>2 DEF Grounded, Answering
  <2> QED
    BY <1>1, <2>1, <2>3, RequestStands DEF BeginAccept
<1>2. ASSUME NEW s \in Slot, NEW u \in User, BeginDeleteAccount(s, u) PROVE StandInv'
  <2>1. PICK c : c = [Idle EXCEPT !.op = IF Live(u) THEN "closing" ELSE "closed",
                                  !.by = u, !.who = u]
    OBVIOUS
  <2>2. c.op = (IF Live(u) THEN "closing" ELSE "closed") /\ c.by = u /\ c.who = u
    BY <2>1 DEF Idle
  <2>3. Grounded(c)
    BY <2>2 DEF Grounded, Answering, Live
  <2> QED
    BY <1>2, <2>1, <2>3, RequestStands DEF BeginDeleteAccount
<1>3. ASSUME NEW s \in Slot, Joins(s) PROVE StandInv'
  <2> DEFINE q == slots[s]
  <2>1. /\ End(s) /\ role' = [role EXCEPT ![q.who] = "member"]
        /\ invite' = [invite EXCEPT ![q.invite] = NoRow]
        /\ sent' = [sent EXCEPT ![q.invite] = NoRow]
        /\ excused' = excused \cup {j \in Invite : sent[j].to = q.who}
        /\ UNCHANGED <<mode, keys, deleted, form, made, shown>>
    BY <1>3 DEF Joins, accountRows, client
  <2>2. \A i \in Invite : sent'[i] \in {sent[i], NoRow} /\ invite'[i] \in {invite[i], NoRow}
    BY <2>1 DEF TypeInv, TypeOK
  <2>3. \A u \in Members' : u \in Members \/ u = q.who
    BY <2>1 DEF Members, TypeInv, TypeOK
  <2>4. Fades
    BY <1>c, <2>1, <2>2, <2>3 DEF Fades
  <2> QED
    BY <1>b, <2>1, <2>4
<1>4. ASSUME \/ \E s \in Slot : Clean(s)
             \/ \E u \in User, i \in Invite : RevokeInvite(u, i)
             \/ \E i \in Invite : ExpireInvite(i) \/ ExpireSent(i)
      PROVE  StandInv'
  <2>1. /\ UNCHANGED <<mode, role, keys, deleted, form, made, shown, excused>>
        /\ slots' = slots \/ \E s \in Slot : End(s)
    BY <1>4
    DEF Clean, RevokeInvite, ExpireInvite, ExpireSent, groupRows, accountRows, client, history
  <2>2. \A i \in Invite : sent'[i] \in {sent[i], NoRow} /\ invite'[i] \in {invite[i], NoRow}
    BY <1>4 DEF Clean, RevokeInvite, ExpireInvite, ExpireSent, TypeInv, TypeOK
  <2>3. Fades
    BY <1>c, <2>1, <2>2 DEF Fades, Members
  <2> QED
    BY <1>b, <2>1, <2>3
<1>5. ASSUME NEW s \in Slot, NEW u \in User,
             LeaveGroup(s, u) \/ \E a \in User : RemoveMember(s, a, u)
      PROVE  StandInv'
  <2>1. PICK c : c = [Idle EXCEPT !.op = "left", !.by = u]
    OBVIOUS
  <2>2. c.op = "left" /\ c.by = u
    BY <2>1 DEF Idle
  <2>3. /\ slots'[s] = c /\ \A t \in Slot \ {s} : slots'[t] = slots[t]
        /\ role' = [role EXCEPT ![u] = "none"] /\ mode' \in {mode, "gone"}
        /\ UNCHANGED <<keys, deleted, invite, sent, form, made, shown, excused>>
    BY <1>5, <2>1, OneRequest
    DEF LeaveGroup, RemoveMember, Departs, accountRows, inviteRows, client, history
  <2>4. Members' \subseteq Members
    BY <2>3 DEF Members, TypeInv, TypeOK
  <2>5. Fades
    BY <1>c, <2>3, <2>4 DEF Fades
  <2>6. Grounded(c)'
    BY <2>2 DEF Grounded, Answering
  <2> QED
    BY <2>3, <2>5, <2>6, FadingStands
<1>6. ASSUME \/ \E u \in User, r \in Role : ChangeMemberRole(u, r)
             \/ \E u \in User : CreateRefused(u) \/ RotateKeys(u)
             \/ ConvertGroupToOpen \/ NextDay \/ UNCHANGED vars
      PROVE  StandInv'
  <2>1. /\ UNCHANGED <<slots, deleted, invite, sent, made, shown, excused>>
        /\ mode = "gone" => mode' = "gone"
    BY <1>6
    DEF ChangeMemberRole, CreateRefused, RotateKeys, ConvertGroupToOpen, NextDay, vars,
        groupRows, accountRows, inviteRows, client, history
  <2>2. Members' \subseteq Members
    BY <1>6
    DEF ChangeMemberRole, CreateRefused, RotateKeys, ConvertGroupToOpen, NextDay, vars,
        groupRows, Members, TypeInv, TypeOK
  <2>3. \A u \in User : keys[u] <= keys'[u]
    BY <1>c, <1>6
    DEF ChangeMemberRole, CreateRefused, RotateKeys, ConvertGroupToOpen, NextDay, vars,
        accountRows, TypeInv, TypeOK
  <2>4. \A u \in User : form'[u].id \in {form[u].id, NoInvite}
    BY <1>6
    DEF ChangeMemberRole, CreateRefused, RotateKeys, ConvertGroupToOpen, NextDay, vars, client,
        NoForm, TypeInv, TypeOK
  <2>5. Fades
    BY <2>1, <2>2, <2>3, <2>4 DEF Fades
  <2> QED
    BY <1>b, <2>1, <2>5
<1>7. ASSUME NEW s \in Slot, Die(s) PROVE StandInv'
  <2>1. /\ End(s)
        /\ form' = IF slots[s].op # "create" THEN form
                   ELSE [form EXCEPT ![slots[s].by].said = "ambiguous"]
        /\ UNCHANGED <<mode, role, keys, deleted, invite, sent, made, shown, excused>>
    BY <1>7 DEF Die, groupRows, accountRows, inviteRows, history
  <2>2. \A u \in User : form'[u].id = form[u].id
    BY <2>1 DEF TypeInv, TypeOK, Form
  <2>3. Fades
    BY <1>c, <2>1, <2>2 DEF Fades, Members
  <2> QED
    BY <1>b, <2>1, <2>3
<1>8. ASSUME NEW s \in Slot, Requests(s) PROVE StandInv'
  BY <1>1, <1>2, <1>3, <1>4, <1>5, <1>7, <1>8, StandBegins, StandCommits, StandAccepts,
     StandCompletes, StandSweeps
  DEF Requests, Completes
<1> QED
  BY <1>4, <1>6, <1>8 DEF Next

\* The reasons for which an acceptance may stop standing.
Ended(i, v) ==
  \/ i \in excused'
  \/ v \in deleted' \/ sent[i].by \in deleted'
  \/ \E s \in Slot : slots[s].op = "sweep" /\ slots[s].by = sent[i].by
  \/ keys'[v] # sent[i].key
  \/ mode' = "gone"
  \/ day > sent[i].ttl

LEMMA StandStep ==
  ASSUME TypeInv, LinkInv, StandInv, [Next]_vars,
         NEW i \in Invite, NEW v \in User, Waits(i, v), ~Waits(i, v)'
  PROVE  Ended(i, v)
<1>a. /\ invite[i].to = v /\ sent[i].to = v /\ v # NoOne
      /\ sent[i] # NoRow /\ invite[i] # NoRow /\ i \in shown
  BY UserAssumption DEF Waits, ReceivedInvites, NoRow, StandInv, Paired
<1>b. CASE invite'[i] = invite[i] /\ sent'[i] = sent[i]
  BY <1>a, <1>b DEF Waits, ReceivedInvites
<1>c. CASE UNCHANGED inviteRows
  BY <1>b, <1>c DEF inviteRows
\* Creation, revocation and acceptance leave it alone.
<1>1. ASSUME NEW s \in Slot, NEW answered \in BOOLEAN, CommitCreate(s, answered)
      PROVE  Ended(i, v)
  <2>1. slots[s].invite # i
    BY <1>1, <1>a, UserAssumption
    DEF CommitCreate, TypeInv, Formed, LinkInv, Pending, Unshown
  <2>2. invite'[i] = invite[i] /\ sent'[i] = sent[i]
    BY <1>1, <2>1 DEF CommitCreate, TypeInv, TypeOK
  <2> QED
    BY <1>b, <2>2
<1>2. ASSUME NEW u \in User, NEW j \in Invite, RevokeInvite(u, j) PROVE Ended(i, v)
  <2>1. j # i
    BY <1>2, <1>a DEF RevokeInvite, RevokeAllowed
  <2>2. invite'[i] = invite[i] /\ sent'[i] = sent[i]
    BY <1>2, <2>1 DEF RevokeInvite, TypeInv, TypeOK
  <2> QED
    BY <1>b, <2>2
<1>3. ASSUME NEW s \in Slot, CommitAccept(s) PROVE Ended(i, v)
  <2>1. CASE slots[s].invite # i
    <3>1. invite'[i] = invite[i] /\ sent'[i] = sent[i]
      BY <1>3, <2>1 DEF CommitAccept, inviteRows, TypeInv, TypeOK
    <3> QED
      BY <1>b, <3>1
  <2>2. CASE slots[s].invite = i
    <3>1. ~Single(i)
      BY <1>a DEF Single
    <3> QED
      BY <1>3, <1>c, <2>2, <3>1 DEF CommitAccept, inviteRows
  <2> QED
    BY <2>1, <2>2
\* What takes a row.
<1>4. ASSUME NEW s \in Slot, slots[s].op \in {"write", "clean"},
             invite' = [invite EXCEPT ![slots[s].invite] = NoRow],
             sent' = [sent EXCEPT ![slots[s].invite] = NoRow],
             slots[s].invite = i => Ended(i, v)
      PROVE  Ended(i, v)
  <2>1. CASE slots[s].invite # i
    <3>1. invite'[i] = invite[i] /\ sent'[i] = sent[i]
      BY <1>4, <2>1 DEF TypeInv, TypeOK
    <3> QED
      BY <1>b, <3>1
  <2> QED
    BY <1>4, <2>1
<1>d. ASSUME NEW s \in Slot, slots[s].op \in {"write", "clean"}, slots[s].invite = i
      PROVE  Settled(slots[s], i)
  BY <1>d DEF StandInv, Grounded, Answering
<1>5. ASSUME NEW s \in Slot, Joins(s) PROVE Ended(i, v)
  <2>1. ASSUME slots[s].invite = i PROVE Ended(i, v)
    <3>1. excused' = excused \cup {j \in Invite : sent[j].to = slots[s].who}
      BY <1>5 DEF Joins
    <3>2. i \in excused \/ sent[i].to = slots[s].who
      BY <1>5, <1>a, <1>d, <2>1 DEF Joins, Settled
    <3> QED
      BY <3>1, <3>2 DEF Ended
  <2> QED
    BY <1>4, <1>5, <2>1 DEF Joins
<1>6. ASSUME NEW s \in Slot, Clean(s) PROVE Ended(i, v)
  <2>1. ASSUME slots[s].invite = i PROVE Ended(i, v)
    BY <1>6, <1>a, <1>d, <2>1
    DEF Clean, groupRows, accountRows, history, Settled, Ended
  <2> QED
    BY <1>4, <1>6, <2>1 DEF Clean
<1>7. ASSUME NEW s \in Slot, NEW r \in {"invite", "sent"} \X Invite, SweepRow(s, r)
      PROVE  Ended(i, v)
  <2>1. CASE r[2] # i
    <3>1. invite'[i] = invite[i] /\ sent'[i] = sent[i]
      BY <1>7, <2>1 DEF SweepRow, TypeInv, TypeOK
    <3> QED
      BY <1>b, <3>1
  <2>2. CASE r[2] = i
    <3>1. Deletes(slots[s], r) /\ slots[s].op = "sweep"
      BY <1>7 DEF SweepRow, StandInv, Grounded
    <3>2. deleted' = deleted /\ excused' = excused
      BY <1>7 DEF SweepRow, accountRows, history
    <3>3. CASE Owned(i, slots[s].by)
      BY <1>a, <3>1, <3>3 DEF Owned, Ended
    <3>4. CASE slots[s].who \in deleted /\ (invite[i].to = slots[s].who \/ i \in excused)
      BY <1>a, <3>2, <3>4 DEF Ended
    <3> QED
      BY <1>a, <2>2, <3>1, <3>3, <3>4 DEF Deletes
  <2> QED
    BY <2>1, <2>2
<1>8. ASSUME NEW j \in Invite, ExpireInvite(j) \/ ExpireSent(j) PROVE Ended(i, v)
  <2>1. CASE j # i
    <3>1. invite'[i] = invite[i] /\ sent'[i] = sent[i]
      BY <1>8, <2>1 DEF ExpireInvite, ExpireSent, TypeInv, TypeOK
    <3> QED
      BY <1>b, <3>1
  <2>2. CASE j = i
    <3>1. invite[i].ttl = sent[i].ttl
      BY <1>a DEF StandInv, Paired
    <3> QED
      BY <1>8, <2>2, <3>1 DEF ExpireInvite, ExpireSent, Ended
  <2> QED
    BY <2>1, <2>2
<1>9. CASE \/ \E s \in Slot :
                \/ \E u \in User, j \in Invite, exp \in 0..(MaxDay + Life) : BeginCreate(s, u, j, exp)
                \/ \E u \in User, j \in Invite : BeginAccept(s, u, j)
                \/ \E j \in Invite : BeginComplete(s, j)
                \/ ReadSeq(s) \/ Count(s) \/ JoinRaced(s) \/ JoinMoot(s) \/ JoinRefused(s)
                \/ JoinCollides(s)
                \/ \E u \in User : LeaveGroup(s, u) \/ BeginDeleteAccount(s, u)
                \/ \E a, u \in User : RemoveMember(s, a, u)
                \/ Tombstone(s) \/ ReadSweep(s) \/ Swept(s) \/ Die(s)
           \/ \E u \in User : CreateRefused(u) \/ RotateKeys(u)
           \/ \E u \in User, r \in Role : ChangeMemberRole(u, r)
           \/ ConvertGroupToOpen \/ NextDay \/ UNCHANGED vars
  <2>1. UNCHANGED inviteRows
    BY <1>9
    DEF BeginCreate, BeginAccept, BeginComplete, ReadSeq, Count, JoinRaced, JoinMoot,
        JoinRefused, JoinCollides, LeaveGroup, RemoveMember, Departs, BeginDeleteAccount,
        Tombstone, ReadSweep, Swept, Die, CreateRefused, RotateKeys, ChangeMemberRole,
        ConvertGroupToOpen, NextDay, vars
  <2> QED
    BY <1>c, <2>1
<1> QED
  BY <1>1, <1>2, <1>3, <1>5, <1>6, <1>7, <1>8, <1>9 DEF Next, Requests, Completes, Closes

\* What the first accepter of an invite was told stands, step for step: no second
\* acceptance, completion, cleanup, revocation or sweep takes the invite from them
\* or from the inviter but for the reasons AcceptInvite and the cleanups state.
THEOREM AcceptanceStands == Spec => AcceptedStands
<1>1. TypeInv /\ LinkInv /\ StandInv /\ [Next]_vars =>
        [\A i \in Invite, v \in User :
           Waits(i, v) /\ ~Waits(i, v)' =>
             \/ i \in excused'
             \/ v \in deleted' \/ sent[i].by \in deleted'
             \/ \E s \in Slot : slots[s].op = "sweep" /\ slots[s].by = sent[i].by
             \/ keys'[v] # sent[i].key
             \/ mode' = "gone"
             \/ day > sent[i].ttl]_vars
  BY StandStep DEF Ended
<1> QED
  BY <1>1, TypeInit, TypeNext, LinkInit, LinkNext, StandInit, StandNext, PTL
  DEF Spec, AcceptedStands
=============================================================================

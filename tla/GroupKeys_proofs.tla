--------------------------- MODULE GroupKeys_proofs ---------------------------
(***************************************************************************)
(* What the group-key protocol keeps for every set of accounts and every   *)
(* bound: the types, the unbroken chain of links, an admin, the admission  *)
(* records, and what no step ever does.                                    *)
(***************************************************************************)
EXTENDS GroupKeys, TLAPS

-----------------------------------------------------------------------------
(* Type correctness.                                                       *)

\* A request as the handlers build it is a Request.
LEMMA ReqTyped ==
  ASSUME TypeOK, NEW op \in Op, NEW u \in User
  PROVE  Req(op, u) \in Request
BY DEF TypeOK, Req, Request, Row

\* A row moved to another generation is a row.
LEMMA MovedTyped ==
  ASSUME TypeOK, NEW u \in User, NEW g \in Nat
  PROVE  MovedTo(u, g) \in Row
BY DEF TypeOK, MovedTo, Row

\* Recording a request changes nothing else.
LEMMA BeginTyped ==
  ASSUME TypeOK, NEW q \in Request, Begin(q)
  PROVE  TypeOK'
BY DEF TypeOK, Begin, groupRows, accountRows

\* So does a request that ends.
LEMMA DoneTyped ==
  ASSUME TypeOK, NEW q, Done(q)
  PROVE  q \in Request /\ (reqs \subseteq Request)'
BY DEF TypeOK, Done

\* The two rows a start writes.
LEMMA MintTyped ==
  ASSUME TypeOK, NEW u \in User, NEW g \in Nat, NEW removed \in User \cup {NoOne},
         Mint(u, g, removed)
  PROVE  links' \subseteq Nat /\ marker' \in Marker
BY DEF TypeOK, Mint, Marker

\* Every request a handler records before its transaction is a Request.
LEMMA TypeReads == TypeOK /\ Reads => TypeOK'
<1> SUFFICES ASSUME TypeOK, Reads PROVE TypeOK'
  OBVIOUS
<1> PICK u \in User :
      \/ \E v \in User : BeginRemove(u, v) \/ BeginApproveRekey(u, v)
      \/ BeginSelfRekey(u) \/ BeginLeave(u) \/ BeginLastLeave(u)
      \/ BeginComplete(u) \/ BeginConvert(u) \/ BeginDeleteAccount(u)
      \/ \E k \in 1..MaxKey : BeginRotateKeys(u, k)
  BY DEF Reads
<1>r. \A op \in Op : Req(op, u) \in Request
  BY ReqTyped
<1>e. keyEpoch[u] \in Nat /\ 1..MaxKey \subseteq Nat
  BY BoundAssumption DEF TypeOK
<1>m. \A v \in User : member[v].role \in Role \cup {"none"}
  BY DEF TypeOK, Row
<1>b. ASSUME NEW q \in Request, Begin(q) PROVE TypeOK'
  BY <1>b, BeginTyped
<1>1. CASE \E v \in User : BeginRemove(u, v)
  <2> PICK v \in User : BeginRemove(u, v)
    BY <1>1
  <2> DEFINE q == [Req("remove", u) EXCEPT !.who = v, !.role = member[v].role,
                                           !.rotating = (mode = "rotating")]
  <2>1. q \in Request
    BY <1>r, <1>m DEF Request, Op
  <2> QED BY <2>1, <1>b DEF BeginRemove
<1>2. CASE \E v \in User : BeginApproveRekey(u, v)
  <2> PICK v \in User : BeginApproveRekey(u, v)
    BY <1>2
  <2>1. [Req("approve", u) EXCEPT !.who = v] \in Request
    BY <1>r DEF Request, Op
  <2> QED BY <2>1, <1>b DEF BeginApproveRekey
<1>3. CASE BeginLeave(u)
  <2> PICK s \in Members \cup {NoOne} :
        Begin([Req("leave", u) EXCEPT !.who = s, !.role = member[u].role,
                                      !.rotating = (mode = "rotating")])
    BY <1>3 DEF BeginLeave
  <2>1. [Req("leave", u) EXCEPT !.who = s, !.role = member[u].role,
                                !.rotating = (mode = "rotating")] \in Request
    BY <1>r, <1>m DEF Request, Op, Members
  <2> QED BY <2>1, <1>b
<1>4. CASE \E k \in 1..MaxKey : BeginRotateKeys(u, k)
  <2> PICK k \in 1..MaxKey : BeginRotateKeys(u, k)
    BY <1>4
  <2>1. [Req("rotateKeys", u) EXCEPT !.gen = keyEpoch[u], !.key = k,
               !.role = member[u].role, !.rotating = (mode = "rotating")] \in Request
    BY <1>r, <1>e, <1>m DEF Request, Op
  <2> QED BY <2>1, <1>b DEF BeginRotateKeys
<1>5. CASE BeginDeleteAccount(u)
  <2>1. [Req("deleteAccount", u) EXCEPT !.gen = 0] \in Request
    BY <1>r DEF Request, Op
  <2> QED BY <2>1, <1>b, <1>5 DEF BeginDeleteAccount
<1>6. CASE BeginSelfRekey(u) \/ BeginLastLeave(u) \/ BeginComplete(u) \/ BeginConvert(u)
  BY <1>6, <1>r, <1>b DEF BeginSelfRekey, BeginLastLeave, BeginComplete, BeginConvert, Op
<1> QED BY <1>1, <1>2, <1>3, <1>4, <1>5, <1>6

\* The transactions of the handlers that read first keep the types.
LEMMA TypeTransactions == TypeOK /\ Transactions => TypeOK'
<1> SUFFICES ASSUME TypeOK, NEW q \in reqs,
                    \/ CommitRemoveRotating(q) \/ CommitRemoveOpen(q)
                    \/ CommitSelfRekey(q) \/ CommitApproveRekey(q)
                    \/ CommitLeaveRotating(q) \/ CommitLeaveOpen(q)
                    \/ CommitDeleteGroup(q) \/ SweepGroup(q)
                    \/ CommitComplete(q) \/ CommitConvert(q)
                    \/ CommitRotateKeys(q) \/ CommitDeleteAccount(q)
                    \/ Drop(q)
             PROVE  TypeOK'
  BY DEF Transactions
<1>q. /\ q \in Request /\ q.by \in User /\ q.who \in User \cup {NoOne}
      /\ q.gen \in Nat /\ q.gen + 1 \in Nat /\ q.key \in Nat
  BY DEF TypeOK, Request
<1>d. Done(q) => (reqs \subseteq Request)'
  BY DoneTyped
<1>v. MovedTo(q.by, q.gen + 1) \in Row
  BY <1>q, MovedTyped
<1>n. NoRow \in Row /\ NoMarker \in Marker /\ NoHandoff \in Handoff
  BY DEF NoRow, Row, NoMarker, Marker, NoHandoff, Handoff
<1>m. \A w \in User \cup {NoOne} : Mint(q.by, q.gen, w)
         => links' \subseteq Nat /\ marker' \in Marker
  BY <1>q, MintTyped
<1>1. CASE CommitRemoveRotating(q)
  BY <1>1, <1>q, <1>d, <1>v, <1>n, <1>m DEF TypeOK, CommitRemoveRotating
<1>2. CASE CommitRemoveOpen(q)
  BY <1>2, <1>q, <1>d, <1>n DEF TypeOK, CommitRemoveOpen, accountRows
<1>3. CASE CommitSelfRekey(q)
  BY <1>3, <1>q, <1>d, <1>v, <1>n, <1>m DEF TypeOK, CommitSelfRekey
<1>4. CASE CommitApproveRekey(q)
  <2>1. q.who \in User /\ MovedTo(q.who, q.gen + 1) \in Row
    BY <1>4, <1>q, MovedTyped DEF CommitApproveRekey, Members
  <2> QED BY <2>1, <1>4, <1>q, <1>d, <1>v, <1>m DEF TypeOK, CommitApproveRekey, accountRows
<1>5. CASE CommitLeaveRotating(q)
  BY <1>5, <1>q, <1>d, <1>n
  DEF TypeOK, CommitLeaveRotating, LeaveAllowed, LeaveStart, accountRows, Marker
<1>6. CASE CommitLeaveOpen(q)
  BY <1>6, <1>q, <1>d, <1>n DEF TypeOK, CommitLeaveOpen, LeaveAllowed, accountRows
<1>7. CASE CommitDeleteGroup(q)
  <2>1. [q EXCEPT !.op = "sweepGroup"] \in Request
    BY <1>q DEF Request, Op
  <2> QED BY <2>1, <1>7, <1>q, <1>n DEF TypeOK, CommitDeleteGroup, accountRows
<1>8. CASE SweepGroup(q)
  BY <1>8, <1>d, <1>n DEF TypeOK, SweepGroup, accountRows
<1>9. CASE CommitComplete(q)
  BY <1>9, <1>d, <1>n DEF TypeOK, CommitComplete, accountRows
<1>10. CASE CommitConvert(q)
  BY <1>10, <1>d DEF TypeOK, CommitConvert, accountRows
<1>11. CASE CommitRotateKeys(q)
  BY <1>11, <1>q, <1>d, <1>n DEF TypeOK, CommitRotateKeys, groupRows
<1>12. CASE CommitDeleteAccount(q)
  BY <1>12, <1>q, <1>d, <1>n DEF TypeOK, CommitDeleteAccount, groupRows
<1>13. CASE Drop(q)
  BY <1>13, <1>d DEF TypeOK, Drop, groupRows, accountRows
<1> QED BY <1>1, <1>2, <1>3, <1>4, <1>5, <1>6, <1>7, <1>8, <1>9, <1>10, <1>11, <1>12, <1>13

\* So do the handlers that are one transaction.
LEMMA TypeHandlers == TypeOK /\ Handlers => TypeOK'
<1> SUFFICES ASSUME TypeOK, Handlers PROVE TypeOK'
  OBVIOUS
<1>n. NoHandoff \in Handoff /\ 1..MaxKey \subseteq Nat
  BY BoundAssumption DEF NoHandoff, Handoff
<1>g. \A w \in User : member[w].gen \in Nat /\ member[w].gen + 1 \in Nat
  BY DEF TypeOK, Row
<1>1. ASSUME NEW i \in User, NEW v \in User, CompleteInvite(i, v) PROVE TypeOK'
  <2>1. NewMember(i, v) \in Row
    BY <1>g DEF TypeOK, NewMember, Row, Role
  <2> QED BY <1>1, <2>1 DEF TypeOK, CompleteInvite, accountRows
<1>2. ASSUME NEW i \in User, NEW v \in User, ReadmitMember(i, v) PROVE TypeOK'
  BY <1>2 DEF TypeOK, ReadmitMember, accountRows
<1>3. ASSUME NEW i \in User, NEW v \in User, ApproveRewrap(i, v) PROVE TypeOK'
  <2>1. MovedTo(v, member[i].gen) \in Row
    BY <1>g, MovedTyped
  <2> QED BY <1>3, <2>1 DEF TypeOK, ApproveRewrap, accountRows
<1>4. ASSUME NEW i \in User, NEW v \in User, NEW r \in Role, ChangeMemberRole(i, v, r)
      PROVE TypeOK'
  BY <1>4 DEF TypeOK, ChangeMemberRole, accountRows, Row
<1>5. ASSUME NEW u \in User, TakeOverLeaveRotation(u) PROVE TypeOK'
  <2>1. MovedTo(u, member[u].gen + 1) \in Row
    BY <1>g, MovedTyped
  <2>2. links' \subseteq Nat /\ marker' \in Marker
    BY <1>5, <1>g, MintTyped DEF TakeOverLeaveRotation, TypeOK, Marker
  <2> QED BY <1>5, <2>1, <2>2, <1>n DEF TypeOK, TakeOverLeaveRotation
<1>6. ASSUME NEW u \in User, NEW batch \in SUBSET User, RewrapMembers(u, batch)
      PROVE TypeOK'
  <2>1. \A v \in User : [member[v] EXCEPT !.gen = member[u].gen] \in Row
    BY <1>g DEF TypeOK, Row
  <2> QED BY <1>6, <2>1 DEF TypeOK, RewrapMembers, accountRows
<1>7. ASSUME NEW u \in User, NEW k \in 1..MaxKey, PutHandoff(u, k) PROVE TypeOK'
  BY <1>7, <1>n, <1>g DEF TypeOK, PutHandoff, BumpHandoffSeq, groupRows, Handoff
<1>8. ASSUME NEW u \in User, DeleteHandoff(u) PROVE TypeOK'
  BY <1>8, <1>n DEF TypeOK, DeleteHandoff, BumpHandoffSeq, groupRows
<1>9. ASSUME NEW u \in User, SelfWrap(u) PROVE TypeOK'
  <2>1. MovedTo(u, member[u].gen) \in Row
    BY <1>g, MovedTyped
  <2> QED BY <1>9, <1>n, <2>1 DEF TypeOK, SelfWrap
<1> QED BY <1>1, <1>2, <1>3, <1>4, <1>5, <1>6, <1>7, <1>8, <1>9 DEF Handlers

\* The group as its creator leaves it.
LEMMA InitTyped == Init => TypeOK
BY FounderAssumption DEF Init, TypeOK, NoRow, Row, Role, NoMarker, Marker,
  NoHandoff, Handoff

\* The type invariant is inductive.
LEMMA NextTyped == TypeOK /\ [Next]_vars => TypeOK'
<1>1. TypeOK /\ UNCHANGED vars => TypeOK'
  BY DEF TypeOK, vars, groupRows, accountRows
<1> QED BY <1>1, TypeReads, TypeTransactions, TypeHandlers DEF Next

\* Every row, marker and request stays what the code declares it to be.
THEOREM TypeCorrect == Spec => []TypeOK
BY InitTyped, NextTyped, PTL DEF Spec

-----------------------------------------------------------------------------
(* The key chain.  A start that commits names its caller's own generation g, *)
(* which is at most the current one, and needs g without a link: so g is the *)
(* current one.  ChainUnbroken speaks of CurrentGeneration, which CHOOSEs    *)
(* the newest link; the inductive form names the length of the chain.        *)

ChainIs(k) == /\ links = 0..(k - 1)
              /\ \A u \in Members : member[u].gen <= k
ChainInv   == \E k \in Nat : ChainIs(k)

\* Links 0..k-1 make k the current generation.
LEMMA NewestOfPrefix ==
  ASSUME NEW k \in Nat, NEW L, L = 0..(k - 1)
  PROVE  (IF L = {} THEN 0 ELSE 1 + CHOOSE n \in L : \A m \in L : m <= n) = k
<1>1. CASE k = 0
  BY <1>1
<1>2. CASE k # 0
  <2> DEFINE Newest(n) == n \in L /\ \A m \in L : m <= n
  <2>1. Newest(k - 1) /\ L # {}
    BY <1>2
  <2>2. \A n : Newest(n) => n = k - 1
    BY <1>2
  <2>3. (CHOOSE n \in L : \A m \in L : m <= n) = k - 1
    BY <2>1, <2>2
  <2> QED BY <2>1, <2>3
<1> QED BY <1>1, <1>2

\* The same for the links of this state and of the next.
LEMMA CurrentOfPrefix ==
  ASSUME NEW k \in Nat
  PROVE  /\ links = 0..(k - 1) => CurrentGeneration = k
         /\ links' = 0..(k - 1) => CurrentGeneration' = k
BY NewestOfPrefix DEF CurrentGeneration

\* The current generation, as a number, before and after a step.
LEMMA CurrentIs ==
  /\ ChainInv => /\ CurrentGeneration \in Nat /\ links = 0..(CurrentGeneration - 1)
                 /\ \A u \in Members : member[u].gen <= CurrentGeneration
  /\ ChainInv' => CurrentGeneration' \in Nat /\ links' = 0..(CurrentGeneration' - 1)
BY CurrentOfPrefix DEF ChainInv, ChainIs

\* A longer prefix ends later.
LEMMA PrefixGrows ==
  ASSUME NEW i \in Nat, NEW j \in Nat, 0..(i - 1) \subseteq 0..(j - 1)
  PROVE  i <= j
<1>1. CASE i = 0
  BY <1>1
<1>2. CASE i # 0
  <2>1. i - 1 \in 0..(j - 1)
    BY <1>2
  <2> QED BY <2>1
<1> QED BY <1>1, <1>2

\* The inductive form implies the property.
LEMMA ChainInvImplies == ChainInv => ChainUnbroken
BY CurrentOfPrefix DEF ChainInv, ChainIs, ChainUnbroken

\* Steps that mint nothing give members no generation that nobody had.
LEMMA ChainKept ==
  ASSUME TypeOK, TypeOK', ChainInv, links' = links,
         \A u \in User : member'[u].role # "none" =>
           \E v \in User : member[v].role # "none" /\ member'[u].gen <= member[v].gen
  PROVE  ChainInv'
<1> PICK k \in Nat : ChainIs(k)
  BY DEF ChainInv
<1>1. \A u \in User : member[u].gen \in Nat /\ member'[u].gen \in Nat
  BY DEF TypeOK, Row
<1>2. ChainIs(k)'
  BY <1>1 DEF ChainIs, Members
<1> QED BY <1>2 DEF ChainInv

\* A start mints the generation after the current one.
LEMMA ChainMinted ==
  ASSUME TypeOK, TypeOK', ChainInv, NEW u \in User, NEW g \in Nat, NEW r,
         Mint(u, g, r),
         \A w \in User : member'[w].role # "none" =>
           \/ member'[w].gen = g + 1
           \/ member[w].role # "none" /\ member'[w].gen = member[w].gen
  PROVE  /\ ChainInv'
         /\ g = CurrentGeneration /\ CurrentGeneration' = g + 1
<1> PICK k \in Nat : ChainIs(k)
  BY DEF ChainInv
<1>1. \A w \in User : member[w].gen \in Nat /\ member'[w].gen \in Nat
  BY DEF TypeOK, Row
<1>2. u \in Members /\ member[u].gen = g /\ g \notin links /\ links' = links \cup {g}
  BY DEF Mint, MintAllowed, AdminAt, IsAdmin, Members
<1>3. g = k
  BY <1>2 DEF ChainIs
<1>4. links' = 0..((k + 1) - 1) /\ k + 1 \in Nat
  BY <1>2, <1>3 DEF ChainIs
<1>5. ChainIs(k + 1)'
  BY <1>1, <1>3, <1>4 DEF ChainIs, Members
<1>6. CurrentGeneration = k
  BY CurrentOfPrefix DEF ChainIs
<1>7. CurrentGeneration' = k + 1
  BY <1>4, CurrentOfPrefix
<1> QED BY <1>3, <1>4, <1>5, <1>6, <1>7 DEF ChainInv

\* A record update that leaves role and generation, or sets the generation.
LEMMA MovedFields ==
  ASSUME TypeOK, NEW u \in User, NEW g \in Nat
  PROVE  MovedTo(u, g).gen = g /\ MovedTo(u, g).role = member[u].role
BY DEF TypeOK, MovedTo, Row

\* The transactions of the handlers that read first keep the chain.
LEMMA ChainTransactions ==
  TypeOK /\ TypeOK' /\ ChainInv /\ Transactions => ChainInv'
<1> SUFFICES ASSUME TypeOK, TypeOK', ChainInv, NEW q \in reqs,
                    \/ CommitRemoveRotating(q) \/ CommitRemoveOpen(q)
                    \/ CommitSelfRekey(q) \/ CommitApproveRekey(q)
                    \/ CommitLeaveRotating(q) \/ CommitLeaveOpen(q)
                    \/ CommitDeleteGroup(q) \/ SweepGroup(q)
                    \/ CommitComplete(q) \/ CommitConvert(q)
                    \/ CommitRotateKeys(q) \/ CommitDeleteAccount(q)
                    \/ Drop(q)
             PROVE  ChainInv'
  BY DEF Transactions
<1>q. /\ q.by \in User /\ q.who \in User \cup {NoOne}
      /\ q.gen \in Nat /\ q.gen + 1 \in Nat
  BY DEF TypeOK, Request
<1>n. NoRow.role = "none"
  BY DEF NoRow
<1>g. member \in [User -> Row] /\ \A w \in User : member[w].gen \in Nat
  BY DEF TypeOK, Row
<1>v. \A w \in User : MovedTo(w, q.gen + 1).gen = q.gen + 1
  BY <1>q, MovedFields
<1>1. CASE CommitRemoveRotating(q)
  <2>1. Mint(q.by, q.gen, q.who)
    BY <1>1 DEF CommitRemoveRotating
  <2>2. \A w \in User : member'[w].role # "none" =>
           \/ member'[w].gen = q.gen + 1
           \/ member[w].role # "none" /\ member'[w].gen = member[w].gen
    BY <1>1, <1>q, <1>n, <1>g, <1>v DEF CommitRemoveRotating
  <2> QED BY <2>1, <2>2, <1>q, ChainMinted
<1>2. CASE CommitSelfRekey(q)
  <2>1. Mint(q.by, q.gen, NoOne)
    BY <1>2 DEF CommitSelfRekey
  <2>2. \A w \in User : member'[w].role # "none" =>
           \/ member'[w].gen = q.gen + 1
           \/ member[w].role # "none" /\ member'[w].gen = member[w].gen
    BY <1>2, <1>q, <1>g, <1>v DEF CommitSelfRekey
  <2> QED BY <2>1, <2>2, <1>q, ChainMinted
<1>3. CASE CommitApproveRekey(q)
  <2>1. Mint(q.by, q.gen, NoOne)
    BY <1>3 DEF CommitApproveRekey
  <2>2. \A w \in User : member'[w].role # "none" =>
           \/ member'[w].gen = q.gen + 1
           \/ member[w].role # "none" /\ member'[w].gen = member[w].gen
    BY <1>3, <1>q, <1>g, <1>v DEF CommitApproveRekey, Members
  <2> QED BY <2>1, <2>2, <1>q, ChainMinted
<1>4. CASE \/ CommitRemoveOpen(q) \/ CommitLeaveRotating(q) \/ CommitLeaveOpen(q)
           \/ CommitDeleteGroup(q)
  <2>1. links' = links
    BY <1>4 DEF CommitRemoveOpen, CommitLeaveRotating, CommitLeaveOpen, CommitDeleteGroup
  <2>2. \E w \in User : member' = [member EXCEPT ![w] = NoRow] \/ member' = member
    BY <1>4, <1>q, <1>g DEF CommitRemoveOpen, CommitLeaveRotating, CommitLeaveOpen,
       CommitDeleteGroup
  <2>3. \A u \in User : member'[u].role # "none" =>
           \E v \in User : member[v].role # "none" /\ member'[u].gen <= member[v].gen
    BY <2>2, <1>n, <1>g
  <2> QED BY <2>1, <2>3, ChainKept
<1>5. CASE SweepGroup(q)
  <2>1. ChainIs(0)'
    BY <1>5, <1>n DEF SweepGroup, ChainIs, Members
  <2> QED BY <2>1 DEF ChainInv
<1>6. CASE \/ CommitComplete(q) \/ CommitConvert(q) \/ CommitRotateKeys(q)
           \/ CommitDeleteAccount(q) \/ Drop(q)
  <2>1. links' = links /\ member' = member
    BY <1>6 DEF CommitComplete, CommitConvert, CommitRotateKeys,
       CommitDeleteAccount, Drop, groupRows
  <2> QED BY <2>1 DEF ChainInv, ChainIs, Members
<1> QED BY <1>1, <1>2, <1>3, <1>4, <1>5, <1>6

\* So do the handlers that are one transaction; the only start among them is
\* the takeover of a leave.
LEMMA ChainHandlers == TypeOK /\ TypeOK' /\ ChainInv /\ Handlers => ChainInv'
<1> SUFFICES ASSUME TypeOK, TypeOK', ChainInv, Handlers PROVE ChainInv'
  OBVIOUS
<1>g. /\ member \in [User -> Row]
      /\ \A w \in User : member[w].gen \in Nat /\ member[w].gen + 1 \in Nat
  BY DEF TypeOK, Row
<1>v. \A w \in User, g \in Nat : MovedTo(w, g).gen = g
  BY MovedFields
<1>1. ASSUME NEW i \in User, NEW v \in User, CompleteInvite(i, v) PROVE ChainInv'
  <2>1. links' = links /\ member' = [member EXCEPT ![v] = NewMember(i, v)]
    BY <1>1 DEF CompleteInvite
  <2>2. member[i].role # "none" /\ NewMember(i, v).gen = member[i].gen
    BY <1>1 DEF CompleteInvite, JoinAllowed, Inviting, NewMember
  <2> QED BY <2>1, <2>2, <1>g, ChainKept
<1>2. ASSUME NEW i \in User, NEW v \in User, ReadmitMember(i, v) PROVE ChainInv'
  BY <1>2 DEF ReadmitMember, ChainInv, ChainIs, Members
<1>3. ASSUME NEW i \in User, NEW v \in User, ApproveRewrap(i, v) PROVE ChainInv'
  <2>1. /\ links' = links /\ member[i].role # "none"
        /\ member' = [member EXCEPT ![v] = MovedTo(v, member[i].gen)]
    BY <1>3 DEF ApproveRewrap, Inviting
  <2> QED BY <2>1, <1>g, <1>v, ChainKept
<1>4. ASSUME NEW i \in User, NEW v \in User, NEW r \in Role, ChangeMemberRole(i, v, r)
      PROVE ChainInv'
  <2>1. links' = links /\ member' = [member EXCEPT ![v].role = r] /\ member[v].role # "none"
    BY <1>4 DEF ChangeMemberRole, Members
  <2>2. \A w \in User : member'[w].gen = member[w].gen
                        /\ (member'[w].role # "none" => member[w].role # "none")
    BY <2>1, <1>g DEF Row
  <2> QED BY <2>1, <2>2, <1>g, ChainKept
<1>5. ASSUME NEW u \in User, TakeOverLeaveRotation(u) PROVE ChainInv'
  <2>1. Mint(u, member[u].gen, marker.removed)
    BY <1>5 DEF TakeOverLeaveRotation
  <2>2. \A w \in User : member'[w].role # "none" =>
           \/ member'[w].gen = member[u].gen + 1
           \/ member[w].role # "none" /\ member'[w].gen = member[w].gen
    BY <1>5, <1>g, <1>v DEF TakeOverLeaveRotation
  <2> QED BY <2>1, <2>2, <1>g, ChainMinted
<1>6. ASSUME NEW u \in User, NEW batch \in SUBSET User, RewrapMembers(u, batch)
      PROVE ChainInv'
  <2>1. /\ links' = links /\ member[u].role # "none" /\ batch \subseteq Members
        /\ member' = [v \in User |->
             IF v \in batch THEN [member[v] EXCEPT !.gen = member[u].gen] ELSE member[v]]
    BY <1>6 DEF RewrapMembers, IsAdmin
  <2>2. \A w \in User : \/ member'[w].gen = member[u].gen
                        \/ member'[w] = member[w]
    BY <2>1, <1>g DEF Row
  <2> QED BY <2>1, <2>2, <1>g, ChainKept
<1>7. ASSUME NEW u \in User,
             \/ DeleteHandoff(u)
             \/ \E k \in 1..MaxKey : PutHandoff(u, k)
      PROVE ChainInv'
  BY <1>7 DEF PutHandoff, DeleteHandoff, groupRows, ChainInv, ChainIs, Members
<1>8. ASSUME NEW u \in User, SelfWrap(u) PROVE ChainInv'
  <2>1. /\ links' = links /\ member[u].role # "none"
        /\ member' = [member EXCEPT ![u] = MovedTo(u, member[u].gen)]
    BY <1>8 DEF SelfWrap, Members
  <2> QED BY <2>1, <1>g, <1>v, ChainKept
<1> QED BY <1>1, <1>2, <1>3, <1>4, <1>5, <1>6, <1>7, <1>8 DEF Handlers

\* Reads change neither rows nor links.
LEMMA ReadsChangeNothing == Reads => UNCHANGED <<groupRows, accountRows>>
BY DEF Reads, Begin, BeginRemove, BeginApproveRekey, BeginSelfRekey, BeginLeave,
  BeginLastLeave, BeginComplete, BeginConvert, BeginDeleteAccount, BeginRotateKeys

\* The chain invariant is inductive.
LEMMA ChainNext == TypeOK /\ ChainInv /\ [Next]_vars => ChainInv'
<1>1. Reads \/ UNCHANGED vars => (ChainInv => ChainInv')
  BY ReadsChangeNothing DEF vars, groupRows, ChainInv, ChainIs, Members
<1> QED BY <1>1, NextTyped, ChainTransactions, ChainHandlers DEF Next

\* A new group has no links and its members are at generation 0.
LEMMA ChainInit == Init => ChainInv
<1> SUFFICES ASSUME Init PROVE ChainIs(0)
  BY DEF ChainInv
<1> QED BY DEF Init, ChainIs, Members, NoRow

\* Every generation below the current one has its link, and no member's entry
\* is past the current one, whatever requests interleave and however stale
\* what they read is.
THEOREM ChainCorrect == Spec => []ChainUnbroken
<1>1. Init => TypeOK /\ ChainInv
  BY InitTyped, ChainInit
<1>2. TypeOK /\ ChainInv /\ [Next]_vars => (TypeOK /\ ChainInv)'
  BY NextTyped, ChainNext
<1> QED BY <1>1, <1>2, ChainInvImplies, PTL DEF Spec

-----------------------------------------------------------------------------
(* A group is never left without an admin.  Two requests that were read     *)
(* while both their callers were admins may commit in any order; what saves *)
(* the group is that each transaction checks again the admin that stays: the *)
(* remover itself, or the successor a leave names.  Neither is the account   *)
(* that goes, which is what a request remembers (NamesAnother).              *)

\* A removal, and an admin's leave, name an account other than their caller; the
\* role either read is a member's.
NamesAnother(q) ==
  /\ q.op = "remove" \/ (q.op = "leave" /\ q.role = "admin") => q.who \in User \ {q.by}
  /\ q.op \in {"remove", "leave"} => q.role # "none"

RequestInv == \A q \in reqs : NamesAnother(q)

AdminInv == RequestInv /\ AdminRemains

\* What the handlers record obeys NamesAnother.
LEMMA ReadsNameAnother == TypeOK /\ RequestInv /\ Reads => RequestInv'
<1> SUFFICES ASSUME TypeOK, RequestInv, NEW u \in User,
                    \/ \E v \in User : BeginRemove(u, v) \/ BeginApproveRekey(u, v)
                    \/ BeginSelfRekey(u) \/ BeginLeave(u) \/ BeginLastLeave(u)
                    \/ BeginComplete(u) \/ BeginConvert(u) \/ BeginDeleteAccount(u)
                    \/ \E k \in 1..MaxKey : BeginRotateKeys(u, k)
             PROVE  RequestInv'
  BY DEF Reads
<1>b. ASSUME NEW q, NamesAnother(q), Begin(q) PROVE RequestInv'
  BY <1>b DEF RequestInv, Begin, NamesAnother
<1>o. \A op \in Op : Req(op, u).op = op /\ Req(op, u).by = u
  BY DEF Req
<1>1. CASE \E v \in User : BeginRemove(u, v)
  <2> PICK v \in User : BeginRemove(u, v)
    BY <1>1
  <2> DEFINE q == [Req("remove", u) EXCEPT !.who = v, !.role = member[v].role,
                                           !.rotating = (mode = "rotating")]
  <2>1. q.by = u /\ q.who = v /\ v # u /\ q.role # "none"
    BY DEF Req, BeginRemove, Members
  <2> QED BY <2>1, <1>b DEF BeginRemove, NamesAnother
<1>2. CASE \E v \in User : BeginApproveRekey(u, v)
  <2> PICK v \in User : BeginApproveRekey(u, v)
    BY <1>2
  <2>1. [Req("approve", u) EXCEPT !.who = v].op = "approve"
    BY DEF Req
  <2> QED BY <2>1, <1>b DEF BeginApproveRekey, NamesAnother
<1>3. CASE BeginLeave(u)
  <2> PICK s \in Members \cup {NoOne} :
        /\ IF IsAdmin(u) THEN s \in Members \ {u} /\ IsAdmin(s) /\ Live(s)
                         ELSE s = NoOne
        /\ Begin([Req("leave", u) EXCEPT !.who = s, !.role = member[u].role,
                                         !.rotating = (mode = "rotating")])
    BY <1>3 DEF BeginLeave
  <2>u. u \in Members
    BY <1>3 DEF BeginLeave
  <2> DEFINE q == [Req("leave", u) EXCEPT !.who = s, !.role = member[u].role,
                                          !.rotating = (mode = "rotating")]
  <2>1. q.op = "leave" /\ q.by = u /\ q.who = s /\ q.role = member[u].role
    BY DEF Req
  <2>2. NamesAnother(q)
    BY <2>1, <2>u DEF NamesAnother, IsAdmin, Members
  <2> QED BY <2>2, <1>b
<1>4. CASE \E k \in 1..MaxKey : BeginRotateKeys(u, k)
  <2> PICK k \in 1..MaxKey : BeginRotateKeys(u, k)
    BY <1>4
  <2>1. [Req("rotateKeys", u) EXCEPT !.gen = keyEpoch[u], !.key = k,
               !.role = member[u].role, !.rotating = (mode = "rotating")].op = "rotateKeys"
    BY DEF Req
  <2> QED BY <2>1, <1>b DEF BeginRotateKeys, NamesAnother
<1>5. CASE BeginDeleteAccount(u)
  <2>1. [Req("deleteAccount", u) EXCEPT !.gen = 0].op = "deleteAccount"
    BY DEF Req
  <2> QED BY <2>1, <1>b, <1>5 DEF BeginDeleteAccount, NamesAnother
<1>6. CASE BeginSelfRekey(u) \/ BeginLastLeave(u) \/ BeginComplete(u) \/ BeginConvert(u)
  BY <1>6, <1>o, <1>b
  DEF BeginSelfRekey, BeginLastLeave, BeginComplete, BeginConvert, Op, NamesAnother
<1> QED BY <1>1, <1>2, <1>3, <1>4, <1>5, <1>6

\* Every other step only ends requests; the leave that deletes the group goes
\* on as its sweep.
LEMMA RequestNext == TypeOK /\ RequestInv /\ [Next]_vars => RequestInv'
<1>1. Transactions => (RequestInv => RequestInv')
  <2> SUFFICES ASSUME RequestInv, NEW q \in reqs,
                      Done(q) \/ CommitDeleteGroup(q)
               PROVE  RequestInv'
    BY DEF Transactions, CommitRemoveRotating, CommitRemoveOpen, CommitSelfRekey,
       CommitApproveRekey, CommitLeaveRotating, CommitLeaveOpen, LeaveAllowed,
       SweepGroup, CommitComplete, CommitConvert, CommitRotateKeys,
       CommitDeleteAccount, Drop
  <2>1. [q EXCEPT !.op = "sweepGroup"].op = "sweepGroup" \/ ~CommitDeleteGroup(q)
    BY DEF CommitDeleteGroup
  <2> QED BY <2>1 DEF RequestInv, NamesAnother, Done, CommitDeleteGroup
<1>2. Handlers => reqs' \subseteq reqs
  BY DEF Handlers, CompleteInvite, ReadmitMember, ApproveRewrap, ChangeMemberRole,
     TakeOverLeaveRotation, RewrapMembers, PutHandoff, DeleteHandoff, SelfWrap,
     BumpHandoffSeq
<1>3. reqs' \subseteq reqs => (RequestInv => RequestInv')
  BY DEF RequestInv, NamesAnother
<1>4. UNCHANGED vars => reqs' \subseteq reqs
  BY DEF vars
<1> QED BY <1>1, <1>2, <1>3, <1>4, ReadsNameAnother DEF Next

-----------------------------------------------------------------------------
\* A step that keeps every role, or leaves some admin, keeps AdminRemains.
LEMMA AdminKept ==
  ASSUME TypeOK, TypeOK', AdminRemains, mode' # "gone" => mode # "gone",
         \/ \A u \in User : member'[u].role = member[u].role
         \/ \E u \in User : member'[u].role = "admin"
  PROVE  AdminRemains'
<1>1. CASE \E u \in User : member'[u].role = "admin"
  BY <1>1 DEF AdminRemains, IsAdmin
<1>2. CASE \A u \in User : member'[u].role = member[u].role
  BY <1>2 DEF AdminRemains, IsAdmin, Members
<1> QED BY <1>1, <1>2

\* The transactions of the handlers that read first.
LEMMA AdminTransactions ==
  TypeOK /\ TypeOK' /\ AdminInv /\ Transactions => AdminRemains'
<1> SUFFICES ASSUME TypeOK, TypeOK', AdminInv, NEW q \in reqs,
                    \/ CommitRemoveRotating(q) \/ CommitRemoveOpen(q)
                    \/ CommitSelfRekey(q) \/ CommitApproveRekey(q)
                    \/ CommitLeaveRotating(q) \/ CommitLeaveOpen(q)
                    \/ CommitDeleteGroup(q) \/ SweepGroup(q)
                    \/ CommitComplete(q) \/ CommitConvert(q)
                    \/ CommitRotateKeys(q) \/ CommitDeleteAccount(q)
                    \/ Drop(q)
             PROVE  AdminRemains'
  BY DEF Transactions
<1>q. /\ q.by \in User /\ q.who \in User \cup {NoOne}
      /\ q.gen \in Nat /\ q.gen + 1 \in Nat /\ NamesAnother(q) /\ AdminRemains
  BY DEF TypeOK, Request, AdminInv, RequestInv
<1>g. member \in [User -> Row] /\ NoRow.role = "none"
  BY DEF TypeOK, NoRow
<1>v. \A w \in User : MovedTo(w, q.gen + 1).role = member[w].role
  BY <1>q, MovedFields
<1>a. \A r : Mint(q.by, q.gen, r) => member[q.by].role = "admin"
  BY DEF Mint, MintAllowed, AdminAt, IsAdmin
<1>1. CASE CommitRemoveRotating(q)
  <2>1. q.who # q.by /\ mode' = mode /\ member[q.by].role = "admin"
        /\ member' = [member EXCEPT ![q.by] = MovedTo(q.by, q.gen + 1), ![q.who] = NoRow]
    BY <1>1, <1>q, <1>a DEF CommitRemoveRotating, RemovalStart, NamesAnother
  <2>2. member'[q.by].role = "admin"
    BY <2>1, <1>g, <1>q, <1>v
  <2> QED BY <2>1, <2>2, <1>q, AdminKept
<1>2. CASE CommitRemoveOpen(q)
  <2>1. q.who # q.by /\ mode' = mode /\ member[q.by].role = "admin"
        /\ member' = [member EXCEPT ![q.who] = NoRow]
    BY <1>2, <1>q DEF CommitRemoveOpen, NamesAnother, IsAdmin
  <2>2. member'[q.by].role = "admin"
    BY <2>1, <1>g, <1>q
  <2> QED BY <2>1, <2>2, <1>q, AdminKept
<1>3. CASE CommitSelfRekey(q) \/ CommitApproveRekey(q)
  <2>1. mode' = mode /\ member[q.by].role = "admin"
    BY <1>3, <1>a DEF CommitSelfRekey, CommitApproveRekey
  <2>2. member'[q.by].role = "admin"
    BY <1>3, <2>1, <1>g, <1>q, <1>v DEF CommitSelfRekey, CommitApproveRekey
  <2> QED BY <2>1, <2>2, <1>q, AdminKept
<1>4. CASE CommitLeaveRotating(q) \/ CommitLeaveOpen(q)
  <2>1. /\ mode' = mode /\ member' = [member EXCEPT ![q.by] = NoRow]
        /\ q.op = "leave" /\ member[q.by].role = q.role
        /\ q.role = "admin" => member[q.who].role = "admin"
    BY <1>4 DEF CommitLeaveRotating, CommitLeaveOpen, LeaveAllowed, IsAdmin
  <2>2. CASE q.role = "admin"
    <3>1. q.who \in User \ {q.by} /\ member[q.who].role = "admin"
      BY <2>1, <2>2, <1>q DEF NamesAnother
    <3>2. member'[q.who].role = "admin"
      BY <3>1, <2>1, <1>g
    <3> QED BY <3>1, <3>2, <2>1, <1>q, AdminKept
  <2>3. CASE q.role # "admin"
    <3> SUFFICES ASSUME mode # "gone", Members' # {} PROVE \E u \in User : IsAdmin(u)'
      BY <2>1 DEF AdminRemains
    <3>1. Members # {}
      BY <2>1, <1>g DEF Members
    <3>2. PICK u \in User : member[u].role = "admin"
      BY <3>1, <1>q DEF AdminRemains, IsAdmin
    <3>3. member'[u].role = "admin"
      BY <3>2, <2>1, <2>3, <1>g
    <3> QED BY <3>3 DEF IsAdmin
  <2> QED BY <2>2, <2>3
<1>5. CASE CommitDeleteGroup(q)
  BY <1>5 DEF CommitDeleteGroup, AdminRemains
<1>6. CASE SweepGroup(q)
  BY <1>6, <1>g DEF SweepGroup, AdminRemains, Members
<1>7. CASE \/ CommitComplete(q) \/ CommitConvert(q) \/ CommitRotateKeys(q)
           \/ CommitDeleteAccount(q) \/ Drop(q)
  <2>1. member' = member /\ (mode' # "gone" => mode # "gone")
    BY <1>7 DEF CommitComplete, CommitConvert, CommitRotateKeys, CommitDeleteAccount,
       Drop, groupRows
  <2> QED BY <2>1, <1>q, AdminKept
<1> QED BY <1>1, <1>2, <1>3, <1>4, <1>5, <1>6, <1>7

\* The handlers that are one transaction.
LEMMA AdminHandlers == TypeOK /\ TypeOK' /\ AdminRemains /\ Handlers => AdminRemains'
<1> SUFFICES ASSUME TypeOK, TypeOK', AdminRemains, Handlers PROVE AdminRemains'
  OBVIOUS
<1>g. member \in [User -> Row] /\ \A w \in User : member[w].gen \in Nat
  BY DEF TypeOK, Row
<1>v. \A w \in User, g \in Nat : MovedTo(w, g).role = member[w].role
  BY MovedFields
<1>1. ASSUME NEW i \in User, NEW v \in User, CompleteInvite(i, v) PROVE AdminRemains'
  <2>1. /\ i \in Members /\ v \notin Members /\ mode # "gone"
        /\ member' = [member EXCEPT ![v] = NewMember(i, v)]
    BY <1>1 DEF CompleteInvite, JoinAllowed, Inviting, Members
  <2>2. PICK u \in User : member[u].role = "admin"
    BY <2>1 DEF AdminRemains, IsAdmin
  <2>3. member'[u].role = "admin"
    BY <2>1, <2>2, <1>g DEF Members
  <2> QED BY <2>1, <2>3, AdminKept
<1>2. ASSUME NEW i \in User, NEW v \in User, ApproveRewrap(i, v) PROVE AdminRemains'
  <2>1. member' = [member EXCEPT ![v] = MovedTo(v, member[i].gen)] /\ mode' = mode
    BY <1>2 DEF ApproveRewrap
  <2> QED BY <2>1, <1>g, <1>v, AdminKept
<1>3. ASSUME NEW i \in User, NEW v \in User, NEW r \in Role, ChangeMemberRole(i, v, r)
      PROVE AdminRemains'
  <2>1. /\ member[i].role = "admin" /\ v # i /\ mode' = mode
        /\ member' = [member EXCEPT ![v].role = r]
    BY <1>3 DEF ChangeMemberRole, IsAdmin
  <2>2. member'[i].role = "admin"
    BY <2>1, <1>g
  <2> QED BY <2>1, <2>2, AdminKept
<1>4. ASSUME NEW u \in User, TakeOverLeaveRotation(u) PROVE AdminRemains'
  <2>1. /\ member[u].role = "admin" /\ mode' = mode
        /\ member' = [member EXCEPT ![u] = MovedTo(u, member[u].gen + 1)]
    BY <1>4 DEF TakeOverLeaveRotation, Mint, MintAllowed, AdminAt, IsAdmin
  <2>2. member'[u].role = "admin"
    BY <2>1, <1>g, <1>v
  <2> QED BY <2>1, <2>2, AdminKept
<1>5. ASSUME NEW u \in User, NEW batch \in SUBSET User, RewrapMembers(u, batch)
      PROVE AdminRemains'
  <2>1. /\ mode' = mode
        /\ member' = [v \in User |->
             IF v \in batch THEN [member[v] EXCEPT !.gen = member[u].gen] ELSE member[v]]
    BY <1>5 DEF RewrapMembers
  <2>2. \A w \in User : member'[w].role = member[w].role
    BY <2>1, <1>g DEF Row
  <2> QED BY <2>1, <2>2, AdminKept
<1>6. ASSUME NEW u \in User, SelfWrap(u) PROVE AdminRemains'
  <2>1. member' = [member EXCEPT ![u] = MovedTo(u, member[u].gen)] /\ mode' = mode
    BY <1>6 DEF SelfWrap
  <2> QED BY <2>1, <1>g, <1>v, AdminKept
<1>7. ASSUME NEW u \in User,
             \/ DeleteHandoff(u)
             \/ \E k \in 1..MaxKey : PutHandoff(u, k)
             \/ \E v \in User : ReadmitMember(u, v)
      PROVE AdminRemains'
  <2>1. member' = member /\ mode' = mode
    BY <1>7 DEF PutHandoff, DeleteHandoff, ReadmitMember, groupRows
  <2> QED BY <2>1, AdminKept
<1> QED BY <1>1, <1>2, <1>3, <1>4, <1>5, <1>6, <1>7 DEF Handlers

\* A group that still exists and has members has an admin among them, whatever
\* removals, leaves and demotions were in flight together.
THEOREM AdminAlways == Spec => []AdminRemains
<1>1. Init => TypeOK /\ AdminInv
  BY InitTyped, FounderAssumption
  DEF Init, AdminInv, RequestInv, AdminRemains, IsAdmin, NoRow
<1>2. Reads \/ UNCHANGED vars => (AdminRemains => AdminRemains')
  BY ReadsChangeNothing DEF vars, groupRows, AdminRemains, IsAdmin, Members
<1>3. TypeOK /\ AdminInv /\ [Next]_vars => (TypeOK /\ AdminInv)'
  BY <1>2, NextTyped, RequestNext, AdminTransactions, AdminHandlers DEF Next, AdminInv
<1>4. AdminInv => AdminRemains
  BY DEF AdminInv
<1> QED BY <1>1, <1>3, <1>4, PTL DEF Spec

-----------------------------------------------------------------------------
(* Admissions.  A removal and a takeover delete the record of the account   *)
(* they cut off.  A takeover acts on what a leave wrote long before, and if *)
(* the leaver was let in again meanwhile it deletes the record of a member: *)
(* the theorem is about the runs in which no leaver is back that early.     *)

NoLeaverIsBack == BareLeave => marker.removed \notin Members

AdmissionInv == EveryMemberAdmitted /\ LeaverStillAdmitted

\* A step that takes the record of a leaver or a removed account, and of nobody
\* who stays a member, keeps every other record.
LEMMA AdmissionKept ==
  ASSUME AdmissionInv,
         \A u \in Members' : \/ u \in admitted'
                             \/ u \in Members /\ (u \in admitted => u \in admitted'),
         \/ ~BareLeave'
         \/ marker' = marker /\ (marker.removed \in admitted => marker.removed \in admitted')
         \/ marker'.removed \in Members /\ admitted' = admitted
  PROVE  AdmissionInv'
<1>1. EveryMemberAdmitted'
  BY DEF AdmissionInv, EveryMemberAdmitted
<1>2. LeaverStillAdmitted'
  BY DEF AdmissionInv, EveryMemberAdmitted, LeaverStillAdmitted, BareLeave
<1> QED BY <1>1, <1>2 DEF AdmissionInv

\* The transactions of the handlers that read first.
LEMMA AdmissionTransactions ==
  TypeOK /\ RequestInv /\ NoLeaverIsBack /\ AdmissionInv /\ Transactions => AdmissionInv'
<1> SUFFICES ASSUME TypeOK, RequestInv, NoLeaverIsBack, AdmissionInv, NEW q \in reqs,
                    \/ CommitRemoveRotating(q) \/ CommitRemoveOpen(q)
                    \/ CommitSelfRekey(q) \/ CommitApproveRekey(q)
                    \/ CommitLeaveRotating(q) \/ CommitLeaveOpen(q)
                    \/ CommitDeleteGroup(q) \/ SweepGroup(q)
                    \/ CommitComplete(q) \/ CommitConvert(q)
                    \/ CommitRotateKeys(q) \/ CommitDeleteAccount(q)
                    \/ Drop(q)
             PROVE  AdmissionInv'
  BY DEF Transactions
<1>q. /\ q.by \in User /\ q.who \in User \cup {NoOne} /\ NamesAnother(q)
      /\ q.gen \in Nat /\ q.gen + 1 \in Nat
  BY DEF TypeOK, Request, RequestInv
<1>g. member \in [User -> Row] /\ NoRow.role = "none"
  BY DEF TypeOK, NoRow
<1>v. \A w \in User : MovedTo(w, q.gen + 1).role = member[w].role
  BY <1>q, MovedFields
<1>1. CASE CommitRemoveRotating(q)
  <2>1. /\ q.who \in User \ {q.by} /\ admitted' = admitted \ {q.who}
        /\ member' = [member EXCEPT ![q.by] = MovedTo(q.by, q.gen + 1), ![q.who] = NoRow]
        /\ marker' = [gen |-> q.gen + 1, by |-> q.by, removed |-> q.who]
    BY <1>1, <1>q DEF CommitRemoveRotating, RemovalStart, NamesAnother, Mint
  <2>2. Members' \subseteq Members \ {q.who} /\ ~BareLeave'
    BY <2>1, <1>q, <1>g, <1>v DEF Members, BareLeave
  <2> QED BY <2>1, <2>2, AdmissionKept
<1>2. CASE CommitRemoveOpen(q)
  <2>1. /\ q.who \in Members /\ admitted' = admitted \ {q.who} /\ marker' = marker
        /\ member' = [member EXCEPT ![q.who] = NoRow]
    BY <1>2, <1>q DEF CommitRemoveOpen, NamesAnother, Members
  <2>2. Members' \subseteq Members \ {q.who}
    BY <2>1, <1>g DEF Members
  <2>3. BareLeave => marker.removed # q.who
    BY <2>1 DEF NoLeaverIsBack
  <2> QED BY <2>1, <2>2, <2>3, AdmissionKept DEF BareLeave
<1>3. CASE CommitSelfRekey(q) \/ CommitApproveRekey(q)
  <2>1. /\ admitted' = admitted
        /\ marker' = [gen |-> q.gen + 1, by |-> q.by, removed |-> NoOne]
    BY <1>3 DEF CommitSelfRekey, CommitApproveRekey, Mint
  <2>2. Members' \subseteq Members
    BY <1>3, <1>q, <1>g, <1>v DEF CommitSelfRekey, CommitApproveRekey, Members
  <2>3. ~BareLeave'
    BY <2>1, <1>q, UserAssumption DEF BareLeave
  <2> QED BY <2>1, <2>2, <2>3, AdmissionKept
<1>4. CASE CommitLeaveRotating(q)
  <2>1. /\ q.by \in Members /\ admitted' = admitted /\ marker'.removed = q.by
        /\ member' = [member EXCEPT ![q.by] = NoRow]
    BY <1>4, <1>q DEF CommitLeaveRotating, LeaveAllowed, NamesAnother, Members
  <2>2. Members' \subseteq Members
    BY <2>1, <1>g DEF Members
  <2> QED BY <2>1, <2>2, AdmissionKept
<1>5. CASE CommitLeaveOpen(q)
  <2>1. /\ q.by \in Members /\ admitted' = admitted \ {q.by} /\ marker' = marker
        /\ member' = [member EXCEPT ![q.by] = NoRow]
    BY <1>5, <1>q DEF CommitLeaveOpen, LeaveAllowed, NamesAnother, Members
  <2>2. Members' \subseteq Members \ {q.by}
    BY <2>1, <1>g DEF Members
  <2>3. BareLeave => marker.removed # q.by
    BY <2>1 DEF NoLeaverIsBack
  <2> QED BY <2>1, <2>2, <2>3, AdmissionKept DEF BareLeave
<1>6. CASE CommitDeleteGroup(q)
  <2>1. /\ admitted' = admitted /\ marker' = marker
        /\ member' = [member EXCEPT ![q.by] = NoRow]
    BY <1>6 DEF CommitDeleteGroup
  <2>2. Members' \subseteq Members
    BY <2>1, <1>g DEF Members
  <2> QED BY <2>1, <2>2, AdmissionKept
<1>7. CASE SweepGroup(q)
  <2>1. Members' = {} /\ ~BareLeave'
    BY <1>7, <1>g DEF SweepGroup, Members, BareLeave
  <2> QED BY <2>1, AdmissionKept
<1>8. CASE \/ CommitComplete(q) \/ CommitConvert(q) \/ CommitRotateKeys(q)
           \/ CommitDeleteAccount(q) \/ Drop(q)
  <2>1. /\ member' = member /\ admitted' = admitted
        /\ marker' = marker \/ marker' = NoMarker
    BY <1>8 DEF CommitComplete, CommitConvert, CommitRotateKeys, CommitDeleteAccount,
       Drop, groupRows
  <2>2. Members' = Members /\ (marker' = NoMarker => ~BareLeave')
    BY <2>1 DEF Members, BareLeave
  <2> QED BY <2>1, <2>2, AdmissionKept
<1> QED BY <1>1, <1>2, <1>3, <1>4, <1>5, <1>6, <1>7, <1>8

\* The handlers that are one transaction.
LEMMA AdmissionHandlers ==
  TypeOK /\ NoLeaverIsBack /\ AdmissionInv /\ Handlers => AdmissionInv'
<1> SUFFICES ASSUME TypeOK, NoLeaverIsBack, AdmissionInv, Handlers PROVE AdmissionInv'
  OBVIOUS
<1>g. member \in [User -> Row] /\ \A w \in User : member[w].gen + 1 \in Nat /\ member[w].gen \in Nat
  BY DEF TypeOK, Row
<1>v. \A w \in User, g \in Nat : MovedTo(w, g).role = member[w].role
  BY MovedFields
<1>1. ASSUME NEW i \in User, NEW v \in User, CompleteInvite(i, v) PROVE AdmissionInv'
  <2>1. /\ admitted' = admitted \cup {v} /\ marker' = marker
        /\ member' = [member EXCEPT ![v] = NewMember(i, v)]
    BY <1>1 DEF CompleteInvite
  <2>2. Members' \subseteq Members \cup {v}
    BY <2>1, <1>g DEF Members
  <2> QED BY <2>1, <2>2, AdmissionKept
<1>2. ASSUME NEW i \in User, NEW v \in User, ReadmitMember(i, v) PROVE AdmissionInv'
  <2>1. admitted \subseteq admitted' /\ marker' = marker /\ Members' = Members
    BY <1>2 DEF ReadmitMember, Members
  <2> QED BY <2>1, AdmissionKept
<1>3. ASSUME NEW i \in User, NEW v \in User,
             ApproveRewrap(i, v) \/ \E r \in Role : ChangeMemberRole(i, v, r)
      PROVE  AdmissionInv'
  <2>1. admitted' = admitted /\ marker' = marker
    BY <1>3 DEF ApproveRewrap, ChangeMemberRole
  <2>2. Members' \subseteq Members
    BY <1>3, <1>g, <1>v DEF ApproveRewrap, ChangeMemberRole, Members
  <2> QED BY <2>1, <2>2, AdmissionKept
<1>4. ASSUME NEW u \in User, TakeOverLeaveRotation(u) PROVE AdmissionInv'
  <2>1. /\ BareLeave /\ member[u].role = "admin"
        /\ admitted' = admitted \ {marker.removed}
        /\ marker' = [gen |-> member[u].gen + 1, by |-> u, removed |-> marker.removed]
        /\ member' = [member EXCEPT ![u] = MovedTo(u, member[u].gen + 1)]
    BY <1>4 DEF TakeOverLeaveRotation, Mint, MintAllowed, AdminAt, IsAdmin
  <2>2. Members' = Members /\ marker.removed \notin Members /\ u \in Members
    BY <2>1, <1>g, <1>v DEF Members, NoLeaverIsBack
  <2>3. ~BareLeave'
    BY <2>1, <2>2 DEF BareLeave
  <2> QED BY <2>1, <2>2, <2>3, AdmissionKept
<1>5. ASSUME NEW u \in User, NEW batch \in SUBSET User, RewrapMembers(u, batch)
      PROVE  AdmissionInv'
  <2>1. /\ admitted' = admitted /\ marker' = marker
        /\ member' = [v \in User |->
             IF v \in batch THEN [member[v] EXCEPT !.gen = member[u].gen] ELSE member[v]]
    BY <1>5 DEF RewrapMembers
  <2>2. Members' \subseteq Members
    BY <2>1, <1>g DEF Members, Row
  <2> QED BY <2>1, <2>2, AdmissionKept
<1>6. ASSUME NEW u \in User,
             SelfWrap(u) \/ DeleteHandoff(u) \/ \E k \in 1..MaxKey : PutHandoff(u, k)
      PROVE  AdmissionInv'
  <2>1. admitted' = admitted /\ marker' = marker
    BY <1>6 DEF SelfWrap, PutHandoff, DeleteHandoff, groupRows
  <2>2. Members' \subseteq Members
    BY <1>6, <1>g, <1>v DEF SelfWrap, PutHandoff, DeleteHandoff, groupRows, Members
  <2> QED BY <2>1, <2>2, AdmissionKept
<1> QED BY <1>1, <1>2, <1>3, <1>4, <1>5, <1>6 DEF Handlers

\* The inductive step.
LEMMA AdmissionNext ==
  TypeOK /\ RequestInv /\ NoLeaverIsBack /\ AdmissionInv /\ [Next]_vars => AdmissionInv'
<1>1. Reads \/ UNCHANGED vars => (AdmissionInv => AdmissionInv')
  BY ReadsChangeNothing
  DEF vars, groupRows, AdmissionInv, EveryMemberAdmitted, LeaverStillAdmitted, BareLeave, Members
<1> QED BY <1>1, AdmissionTransactions, AdmissionHandlers DEF Next

\* While no leaver is a member again before its leave is taken over, every
\* member has the record of who let it in, and so has a leaver whose leave still
\* waits for an admin.
THEOREM AdmissionsKept ==
  Spec /\ []NoLeaverIsBack => [](EveryMemberAdmitted /\ LeaverStillAdmitted)
<1>1. Init => TypeOK /\ RequestInv /\ AdmissionInv
  BY InitTyped
  DEF Init, RequestInv, AdmissionInv, EveryMemberAdmitted, LeaverStillAdmitted, BareLeave,
      Members, NoRow
<1>2. TypeOK /\ RequestInv /\ NoLeaverIsBack /\ AdmissionInv /\ [Next]_vars
        => (TypeOK /\ RequestInv /\ AdmissionInv)'
  BY NextTyped, RequestNext, AdmissionNext
<1>3. AdmissionInv => EveryMemberAdmitted /\ LeaverStillAdmitted
  BY DEF AdmissionInv
<1> QED BY <1>1, <1>2, <1>3, PTL DEF Spec

-----------------------------------------------------------------------------
(* What no step of the protocol ever does.  One lemma, RowSteps, classifies    *)
(* what any step may do to one row; the action properties follow from it.     *)
(* Seen from outside, every step is one of the abstract key chain's.           *)

-----------------------------------------------------------------------------
(* The five ways a row changes.                                            *)

Leaves(u) == member'[u].role = "none"

Joins(u) == /\ u \notin Members /\ mode # "gone" /\ Live(u) /\ Inviters # {}
            /\ member'[u].epoch = keyEpoch[u]

RoleChanges(u) == /\ u \in Members /\ member'[u].role # "none"
                  /\ member'[u].gen = member[u].gen
                  /\ member'[u].epoch = member[u].epoch

\* The account wraps its own entry, or an approval does: to the key it holds.
Moves(u) == /\ u \in Members
            /\ member[u].gen <= member'[u].gen
            /\ member'[u].epoch = keyEpoch[u]

\* An admin re-wraps the entry of an account that is not dormant.
Catches(u) == /\ u \in Members /\ ~Dormant(u)
              /\ member[u].gen <= member'[u].gen
              /\ member'[u].epoch = member[u].epoch

RowStep(u) == \/ member'[u] = member[u]
              \/ Leaves(u) \/ Joins(u) \/ RoleChanges(u) \/ Moves(u) \/ Catches(u)

\* MovedTo wraps to the account's present key.
LEMMA MovedEpoch ==
  ASSUME TypeOK, NEW u \in User, NEW g \in Nat
  PROVE  MovedTo(u, g).epoch = keyEpoch[u]
BY DEF TypeOK, MovedTo, Row

\* The transactions of the handlers that read first.
LEMMA RowTransactions ==
  ASSUME TypeOK, Transactions, NEW u \in User
  PROVE  RowStep(u)
<1> PICK q \in reqs :
      \/ CommitRemoveRotating(q) \/ CommitRemoveOpen(q)
      \/ CommitSelfRekey(q) \/ CommitApproveRekey(q)
      \/ CommitLeaveRotating(q) \/ CommitLeaveOpen(q)
      \/ CommitDeleteGroup(q) \/ SweepGroup(q)
      \/ CommitComplete(q) \/ CommitConvert(q)
      \/ CommitRotateKeys(q) \/ CommitDeleteAccount(q)
      \/ Drop(q)
  BY DEF Transactions
<1>q. /\ q.by \in User /\ q.who \in User \cup {NoOne}
      /\ q.gen \in Nat /\ q.gen + 1 \in Nat /\ q.gen <= q.gen + 1
  BY DEF TypeOK, Request
<1>g. member \in [User -> Row] /\ member[u].gen \in Nat
  BY DEF TypeOK, Row
<1>n. NoRow.role = "none"
  BY DEF NoRow
<1>m. \A w \in User : /\ MovedTo(w, q.gen + 1).gen = q.gen + 1
                      /\ MovedTo(w, q.gen + 1).epoch = keyEpoch[w]
  BY <1>q, MovedFields, MovedEpoch
<1>a. \A r : Mint(q.by, q.gen, r) => q.by \in Members /\ member[q.by].gen = q.gen
  BY <1>q DEF Mint, MintAllowed, AdminAt, IsAdmin, Members
<1>1. CASE CommitRemoveRotating(q)
  <2>1. /\ q.by \in Members /\ member[q.by].gen = q.gen
        /\ member' = [member EXCEPT ![q.by] = MovedTo(q.by, q.gen + 1), ![q.who] = NoRow]
    BY <1>1, <1>a DEF CommitRemoveRotating
  <2>2. CASE u = q.who
    BY <2>1, <2>2, <1>g, <1>n DEF RowStep, Leaves
  <2>3. CASE u # q.who /\ u = q.by
    BY <2>1, <2>3, <1>g, <1>q, <1>m DEF RowStep, Moves
  <2>4. CASE u # q.who /\ u # q.by
    BY <2>1, <2>4, <1>g DEF RowStep
  <2> QED BY <2>2, <2>3, <2>4
<1>2. CASE CommitSelfRekey(q)
  <2>1. /\ q.by \in Members /\ member[q.by].gen = q.gen
        /\ member' = [member EXCEPT ![q.by] = MovedTo(q.by, q.gen + 1)]
    BY <1>2, <1>a DEF CommitSelfRekey
  <2> QED BY <2>1, <1>g, <1>q, <1>m DEF RowStep, Moves
<1>3. CASE CommitApproveRekey(q)
  <2>1. /\ q.by \in Members /\ member[q.by].gen = q.gen
        /\ q.who \in Members /\ member[q.who].gen = q.gen
        /\ member' = [member EXCEPT ![q.by] = MovedTo(q.by, q.gen + 1),
                                    ![q.who] = MovedTo(q.who, q.gen + 1)]
    BY <1>3, <1>a DEF CommitApproveRekey
  <2>2. CASE u = q.by \/ u = q.who
    <3>1. member'[u] = MovedTo(u, q.gen + 1) /\ u \in Members /\ member[u].gen = q.gen
      BY <2>1, <2>2, <1>g
    <3> QED BY <3>1, <1>q, <1>m DEF RowStep, Moves
  <2>3. CASE u # q.by /\ u # q.who
    BY <2>1, <2>3, <1>g DEF RowStep
  <2> QED BY <2>2, <2>3
<1>4. CASE \/ CommitRemoveOpen(q) \/ CommitLeaveRotating(q) \/ CommitLeaveOpen(q)
           \/ CommitDeleteGroup(q)
  <2>1. \E w : member' = [member EXCEPT ![w] = NoRow]
    BY <1>4 DEF CommitRemoveOpen, CommitLeaveRotating, CommitLeaveOpen, CommitDeleteGroup
  <2> QED BY <2>1, <1>g, <1>n DEF RowStep, Leaves
<1>5. CASE SweepGroup(q)
  BY <1>5, <1>n DEF SweepGroup, RowStep, Leaves
<1>6. CASE \/ CommitComplete(q) \/ CommitConvert(q) \/ CommitRotateKeys(q)
           \/ CommitDeleteAccount(q) \/ Drop(q)
  BY <1>6 DEF CommitComplete, CommitConvert, CommitRotateKeys, CommitDeleteAccount,
     Drop, groupRows, RowStep
<1> QED BY <1>1, <1>2, <1>3, <1>4, <1>5, <1>6

\* The handlers that are one transaction.
LEMMA RowHandlers ==
  ASSUME TypeOK, Handlers, NEW x \in User
  PROVE  RowStep(x)
<1>g. /\ member \in [User -> Row]
      /\ \A w \in User : member[w].gen \in Nat /\ member[w].gen + 1 \in Nat
  BY DEF TypeOK, Row
<1>m. \A w \in User, g \in Nat : /\ MovedTo(w, g).gen = g
                                 /\ MovedTo(w, g).epoch = keyEpoch[w]
  BY MovedFields, MovedEpoch
<1>1. ASSUME NEW i \in User, NEW v \in User, CompleteInvite(i, v) PROVE RowStep(x)
  BY <1>1, <1>g DEF CompleteInvite, JoinAllowed, NewMember, RowStep, Joins
<1>2. ASSUME NEW i \in User, NEW v \in User, ReadmitMember(i, v) PROVE RowStep(x)
  BY <1>2 DEF ReadmitMember, RowStep
<1>3. ASSUME NEW i \in User, NEW v \in User, ApproveRewrap(i, v) PROVE RowStep(x)
  <2>1. /\ v \in Members /\ member[v].gen <= member[i].gen
        /\ member' = [member EXCEPT ![v] = MovedTo(v, member[i].gen)]
    BY <1>3, <1>g DEF ApproveRewrap
  <2> QED BY <2>1, <1>g, <1>m DEF RowStep, Moves
<1>4. ASSUME NEW i \in User, NEW v \in User, NEW r \in Role, ChangeMemberRole(i, v, r)
      PROVE RowStep(x)
  <2>1. v \in Members /\ member' = [member EXCEPT ![v].role = r] /\ r # "none"
    BY <1>4 DEF ChangeMemberRole, Role
  <2> QED BY <2>1, <1>g DEF RowStep, RoleChanges, Row
<1>5. ASSUME NEW u \in User, TakeOverLeaveRotation(u) PROVE RowStep(x)
  <2>1. u \in Members /\ member' = [member EXCEPT ![u] = MovedTo(u, member[u].gen + 1)]
    BY <1>5 DEF TakeOverLeaveRotation, Mint, MintAllowed, AdminAt, IsAdmin, Members
  <2> QED BY <2>1, <1>g, <1>m DEF RowStep, Moves
<1>6. ASSUME NEW u \in User, NEW batch \in SUBSET User, RewrapMembers(u, batch)
      PROVE RowStep(x)
  <2>1. /\ batch \subseteq Members
        /\ \A v \in batch : ~Dormant(v) /\ member[v].gen <= member[u].gen
        /\ member' = [v \in User |->
             IF v \in batch THEN [member[v] EXCEPT !.gen = member[u].gen] ELSE member[v]]
    BY <1>6 DEF RewrapMembers, MayRewrap
  <2> QED BY <2>1, <1>g DEF RowStep, Catches, Row
<1>7. ASSUME NEW u \in User, DeleteHandoff(u) \/ \E k \in 1..MaxKey : PutHandoff(u, k)
      PROVE RowStep(x)
  BY <1>7 DEF PutHandoff, DeleteHandoff, groupRows, RowStep
<1>8. ASSUME NEW u \in User, SelfWrap(u) PROVE RowStep(x)
  <2>1. u \in Members /\ member' = [member EXCEPT ![u] = MovedTo(u, member[u].gen)]
    BY <1>8 DEF SelfWrap
  <2> QED BY <2>1, <1>g, <1>m DEF RowStep, Moves
<1> QED BY <1>1, <1>2, <1>3, <1>4, <1>5, <1>6, <1>7, <1>8 DEF Handlers

\* Whatever step is taken, each row changes in one of these ways.
LEMMA RowSteps ==
  ASSUME TypeOK, [Next]_vars, NEW u \in User
  PROVE  RowStep(u)
<1>1. Reads \/ UNCHANGED vars => RowStep(u)
  BY ReadsChangeNothing DEF vars, groupRows, RowStep
<1> QED BY <1>1, RowTransactions, RowHandlers DEF Next

-----------------------------------------------------------------------------
\* Entry points only move forward: no interleaving of removals, re-keys,
\* takeovers and re-wraps gives a member an older key than it had.
THEOREM ForwardOnly == Spec => NeverBackward
<1>1. TypeOK /\ [Next]_vars
        => [\A u \in Members : member'[u].role # "none"
               => member[u].gen <= member'[u].gen]_vars
  <2> SUFFICES ASSUME TypeOK, [Next]_vars, NEW u \in Members, member'[u].role # "none"
               PROVE  member[u].gen <= member'[u].gen
    OBVIOUS
  <2>1. RowStep(u) /\ u \in User /\ member[u].gen \in Nat
    BY RowSteps DEF Members, TypeOK, Row
  <2> QED BY <2>1 DEF RowStep, Leaves, Joins, RoleChanges, Moves, Catches
<1> QED BY <1>1, TypeCorrect, PTL DEF Spec, NeverBackward

\* No step makes a deleted account a member, or anybody one of a group whose META
\* row is deleted (CompleteInvite, the sweeps of DeleteAccount and LeaveGroup).
THEOREM GoneStaysGone == Spec => OnlyTheLivingJoin
<1>1. TypeOK /\ [Next]_vars
        => [\A u \in User \ Members :
              u \in Members' => u \notin deleted /\ mode # "gone"]_vars
  <2> SUFFICES ASSUME TypeOK, [Next]_vars, NEW u \in User, u \notin Members,
                      u \in Members'
               PROVE  u \notin deleted /\ mode # "gone"
    OBVIOUS
  <2>1. RowStep(u) /\ member[u].role = "none" /\ member'[u].role # "none"
    BY RowSteps DEF Members, TypeOK
  <2> QED BY <2>1 DEF RowStep, Leaves, Joins, RoleChanges, Moves, Catches, Members, Live
<1> QED BY <1>1, TypeCorrect, PTL DEF Spec, OnlyTheLivingJoin

-----------------------------------------------------------------------------
(* A row is never ahead of its account: this makes "not dormant" mean       *)
(* "wrapped to the present key".                                           *)

EpochInv == \A u \in Members : member[u].epoch <= keyEpoch[u]

\* Only CommitRotateKeys writes a key epoch, and it counts up.
LEMMA EpochGrows ==
  ASSUME TypeOK, [Next]_vars, NEW u \in User
  PROVE  keyEpoch[u] <= keyEpoch'[u]
<1>e. keyEpoch \in [User -> Nat] /\ keyEpoch[u] \in Nat
  BY DEF TypeOK
<1>1. ASSUME NEW q \in reqs, CommitRotateKeys(q) PROVE keyEpoch[u] <= keyEpoch'[u]
  BY <1>1, <1>e DEF CommitRotateKeys
<1>2. Transactions => \/ keyEpoch' = keyEpoch
                      \/ \E q \in reqs : CommitRotateKeys(q)
  BY DEF Transactions, CommitRemoveRotating, CommitRemoveOpen, CommitSelfRekey,
     CommitApproveRekey, CommitLeaveRotating, CommitLeaveOpen, CommitDeleteGroup,
     SweepGroup, CommitComplete, CommitConvert, CommitDeleteAccount, Drop, accountRows
<1>3. Handlers => keyEpoch' = keyEpoch
  BY DEF Handlers, CompleteInvite, ReadmitMember, ApproveRewrap, ChangeMemberRole,
     TakeOverLeaveRotation, RewrapMembers, PutHandoff, DeleteHandoff, SelfWrap, accountRows
<1>4. Reads \/ UNCHANGED vars => keyEpoch' = keyEpoch
  BY ReadsChangeNothing DEF vars, accountRows
<1> QED BY <1>1, <1>2, <1>3, <1>4, <1>e DEF Next

\* The inductive step of EpochInv.
LEMMA EpochNext == TypeOK /\ TypeOK' /\ EpochInv /\ [Next]_vars => EpochInv'
<1> SUFFICES ASSUME TypeOK, TypeOK', EpochInv, [Next]_vars, NEW u \in User,
                    member'[u].role # "none"
             PROVE  member'[u].epoch <= keyEpoch'[u]
  BY DEF EpochInv, Members
<1>1. RowStep(u) /\ keyEpoch[u] <= keyEpoch'[u]
      /\ (member[u].role # "none" => member[u].epoch <= keyEpoch[u])
  BY RowSteps, EpochGrows DEF EpochInv, Members
<1>2. /\ member[u].epoch \in Nat /\ member'[u].epoch \in Nat
      /\ keyEpoch[u] \in Nat /\ keyEpoch'[u] \in Nat
  BY DEF TypeOK, Row
<1> QED BY <1>1, <1>2
  DEF RowStep, Leaves, Joins, RoleChanges, Moves, Catches, Members

\* Whoever writes an entry point wraps it to the key its account holds at that
\* moment, so no completed write leaves a member unable to open its own row.
THEOREM WrapsCurrent == Spec => WrapsAreCurrent
<1>1. Init => TypeOK /\ EpochInv
  BY InitTyped DEF Init, EpochInv, Members, NoRow
<1>2. TypeOK /\ EpochInv /\ [Next]_vars => (TypeOK /\ EpochInv)'
  BY NextTyped, EpochNext
<1>3. TypeOK /\ EpochInv /\ [Next]_vars
        => [\A u \in User :
              /\ member'[u].role # "none"
              /\ <<member[u].gen, member[u].epoch>> # <<member'[u].gen, member'[u].epoch>>
              => member'[u].epoch = keyEpoch[u]]_vars
  <2> SUFFICES ASSUME TypeOK, EpochInv, [Next]_vars, NEW u \in User,
                      member'[u].role # "none",
                      member[u].gen # member'[u].gen \/ member[u].epoch # member'[u].epoch
               PROVE  member'[u].epoch = keyEpoch[u]
    OBVIOUS
  <2>1. RowStep(u) /\ (u \in Members => member[u].epoch <= keyEpoch[u])
    BY RowSteps DEF EpochInv
  <2>2. member[u].epoch \in Nat /\ keyEpoch[u] \in Nat
    BY DEF TypeOK, Row
  <2> QED BY <2>1, <2>2
    DEF RowStep, Leaves, Joins, RoleChanges, Moves, Catches, Dormant
<1> QED BY <1>1, <1>2, <1>3, PTL DEF Spec, WrapsAreCurrent

-----------------------------------------------------------------------------
(* The marker.                                                             *)

\* The only steps that write the marker.
MarkerStep ==
  \/ marker' = marker /\ links' = links
  \/ marker' = NoMarker /\ links' = {}
  \/ marker' = NoMarker /\ links' = links
  \/ \E q \in reqs : CommitLeaveRotating(q)
  \/ marker = NoMarker
     /\ \E u \in User, g \in Nat, r \in User \cup {NoOne} : Mint(u, g, r)
  \/ \E u \in User : TakeOverLeaveRotation(u)

\* Whatever step is taken, the marker and the links change in one of these ways.
LEMMA MarkerSteps == TypeOK /\ [Next]_vars => MarkerStep
<1> SUFFICES ASSUME TypeOK, [Next]_vars PROVE MarkerStep
  OBVIOUS
<1>1. Reads \/ UNCHANGED vars => MarkerStep
  BY ReadsChangeNothing DEF vars, groupRows, MarkerStep
<1>2. Handlers => MarkerStep
  BY DEF Handlers, CompleteInvite, ReadmitMember, ApproveRewrap, ChangeMemberRole,
     RewrapMembers, PutHandoff, DeleteHandoff, SelfWrap, groupRows, MarkerStep
<1>3. ASSUME NEW q \in reqs,
             \/ CommitRemoveRotating(q) \/ CommitSelfRekey(q) \/ CommitApproveRekey(q)
      PROVE  MarkerStep
  <2>1. q.by \in User /\ q.who \in User \cup {NoOne} /\ q.gen \in Nat
    BY DEF TypeOK, Request
  <2>2. marker = NoMarker /\ (Mint(q.by, q.gen, q.who) \/ Mint(q.by, q.gen, NoOne))
    BY <1>3 DEF CommitRemoveRotating, RemovalStart, CommitSelfRekey, CommitApproveRekey
  <2> QED BY <2>1, <2>2 DEF MarkerStep
<1>4. Transactions => MarkerStep
  BY <1>3 DEF Transactions, CommitRemoveOpen, CommitLeaveOpen, CommitDeleteGroup,
     SweepGroup, CommitComplete, CommitConvert, CommitRotateKeys, CommitDeleteAccount,
     Drop, groupRows, MarkerStep
<1> QED BY <1>1, <1>2, <1>4 DEF Next

\* A running rotation is never replaced by another: only its completion, the
\* group's sweep, or the takeover of a leave no one has claimed ends its marker.
THEOREM OneAtATime == Spec => OneRotationAtATime
<1>1. TypeOK /\ [Next]_vars
        => [marker # NoMarker /\ marker' # marker
              => \/ marker' = NoMarker
                 \/ /\ BareLeave
                    /\ marker' = [marker EXCEPT !.by = marker'.by]
                    /\ marker'.by # marker.by]_vars
  <2> SUFFICES ASSUME TypeOK, [Next]_vars, marker # NoMarker, marker' # marker,
                      marker' # NoMarker
               PROVE  /\ BareLeave
                      /\ marker' = [marker EXCEPT !.by = marker'.by]
                      /\ marker'.by # marker.by
    OBVIOUS
  <2>1. \A q \in reqs : ~CommitLeaveRotating(q)
    BY DEF CommitLeaveRotating, LeaveStart
  <2> PICK u \in User : TakeOverLeaveRotation(u)
    BY <2>1, MarkerSteps DEF MarkerStep
  <2>2. /\ BareLeave /\ marker.gen = member[u].gen + 1
        /\ marker' = [gen |-> member[u].gen + 1, by |-> u, removed |-> marker.removed]
    BY DEF TakeOverLeaveRotation, Mint
  <2>3. marker \in Marker
    BY DEF TypeOK
  <2>4. marker' = [marker EXCEPT !.by = u] /\ marker'.by = u
    BY <2>2, <2>3 DEF Marker
  <2>5. u # marker.by
    BY <2>3, <2>4 DEF Marker
  <2> QED BY <2>2, <2>4, <2>5
<1> QED BY <1>1, TypeCorrect, PTL DEF Spec, OneRotationAtATime

\* A leave that nobody has taken over is one a leave just wrote, or was there.
LEMMA BareLeaveSteps ==
  ASSUME TypeOK, RequestInv, NoLeaverIsBack, [Next]_vars, BareLeave'
  PROVE  \/ BareLeave /\ marker' = marker
         \/ \E q \in reqs : CommitLeaveRotating(q)
<1>1. ASSUME NEW q \in reqs,
             \/ CommitRemoveRotating(q) \/ CommitSelfRekey(q) \/ CommitApproveRekey(q)
      PROVE  FALSE
  <2>1. q.by \in User /\ NamesAnother(q)
    BY DEF TypeOK, Request, RequestInv
  <2> QED BY <1>1, <2>1, UserAssumption
      DEF CommitRemoveRotating, RemovalStart, CommitSelfRekey, CommitApproveRekey, Mint,
          NamesAnother, BareLeave
<1>2. ASSUME NEW u \in User, TakeOverLeaveRotation(u) PROVE FALSE
  BY <1>2 DEF TakeOverLeaveRotation, Mint, MintAllowed, AdminAt, IsAdmin, Members,
     NoLeaverIsBack, BareLeave
<1>3. marker' # NoMarker
  BY DEF BareLeave
<1>4. marker' = marker => BareLeave
  BY DEF BareLeave
<1>5. CASE Transactions
  BY <1>5, <1>1, <1>3, <1>4 DEF Transactions, CommitRemoveOpen, CommitLeaveOpen,
     CommitDeleteGroup, SweepGroup, CommitComplete, CommitConvert, CommitRotateKeys,
     CommitDeleteAccount, Drop, groupRows
<1>6. CASE Handlers
  BY <1>6, <1>2, <1>4 DEF Handlers, CompleteInvite, ReadmitMember, ApproveRewrap,
     ChangeMemberRole, RewrapMembers, PutHandoff, DeleteHandoff, SelfWrap, groupRows
<1>7. CASE Reads \/ UNCHANGED vars
  BY <1>7, <1>4, ReadsChangeNothing DEF vars, groupRows
<1> QED BY <1>5, <1>6, <1>7 DEF Next

\* Where nobody leaves, or nobody is let in, no leaver is ever back.
ReturnInv ==
  /\ \A q \in reqs : q.op = "leave" => q.by \in Leavers
  /\ BareLeave => Leavers # {} /\ marker.removed \notin Members

LEMMA ReturnNext ==
  ASSUME Leavers = {} \/ Inviters = {}
  PROVE  TypeOK /\ RequestInv /\ ReturnInv /\ [Next]_vars => ReturnInv'
<1> SUFFICES ASSUME TypeOK, RequestInv, ReturnInv, [Next]_vars PROVE ReturnInv'
  OBVIOUS
<1>1. ASSUME NEW q \in reqs', q.op = "leave", q \notin reqs PROVE q.by \in Leavers
  <2>1. \A o \in Op, u \in User : Req(o, u).op = o /\ Req(o, u).by = u
    BY DEF Req
  <2>2. CASE Reads
    <3> PICK u \in User :
          \/ \E v \in User : BeginRemove(u, v) \/ BeginApproveRekey(u, v)
          \/ BeginSelfRekey(u) \/ BeginLeave(u) \/ BeginLastLeave(u)
          \/ BeginComplete(u) \/ BeginConvert(u) \/ BeginDeleteAccount(u)
          \/ \E k \in 1..MaxKey : BeginRotateKeys(u, k)
      BY <2>2 DEF Reads
    <3>1. ASSUME NEW r, Begin(r) PROVE q = r
      BY <3>1, <1>1 DEF Begin
    <3>2. CASE BeginLeave(u)
      <4>1. u \in Leavers
        BY <3>2 DEF BeginLeave
      <4>2. PICK s \in Members \cup {NoOne} :
              Begin([Req("leave", u) EXCEPT !.who = s, !.role = member[u].role,
                                            !.rotating = (mode = "rotating")])
        BY <3>2 DEF BeginLeave
      <4>3. q.by = u
        BY <4>2, <3>1 DEF Req
      <4> QED BY <4>1, <4>3
    <3>3. ~BeginSelfRekey(u) /\ ~BeginLastLeave(u) /\ ~BeginComplete(u) /\ ~BeginConvert(u)
      BY <3>1, <2>1, <1>1 DEF BeginSelfRekey, BeginLastLeave, BeginComplete, BeginConvert, Op
    <3>4. ~BeginDeleteAccount(u)
      BY <3>1, <1>1 DEF BeginDeleteAccount, Req
    <3>5. \A v \in User : ~BeginRemove(u, v) /\ ~BeginApproveRekey(u, v)
      BY <3>1, <1>1 DEF BeginRemove, BeginApproveRekey, Req
    <3>6. \A k \in 1..MaxKey : ~BeginRotateKeys(u, k)
      BY <3>1, <1>1 DEF BeginRotateKeys, Req
    <3> QED BY <3>2, <3>3, <3>4, <3>5, <3>6
  <2>3. CASE Transactions
    <3>1. \A p \in reqs : p \in Request
      BY DEF TypeOK
    <3>2. \A p \in reqs : CommitDeleteGroup(p) => q.op = "sweepGroup"
      BY <1>1, <3>1 DEF CommitDeleteGroup, Request
    <3> QED BY <2>3, <1>1, <3>2 DEF Transactions, CommitRemoveRotating, CommitRemoveOpen,
        CommitSelfRekey, CommitApproveRekey, CommitLeaveRotating, CommitLeaveOpen,
        LeaveAllowed, SweepGroup, CommitComplete, CommitConvert, CommitRotateKeys,
        CommitDeleteAccount, Drop, Done
  <2>4. CASE Handlers
    BY <2>4, <1>1 DEF Handlers, CompleteInvite, ReadmitMember, ApproveRewrap,
       ChangeMemberRole, TakeOverLeaveRotation, RewrapMembers, PutHandoff, DeleteHandoff,
       SelfWrap, BumpHandoffSeq
  <2> QED BY <2>2, <2>3, <2>4, <1>1 DEF Next, vars
<1>2. ASSUME BareLeave' PROVE Leavers # {} /\ marker'.removed \notin Members'
  <2>1. CASE BareLeave /\ marker' = marker
    <3>1. Inviters = {} /\ marker.removed \notin Members
      BY <2>1 DEF ReturnInv
    <3>2. \A u \in User : RowStep(u)
      BY RowSteps
    <3>3. Members' \subseteq Members
      BY <3>1, <3>2 DEF Members, RowStep, Leaves, Joins, RoleChanges, Moves, Catches
    <3> QED BY <2>1, <3>1, <3>3 DEF ReturnInv
  <2>2. ASSUME NEW q \in reqs, CommitLeaveRotating(q)
        PROVE  Leavers # {} /\ marker'.removed \notin Members'
    <3>1. q.op = "leave" /\ marker'.removed = q.by /\ member' = [member EXCEPT ![q.by] = NoRow]
      BY <2>2 DEF CommitLeaveRotating, LeaveAllowed
    <3> QED BY <3>1 DEF ReturnInv, Members, TypeOK, NoRow
  <2> QED BY <1>2, <2>1, <2>2, BareLeaveSteps DEF ReturnInv, NoLeaverIsBack
<1> QED BY <1>1, <1>2 DEF ReturnInv

\* So in such a group nobody is left in it without the record of who let it in.
THEOREM AdmittedWhereNoneReturn ==
  ASSUME Leavers = {} \/ Inviters = {}
  PROVE  Spec => [](EveryMemberAdmitted /\ LeaverStillAdmitted)
<1>1. Init => TypeOK /\ RequestInv /\ ReturnInv
  BY InitTyped DEF Init, RequestInv, ReturnInv, BareLeave
<1>2. TypeOK /\ RequestInv /\ ReturnInv /\ [Next]_vars => (TypeOK /\ RequestInv /\ ReturnInv)'
  BY NextTyped, RequestNext, ReturnNext
<1>3. ReturnInv => NoLeaverIsBack
  BY DEF ReturnInv, NoLeaverIsBack
<1> QED BY <1>1, <1>2, <1>3, AdmissionsKept, PTL DEF Spec

\* The inductive form of ClaimedMarkerIsCurrent: the chain ends where the
\* marker stands.
ClaimedInv ==
  marker # NoMarker /\ marker.by # marker.removed => links = 0..(marker.gen - 1)

\* A start writes the marker one above the link it adds to the chain.
LEMMA MintExtends ==
  ASSUME TypeOK, ChainInv, NEW u \in User, NEW g \in Nat, NEW r, Mint(u, g, r)
  PROVE  links' = 0..(marker'.gen - 1)
<1> PICK k \in Nat : ChainIs(k)
  BY DEF ChainInv
<1>1. /\ u \in Members /\ member[u].gen = g /\ g \notin links
      /\ links' = links \cup {g} /\ marker'.gen = g + 1
  BY DEF Mint, MintAllowed, AdminAt, IsAdmin, Members
<1>2. g = k
  BY <1>1 DEF ChainIs
<1> QED BY <1>1, <1>2 DEF ChainIs

\* The inductive step of ClaimedInv.
LEMMA ClaimedNext == TypeOK /\ ChainInv /\ ClaimedInv /\ [Next]_vars => ClaimedInv'
<1> SUFFICES ASSUME TypeOK, ChainInv, ClaimedInv, MarkerStep PROVE ClaimedInv'
  BY MarkerSteps
<1>1. ASSUME NEW q \in reqs, CommitLeaveRotating(q) PROVE ClaimedInv'
  BY <1>1 DEF CommitLeaveRotating, ClaimedInv
<1>2. ASSUME NEW u \in User, NEW g \in Nat, NEW r \in User \cup {NoOne}, Mint(u, g, r)
      PROVE  ClaimedInv'
  BY <1>2, MintExtends DEF ClaimedInv
<1>3. ASSUME NEW u \in User, TakeOverLeaveRotation(u) PROVE ClaimedInv'
  <2>1. /\ member[u].gen \in Nat /\ marker.removed \in User \cup {NoOne}
        /\ Mint(u, member[u].gen, marker.removed)
    BY <1>3 DEF TakeOverLeaveRotation, TypeOK, Row, Marker
  <2> QED BY <2>1, <1>2
<1>4. marker' = NoMarker \/ (marker' = marker /\ links' = links) => ClaimedInv'
  BY DEF ClaimedInv
<1>5. CASE \E q \in reqs : CommitLeaveRotating(q)
  BY <1>5, <1>1
<1>6. CASE \E u \in User, g \in Nat, r \in User \cup {NoOne} : Mint(u, g, r)
  BY <1>6, <1>2
<1>7. CASE \E u \in User : TakeOverLeaveRotation(u)
  BY <1>7, <1>3
<1> QED BY <1>4, <1>5, <1>6, <1>7 DEF MarkerStep

\* A rotation that has a key runs towards the group's current generation: an
\* admin whose entry is at the marker's generation holds the newest key.
THEOREM ClaimedCurrent == Spec => []ClaimedMarkerIsCurrent
<1>1. Init => TypeOK /\ ChainInv /\ ClaimedInv
  BY InitTyped, ChainInit DEF Init, ClaimedInv
<1>2. TypeOK /\ ChainInv /\ ClaimedInv /\ [Next]_vars => (TypeOK /\ ChainInv /\ ClaimedInv)'
  BY NextTyped, ChainNext, ClaimedNext
<1>3. TypeOK /\ ClaimedInv => ClaimedMarkerIsCurrent
  <2> SUFFICES ASSUME TypeOK, ClaimedInv, marker # NoMarker, ~BareLeave
               PROVE  marker.gen = CurrentGeneration
    BY DEF ClaimedMarkerIsCurrent
  <2>1. marker.gen \in Nat /\ links = 0..(marker.gen - 1)
    BY DEF TypeOK, Marker, ClaimedInv, BareLeave
  <2> QED BY <2>1, CurrentOfPrefix
<1> QED BY <1>1, <1>2, <1>3, PTL DEF Spec

-----------------------------------------------------------------------------
(* Handoff rows.  A key change in flight that was checked while its account *)
(* owed a row finds the row it was checked against, or none; its own key is *)
(* newer than the account's.  Every PUT and DELETE of a row ends it.        *)

KeyChangeInv(q) ==
  /\ q.gen <= keyEpoch[q.by]
  /\ q.gen = keyEpoch[q.by]
       => /\ q.key > wrapKey[q.by]
          /\ OwedWhenRead(q) => handoff[q.by].key \in {q.key, 0}

HandoffInv ==
  /\ \A u \in User : wrapKey[u] > 0
  /\ \A q \in reqs : q.op = "rotateKeys" => KeyChangeInv(q)

\* What a read records of a key change it checks.
LEMMA HandoffReads == TypeOK /\ HandoffInv /\ Reads => HandoffInv'
<1> SUFFICES ASSUME TypeOK, HandoffInv, Reads, NEW p \in reqs', p.op = "rotateKeys",
                    p \notin reqs
             PROVE  KeyChangeInv(p)
  BY ReadsChangeNothing DEF HandoffInv, KeyChangeInv, accountRows
<1> PICK u \in User :
      \/ \E v \in User : BeginRemove(u, v) \/ BeginApproveRekey(u, v)
      \/ BeginSelfRekey(u) \/ BeginLeave(u) \/ BeginLastLeave(u)
      \/ BeginComplete(u) \/ BeginConvert(u) \/ BeginDeleteAccount(u)
      \/ \E k \in 1..MaxKey : BeginRotateKeys(u, k)
  BY DEF Reads
<1>1. \E k \in 1..MaxKey : BeginRotateKeys(u, k)
  <2>1. ASSUME NEW q, Begin(q), q.op # "rotateKeys" PROVE FALSE
    BY <2>1 DEF Begin
  <2>2. \A op \in Op : Req(op, u).op = op
    BY DEF Req
  <2>3. ~BeginSelfRekey(u) /\ ~BeginLastLeave(u) /\ ~BeginComplete(u) /\ ~BeginConvert(u)
    BY <2>1, <2>2 DEF BeginSelfRekey, BeginLastLeave, BeginComplete, BeginConvert, Op
  <2>4. ~BeginDeleteAccount(u) /\ ~BeginLeave(u)
    BY <2>1 DEF BeginDeleteAccount, BeginLeave, Req
  <2>5. \A v \in User : ~BeginRemove(u, v) /\ ~BeginApproveRekey(u, v)
    BY <2>1 DEF BeginRemove, BeginApproveRekey, Req
  <2> QED BY <2>3, <2>4, <2>5
<1> PICK k \in 1..MaxKey : BeginRotateKeys(u, k)
  BY <1>1
<1> DEFINE q == [Req("rotateKeys", u) EXCEPT !.gen = keyEpoch[u], !.key = k,
                   !.role = member[u].role, !.rotating = (mode = "rotating")]
<1>2. p = q /\ mode # "gone"
  BY DEF BeginRotateKeys, Begin
<1>3. /\ p.by = u /\ p.gen = keyEpoch[u] /\ p.key = k
      /\ p.role = member[u].role /\ p.rotating = (mode = "rotating")
  BY <1>2 DEF Req
<1>4. OwedWhenRead(p) => OwesHandoff(u)
  BY <1>2, <1>3 DEF OwedWhenRead, OwesHandoff, IsAdmin, Members, TypeOK
<1>5. k > wrapKey[u] /\ (OwesHandoff(u) => handoff[u].key = k)
  <2>1. /\ k > wrapKey[u]
        /\ OwesHandoff(u) => handoff[u] = [gen |-> CurrentGeneration, key |-> k]
    BY Zenon DEF BeginRotateKeys
  <2> QED BY <2>1
<1>6. keyEpoch[u] \in Nat
  BY DEF TypeOK
<1> QED BY <1>3, <1>4, <1>5, <1>6 DEF KeyChangeInv, OwedWhenRead

\* A step that ends handoff rows and changes no key.
LEMMA HandoffEnded ==
  ASSUME HandoffInv, reqs' \subseteq reqs,
         keyEpoch' = keyEpoch, wrapKey' = wrapKey,
         \A q \in reqs' : handoff'[q.by] = handoff[q.by] \/ handoff'[q.by] = NoHandoff
  PROVE  HandoffInv'
<1> SUFFICES ASSUME NEW q \in reqs', q.op = "rotateKeys" PROVE KeyChangeInv(q)'
  BY DEF HandoffInv
<1>1. KeyChangeInv(q)
  BY DEF HandoffInv
<1>2. handoff'[q.by].key = handoff[q.by].key \/ handoff'[q.by].key = 0
  BY DEF NoHandoff
<1> QED BY <1>1, <1>2 DEF KeyChangeInv, OwedWhenRead

\* The transactions of the handlers that read first.
LEMMA HandoffTransactions == TypeOK /\ HandoffInv /\ Transactions => HandoffInv'
<1> SUFFICES ASSUME TypeOK, HandoffInv, NEW q \in reqs,
                    \/ CommitRemoveRotating(q) \/ CommitRemoveOpen(q)
                    \/ CommitSelfRekey(q) \/ CommitApproveRekey(q)
                    \/ CommitLeaveRotating(q) \/ CommitLeaveOpen(q)
                    \/ CommitDeleteGroup(q) \/ SweepGroup(q)
                    \/ CommitComplete(q) \/ CommitConvert(q)
                    \/ CommitRotateKeys(q) \/ CommitDeleteAccount(q)
                    \/ Drop(q)
             PROVE  HandoffInv'
  BY DEF Transactions
<1>h. /\ handoff \in [User -> Handoff] /\ \A p \in reqs : p.by \in User
      /\ \A p \in reqs : p.key \in Nat /\ p.gen \in Nat
      /\ \A u \in User : keyEpoch[u] \in Nat /\ wrapKey[u] \in Nat
      /\ keyEpoch \in [User -> Nat] /\ wrapKey \in [User -> Nat]
  BY DEF TypeOK, Request
<1>1. CASE CommitRemoveRotating(q) \/ CommitSelfRekey(q) \/ CommitDeleteAccount(q)
  <2>1. /\ reqs' \subseteq reqs /\ keyEpoch' = keyEpoch /\ wrapKey' = wrapKey
        /\ handoff' = [handoff EXCEPT ![q.by] = NoHandoff]
    BY <1>1 DEF CommitRemoveRotating, CommitSelfRekey, CommitDeleteAccount, Done
  <2> QED BY <2>1, <1>h, HandoffEnded
<1>2. CASE \/ CommitRemoveOpen(q) \/ CommitApproveRekey(q) \/ CommitLeaveRotating(q)
           \/ CommitLeaveOpen(q) \/ SweepGroup(q) \/ CommitComplete(q)
           \/ CommitConvert(q) \/ Drop(q)
  <2>1. reqs' \subseteq reqs /\ UNCHANGED accountRows
    BY <1>2 DEF CommitRemoveOpen, CommitApproveRekey, CommitLeaveRotating, CommitLeaveOpen,
       LeaveAllowed, SweepGroup, CommitComplete, CommitConvert, Drop, Done
  <2> QED BY <2>1, HandoffEnded DEF accountRows
<1>3. CASE CommitDeleteGroup(q)
  <2>0. [q EXCEPT !.op = "sweepGroup"].op = "sweepGroup"
    BY DEF TypeOK, Request
  <2>1. /\ UNCHANGED accountRows
        /\ \A p \in reqs' : p \in reqs \/ p.op = "sweepGroup"
    BY <1>3, <2>0 DEF CommitDeleteGroup
  <2> QED BY <2>1 DEF accountRows, HandoffInv, KeyChangeInv, OwedWhenRead
<1>4. CASE CommitRotateKeys(q)
  <2>1. /\ q.op = "rotateKeys" /\ reqs' \subseteq reqs /\ q.gen = keyEpoch[q.by]
        /\ keyEpoch' = [keyEpoch EXCEPT ![q.by] = @ + 1]
        /\ wrapKey' = [wrapKey EXCEPT ![q.by] = q.key]
        /\ \A u \in User \ {q.by} : handoff'[u] = handoff[u]
    BY <1>4, <1>h DEF CommitRotateKeys, Done
  <2>2. q.key > wrapKey[q.by] /\ wrapKey[q.by] > 0
    BY <2>1, <1>h DEF HandoffInv, KeyChangeInv
  <2>3. \A u \in User : wrapKey'[u] > 0
    BY <2>1, <2>2, <1>h DEF HandoffInv
  <2>4. ASSUME NEW p \in reqs', p.op = "rotateKeys" PROVE KeyChangeInv(p)'
    <3>1. KeyChangeInv(p) /\ p \in reqs
      BY <2>1, <2>4 DEF HandoffInv
    <3>2. CASE p.by = q.by
      <4>1. p.gen < keyEpoch'[p.by] /\ keyEpoch'[p.by] \in Nat
        BY <2>1, <3>1, <3>2, <1>h DEF KeyChangeInv
      <4> QED BY <4>1, <3>1, <1>h DEF KeyChangeInv, OwedWhenRead
    <3>3. CASE p.by # q.by
      <4>1. /\ keyEpoch'[p.by] = keyEpoch[p.by] /\ wrapKey'[p.by] = wrapKey[p.by]
            /\ handoff'[p.by] = handoff[p.by]
        BY <2>1, <3>1, <3>3, <1>h
      <4> QED BY <4>1, <3>1 DEF KeyChangeInv, OwedWhenRead
    <3> QED BY <3>2, <3>3
  <2> QED BY <2>3, <2>4 DEF HandoffInv
<1> QED BY <1>1, <1>2, <1>3, <1>4

\* The handlers that are one transaction.
LEMMA HandoffHandlers == TypeOK /\ HandoffInv /\ Handlers => HandoffInv'
<1> SUFFICES ASSUME TypeOK, HandoffInv, Handlers PROVE HandoffInv'
  OBVIOUS
<1>h. handoff \in [User -> Handoff] /\ \A p \in reqs : p.by \in User
  BY DEF TypeOK, Request
<1>1. ASSUME NEW u \in User,
             \/ DeleteHandoff(u)
             \/ \E k \in 1..MaxKey : PutHandoff(u, k)
      PROVE  HandoffInv'
  <2>1. /\ keyEpoch' = keyEpoch /\ wrapKey' = wrapKey
        /\ reqs' = {q \in reqs : ~(q.op = "rotateKeys" /\ q.by = u)}
        /\ \A v \in User \ {u} : handoff'[v] = handoff[v]
    BY <1>1, <1>h DEF PutHandoff, DeleteHandoff, BumpHandoffSeq
  <2> QED BY <2>1, <1>h DEF HandoffInv, KeyChangeInv, OwedWhenRead
<1>2. ASSUME NEW u \in User, TakeOverLeaveRotation(u) \/ SelfWrap(u) PROVE HandoffInv'
  <2>1. /\ reqs' \subseteq reqs /\ keyEpoch' = keyEpoch /\ wrapKey' = wrapKey
        /\ handoff' = [handoff EXCEPT ![u] = NoHandoff]
    BY <1>2 DEF TakeOverLeaveRotation, SelfWrap
  <2> QED BY <2>1, <1>h, HandoffEnded
<1>3. ASSUME UNCHANGED accountRows, reqs' = reqs PROVE HandoffInv'
  BY <1>3, HandoffEnded DEF accountRows
<1>4. ASSUME NEW u \in User,
             \/ \E v \in User : \/ CompleteInvite(u, v) \/ ReadmitMember(u, v)
                                \/ ApproveRewrap(u, v)
                                \/ \E r \in Role : ChangeMemberRole(u, v, r)
             \/ \E batch \in SUBSET User : RewrapMembers(u, batch)
      PROVE  HandoffInv'
  BY <1>3, <1>4 DEF CompleteInvite, ReadmitMember, ApproveRewrap, ChangeMemberRole,
     RewrapMembers
<1> QED BY <1>1, <1>2, <1>4 DEF Handlers

\* The row kept for a committed key change ends only with the start or the
\* self-wrap it was kept for, or with its account; no other key change of an
\* account that owes the row reaches its commit.
THEOREM HandoffKept == Spec => PendingRowKept
<1> DEFINE Inv == TypeOK /\ RequestInv /\ HandoffInv
<1>1. Init => Inv
  BY InitTyped DEF Init, RequestInv, HandoffInv
<1>2. Inv /\ [Next]_vars => Inv'
  <2>1. UNCHANGED vars => (HandoffInv => HandoffInv')
    BY HandoffEnded DEF vars, accountRows
  <2> QED BY <2>1, NextTyped, RequestNext, HandoffReads, HandoffTransactions, HandoffHandlers
      DEF Next
<1>3. Inv /\ [Next]_vars
        => [\A u \in User :
              /\ handoff[u].key = wrapKey[u] /\ handoff[u].gen = member[u].gen
              /\ OwesHandoff(u) /\ handoff[u].gen \notin links /\ Live(u)
              /\ handoff'[u] # handoff[u]
              => \/ member'[u].epoch = keyEpoch[u] \/ u \in deleted'
                 \/ \E q \in reqs : /\ q.op = "rotateKeys" /\ q.by = u
                                   /\ ~OwedWhenRead(q) /\ CommitRotateKeys(q)]_vars
  <2> DEFINE
        Pending(u) == /\ handoff[u].key = wrapKey[u] /\ handoff[u].gen = member[u].gen
                      /\ OwesHandoff(u) /\ handoff[u].gen \notin links /\ Live(u)
        Unowed(u) == \E q \in reqs : /\ q.op = "rotateKeys" /\ q.by = u
                                     /\ ~OwedWhenRead(q) /\ CommitRotateKeys(q)
  <2> SUFFICES ASSUME Inv, Next, NEW u \in User, Pending(u), handoff'[u] # handoff[u]
               PROVE  \/ member'[u].epoch = keyEpoch[u] \/ u \in deleted'
                      \/ Unowed(u)
    BY DEF vars, accountRows
  <2>g. /\ member \in [User -> Row] /\ handoff \in [User -> Handoff]
        /\ member[u].gen \in Nat /\ member[u].gen + 1 \in Nat /\ wrapKey[u] \in Nat
    BY DEF TypeOK, Row
  <2>m. \A g \in Nat : MovedTo(u, g).epoch = keyEpoch[u]
    BY MovedEpoch
  <2>1. ASSUME NEW q \in reqs,
               CommitRemoveRotating(q) \/ CommitSelfRekey(q)
        PROVE  member'[u].epoch = keyEpoch[u]
    <3>1. /\ u = q.by /\ q.gen + 1 \in Nat
          /\ CommitRemoveRotating(q) => q.who # u
      BY <2>1, <2>g DEF CommitRemoveRotating, CommitSelfRekey, RemovalStart, RequestInv,
         NamesAnother, TypeOK, Request
    <3>2. member'[u] = MovedTo(u, q.gen + 1)
      BY <2>1, <3>1, <2>g DEF CommitRemoveRotating, CommitSelfRekey
    <3> QED BY <3>1, <3>2, <2>m
  <2>2. ASSUME NEW q \in reqs, CommitDeleteAccount(q) PROVE u \in deleted'
    BY <2>2, <2>g DEF CommitDeleteAccount
  <2>3. ASSUME NEW q \in reqs, CommitRotateKeys(q) PROVE Unowed(u)
    <3>1. q.by = u /\ q.op = "rotateKeys" /\ q.gen = keyEpoch[u] /\ q.key \in Nat
      BY <2>3, <2>g DEF CommitRotateKeys, TypeOK, Request
    <3>2. q.key > wrapKey[u] /\ wrapKey[u] > 0
          /\ (OwedWhenRead(q) => handoff[u].key \in {q.key, 0})
      BY <3>1 DEF HandoffInv, KeyChangeInv
    <3>3. ~OwedWhenRead(q)
      BY <3>1, <3>2, <2>g
    <3> QED BY <2>3, <3>1, <3>3
  <2>4. ASSUME NEW v \in User, TakeOverLeaveRotation(v) \/ SelfWrap(v)
        PROVE  member'[u].epoch = keyEpoch[u]
    <3>1. u = v
      BY <2>4, <2>g DEF TakeOverLeaveRotation, SelfWrap
    <3>2. \E g \in Nat : member'[u] = MovedTo(u, g)
      BY <2>4, <3>1, <2>g DEF TakeOverLeaveRotation, SelfWrap
    <3> QED BY <3>2, <2>m
  <2>5. ASSUME NEW v \in User, NEW k \in 1..MaxKey, PutHandoff(v, k) PROVE FALSE
    BY <2>5, <2>g DEF PutHandoff, HandoffFree
  <2>6. ASSUME NEW v \in User, DeleteHandoff(v) PROVE FALSE
    BY <2>6, <2>g DEF DeleteHandoff
  <2>7. ASSUME UNCHANGED handoff PROVE FALSE
    BY <2>7
  <2>8. CASE Reads
    BY <2>8, <2>7, ReadsChangeNothing DEF accountRows
  <2>9. CASE Transactions
    BY <2>9, <2>1, <2>2, <2>3, <2>7 DEF Transactions, CommitRemoveOpen, CommitApproveRekey,
       CommitLeaveRotating, CommitLeaveOpen, CommitDeleteGroup, SweepGroup, CommitComplete,
       CommitConvert, Drop, accountRows
  <2>10. CASE Handlers
    BY <2>10, <2>4, <2>5, <2>6, <2>7 DEF Handlers, CompleteInvite, ReadmitMember,
       ApproveRewrap, ChangeMemberRole, RewrapMembers, accountRows
  <2> QED BY <2>8, <2>9, <2>10 DEF Next
<1> QED BY <1>1, <1>2, <1>3, PTL DEF Spec, PendingRowKept

-----------------------------------------------------------------------------
(* The handlers implement the abstract key chain: the group at its start is  *)
(* an abstract one, and every step of every handler is one of KeyChain's      *)
(* steps or changes nothing an outsider sees.  Two invariants carry it: the   *)
(* links are an unbroken prefix, so that a start mints the generation after   *)
(* the newest one, and a removal never names its own caller, so that the one  *)
(* who mints is still there to hold the key.  The same two tell who can lose  *)
(* the newest key: its last holder, by leaving.                               *)

(* What a step does to what an outsider sees.                              *)

\* The entry of a member is its generation, before and after a step.
LEMMA EntryOf ==
  /\ \A u \in User : Entry[u] = IF member[u].role # "none" THEN member[u].gen ELSE -1
  /\ \A u \in User : Entry'[u] = IF member'[u].role # "none" THEN member'[u].gen ELSE -1
BY DEF Entry, Members

\* Entries are kept for the accounts and nothing else.
LEMMA EntryMap ==
  /\ Entry = [u \in User |-> Entry[u]]
  /\ Entry' = [u \in User |-> Entry'[u]]
BY DEF Entry

\* Entries that agree everywhere are equal.
LEMMA EntrySame ==
  ASSUME \A u \in User : Entry'[u] = Entry[u]
  PROVE  Entry' = Entry
BY EntryMap

\* The generation and the rotation state depend on the links and the marker.
LEMMA SeenSame ==
  ASSUME links' = links
  PROVE  /\ CurrentGeneration' = CurrentGeneration
         /\ marker' = marker => Settled' = Settled
BY DEF CurrentGeneration, Settled

\* A step that moves no member to another generation is not seen.
LEMMA UnseenStep ==
  ASSUME links' = links, marker' = marker,
         \A u \in User : /\ member'[u].gen = member[u].gen
                         /\ member'[u].role = "none" <=> member[u].role = "none"
  PROVE  UNCHANGED Chain!chainVars
BY EntryOf, EntrySame, SeenSame DEF Chain!chainVars

\* A member that goes, with no change of the rotation state or with the newest
\* generation reopened.
LEMMA DepartStep ==
  ASSUME TypeOK, NEW u \in User, links' = links,
         member' = [member EXCEPT ![u] = NoRow],
         \/ Settled' = Settled
         \/ Settled' = FALSE /\ Entry[u] = CurrentGeneration - 1
  PROVE  Chain!ChainNext
<1>1. Entry' = [Entry EXCEPT ![u] = -1]
  <2>1. \A v \in User : Entry'[v] = IF v = u THEN -1 ELSE Entry[v]
    BY EntryOf DEF TypeOK, NoRow
  <2> QED BY <2>1, EntryMap
<1>2. Chain!Depart(u)
  BY <1>1, SeenSame DEF Chain!Depart, Chain!NoEntry
<1> QED BY <1>2 DEF Chain!ChainNext

\* A start: its caller moves to the generation it mints, one other account goes,
\* stays or comes along, and no one else moves.
LEMMA MintStep ==
  ASSUME TypeOK, TypeOK', ChainInv, NEW u \in User, NEW g \in Nat, NEW r, NEW v \in User,
         Mint(u, g, r), Settled,
         member'[u].role # "none", member'[u].gen = g + 1,
         v = u \/ \/ member'[v].role = "none"
                  \/ member'[v] = member[v]
                  \/ /\ member[v].role # "none" /\ member[v].gen = g
                     /\ member'[v].role # "none" /\ member'[v].gen = g + 1,
         \A w \in User \ {u, v} : member'[w] = member[w]
  PROVE  Chain!ChainNext
<1>1. \A w \in User : member'[w].role # "none" =>
         \/ member'[w].gen = g + 1
         \/ member[w].role # "none" /\ member'[w].gen = member[w].gen
  OBVIOUS
<1>2. g = CurrentGeneration /\ CurrentGeneration' = g + 1
  BY <1>1, ChainMinted
<1>3. member[u].role # "none" /\ member[u].gen = g
  BY DEF Mint, MintAllowed, AdminAt, IsAdmin
<1>4. Settled' = FALSE
  <2>1. marker'.gen = g + 1 /\ marker' # NoMarker
    BY DEF Mint, NoMarker
  <2> QED BY <2>1, <1>2 DEF Settled
<1>5. Entry[u] = g /\ Entry'[u] = g + 1
  BY <1>3, EntryOf
<1>6. v # u => \/ Entry'[v] \in {Entry[v], -1}
               \/ Entry[v] = g /\ Entry'[v] = g + 1
  BY EntryOf
<1>7. \A w \in User \ {u, v} : Entry'[w] = Entry[w]
  BY EntryOf
<1>8. Chain!MintNext(u, v)
  BY <1>2, <1>4, <1>5, <1>6, <1>7 DEF Chain!MintNext, Chain!NoEntry
<1> QED BY <1>8 DEF Chain!ChainNext

-----------------------------------------------------------------------------
(* The steps.                                                              *)

\* A start that finds no marker, or a leave's whose key is still to be minted.
LEMMA SettledStart ==
  ASSUME TypeOK, TypeOK', ChainInv, NEW u \in User, NEW g \in Nat, NEW r, Mint(u, g, r),
         \A w \in User : member'[w].role # "none" =>
           \/ member'[w].gen = g + 1
           \/ member[w].role # "none" /\ member'[w].gen = member[w].gen,
         marker = NoMarker \/ marker.gen = g + 1
  PROVE  Settled
<1>1. g = CurrentGeneration
  BY ChainMinted
<1> QED BY <1>1 DEF Settled

\* The handlers that read first.
LEMMA ChainStepTransactions ==
  TypeOK /\ TypeOK' /\ ChainInv /\ RequestInv /\ Transactions
    => Chain!ChainNext \/ UNCHANGED Chain!chainVars
<1> SUFFICES ASSUME TypeOK, TypeOK', ChainInv, RequestInv, NEW q \in reqs,
                    \/ CommitRemoveRotating(q) \/ CommitRemoveOpen(q)
                    \/ CommitSelfRekey(q) \/ CommitApproveRekey(q)
                    \/ CommitLeaveRotating(q) \/ CommitLeaveOpen(q)
                    \/ CommitDeleteGroup(q) \/ SweepGroup(q)
                    \/ CommitComplete(q) \/ CommitConvert(q)
                    \/ CommitRotateKeys(q) \/ CommitDeleteAccount(q)
                    \/ Drop(q)
             PROVE  Chain!ChainNext \/ UNCHANGED Chain!chainVars
  BY DEF Transactions
<1>q. /\ q.by \in User /\ q.who \in User \cup {NoOne}
      /\ q.gen \in Nat /\ q.gen + 1 \in Nat /\ NamesAnother(q)
  BY DEF TypeOK, Request, RequestInv
<1>n. NoRow.role = "none"
  BY DEF NoRow
<1>g. member \in [User -> Row] /\ \A w \in User : member[w].gen \in Nat
  BY DEF TypeOK, Row
<1>v. \A w \in User : /\ MovedTo(w, q.gen + 1).gen = q.gen + 1
                      /\ MovedTo(w, q.gen + 1).role = member[w].role
  BY <1>q, MovedFields
<1>a. \A r : Mint(q.by, q.gen, r) => member[q.by].role # "none"
  BY DEF Mint, MintAllowed, AdminAt, IsAdmin
<1>1. CASE CommitRemoveRotating(q)
  <2>1. /\ Mint(q.by, q.gen, q.who) /\ marker = NoMarker
        /\ q.who \in User \ {q.by}
        /\ member' = [member EXCEPT ![q.by] = MovedTo(q.by, q.gen + 1), ![q.who] = NoRow]
    BY <1>1, <1>q DEF CommitRemoveRotating, RemovalStart, NamesAnother
  <2>2. /\ member'[q.by].role # "none" /\ member'[q.by].gen = q.gen + 1
        /\ member'[q.who].role = "none"
        /\ \A w \in User \ {q.by, q.who} : member'[w] = member[w]
    BY <2>1, <1>q, <1>n, <1>g, <1>v, <1>a
  <2>3. Settled
    BY <2>1 DEF Settled
  <2> QED BY <2>1, <2>2, <2>3, <1>q, MintStep
<1>2. CASE CommitSelfRekey(q)
  <2>1. /\ Mint(q.by, q.gen, NoOne) /\ marker = NoMarker
        /\ member' = [member EXCEPT ![q.by] = MovedTo(q.by, q.gen + 1)]
    BY <1>2 DEF CommitSelfRekey
  <2>2. /\ member'[q.by].role # "none" /\ member'[q.by].gen = q.gen + 1
        /\ \A w \in User \ {q.by} : member'[w] = member[w]
    BY <2>1, <1>q, <1>g, <1>v, <1>a
  <2>3. Settled
    BY <2>1 DEF Settled
  <2> QED BY <2>1, <2>2, <2>3, <1>q, MintStep
<1>3. CASE CommitApproveRekey(q)
  <2>1. /\ Mint(q.by, q.gen, NoOne) /\ marker = NoMarker
        /\ q.who \in User /\ member[q.who].role # "none" /\ member[q.who].gen = q.gen
        /\ member' = [member EXCEPT ![q.by] = MovedTo(q.by, q.gen + 1),
                                    ![q.who] = MovedTo(q.who, q.gen + 1)]
    BY <1>3 DEF CommitApproveRekey, Members
  <2>2. /\ member'[q.by].role # "none" /\ member'[q.by].gen = q.gen + 1
        /\ member'[q.who].role # "none" /\ member'[q.who].gen = q.gen + 1
        /\ \A w \in User \ {q.by, q.who} : member'[w] = member[w]
    BY <2>1, <1>q, <1>g, <1>v, <1>a
  <2>3. Settled
    BY <2>1 DEF Settled
  <2> QED BY <2>1, <2>2, <2>3, <1>q, MintStep
<1>4. CASE CommitLeaveRotating(q)
  <2>1. /\ links' = links /\ marker = NoMarker /\ q.op = "leave"
        /\ member[q.by].role = q.role /\ member[q.by].gen = q.gen
        /\ marker'.gen = q.gen + 1 /\ member' = [member EXCEPT ![q.by] = NoRow]
    BY <1>4 DEF CommitLeaveRotating, LeaveAllowed, LeaveStart
  <2>2. \E k \in Nat : CurrentGeneration = k /\ CurrentGeneration' = k
    BY <2>1, CurrentOfPrefix DEF ChainInv, ChainIs
  <2>3. Settled
    BY <2>1 DEF Settled
  <2>4. Entry[q.by] = q.gen
    BY <2>1, <1>q, EntryOf DEF NamesAnother
  <2>5. \/ Settled' = Settled
        \/ Settled' = FALSE /\ q.gen = CurrentGeneration - 1
    BY <2>1, <2>2, <2>3, <1>q DEF Settled
  <2> QED BY <2>1, <2>4, <2>5, <1>q, DepartStep
<1>5. CASE CommitRemoveOpen(q) \/ CommitLeaveOpen(q) \/ CommitDeleteGroup(q)
  <2>1. links' = links /\ marker' = marker
    BY <1>5 DEF CommitRemoveOpen, CommitLeaveOpen, CommitDeleteGroup
  <2>2. \E w \in User : member' = [member EXCEPT ![w] = NoRow]
    BY <1>5, <1>q DEF CommitRemoveOpen, CommitLeaveOpen, CommitDeleteGroup, NamesAnother
  <2> QED BY <2>1, <2>2, SeenSame, DepartStep
<1>6. CASE SweepGroup(q)
  <2>1. links' = {} /\ marker' = NoMarker /\ member' = [u \in User |-> NoRow]
    BY <1>6 DEF SweepGroup
  <2>2. CurrentGeneration' = 0 /\ Settled' = TRUE
    BY <2>1 DEF CurrentGeneration, Settled
  <2>3. Entry' = [u \in User |-> -1]
    BY <2>1, <1>n, EntryOf, EntryMap
  <2>4. Chain!Disband
    BY <2>2, <2>3 DEF Chain!Disband, Chain!NoEntry
  <2> QED BY <2>4 DEF Chain!ChainNext
<1>7. CASE CommitComplete(q)
  <2>1. links' = links /\ member' = member /\ marker' = NoMarker
    BY <1>7 DEF CommitComplete
  <2>2. /\ CurrentGeneration' = CurrentGeneration /\ Settled' = TRUE /\ Entry' = Entry
    BY <2>1, SeenSame DEF Settled, Entry, Members
  <2>3. CASE Settled
    BY <2>2, <2>3 DEF Chain!chainVars, Settled
  <2>4. CASE ~Settled
    BY <2>2, <2>4 DEF Chain!ChainNext, Chain!Settle
  <2> QED BY <2>3, <2>4
<1>8. CASE CommitConvert(q) \/ CommitRotateKeys(q) \/ CommitDeleteAccount(q) \/ Drop(q)
  <2>1. links' = links /\ member' = member /\ marker' = marker
    BY <1>8 DEF CommitConvert, CommitRotateKeys, CommitDeleteAccount, Drop, groupRows
  <2> QED BY <2>1, UnseenStep
<1> QED BY <1>1, <1>2, <1>3, <1>4, <1>5, <1>6, <1>7, <1>8

\* The handlers that are one transaction.
LEMMA ChainStepHandlers ==
  TypeOK /\ TypeOK' /\ ChainInv /\ Handlers
    => Chain!ChainNext \/ UNCHANGED Chain!chainVars
<1> SUFFICES ASSUME TypeOK, TypeOK', ChainInv, Handlers
             PROVE  Chain!ChainNext \/ UNCHANGED Chain!chainVars
  OBVIOUS
<1>g. /\ member \in [User -> Row]
      /\ \A w \in User : member[w].gen \in Nat /\ member[w].gen + 1 \in Nat
  BY DEF TypeOK, Row
<1>v. \A w \in User, g \in Nat : MovedTo(w, g).gen = g /\ MovedTo(w, g).role = member[w].role
  BY MovedFields
<1>1. ASSUME NEW i \in User, NEW v \in User, CompleteInvite(i, v) PROVE Chain!ChainNext
  <2>1. /\ links' = links /\ marker' = marker
        /\ member[i].role # "none" /\ member[v].role = "none"
        /\ member' = [member EXCEPT ![v] = NewMember(i, v)]
    BY <1>1 DEF CompleteInvite, JoinAllowed, Inviting, Members
  <2>2. NewMember(i, v).gen = member[i].gen /\ NewMember(i, v).role # "none"
    BY DEF NewMember
  <2>3. Entry[v] = -1 /\ Entry'[v] = Entry[i] /\ Entry'[v] # -1
    BY <2>1, <2>2, <1>g, EntryOf
  <2>4. \A w \in User \ {v} : Entry'[w] = Entry[w]
    BY <2>1, <1>g, EntryOf
  <2>5. Chain!Admit(v)
    BY <2>1, <2>3, <2>4, SeenSame DEF Chain!Admit, Chain!NoEntry
  <2> QED BY <2>5 DEF Chain!ChainNext
<1>2. ASSUME NEW i \in User, NEW v \in User, ReadmitMember(i, v)
      PROVE UNCHANGED Chain!chainVars
  BY <1>2, UnseenStep DEF ReadmitMember
<1>3. ASSUME NEW a \in User, NEW v \in User, ApproveRewrap(a, v) PROVE Chain!ChainNext
  <2>1. /\ links' = links /\ marker' = marker
        /\ member[a].role # "none" /\ member[v].role # "none" /\ v # a
        /\ member[v].gen <= member[a].gen
        /\ member' = [member EXCEPT ![v] = MovedTo(v, member[a].gen)]
    BY <1>3, <1>g DEF ApproveRewrap, Inviting, Members
  <2>2. /\ Entry[v] # -1 /\ Entry[v] <= Entry[a] /\ Entry'[v] = Entry[a]
        /\ \A w \in User \ {v} : Entry'[w] = Entry[w]
    BY <2>1, <1>g, <1>v, EntryOf
  <2>3. Chain!Advance({v})
    BY <2>1, <2>2, SeenSame DEF Chain!Advance, Chain!NoEntry
  <2> QED BY <2>3 DEF Chain!ChainNext
<1>4. ASSUME NEW i \in User, NEW v \in User, NEW r \in Role, ChangeMemberRole(i, v, r)
      PROVE UNCHANGED Chain!chainVars
  <2>1. /\ links' = links /\ marker' = marker /\ member[v].role # "none" /\ r # "none"
        /\ member' = [member EXCEPT ![v].role = r]
    BY <1>4 DEF ChangeMemberRole, Members, Role
  <2>2. \A w \in User : /\ member'[w].gen = member[w].gen
                        /\ member'[w].role = "none" <=> member[w].role = "none"
    BY <2>1, <1>g DEF Row
  <2> QED BY <2>1, <2>2, UnseenStep
<1>5. ASSUME NEW u \in User, TakeOverLeaveRotation(u) PROVE Chain!ChainNext
  <2>1. /\ Mint(u, member[u].gen, marker.removed) /\ marker.gen = member[u].gen + 1
        /\ member' = [member EXCEPT ![u] = MovedTo(u, member[u].gen + 1)]
    BY <1>5 DEF TakeOverLeaveRotation
  <2>2. member[u].role # "none"
    BY <2>1 DEF Mint, MintAllowed, AdminAt, IsAdmin
  <2>3. /\ member'[u].role # "none" /\ member'[u].gen = member[u].gen + 1
        /\ \A w \in User \ {u} : member'[w] = member[w]
    BY <2>1, <2>2, <1>g, <1>v
  <2>4. Settled
    BY <2>1, <2>3, <1>g, SettledStart
  <2> QED BY <2>1, <2>3, <2>4, <1>g, MintStep
<1>6. ASSUME NEW u \in User, NEW batch \in SUBSET User, RewrapMembers(u, batch)
      PROVE Chain!ChainNext
  <2>1. /\ links' = links /\ marker' = marker /\ member[u].role # "none"
        /\ u \notin batch
        /\ \A v \in batch : member[v].role # "none" /\ member[v].gen <= member[u].gen
        /\ member' = [v \in User |->
             IF v \in batch THEN [member[v] EXCEPT !.gen = member[u].gen] ELSE member[v]]
    BY <1>6 DEF RewrapMembers, IsAdmin, MayRewrap, Members
  <2>2. \A v \in batch : member'[v].role # "none" /\ member'[v].gen = member[u].gen
    BY <2>1, <1>g DEF Row
  <2>3. /\ \A v \in batch : Entry[v] # -1 /\ Entry[v] <= Entry[u] /\ Entry'[v] = Entry[u]
        /\ \A w \in User \ batch : Entry'[w] = Entry[w]
    BY <2>1, <2>2, <1>g, EntryOf
  <2>4. Chain!Advance(batch)
    BY <2>1, <2>3, SeenSame DEF Chain!Advance, Chain!NoEntry
  <2> QED BY <2>4 DEF Chain!ChainNext
<1>7. ASSUME NEW u \in User,
             DeleteHandoff(u) \/ \E k \in 1..MaxKey : PutHandoff(u, k)
      PROVE UNCHANGED Chain!chainVars
  BY <1>7, UnseenStep DEF PutHandoff, DeleteHandoff, groupRows
<1>8. ASSUME NEW u \in User, SelfWrap(u) PROVE UNCHANGED Chain!chainVars
  <2>1. /\ links' = links /\ marker' = marker
        /\ member' = [member EXCEPT ![u] = MovedTo(u, member[u].gen)]
    BY <1>8 DEF SelfWrap
  <2> QED BY <2>1, <1>g, <1>v, UnseenStep
<1> QED BY <1>1, <1>2, <1>3, <1>4, <1>5, <1>6, <1>7, <1>8 DEF Handlers

\* A new group is an abstract one.
LEMMA ChainStepInit == Init => Chain!ChainInit
<1> SUFFICES ASSUME Init PROVE Chain!ChainInit
  OBVIOUS
<1>1. CurrentGeneration = 0 /\ Settled = TRUE
  BY DEF Init, CurrentGeneration, Settled
<1>2. \A u \in User : Entry[u] \in {-1, 0}
  BY EntryOf DEF Init, NoRow
<1> QED BY <1>1, <1>2, EntryMap DEF Chain!ChainInit, Chain!NoEntry

\* Reads, and steps of nothing, are not seen.
LEMMA ChainStepReads ==
  Reads \/ UNCHANGED vars => UNCHANGED Chain!chainVars
BY ReadsChangeNothing, UnseenStep DEF vars, groupRows

\* The group-key protocol implements the abstract key chain.
THEOREM ChainImplemented == Spec => ChainSpec
<1> DEFINE Inv == TypeOK /\ ChainInv /\ RequestInv
<1>1. Init => Inv
  BY InitTyped, ChainInit DEF Init, RequestInv
<1>2. Inv /\ [Next]_vars => Inv'
  BY NextTyped, ChainNext, RequestNext
<1>3. Inv /\ Inv' /\ [Next]_vars => [Chain!ChainNext]_Chain!chainVars
  BY ChainStepReads, ChainStepTransactions, ChainStepHandlers DEF Next
<1> QED BY <1>1, <1>2, <1>3, ChainStepInit, PTL DEF Spec, ChainSpec, Chain!ChainSpec

-----------------------------------------------------------------------------
(* The newest key is held by somebody.  Only three transactions take a row  *)
(* away without minting: the two leaves and the removal in an Open group.   *)

\* What a step adds to the requests: what a handler reads, and the sweep of a
\* group whose META it has just deleted.
RequestRead(q) ==
  /\ mode # "gone" /\ q.op # "sweepGroup"
  /\ q.op \in {"remove", "leave"} => q.rotating = (mode = "rotating")
  /\ q.op = "leave" => q.by \in Leavers
  /\ q.op = "convert" => Converts
  /\ q.op = "complete" => /\ marker # NoMarker /\ marker.gen = q.gen
                          /\ q.by \in Members /\ member[q.by].gen = q.gen
                          /\ NoneLeftBehind(q.gen)

LEMMA NewRequests ==
  ASSUME TypeOK, [Next]_vars, NEW q \in reqs', q \notin reqs
  PROVE  RequestRead(q) \/ (q.op = "sweepGroup" /\ mode' = "gone")
<1>1. CASE Reads
  <2> PICK u \in User :
        \/ \E v \in User : BeginRemove(u, v) \/ BeginApproveRekey(u, v)
        \/ BeginSelfRekey(u) \/ BeginLeave(u) \/ BeginLastLeave(u)
        \/ BeginComplete(u) \/ BeginConvert(u) \/ BeginDeleteAccount(u)
        \/ \E k \in 1..MaxKey : BeginRotateKeys(u, k)
    BY <1>1 DEF Reads
  <2>b. ASSUME NEW r, Begin(r), RequestRead(r) \/ mode = "gone" PROVE RequestRead(q)
    BY <2>b DEF Begin
  <2>o. \A o \in Op : Req(o, u).op = o
    BY DEF Req
  <2>1. CASE \E v \in User : BeginRemove(u, v)
    <3> PICK v \in User : BeginRemove(u, v)
      BY <2>1
    <3> DEFINE r == [Req("remove", u) EXCEPT !.who = v, !.role = member[v].role,
                                             !.rotating = (mode = "rotating")]
    <3>1. r.op = "remove" /\ r.rotating = (mode = "rotating")
      BY DEF Req
    <3> QED BY <3>1, <2>b DEF BeginRemove, RequestRead
  <2>2. CASE \E v \in User : BeginApproveRekey(u, v)
    <3> PICK v \in User : BeginApproveRekey(u, v)
      BY <2>2
    <3>1. [Req("approve", u) EXCEPT !.who = v].op = "approve"
      BY DEF Req
    <3> QED BY <3>1, <2>b DEF BeginApproveRekey, RequestRead
  <2>3. CASE BeginLeave(u)
    <3> PICK s \in Members \cup {NoOne} :
          Begin([Req("leave", u) EXCEPT !.who = s, !.role = member[u].role,
                                        !.rotating = (mode = "rotating")])
      BY <2>3 DEF BeginLeave
    <3> DEFINE r == [Req("leave", u) EXCEPT !.who = s, !.role = member[u].role,
                                            !.rotating = (mode = "rotating")]
    <3>1. r.op = "leave" /\ r.by = u /\ u \in Leavers /\ r.rotating = (mode = "rotating")
      BY <2>3 DEF Req, BeginLeave
    <3> QED BY <3>1, <2>b DEF RequestRead
  <2>4. CASE \E k \in 1..MaxKey : BeginRotateKeys(u, k)
    <3> PICK k \in 1..MaxKey : BeginRotateKeys(u, k)
      BY <2>4
    <3>1. [Req("rotateKeys", u) EXCEPT !.gen = keyEpoch[u], !.key = k,
             !.role = member[u].role, !.rotating = (mode = "rotating")].op = "rotateKeys"
      BY DEF Req
    <3> QED BY <3>1, <2>b DEF BeginRotateKeys, RequestRead
  <2>5. CASE BeginDeleteAccount(u)
    <3>1. [Req("deleteAccount", u) EXCEPT !.gen = 0].op = "deleteAccount"
      BY DEF Req
    <3> QED BY <3>1, <2>b, <2>5 DEF BeginDeleteAccount, RequestRead
  <2>6. CASE BeginConvert(u)
    <3>1. Converts
      BY <2>6 DEF BeginConvert
    <3> QED BY <3>1, <2>6, <2>o, <2>b DEF BeginConvert, RequestRead, Op
  <2>7. CASE BeginSelfRekey(u) \/ BeginLastLeave(u)
    BY <2>7, <2>o, <2>b DEF BeginSelfRekey, BeginLastLeave, Op, RequestRead
  <2>8. CASE BeginComplete(u)
    <3> DEFINE r == Req("complete", u)
    <3>1. r.op = "complete" /\ r.by = u /\ r.gen = member[u].gen
      BY DEF Req
    <3>2. RequestRead(r) \/ mode = "gone"
      BY <2>8, <3>1 DEF BeginComplete, Begin, IsAdmin, Members, RequestRead
    <3> HIDE DEF r
    <3> QED BY <2>8, <2>b, <3>2 DEF BeginComplete, r
  <2> QED BY <2>1, <2>2, <2>3, <2>4, <2>5, <2>6, <2>7, <2>8
<1>2. CASE Transactions
  <2>1. ASSUME NEW p \in reqs, CommitDeleteGroup(p)
        PROVE  q.op = "sweepGroup" /\ mode' = "gone"
    <3>1. q = [p EXCEPT !.op = "sweepGroup"] /\ mode' = "gone"
      BY <2>1 DEF CommitDeleteGroup
    <3> QED BY <3>1 DEF TypeOK, Request
  <2> QED BY <1>2, <2>1 DEF Transactions, CommitRemoveRotating, CommitRemoveOpen,
      CommitSelfRekey, CommitApproveRekey, CommitLeaveRotating, CommitLeaveOpen,
      LeaveAllowed, SweepGroup, CommitComplete, CommitConvert, CommitRotateKeys,
      CommitDeleteAccount, Drop, Done
<1>3. CASE Handlers
  BY <1>3 DEF Handlers, CompleteInvite, ReadmitMember, ApproveRewrap,
     ChangeMemberRole, TakeOverLeaveRotation, RewrapMembers, PutHandoff, DeleteHandoff,
     SelfWrap, BumpHandoffSeq
<1> QED BY <1>1, <1>2, <1>3 DEF Next, vars

\* META is deleted for good, and only an admin's conversion opens a group.
LEMMA ModeSteps ==
  TypeOK /\ [Next]_vars => \/ mode' = mode
                           \/ mode' = "gone"
                           \/ mode = "rotating" /\ \E q \in reqs : CommitConvert(q)
<1>1. Reads \/ UNCHANGED vars => mode' = mode
  BY ReadsChangeNothing DEF vars, groupRows
<1>2. Handlers => mode' = mode
  BY DEF Handlers, CompleteInvite, ReadmitMember, ApproveRewrap, ChangeMemberRole,
     TakeOverLeaveRotation, RewrapMembers, PutHandoff, DeleteHandoff, SelfWrap, groupRows
<1>3. Transactions => \/ mode' = mode
                      \/ mode' = "gone"
                      \/ mode = "rotating" /\ \E q \in reqs : CommitConvert(q)
  BY DEF Transactions, CommitRemoveRotating, CommitRemoveOpen, CommitSelfRekey,
     CommitApproveRekey, CommitLeaveRotating, CommitLeaveOpen, CommitDeleteGroup,
     SweepGroup, CommitComplete, CommitConvert, CommitRotateKeys, CommitDeleteAccount,
     Drop, groupRows
<1> QED BY <1>1, <1>2, <1>3 DEF Next

\* Links go only with the group, and only a completion or the sweep of the group
\* ends a rotation.
LEMMA LinksStep ==
  ASSUME TypeOK, [Next]_vars
  PROVE  \/ \E q \in reqs : SweepGroup(q)
         \/ /\ links \subseteq links'
            /\ marker # NoMarker /\ marker' = NoMarker => \E q \in reqs : CommitComplete(q)
<1>1. ASSUME NEW u \in User, NEW g, NEW r, Mint(u, g, r)
      PROVE  links \subseteq links' /\ (g \in Nat => marker' # NoMarker)
  BY <1>1 DEF Mint, NoMarker
<1>2. \A q \in reqs : q.by \in User /\ q.gen \in Nat
  BY DEF TypeOK, Request
<1>3. \A u \in User : member[u].gen \in Nat
  BY DEF TypeOK, Row
<1>4. ASSUME NEW q \in reqs,
             CommitRemoveRotating(q) \/ CommitSelfRekey(q) \/ CommitApproveRekey(q)
      PROVE  links \subseteq links' /\ marker' # NoMarker
  BY <1>4, <1>1, <1>2 DEF CommitRemoveRotating, CommitSelfRekey, CommitApproveRekey
<1>5. ASSUME NEW u \in User, TakeOverLeaveRotation(u)
      PROVE  links \subseteq links' /\ marker' # NoMarker
  BY <1>5, <1>1, <1>3 DEF TakeOverLeaveRotation
<1>6. ASSUME NEW q \in reqs, CommitLeaveRotating(q)
      PROVE  links' = links /\ marker' # NoMarker
  <2>1. marker'.gen = q.gen + 1 /\ links' = links
    BY <1>6 DEF CommitLeaveRotating
  <2> QED BY <2>1, <1>2 DEF NoMarker
<1>7. CASE Transactions
  BY <1>7, <1>4, <1>6 DEF Transactions, CommitRemoveOpen, CommitLeaveOpen,
     CommitDeleteGroup, CommitComplete, CommitConvert, CommitRotateKeys,
     CommitDeleteAccount, Drop, groupRows
<1>8. CASE Handlers
  BY <1>8, <1>5 DEF Handlers, CompleteInvite, ReadmitMember, ApproveRewrap,
     ChangeMemberRole, RewrapMembers, PutHandoff, DeleteHandoff, SelfWrap, groupRows
<1>10. CASE Reads \/ UNCHANGED vars
  BY <1>10, ReadsChangeNothing DEF vars, groupRows
<1> QED BY <1>7, <1>8, <1>10 DEF Next

\* The partition is swept only after META is gone.
SweepInv == \A q \in reqs : q.op = "sweepGroup" => mode = "gone"

LEMMA SweepNext == TypeOK /\ SweepInv /\ [Next]_vars => SweepInv'
BY NewRequests, ModeSteps DEF SweepInv, RequestRead

\* A holder of the newest key that stays while nothing is minted still holds it.
LEMMA StillHeld ==
  ASSUME TypeOK, TypeOK', ChainInv, ChainInv', [Next]_vars, links' = links,
         NEW h \in User, member[h].role # "none", member[h].gen = CurrentGeneration,
         member'[h].role # "none"
  PROVE  CurrentKeyHeld'
<1>1. CurrentGeneration' = CurrentGeneration
  BY SeenSame
<1>2. member'[h].gen <= CurrentGeneration'
  BY ChainInvImplies, CurrentOfPrefix DEF ChainInv, ChainIs, Members
<1>3. member[h].gen <= member'[h].gen
  BY RowSteps DEF RowStep, Leaves, Joins, RoleChanges, Moves, Catches, Members, TypeOK, Row
<1>4. member[h].gen \in Nat /\ member'[h].gen \in Nat
  BY DEF TypeOK, Row
<1> QED BY <1>1, <1>2, <1>3, <1>4 DEF CurrentKeyHeld, Members

\* Whoever mints holds what it minted.
LEMMA HeldByMinter ==
  ASSUME TypeOK, TypeOK', ChainInv, NEW u \in User, NEW g \in Nat, NEW r, Mint(u, g, r),
         \A w \in User : member'[w].role # "none" =>
           \/ member'[w].gen = g + 1
           \/ member[w].role # "none" /\ member'[w].gen = member[w].gen,
         member'[u].role # "none", member'[u].gen = g + 1
  PROVE  CurrentKeyHeld'
BY ChainMinted DEF CurrentKeyHeld, Members

\* The steps that may take the last holder of the newest key away.
TakesHolder ==
  \E q \in reqs : CommitLeaveRotating(q) \/ CommitLeaveOpen(q) \/ CommitRemoveOpen(q)

\* No other step does.
LEMMA HeldStep ==
  ASSUME TypeOK, TypeOK', ChainInv, ChainInv', RequestInv, SweepInv, CurrentKeyHeld,
         [Next]_vars, ~TakesHolder
  PROVE  CurrentKeyHeld'
<1> SUFFICES ASSUME mode # "gone", mode' # "gone" PROVE CurrentKeyHeld'
  BY ModeSteps DEF CurrentKeyHeld
<1> PICK h \in User : member[h].role # "none" /\ member[h].gen = CurrentGeneration
  BY DEF CurrentKeyHeld, Members
<1>g. /\ member \in [User -> Row]
      /\ \A w \in User : member[w].gen \in Nat /\ member[w].gen + 1 \in Nat
  BY DEF TypeOK, Row
<1>v. \A w \in User, g \in Nat : MovedTo(w, g).gen = g /\ MovedTo(w, g).role = member[w].role
  BY MovedFields
<1>1. ASSUME NEW q \in reqs,
             CommitRemoveRotating(q) \/ CommitSelfRekey(q) \/ CommitApproveRekey(q)
      PROVE  CurrentKeyHeld'
  <2>q. q.by \in User /\ q.gen \in Nat /\ q.gen + 1 \in Nat /\ NamesAnother(q)
    BY DEF TypeOK, Request, RequestInv
  <2>1. PICK r : Mint(q.by, q.gen, r)
    BY <1>1 DEF CommitRemoveRotating, CommitSelfRekey, CommitApproveRekey
  <2>2. member[q.by].role # "none"
    BY <2>1 DEF Mint, MintAllowed, AdminAt, IsAdmin
  <2>3. member'[q.by].role # "none" /\ member'[q.by].gen = q.gen + 1
    BY <1>1, <2>2, <2>q, <1>g, <1>v
    DEF CommitRemoveRotating, RemovalStart, CommitSelfRekey, CommitApproveRekey, NamesAnother
  <2>4. \A w \in User : member'[w].role # "none" =>
          \/ member'[w].gen = q.gen + 1
          \/ member[w].role # "none" /\ member'[w].gen = member[w].gen
    BY <1>1, <2>q, <1>g, <1>v
    DEF CommitRemoveRotating, CommitSelfRekey, CommitApproveRekey, NoRow, Members
  <2> QED BY <2>1, <2>3, <2>4, <2>q, HeldByMinter
<1>2. ASSUME NEW u \in User, TakeOverLeaveRotation(u) PROVE CurrentKeyHeld'
  <2>1. /\ Mint(u, member[u].gen, marker.removed)
        /\ member' = [member EXCEPT ![u] = MovedTo(u, member[u].gen + 1)]
    BY <1>2 DEF TakeOverLeaveRotation
  <2>2. member[u].role # "none"
    BY <2>1 DEF Mint, MintAllowed, AdminAt, IsAdmin
  <2>3. member'[u].role # "none" /\ member'[u].gen = member[u].gen + 1
    BY <2>1, <2>2, <1>g, <1>v
  <2>4. \A w \in User : member'[w].role # "none" =>
          \/ member'[w].gen = member[u].gen + 1
          \/ member[w].role # "none" /\ member'[w].gen = member[w].gen
    BY <2>1, <1>g, <1>v
  <2> QED BY <2>1, <2>3, <2>4, <1>g, HeldByMinter
<1>3. ASSUME NEW q \in reqs,
             \/ CommitComplete(q) \/ CommitConvert(q) \/ CommitRotateKeys(q)
             \/ CommitDeleteAccount(q) \/ Drop(q)
      PROVE  CurrentKeyHeld'
  BY <1>3, StillHeld DEF CommitComplete, CommitConvert, CommitRotateKeys,
     CommitDeleteAccount, Drop, groupRows
<1>4. ASSUME NEW q \in reqs, CommitDeleteGroup(q) \/ SweepGroup(q) PROVE FALSE
  BY <1>4 DEF CommitDeleteGroup, SweepGroup, SweepInv
<1>5. CASE Transactions
  BY <1>5, <1>1, <1>3, <1>4 DEF Transactions, TakesHolder
<1>6. CASE Handlers
  <2>1. CASE \E u \in User : TakeOverLeaveRotation(u)
    BY <2>1, <1>2
  <2>2. CASE \A u \in User : ~TakeOverLeaveRotation(u)
    <3>1. links' = links
      BY <1>6, <2>2 DEF Handlers, CompleteInvite, ReadmitMember, ApproveRewrap,
         ChangeMemberRole, RewrapMembers, PutHandoff, DeleteHandoff, SelfWrap, groupRows
    <3>2. ASSUME NEW i \in User, NEW v \in User,
                 \/ CompleteInvite(i, v) \/ ReadmitMember(i, v) \/ ApproveRewrap(i, v)
                 \/ \E r \in Role : ChangeMemberRole(i, v, r)
          PROVE  member'[h].role # "none"
      <4>1. CASE CompleteInvite(i, v) \/ ReadmitMember(i, v)
        BY <4>1, <1>g DEF CompleteInvite, ReadmitMember, NewMember
      <4>2. CASE ApproveRewrap(i, v)
        BY <4>2, <1>g, <1>v DEF ApproveRewrap
      <4>3. CASE \E r \in Role : ChangeMemberRole(i, v, r)
        BY <4>3, <1>g DEF ChangeMemberRole, Role, Row
      <4> QED BY <3>2, <4>1, <4>2, <4>3
    <3>3. ASSUME NEW u \in User, NEW batch \in SUBSET User, RewrapMembers(u, batch)
          PROVE  member'[h].role # "none"
      BY <3>3, <1>g DEF RewrapMembers, Row
    <3>4. ASSUME NEW u \in User,
                 SelfWrap(u) \/ DeleteHandoff(u) \/ \E k \in 1..MaxKey : PutHandoff(u, k)
          PROVE  member'[h].role # "none"
      BY <3>4, <1>g, <1>v DEF SelfWrap, PutHandoff, DeleteHandoff, groupRows
    <3>5. member'[h].role # "none"
      BY <1>6, <2>2, <3>2, <3>3, <3>4 DEF Handlers
    <3> QED BY <3>1, <3>5, StillHeld
  <2> QED BY <2>1, <2>2
<1>7. CASE Reads \/ UNCHANGED vars
  BY <1>7, ReadsChangeNothing, StillHeld DEF vars, groupRows
<1> QED BY <1>5, <1>6, <1>7 DEF Next

\* The newest key loses its last holder only when a holder leaves, or is removed
\* from an Open group: rotations, re-wraps, approvals and demotions never do it.
THEOREM KeyLostOnlyByDeparture == Spec => [][CurrentKeyHeld => CurrentKeyHeld' \/ TakesHolder]_vars
<1> DEFINE Inv == TypeOK /\ ChainInv /\ RequestInv /\ SweepInv
<1>1. Init => Inv
  BY InitTyped, ChainInit DEF Init, RequestInv, SweepInv
<1>2. Inv /\ [Next]_vars => Inv'
  BY NextTyped, ChainNext, RequestNext, SweepNext
<1>3. Inv /\ Inv' /\ [Next]_vars => [CurrentKeyHeld => CurrentKeyHeld' \/ TakesHolder]_vars
  BY HeldStep
<1> QED BY <1>1, <1>2, <1>3, PTL DEF Spec

\* In a group that nobody leaves and nobody opens, the requests that could take
\* a holder away do not exist.
StaysInv ==
  /\ mode # "open"
  /\ \A q \in reqs : /\ q.op \notin {"leave", "convert"}
                     /\ q.op = "remove" => q.rotating

LEMMA StaysNext ==
  ASSUME Leavers = {}, Converts = FALSE
  PROVE  TypeOK /\ StaysInv /\ [Next]_vars => StaysInv'
<1> SUFFICES ASSUME TypeOK, StaysInv, [Next]_vars PROVE StaysInv'
  OBVIOUS
<1>1. mode' # "open"
  BY ModeSteps DEF StaysInv, CommitConvert
<1>2. ASSUME NEW q \in reqs', q \notin reqs
      PROVE  q.op \notin {"leave", "convert"} /\ (q.op = "remove" => q.rotating)
  BY <1>2, NewRequests DEF RequestRead, StaysInv, TypeOK
<1> QED BY <1>1, <1>2 DEF StaysInv

\* There somebody always holds the newest key, and can hand it out.
THEOREM KeyHeldWhereAllStay ==
  ASSUME Leavers = {}, Converts = FALSE
  PROVE  Spec => []CurrentKeyHeld
<1> DEFINE Inv == /\ TypeOK /\ ChainInv /\ RequestInv /\ SweepInv
                  /\ StaysInv /\ CurrentKeyHeld
<1>1. Init => Inv
  <2> SUFFICES ASSUME Init PROVE CurrentKeyHeld /\ StaysInv
    BY InitTyped, ChainInit DEF Init, RequestInv, SweepInv
  <2>1. CurrentGeneration = 0 /\ member[Creator].gen = 0 /\ Creator \in Members
    BY FounderAssumption DEF Init, CurrentGeneration, NoRow, Members
  <2> QED BY <2>1 DEF CurrentKeyHeld, StaysInv, Init
<1>2. StaysInv => ~TakesHolder
  BY DEF StaysInv, TakesHolder, CommitLeaveRotating, CommitLeaveOpen, LeaveAllowed,
     CommitRemoveOpen
<1>3. Inv /\ [Next]_vars => Inv'
  BY <1>2, NextTyped, ChainNext, RequestNext, SweepNext, StaysNext, HeldStep
<1> QED BY <1>1, <1>3, PTL DEF Spec
=============================================================================

--------------------------- MODULE GroupVault_proofs ---------------------------
(***************************************************************************)
(* Who can open what.  The server stores boxes it cannot open; that every  *)
(* one of them is the right one is an invariant of what the clients        *)
(* compute from the rows they are served.                                  *)
(*                                                                         *)
(* Two operators of the model are recursive functions of the naturals: the *)
(* walk down the links, and what someone derives from all that was stored. *)
(* The library's induction theorem takes an operator, so induction is      *)
(* derived here from the well-foundedness of < on Nat, for sets of naturals.*)
(***************************************************************************)
EXTENDS GroupVault, GroupKeys_proofs, WellFoundedInduction

-----------------------------------------------------------------------------
(* Induction over the naturals.                                            *)

Below == {ss \in Nat \X Nat : ss[1] < ss[2]}

LEMMA BelowWellFounded == IsWellFoundedOn(Below, Nat)
BY NatLessThanWellFounded DEF OpToRel, Below

\* A set of naturals that is not empty has a least element.
LEMMA LeastNat ==
  ASSUME NEW T \in SUBSET Nat, T # {}
  PROVE  \E n \in T : \A m \in T : n <= m
<1>1. PICK n \in T : \A m \in T : <<m, n>> \notin Below
  BY BelowWellFounded, WFMin
<1>2. ASSUME NEW m \in T PROVE n <= m
  <2>1. n \in Nat /\ m \in Nat
    OBVIOUS
  <2>2. m < n => <<m, n>> \in Below
    BY <2>1 DEF Below
  <2> QED BY <1>1, <2>1, <2>2
<1> QED BY <1>2

\* A set that holds 0 and the successor of whatever it holds is all of Nat.
LEMMA Induct ==
  ASSUME NEW S \in SUBSET Nat, 0 \in S, \A n \in S : n + 1 \in S
  PROVE  S = Nat
<1>1. SUFFICES ASSUME Nat \ S # {} PROVE FALSE
  OBVIOUS
<1>2. PICK n \in Nat \ S : \A m \in Nat \ S : n <= m
  BY <1>1, LeastNat
<1>3. n - 1 \in S
  BY <1>2
<1> QED BY <1>2, <1>3

-----------------------------------------------------------------------------
(* Terms.                                                                  *)

\* The three boxes a member's rows hold when all is well.
Wrapped(u, k, n) ==
  KM!Wrap(KM!KeyPair(u, k), KM!GroupKey(Group, n), KM!MemberWrapAAD(Group, u, n))
HandedTo(u, k, n) ==
  KM!Wrap(KM!KeyPair(u, k), KM!GroupKey(Group, n),
          KM!HandoffWrapAAD(u, Group, n, KM!KeyPair(u, k)))
LinkOf(n) ==
  KM!Encrypt(KM!GroupKey(Group, n + 1), KM!GroupKey(Group, n), KM!GenKeyAAD(Group, n))

\* Pairs and group keys are told apart, and none is a failure.
LEMMA Terms ==
  /\ \A u, k, v, j : KM!KeyPair(u, k) = KM!KeyPair(v, j) => u = v /\ k = j
  /\ \A m, n : KM!GroupKey(Group, m) = KM!GroupKey(Group, n) => m = n
  /\ \A u, k, n : KM!KeyPair(u, k) # KM!GroupKey(Group, n)
  /\ \A n : KM!GroupKey(Group, n) # KM!Fail
  /\ \A u, k : KM!KeyPair(u, k) # KM!Fail
BY DEF KM!KeyPair, KM!GroupKey, KM!Fail

\* A box opens with its key and address, and with no other key.
LEMMA Opening ==
  /\ \A key, plain, aad : KM!Decrypt(key, KM!Encrypt(key, plain, aad), aad) = plain
  /\ \A key, other, plain, aad, at :
       other # key => KM!Decrypt(other, KM!Encrypt(key, plain, aad), at) = KM!Fail
  /\ \A key, plain, aad : /\ KM!Encrypt(key, plain, aad)[2] = key
                          /\ KM!Encrypt(key, plain, aad)[4] = plain
                          /\ KM!Encrypt(key, plain, aad) # KM!Fail
BY DEF KM!Decrypt, KM!Encrypt, KM!Fail

\* What the three boxes are addressed to and hold.
LEMMA Boxes ==
  /\ \A u, k, n : /\ Wrapped(u, k, n)[2] = KM!KeyPair(u, k)
                  /\ Wrapped(u, k, n)[4] = KM!GroupKey(Group, n)
  /\ \A u, k, n : /\ HandedTo(u, k, n)[2] = KM!KeyPair(u, k)
                  /\ HandedTo(u, k, n)[4] = KM!GroupKey(Group, n)
  /\ \A n : /\ LinkOf(n)[2] = KM!GroupKey(Group, n + 1)
            /\ LinkOf(n)[4] = KM!GroupKey(Group, n)
BY Opening DEF Wrapped, HandedTo, LinkOf, KM!Wrap

\* From the key of a generation the links lead to that of every one before.
LEMMA WalkDown ==
  ASSUME NEW from \in Nat, NEW to \in 0..from, NEW chain,
         \A n \in 0..(from - 1) : n \in DOMAIN chain /\ chain[n] = LinkOf(n)
  PROVE  KM!WalkChainDown(KM!GroupKey(Group, from), Group, from, to, chain)
           = KM!GroupKey(Group, to)
<1> DEFINE Body(key) == [n \in Nat |->
              IF n >= from THEN KM!GroupKey(Group, from)
              ELSE IF n \notin DOMAIN chain THEN KM!Fail
              ELSE KM!Decrypt(key[n + 1], chain[n], KM!GenKeyAAD(Group, n))]
           key == CHOOSE f : f = Body(f)
           right == [n \in Nat |-> IF n >= from THEN KM!GroupKey(Group, from)
                                   ELSE KM!GroupKey(Group, n)]
<1>1. KM!WalkChainDown(KM!GroupKey(Group, from), Group, from, to, chain)
        = IF to > from THEN KM!Fail ELSE key[to]
  BY DEF KM!WalkChainDown
<1> HIDE DEF key
<1>o. ASSUME NEW n \in 0..(from - 1)
      PROVE  KM!Decrypt(KM!GroupKey(Group, n + 1), chain[n], KM!GenKeyAAD(Group, n))
               = KM!GroupKey(Group, n)
  BY Opening DEF LinkOf
<1>2. right = Body(right)
  <2>1. ASSUME NEW n \in Nat PROVE right[n] = Body(right)[n]
    <3>1. CASE n >= from
      BY <3>1
    <3>2. CASE n < from
      <4>1. right[n + 1] = KM!GroupKey(Group, n + 1)
        BY <3>2
      <4>2. n \in 0..(from - 1)
        BY <3>2
      <4> QED BY <3>2, <4>1, <4>2, <1>o
    <3> QED BY <3>1, <3>2
  <2> QED BY <2>1
<1>3. key = Body(key)
  BY <1>2 DEF key
<1> DEFINE S == {d \in Nat : d <= from => key[from - d] = KM!GroupKey(Group, from - d)}
<1>4. 0 \in S
  BY <1>3
<1>5. ASSUME NEW d \in S PROVE d + 1 \in S
  <2>1. SUFFICES ASSUME d + 1 <= from
                 PROVE  key[from - (d + 1)] = KM!GroupKey(Group, from - (d + 1))
    OBVIOUS
  <2> DEFINE n == from - (d + 1)
  <2>2. n \in 0..(from - 1) /\ n + 1 = from - d /\ n \in Nat /\ ~(n >= from)
    BY <2>1
  <2>3. key[n + 1] = KM!GroupKey(Group, n + 1)
    BY <2>1, <2>2
  <2>4. key[n] = KM!Decrypt(key[n + 1], chain[n], KM!GenKeyAAD(Group, n))
    BY <1>3, <2>2
  <2> QED BY <2>2, <2>3, <2>4, <1>o
<1>6. S = Nat
  BY <1>4, <1>5, Induct
<1>7. key[to] = KM!GroupKey(Group, to)
  <2>1. from - to \in Nat /\ from - to <= from /\ from - (from - to) = to
    OBVIOUS
  <2> QED BY <1>6, <2>1
<1> QED BY <1>1, <1>7

\* What can be reached in at most n steps is a function of n: y is reached when
\* some path of n + 1 terms, each the one before or a step from it, leads to it.
Spreads(f, start, U, R) ==
  f = [n \in Nat |-> IF n = 0 THEN start
                     ELSE f[n - 1] \cup {y \in U : \E x \in f[n - 1] : <<x, y>> \in R}]

LEMMA Reachable ==
  ASSUME NEW U, NEW start \in SUBSET U, NEW R
  PROVE  \E f : Spreads(f, start, U, R)
<1> DEFINE Leads(p, n) == /\ p \in [0..n -> U] /\ p[0] \in start
                          /\ \A i \in 0..(n - 1) : p[i + 1] = p[i] \/ <<p[i], p[i + 1]>> \in R
           At(n) == {y \in U : \E p \in [0..n -> U] : Leads(p, n) /\ p[n] = y}
           Next1(K) == K \cup {y \in U : \E x \in K : <<x, y>> \in R}
           f == [n \in Nat |-> At(n)]
<1>1. At(0) = start
  <2>1. ASSUME NEW y \in start PROVE y \in At(0)
    <3> DEFINE p == [i \in 0..0 |-> y]
    <3>1. p \in [0..0 -> U] /\ p[0] = y /\ 0..(0 - 1) = {}
      OBVIOUS
    <3> QED BY <3>1
  <2> QED BY <2>1
<1>2. ASSUME NEW n \in Nat, n # 0 PROVE At(n) = Next1(At(n - 1))
  <2>1. ASSUME NEW y \in At(n) PROVE y \in Next1(At(n - 1))
    <3>1. PICK p \in [0..n -> U] : Leads(p, n) /\ p[n] = y
      BY <2>1
    <3> DEFINE q == [i \in 0..(n - 1) |-> p[i]]
    <3>2. q \in [0..(n - 1) -> U] /\ q[n - 1] = p[n - 1] /\ q[0] = p[0]
      BY <1>2
    <3>3. ASSUME NEW i \in 0..((n - 1) - 1)
          PROVE  q[i + 1] = q[i] \/ <<q[i], q[i + 1]>> \in R
      <4>1. i \in 0..(n - 1) /\ i + 1 \in 0..(n - 1)
        BY <1>2
      <4>2. q[i] = p[i] /\ q[i + 1] = p[i + 1]
        BY <4>1
      <4> QED BY <3>1, <4>1, <4>2
    <3>4. q[n - 1] \in At(n - 1)
      BY <1>2, <3>1, <3>2, <3>3
    <3>5. p[n] = p[n - 1] \/ <<p[n - 1], p[n]>> \in R
      <4>1. n - 1 \in 0..(n - 1) /\ (n - 1) + 1 = n
        BY <1>2
      <4> QED BY <3>1, <4>1
    <3> QED BY <3>1, <3>2, <3>4, <3>5
  <2>2. ASSUME NEW x \in At(n - 1), NEW y \in U, y = x \/ <<x, y>> \in R
        PROVE  y \in At(n)
    <3>1. PICK q \in [0..(n - 1) -> U] : Leads(q, n - 1) /\ q[n - 1] = x
      BY <2>2
    <3> DEFINE p == [i \in 0..n |-> IF i = n THEN y ELSE q[i]]
    <3>2. p \in [0..n -> U] /\ p[n] = y /\ p[0] = q[0]
      BY <1>2
    <3>3. ASSUME NEW i \in 0..(n - 1)
          PROVE  p[i + 1] = p[i] \/ <<p[i], p[i + 1]>> \in R
      <4>1. CASE i = n - 1
        <5>1. p[i] = x /\ p[i + 1] = y
          BY <3>1, <4>1, <1>2
        <5> QED BY <5>1, <2>2
      <4>2. CASE i # n - 1
        <5>1. i \in 0..((n - 1) - 1) /\ i # n /\ i + 1 # n /\ i \in 0..n /\ i + 1 \in 0..n
          BY <4>2, <1>2
        <5>2. p[i] = q[i] /\ p[i + 1] = q[i + 1]
          BY <5>1
        <5> QED BY <5>1, <5>2, <3>1
      <4> QED BY <4>1, <4>2
    <3> QED BY <3>1, <3>2, <3>3
  <2> QED BY <2>1, <2>2
<1>3. f = [n \in Nat |-> IF n = 0 THEN start ELSE Next1(f[n - 1])]
  <2>1. ASSUME NEW n \in Nat PROVE f[n] = IF n = 0 THEN start ELSE Next1(f[n - 1])
    <3>1. CASE n = 0
      BY <3>1, <1>1
    <3>2. CASE n # 0
      <4>1. n - 1 \in Nat
        BY <3>2
      <4>2. f[n] = At(n) /\ f[n - 1] = At(n - 1)
        BY <4>1
      <4> HIDE DEF f
      <4> QED BY <3>2, <4>2, <1>2
    <3> QED BY <3>1, <3>2
  <2>2. f = [n \in Nat |-> f[n]]
    OBVIOUS
  <2> HIDE DEF f, Next1
  <2> QED BY <2>1, <2>2
<1>4. Spreads(f, start, U, R)
  <2> HIDE DEF At, f
  <2> QED BY <1>3 DEF Spreads
<1> QED BY <1>4

\* What a set of secrets derives stays within any set that holds them and is
\* closed under opening what was stored.
LEMMA DerivedWithin ==
  ASSUME MaxGen \in Nat, NEW secrets, NEW K, secrets \subseteq K,
         \A x \in seen \ {NoBox} : x[2] \in K => x[4] \in K
  PROVE  Derived(secrets) \subseteq K
<1> DEFINE Open(known) == known \cup {b[4] : b \in {x \in seen \ {NoBox} : x[2] \in known}}
           Body(f) == [n \in Nat |-> IF n = 0 THEN secrets ELSE Open(f[n - 1])]
           known == CHOOSE f : f = Body(f)
<1>1. Derived(secrets) = known[MaxGen + 2]
  BY DEF Derived
<1> HIDE DEF known
<1>2. \E f : f = Body(f)
  <2> DEFINE boxes == seen \ {NoBox}
             R == {<<b[2], b[4]>> : b \in boxes}
             U == secrets \cup {b[4] : b \in boxes}
             Step(k) == k \cup {y \in U : \E x \in k : <<x, y>> \in R}
  <2>1. PICK f : f = [n \in Nat |-> IF n = 0 THEN secrets ELSE Step(f[n - 1])]
    <3>1. secrets \in SUBSET U
      OBVIOUS
    <3>2. PICK f : Spreads(f, secrets, U, R)
      <4> HIDE DEF U, R
      <4> QED BY <3>1, Reachable
    <3> HIDE DEF U, R
    <3> QED BY <3>2 DEF Spreads
  <2>2. ASSUME NEW k PROVE Step(k) = Open(k)
    <3>1. ASSUME NEW y \in U, NEW x \in k, <<x, y>> \in R PROVE y \in Open(k)
      BY <3>1
    <3>2. ASSUME NEW b \in boxes, b[2] \in k PROVE b[4] \in Step(k)
      <4>1. b[4] \in U /\ <<b[2], b[4]>> \in R
        OBVIOUS
      <4> QED BY <3>2, <4>1
    <3> QED BY <3>1, <3>2
  <2> HIDE DEF Step, Open
  <2> QED BY <2>1, <2>2
<1>3. known = Body(known)
  BY <1>2 DEF known
<1> DEFINE S == {n \in Nat : known[n] \subseteq K}
<1>4. 0 \in S
  BY <1>3
<1>5. ASSUME NEW n \in S PROVE n + 1 \in S
  <2>1. n + 1 \in Nat /\ n + 1 # 0 /\ (n + 1) - 1 = n /\ known[n] \subseteq K
    OBVIOUS
  <2>2. known[n + 1] = Open(known[n])
    <3> HIDE DEF Open
    <3> QED BY <1>3, <2>1
  <2> QED BY <2>1, <2>2
<1>6. S = Nat
  BY <1>4, <1>5, Induct
<1> QED BY <1>1, <1>6

-----------------------------------------------------------------------------
(* The boxes in the rows.  Every entry is wrapped to a pair of its own      *)
(* account, the one it holds unless the member is dormant; every link and   *)
(* every handoff row is the one its place calls for.                        *)

EntryRight(u) ==
  \E k \in Nat :
    /\ entryBox[u] = Wrapped(u, k, member[u].gen)
    /\ IF Dormant(u) THEN k < wrapKey[u] ELSE k = wrapKey[u]

BoxInv ==
  /\ entryBox = [u \in User |-> entryBox[u]]
  /\ handoffBox = [u \in User |-> handoffBox[u]]
  /\ linkBox = [n \in links |-> LinkOf(n)]
  /\ \A u \in Members : EntryRight(u)
  /\ \A u \in User : handoff[u] # NoHandoff
       => handoffBox[u] = HandedTo(u, handoff[u].key, handoff[u].gen)

\* What a step does to u's entry: it stays with its row, or goes with it, or is
\* made for the pair u holds, at a generation an active member holds or just minted.
Stays(u) == /\ entryBox'[u] = entryBox[u]
            /\ member'[u].role # "none" =>
                 /\ u \in Members
                 /\ member'[u].gen = member[u].gen /\ member'[u].epoch = member[u].epoch
            /\ \/ keyEpoch'[u] = keyEpoch[u] /\ wrapKey'[u] = wrapKey[u]
               \/ keyEpoch'[u] > keyEpoch[u] /\ wrapKey'[u] > wrapKey[u]

Goes(u) == entryBox'[u] = NoBox /\ member'[u].role = "none"

MadeBy(u) == \/ mode = "open" /\ member'[u].gen = member[u].gen
             \/ links' = links /\ \E a \in Members : ~Dormant(a) /\ member'[u].gen = member[a].gen
             \/ member'[u].gen = CurrentGeneration + 1

Made(u) == /\ member'[u].role # "none"
           /\ entryBox'[u] = Wrapped(u, wrapKey[u], member'[u].gen)
           /\ ~Dormant(u)' /\ wrapKey'[u] = wrapKey[u]
           /\ MadeBy(u) /\ Members # {}

\* What it does to u's handoff row.
HandStep(u) ==
  \/ handoff'[u] = NoHandoff /\ handoffBox'[u] = NoBox
  \/ handoff'[u] = handoff[u] /\ handoffBox'[u] = handoffBox[u]
  \/ /\ u \in Members /\ member'[u] = member[u]
     /\ handoff'[u].gen = member[u].gen
     /\ handoffBox'[u] = HandedTo(u, handoff'[u].key, handoff'[u].gen)

BoxStep ==
  /\ entryBox' = [u \in User |-> entryBox'[u]]
  /\ handoffBox' = [u \in User |-> handoffBox'[u]]
  /\ linkBox' = [n \in links' |-> LinkOf(n)]
  /\ \A u \in User : (Stays(u) \/ Goes(u) \/ Made(u)) /\ HandStep(u)

\* A member opens its own entry unless it is dormant.
LEMMA OwnKeyOpens ==
  ASSUME BoxInv, NEW u \in Members
  PROVE  /\ KM!OwnKey(Keys(u), Group, Material(u)) # KM!Fail => ~Dormant(u)
         /\ ~Dormant(u) => KM!OwnKey(Keys(u), Group, Material(u))
                             = KM!GroupKey(Group, member[u].gen)
<1>1. PICK k \in Nat : /\ entryBox[u] = Wrapped(u, k, member[u].gen)
                       /\ IF Dormant(u) THEN k < wrapKey[u] ELSE k = wrapKey[u]
  BY DEF BoxInv, EntryRight
<1>2. KM!OwnKey(Keys(u), Group, Material(u))
        = KM!Decrypt(KM!KeyPair(u, wrapKey[u]), entryBox[u],
                     KM!MemberWrapAAD(Group, u, member[u].gen))
  BY DEF KM!OwnKey, KM!Unwrap, Keys, Material, KM!LiveKeys
<1>3. CASE Dormant(u)
  <2>1. k # wrapKey[u]
    BY <1>1, <1>3 DEF Members
  <2> QED BY <1>1, <1>2, <1>3, <2>1, Terms, Opening DEF Wrapped, KM!Wrap
<1>4. CASE ~Dormant(u)
  BY <1>1, <1>2, <1>4, Opening DEF Wrapped, KM!Wrap
<1> QED BY <1>3, <1>4

\* The handoff row of the pair an account holds opens to the key it names.
LEMMA HandedOffOpens ==
  ASSUME BoxInv, NEW u \in User, handoff[u] # NoHandoff, handoff[u].key = wrapKey[u]
  PROVE  KM!HandedOffKey(Keys(u), Group, HandedOff(u)) = KM!GroupKey(Group, handoff[u].gen)
<1>1. handoffBox[u] = HandedTo(u, wrapKey[u], handoff[u].gen)
  BY DEF BoxInv
<1>2. KM!HandedOffKey(Keys(u), Group, HandedOff(u))
        = KM!Decrypt(KM!KeyPair(u, wrapKey[u]), handoffBox[u],
                     KM!HandoffWrapAAD(u, Group, handoff[u].gen, KM!KeyPair(u, wrapKey[u])))
  BY DEF KM!HandedOffKey, KM!Unwrap, Keys, HandedOff, KM!LiveKeys
<1> QED BY <1>1, <1>2, Opening DEF HandedTo, KM!Wrap

\* The link and the own entry a mint makes from the right old key.
LEMMA MintMakes ==
  ASSUME NEW u \in User, NEW g \in Nat
  PROVE  LET m == KM!Mint(Keys(u), Group, KM!GroupKey(Group, g), g)
         IN  m.link = LinkOf(g) /\ m.own = Wrapped(u, wrapKey[u], g + 1)
BY DEF KM!Mint, Keys, KM!LiveKeys, LinkOf, Wrapped

\* A start stores the link of its own generation and touches no other box.
LEMMA StoreKeeps ==
  ASSUME BoxInv, NEW u \in User, NEW made, made.mint.link = LinkOf(member[u].gen),
         StoreMint(u, made), links' = links \cup {member[u].gen}, member[u].gen \notin links,
         \A v \in User : handoff'[v] = handoff[v] \/ handoff'[v] = NoHandoff
  PROVE  /\ handoffBox' = [v \in User |-> handoffBox'[v]]
         /\ linkBox' = [n \in links' |-> LinkOf(n)]
         /\ \A v \in User : HandStep(v)
<1> DEFINE g == member[u].gen
<1>1. linkBox' = [n \in links' |-> LinkOf(n)]
  <2>1. linkBox = [n \in links |-> LinkOf(n)]
    BY DEF BoxInv
  <2>2. linkBox' = [n \in links' |-> IF n \in links THEN linkBox[n] ELSE made.mint.link]
    BY DEF StoreMint
  <2> QED BY <2>1, <2>2
<1>2. \A v \in User : HandStep(v)
  BY DEF StoreMint, HandStep
<1>3. handoffBox' = [v \in User |-> handoffBox'[v]]
  BY DEF StoreMint
<1> QED BY <1>1, <1>2, <1>3

\* A step that writes nothing of the accounts or of the other rows' boxes.
LEMMA HandsOff ==
  ASSUME BoxInv, handoff' = handoff, UNCHANGED <<linkBox, handoffBox>>, links' = links
  PROVE  /\ handoffBox' = [v \in User |-> handoffBox'[v]]
         /\ linkBox' = [n \in links' |-> LinkOf(n)]
         /\ \A v \in User : HandStep(v)
BY DEF BoxInv, HandStep

\* A completed invite wraps the inviter's key to the new member's pair.
LEMMA JoinStep ==
  ASSUME TypeOK, BoxInv, NEW i \in User, NEW v \in User, VaultJoin(i, v)
  PROVE  BoxStep
<1> DEFINE link == KM!SignInviteCreation(Keys(i), InviteOf(v), Group)
           acceptance == KM!SignInviteAcceptance(Keys(v), InviteOf(v), link.macKey)
<1>1. PICK made \in KM!CompleteInvite(Keys(i), InviteOf(v), Group, Material(i),
                                      v, acceptance.pub, acceptance.mac) :
        /\ CompleteInvite(i, v)
        /\ entryBox' = [entryBox EXCEPT ![v] = made.wrapped]
        /\ UNCHANGED <<linkBox, handoffBox>>
  BY DEF VaultJoin
<1>2. /\ i \in Members /\ v \notin Members
      /\ member' = [member EXCEPT ![v] = NewMember(i, v)]
      /\ links' = links /\ UNCHANGED <<keyEpoch, wrapKey, handoff>>
  BY <1>1 DEF CompleteInvite, JoinAllowed, Inviting, Members, accountRows
<1>3. ~Dormant(i) /\ made.wrapped = Wrapped(v, wrapKey[v], member[i].gen)
  <2>1. /\ KM!OwnKey(Keys(i), Group, Material(i)) # KM!Fail
        /\ made.wrapped = KM!Wrap(acceptance.pub, KM!OwnKey(Keys(i), Group, Material(i)),
                                  KM!MemberWrapAAD(Group, v, Material(i).generation))
    <3> HIDE DEF acceptance
    <3> QED BY <1>1 DEF KM!CompleteInvite, KM!Unless
  <2>2. acceptance.pub = KM!KeyPair(v, wrapKey[v]) /\ Material(i).generation = member[i].gen
    BY DEF KM!SignInviteAcceptance, Keys, KM!LiveKeys, Material
  <2> HIDE DEF acceptance
  <2> QED BY <1>2, <2>1, <2>2, OwnKeyOpens DEF Wrapped
<1>4. entryBox = [u \in User |-> entryBox[u]] /\ member \in [User -> Row]
  BY DEF BoxInv, TypeOK
<1>5. Made(v)
  <2>1. member'[v] = NewMember(i, v) /\ entryBox'[v] = made.wrapped
    BY <1>1, <1>2, <1>4
  <2>2. member'[v].gen = member[i].gen /\ member'[v].epoch = keyEpoch[v] /\ member'[v].role # "none"
    BY <2>1 DEF NewMember
  <2>3. keyEpoch[v] \in Nat
    BY DEF TypeOK
  <2> QED BY <1>2, <1>3, <2>1, <2>2, <2>3 DEF Made, MadeBy, Dormant
<1>6. ASSUME NEW u \in User, u # v PROVE Stays(u)
  BY <1>1, <1>2, <1>4, <1>6 DEF Stays, Members
<1>7. entryBox' = [u \in User |-> entryBox'[u]]
  BY <1>1, <1>4
<1> QED BY <1>1, <1>2, <1>5, <1>6, <1>7, HandsOff DEF BoxStep

\* A batch of re-wraps hands the caller's own key out.
LEMMA RewrappedStep ==
  ASSUME TypeOK, BoxInv, NEW u \in Members, NEW batch \in SUBSET Members, Rewrapped(u, batch),
         links' = links, UNCHANGED <<keyEpoch, wrapKey, handoff>>,
         \A v \in batch : /\ member'[v].role # "none" /\ member'[v].gen = member[u].gen
                          /\ ~Dormant(v)',
         \A v \in User \ batch : member'[v] = member[v]
  PROVE  BoxStep
<1>1. PICK wraps \in KM!RewrapGroupKey(Keys(u), Group, Material(u), batch, [v \in User |-> Pub(v)]) :
        /\ entryBox' = [v \in User |-> IF v \in batch THEN wraps[v] ELSE entryBox[v]]
        /\ UNCHANGED <<linkBox, handoffBox>>
  BY DEF Rewrapped
<1>2. /\ KM!OwnKey(Keys(u), Group, Material(u)) # KM!Fail
      /\ wraps = [r \in batch |-> KM!Wrap([v \in User |-> Pub(v)][r],
                                          KM!OwnKey(Keys(u), Group, Material(u)),
                                          KM!MemberWrapAAD(Group, r, Material(u).generation))]
  BY <1>1 DEF KM!RewrapGroupKey, KM!Unless
<1>3. ~Dormant(u) /\ \A v \in batch : wraps[v] = Wrapped(v, wrapKey[v], member[u].gen)
  <2>1. Material(u).generation = member[u].gen
    BY DEF Material
  <2>2. batch \subseteq User
    BY DEF Members
  <2> QED BY <1>2, <2>1, <2>2, OwnKeyOpens DEF Wrapped, Pub
<1>4. \A v \in batch : Made(v)
  BY <1>1, <1>3 DEF Made, MadeBy, Members
<1>5. \A v \in User \ batch : Stays(v)
  BY <1>1 DEF Stays, Members
<1>6. entryBox' = [v \in User |-> entryBox'[v]]
  BY <1>1
<1> QED BY <1>1, <1>4, <1>5, <1>6, HandsOff DEF BoxStep

LEMMA RewrapStep ==
  ASSUME TypeOK, BoxInv, EpochInv, NEW u \in User, NEW batch \in SUBSET User,
         VaultRewrap(u, batch)
  PROVE  BoxStep
<1>1. /\ RewrapMembers(u, batch) /\ Rewrapped(u, batch)
      /\ u \in Members /\ batch \in SUBSET Members
      /\ links' = links /\ UNCHANGED <<keyEpoch, wrapKey, handoff>>
  BY DEF VaultRewrap, RewrapMembers, IsAdmin, Members, accountRows
<1>2. ASSUME NEW v \in batch
      PROVE  /\ member'[v].role # "none" /\ member'[v].gen = member[u].gen
             /\ ~Dormant(v)'
  <2>1. member'[v] = [member[v] EXCEPT !.gen = member[u].gen] /\ ~Dormant(v)
    BY <1>1 DEF RewrapMembers, MayRewrap
  <2>2. /\ member[v] \in Row /\ member[v].role # "none"
    BY <1>1 DEF TypeOK, Members
  <2> QED BY <1>1, <2>1, <2>2 DEF Row, Dormant
<1>3. \A v \in User \ batch : member'[v] = member[v]
  BY <1>1 DEF RewrapMembers
<1> QED BY <1>1, <1>2, <1>3, RewrappedStep

\* An approval of a dormant member is a batch of one.
LEMMA ApproveRewrapStep ==
  ASSUME TypeOK, BoxInv, NEW u \in User, NEW v \in User, VaultApproveRewrap(u, v)
  PROVE  BoxStep
<1>1. /\ ApproveRewrap(u, v) /\ Rewrapped(u, {v})
      /\ u \in Members /\ {v} \in SUBSET Members
      /\ links' = links /\ UNCHANGED <<keyEpoch, wrapKey, handoff>>
      /\ member' = [member EXCEPT ![v] = MovedTo(v, member[u].gen)]
  BY DEF VaultApproveRewrap, ApproveRewrap, Inviting, Members, accountRows
<1>2. /\ member'[v].role # "none" /\ member'[v].gen = member[u].gen /\ ~Dormant(v)'
  <2>1. member'[v] = MovedTo(v, member[u].gen) /\ member[u].gen \in Nat /\ keyEpoch[v] \in Nat
    BY <1>1 DEF TypeOK, Row
  <2>2. member[v].role # "none"
    BY <1>1 DEF Members
  <2> QED BY <1>1, <2>1, <2>2, MovedFields, MovedEpoch DEF Dormant
<1>3. \A w \in User \ {v} : member'[w] = member[w]
  BY <1>1 DEF TypeOK
<1> QED BY <1>1, <1>2, <1>3, RewrappedStep

\* What a mint from the caller's entry, or from its handoff row, writes.
LEMMA MintOpens ==
  ASSUME TypeOK, BoxInv, NEW u \in Members, NEW old, old # KM!Fail,
         NEW made, made.mint = KM!Mint(Keys(u), Group, old, member[u].gen),
         \/ old = KM!OwnKey(Keys(u), Group, Material(u))
         \/ /\ handoff[u] = [gen |-> member[u].gen, key |-> wrapKey[u]]
            /\ handoff[u] # NoHandoff
            /\ old = KM!HandedOffKey(Keys(u), Group, HandedOff(u))
  PROVE  /\ made.mint.link = LinkOf(member[u].gen)
         /\ made.mint.own = Wrapped(u, wrapKey[u], member[u].gen + 1)
         /\ member[u].gen \in Nat
<1>1. old = KM!GroupKey(Group, member[u].gen)
  <2>1. CASE old = KM!OwnKey(Keys(u), Group, Material(u))
    BY <2>1, OwnKeyOpens
  <2>2. CASE /\ handoff[u] = [gen |-> member[u].gen, key |-> wrapKey[u]]
             /\ handoff[u] # NoHandoff
             /\ old = KM!HandedOffKey(Keys(u), Group, HandedOff(u))
    <3>1. u \in User /\ handoff[u].key = wrapKey[u] /\ handoff[u].gen = member[u].gen
      BY <2>2 DEF Members
    <3> QED BY <2>2, <3>1, HandedOffOpens
  <2> QED BY <2>1, <2>2
<1>2. u \in User /\ member[u].gen \in Nat
  BY DEF TypeOK, Row, Members
<1> QED BY <1>1, <1>2, MintMakes

\* A start: its caller, and whoever it moves along, at the generation it minted.
LEMMA StartStep ==
  ASSUME TypeOK, ChainInv, BoxInv, NEW u \in Members, NEW made, NEW r,
         made.mint.link = LinkOf(member[u].gen),
         made.mint.own = Wrapped(u, wrapKey[u], member[u].gen + 1),
         Mint(u, member[u].gen, r), StoreMint(u, made),
         UNCHANGED <<keyEpoch, wrapKey>>,
         \A v \in User : handoff'[v] = handoff[v] \/ handoff'[v] = NoHandoff,
         member'[u] = MovedTo(u, member[u].gen + 1), entryBox'[u] = made.mint.own,
         entryBox' = [v \in User |-> entryBox'[v]],
         NEW w \in User, w = u \/ Goes(w) \/ Stays(w)
            \/ /\ w \in Members
               /\ member'[w] = MovedTo(w, member[u].gen + 1)
               /\ entryBox'[w] = Wrapped(w, wrapKey[w], member[u].gen + 1),
         \A v \in User \ {u, w} : member'[v] = member[v] /\ entryBox'[v] = entryBox[v]
  PROVE  BoxStep
<1> DEFINE g == member[u].gen
<1>1. u \in User /\ g \in Nat /\ g + 1 \in Nat /\ \A v \in User : keyEpoch[v] \in Nat
  BY DEF TypeOK, Row, Members
<1>2. g \notin links /\ links' = links \cup {g}
  BY DEF Mint, MintAllowed
<1>3. g = CurrentGeneration
  <2>1. links = 0..(CurrentGeneration - 1) /\ CurrentGeneration \in Nat /\ g <= CurrentGeneration
    BY CurrentOfPrefix DEF ChainInv, ChainIs
  <2> QED BY <1>1, <1>2, <2>1
<1>4. ASSUME NEW v \in Members, member'[v] = MovedTo(v, g + 1),
             entryBox'[v] = Wrapped(v, wrapKey[v], g + 1)
      PROVE  Made(v)
  <2>1. v \in User /\ member[v].role # "none"
    BY DEF Members
  <2>2. member'[v].gen = g + 1 /\ member'[v].epoch = keyEpoch[v] /\ member'[v].role # "none"
    BY <1>1, <1>4, <2>1, MovedFields, MovedEpoch
  <2> QED BY <1>1, <1>3, <1>4, <2>1, <2>2 DEF Made, MadeBy, Dormant
<1>5. ASSUME NEW v \in User \ {u, w} PROVE Stays(v)
  BY <1>5 DEF Stays, Members
<1>6. \A v \in User : Stays(v) \/ Goes(v) \/ Made(v)
  BY <1>4, <1>5
<1> QED BY <1>1, <1>2, <1>6, StoreKeeps DEF BoxStep

LEMMA RemoveStep ==
  ASSUME TypeOK, ChainInv, RequestInv, BoxInv, NEW q \in reqs, VaultRemove(q)
  PROVE  BoxStep
<1>1. PICK made \in KM!StartGroupRotation(Keys(q.by), Group, Material(q.by), q.who) :
        /\ CommitRemoveRotating(q)
        /\ StoreMint(q.by, made)
        /\ entryBox' = [entryBox EXCEPT ![q.by] = made.mint.own, ![q.who] = NoBox]
  BY DEF VaultRemove
<1>2. q.by \in User /\ q.who \in User \ {q.by}
  BY <1>1 DEF TypeOK, Request, RequestInv, NamesAnother, CommitRemoveRotating, RemovalStart
<1>3. /\ Mint(q.by, q.gen, q.who) /\ q.by \in Members /\ q.gen = member[q.by].gen
      /\ member' = [member EXCEPT ![q.by] = MovedTo(q.by, q.gen + 1), ![q.who] = NoRow]
      /\ handoff' = [handoff EXCEPT ![q.by] = NoHandoff] /\ UNCHANGED <<keyEpoch, wrapKey>>
  BY <1>1, <1>2 DEF CommitRemoveRotating, Mint, MintAllowed, AdminAt, IsAdmin, Members
<1>4. /\ KM!OwnKey(Keys(q.by), Group, Material(q.by)) # KM!Fail
      /\ made.mint = KM!Mint(Keys(q.by), Group, KM!OwnKey(Keys(q.by), Group, Material(q.by)),
                             member[q.by].gen)
  BY <1>1 DEF KM!StartGroupRotation, KM!Unless, Material
<1>5. /\ made.mint.link = LinkOf(member[q.by].gen)
      /\ made.mint.own = Wrapped(q.by, wrapKey[q.by], member[q.by].gen + 1)
  BY <1>3, <1>4, MintOpens
<1>6. /\ entryBox = [v \in User |-> entryBox[v]] /\ member \in [User -> Row]
      /\ handoff \in [User -> Handoff]
  BY DEF BoxInv, TypeOK
<1>7. /\ entryBox' = [v \in User |-> entryBox'[v]]
      /\ entryBox'[q.by] = made.mint.own /\ entryBox'[q.who] = NoBox
      /\ member'[q.by] = MovedTo(q.by, member[q.by].gen + 1) /\ member'[q.who] = NoRow
      /\ \A v \in User \ {q.by, q.who} : member'[v] = member[v] /\ entryBox'[v] = entryBox[v]
  BY <1>1, <1>2, <1>3, <1>6
<1>8. Goes(q.who)
  BY <1>7 DEF Goes, NoRow
<1>9. \A v \in User : handoff'[v] = handoff[v] \/ handoff'[v] = NoHandoff
  BY <1>3, <1>6
<1> QED BY <1>1, <1>2, <1>3, <1>5, <1>7, <1>8, <1>9, StartStep

LEMMA TakeOverStep ==
  ASSUME TypeOK, ChainInv, BoxInv, NEW u \in User, VaultTakeOver(u)
  PROVE  BoxStep
<1>1. PICK made \in KM!StartGroupRotation(Keys(u), Group, Material(u), marker.removed) :
        /\ TakeOverLeaveRotation(u)
        /\ StoreMint(u, made)
        /\ entryBox' = [entryBox EXCEPT ![u] = made.mint.own]
  BY DEF VaultTakeOver
<1>3. /\ Mint(u, member[u].gen, marker.removed) /\ u \in Members
      /\ member' = [member EXCEPT ![u] = MovedTo(u, member[u].gen + 1)]
      /\ handoff' = [handoff EXCEPT ![u] = NoHandoff] /\ UNCHANGED <<keyEpoch, wrapKey>>
  BY <1>1 DEF TakeOverLeaveRotation, Mint, MintAllowed, AdminAt, IsAdmin, Members
<1>4. /\ KM!OwnKey(Keys(u), Group, Material(u)) # KM!Fail
      /\ made.mint = KM!Mint(Keys(u), Group, KM!OwnKey(Keys(u), Group, Material(u)), member[u].gen)
  BY <1>1 DEF KM!StartGroupRotation, KM!Unless, Material
<1>5. /\ made.mint.link = LinkOf(member[u].gen)
      /\ made.mint.own = Wrapped(u, wrapKey[u], member[u].gen + 1)
  BY <1>3, <1>4, MintOpens
<1>6. /\ entryBox = [v \in User |-> entryBox[v]] /\ member \in [User -> Row]
      /\ handoff \in [User -> Handoff]
  BY DEF BoxInv, TypeOK
<1>7. /\ entryBox' = [v \in User |-> entryBox'[v]] /\ entryBox'[u] = made.mint.own
      /\ member'[u] = MovedTo(u, member[u].gen + 1)
      /\ \A v \in User \ {u} : member'[v] = member[v] /\ entryBox'[v] = entryBox[v]
  BY <1>1, <1>3, <1>6
<1>8. \A v \in User : handoff'[v] = handoff[v] \/ handoff'[v] = NoHandoff
  BY <1>3, <1>6
<1> QED BY <1>1, <1>3, <1>5, <1>7, <1>8, StartStep

LEMMA SelfRekeyStep ==
  ASSUME TypeOK, ChainInv, HandoffInv, BoxInv, NEW q \in reqs, VaultSelfRekey(q)
  PROVE  BoxStep
<1>1. PICK made \in KM!StartSelfRekey(Keys(q.by), Group, HandedOff(q.by)) :
        /\ CommitSelfRekey(q)
        /\ StoreMint(q.by, made)
        /\ entryBox' = [entryBox EXCEPT ![q.by] = made.mint.own]
  BY DEF VaultSelfRekey
<1>2. q.by \in User
  BY DEF TypeOK, Request
<1>3. /\ Mint(q.by, q.gen, NoOne) /\ q.by \in Members /\ q.gen = member[q.by].gen
      /\ handoff[q.by] = [gen |-> q.gen, key |-> wrapKey[q.by]]
      /\ member' = [member EXCEPT ![q.by] = MovedTo(q.by, q.gen + 1)]
      /\ handoff' = [handoff EXCEPT ![q.by] = NoHandoff] /\ UNCHANGED <<keyEpoch, wrapKey>>
  BY <1>1, <1>2 DEF CommitSelfRekey, Mint, MintAllowed, AdminAt, IsAdmin, Members
<1>4. /\ KM!HandedOffKey(Keys(q.by), Group, HandedOff(q.by)) # KM!Fail
      /\ made.mint = KM!Mint(Keys(q.by), Group, KM!HandedOffKey(Keys(q.by), Group, HandedOff(q.by)),
                             HandedOff(q.by).generation)
  BY <1>1 DEF KM!StartSelfRekey, KM!Unless
<1>5. /\ made.mint.link = LinkOf(member[q.by].gen)
      /\ made.mint.own = Wrapped(q.by, wrapKey[q.by], member[q.by].gen + 1)
  <2>1. handoff[q.by] # NoHandoff
    BY <1>2, <1>3 DEF HandoffInv, NoHandoff
  <2>2. HandedOff(q.by).generation = member[q.by].gen
    BY <1>3 DEF HandedOff
  <2> QED BY <1>3, <1>4, <2>1, <2>2, MintOpens
<1>6. /\ entryBox = [v \in User |-> entryBox[v]] /\ member \in [User -> Row]
      /\ handoff \in [User -> Handoff]
  BY DEF BoxInv, TypeOK
<1>7. /\ entryBox' = [v \in User |-> entryBox'[v]] /\ entryBox'[q.by] = made.mint.own
      /\ member'[q.by] = MovedTo(q.by, member[q.by].gen + 1)
      /\ \A v \in User \ {q.by} : member'[v] = member[v] /\ entryBox'[v] = entryBox[v]
  BY <1>1, <1>2, <1>3, <1>6
<1>8. \A v \in User : handoff'[v] = handoff[v] \/ handoff'[v] = NoHandoff
  BY <1>3, <1>6
<1> QED BY <1>1, <1>2, <1>3, <1>5, <1>7, <1>8, StartStep

LEMMA ApproveRekeyStep ==
  ASSUME TypeOK, ChainInv, BoxInv, NEW q \in reqs, VaultApproveRekey(q)
  PROVE  BoxStep
<1>1. PICK made \in KM!StartApprovalRekey(Keys(q.by), Group, Material(q.by), q.who, Pub(q.who)) :
        /\ CommitApproveRekey(q)
        /\ StoreMint(q.by, made)
        /\ entryBox' = [entryBox EXCEPT ![q.by] = made.mint.own, ![q.who] = made.member]
  BY DEF VaultApproveRekey
<1>2. q.by \in User /\ q.who \in User
  BY DEF TypeOK, Request, VaultApproveRekey
<1>3. /\ Mint(q.by, q.gen, NoOne) /\ q.by \in Members /\ q.gen = member[q.by].gen
      /\ q.who \in Members
      /\ member' = [member EXCEPT ![q.by] = MovedTo(q.by, q.gen + 1),
                                  ![q.who] = MovedTo(q.who, q.gen + 1)]
      /\ UNCHANGED <<keyEpoch, wrapKey, handoff>>
  BY <1>1, <1>2 DEF CommitApproveRekey, Mint, MintAllowed, AdminAt, IsAdmin, Members, accountRows
<1>4. /\ KM!OwnKey(Keys(q.by), Group, Material(q.by)) # KM!Fail
      /\ made.mint = KM!Mint(Keys(q.by), Group, KM!OwnKey(Keys(q.by), Group, Material(q.by)),
                             member[q.by].gen)
      /\ q.who # q.by
      /\ made.member = KM!Wrap(Pub(q.who), KM!GroupKey(Group, member[q.by].gen + 1),
                               KM!MemberWrapAAD(Group, q.who, member[q.by].gen + 1))
  BY <1>1 DEF KM!StartApprovalRekey, KM!Unless, Material, Keys, KM!LiveKeys
<1>5. /\ made.mint.link = LinkOf(member[q.by].gen)
      /\ made.mint.own = Wrapped(q.by, wrapKey[q.by], member[q.by].gen + 1)
      /\ made.member = Wrapped(q.who, wrapKey[q.who], member[q.by].gen + 1)
  BY <1>3, <1>4, MintOpens DEF Wrapped, Pub
<1>6. entryBox = [v \in User |-> entryBox[v]] /\ member \in [User -> Row]
  BY DEF BoxInv, TypeOK
<1>7. /\ entryBox' = [v \in User |-> entryBox'[v]]
      /\ entryBox'[q.by] = made.mint.own /\ entryBox'[q.who] = made.member
      /\ member'[q.by] = MovedTo(q.by, member[q.by].gen + 1)
      /\ member'[q.who] = MovedTo(q.who, member[q.by].gen + 1)
      /\ \A v \in User \ {q.by, q.who} : member'[v] = member[v] /\ entryBox'[v] = entryBox[v]
  BY <1>1, <1>2, <1>3, <1>4, <1>6
<1> QED BY <1>1, <1>2, <1>3, <1>5, <1>7, StartStep

\* A handoff row holds the caller's own key, for the pair it is about to take.
LEMMA PutHandoffStep ==
  ASSUME TypeOK, BoxInv, NEW u \in User, NEW k \in 1..MaxKey, VaultPutHandoff(u, k)
  PROVE  BoxStep
<1>1. PICK made \in KM!WrapHandoff(Keys(u), KM!KeyPair(u, k), Group, Material(u)) :
        /\ PutHandoff(u, k)
        /\ handoffBox' = [handoffBox EXCEPT ![u] = made.wrapped]
        /\ UNCHANGED <<entryBox, linkBox>>
  BY DEF VaultPutHandoff
<1>2. /\ u \in Members /\ member' = member /\ links' = links /\ UNCHANGED <<keyEpoch, wrapKey>>
      /\ handoff' = [handoff EXCEPT ![u] = [gen |-> member[u].gen, key |-> k]]
  BY <1>1 DEF PutHandoff, OwesHandoff, IsAdmin, Members, groupRows
<1>3. made.wrapped = HandedTo(u, k, member[u].gen)
  <2>1. /\ KM!OwnKey(Keys(u), Group, Material(u)) # KM!Fail
        /\ made.wrapped = KM!Wrap(KM!KeyPair(u, k), KM!OwnKey(Keys(u), Group, Material(u)),
                             KM!HandoffWrapAAD(u, Group, member[u].gen, KM!KeyPair(u, k)))
    BY <1>1 DEF KM!WrapHandoff, KM!Unless, Material, Keys, KM!LiveKeys
  <2> QED BY <1>2, <2>1, OwnKeyOpens DEF HandedTo
<1>4. /\ handoffBox = [v \in User |-> handoffBox[v]] /\ handoff \in [User -> Handoff]
      /\ entryBox = [v \in User |-> entryBox[v]] /\ linkBox = [n \in links |-> LinkOf(n)]
  BY DEF BoxInv, TypeOK
<1>5. HandStep(u)
  <2>1. /\ handoff'[u] = [gen |-> member[u].gen, key |-> k]
        /\ handoffBox'[u] = HandedTo(u, k, member[u].gen)
    BY <1>1, <1>2, <1>3, <1>4
  <2> QED BY <1>2, <2>1 DEF HandStep
<1>6. ASSUME NEW v \in User, v # u PROVE HandStep(v)
  BY <1>1, <1>2, <1>4, <1>6 DEF HandStep
<1>7. \A v \in User : Stays(v)
  BY <1>1, <1>2 DEF Stays, Members
<1>8. handoffBox' = [v \in User |-> handoffBox'[v]]
  BY <1>1, <1>4
<1> QED BY <1>1, <1>2, <1>4, <1>5, <1>6, <1>7, <1>8 DEF BoxStep

\* A self-wrap moves the key of the handoff row to the entry.
LEMMA SelfWrapStep ==
  ASSUME TypeOK, HandoffInv, BoxInv, NEW u \in User, VaultSelfWrap(u)
  PROVE  BoxStep
<1> DEFINE made == KM!SelfWrapFromHandoff(Keys(u), Group, HandedOff(u))
<1>1. /\ SelfWrap(u) /\ made # KM!Fail
      /\ entryBox' = [entryBox EXCEPT ![u] = made]
      /\ handoffBox' = [handoffBox EXCEPT ![u] = NoBox]
      /\ UNCHANGED linkBox
  BY DEF VaultSelfWrap
<1>2. /\ u \in Members /\ mode = "open" /\ links' = links /\ UNCHANGED <<keyEpoch, wrapKey>>
      /\ handoff[u] = [gen |-> member[u].gen, key |-> wrapKey[u]]
      /\ member' = [member EXCEPT ![u] = MovedTo(u, member[u].gen)]
      /\ handoff' = [handoff EXCEPT ![u] = NoHandoff]
  BY <1>1 DEF SelfWrap
<1>3. made = Wrapped(u, wrapKey[u], member[u].gen)
  <2>1. handoff[u] # NoHandoff /\ handoff[u].key = wrapKey[u] /\ handoff[u].gen = member[u].gen
    BY <1>2 DEF HandoffInv, NoHandoff
  <2>2. KM!HandedOffKey(Keys(u), Group, HandedOff(u)) = KM!GroupKey(Group, member[u].gen)
    BY <2>1, HandedOffOpens
  <2>3. made = KM!Wrap(KM!KeyPair(u, wrapKey[u]), KM!GroupKey(Group, member[u].gen),
                       KM!MemberWrapAAD(Group, u, member[u].gen))
    BY <2>1, <2>2, Terms DEF KM!SelfWrapFromHandoff, Keys, KM!LiveKeys, HandedOff
  <2> QED BY <2>3 DEF Wrapped
<1> HIDE DEF made
<1>4. /\ handoffBox = [v \in User |-> handoffBox[v]] /\ handoff \in [User -> Handoff]
      /\ entryBox = [v \in User |-> entryBox[v]] /\ linkBox = [n \in links |-> LinkOf(n)]
      /\ member \in [User -> Row] /\ \A v \in User : keyEpoch[v] \in Nat
  BY DEF BoxInv, TypeOK
<1>5. Made(u)
  <2>1. member[u].role # "none" /\ member[u].gen \in Nat
    BY <1>2, <1>4 DEF Members, Row
  <2>2. member'[u] = MovedTo(u, member[u].gen) /\ entryBox'[u] = made
    BY <1>1, <1>2, <1>4
  <2> QED BY <1>2, <1>3, <1>4, <2>1, <2>2, MovedFields, MovedEpoch DEF Made, MadeBy, Dormant
<1>6. ASSUME NEW v \in User, v # u PROVE Stays(v)
  BY <1>1, <1>2, <1>4, <1>6 DEF Stays, Members
<1>7. \A v \in User : HandStep(v)
  BY <1>1, <1>2, <1>4 DEF HandStep
<1>8. /\ handoffBox' = [v \in User |-> handoffBox'[v]]
      /\ entryBox' = [v \in User |-> entryBox'[v]]
  BY <1>1, <1>4
<1> QED BY <1>1, <1>2, <1>4, <1>5, <1>6, <1>7, <1>8 DEF BoxStep

\* A quiet step moves no entry and makes no handoff row or link; only a key change
\* moves an account's pair, and forward.
QuietRows ==
  /\ \A u \in User : member'[u].role # "none" =>
       /\ u \in Members
       /\ member'[u].gen = member[u].gen /\ member'[u].epoch = member[u].epoch
  /\ \A u \in User : handoff'[u] = handoff[u] \/ handoff'[u] = NoHandoff
  /\ links' \subseteq links
  /\ \A u \in User : \/ keyEpoch'[u] = keyEpoch[u] /\ wrapKey'[u] = wrapKey[u]
                     \/ keyEpoch'[u] > keyEpoch[u] /\ wrapKey'[u] > wrapKey[u]

LEMMA QuietStep ==
  ASSUME TypeOK, HandoffInv, BoxInv, Quiet
  PROVE  BoxStep
<1>t. /\ member \in [User -> Row] /\ handoff \in [User -> Handoff]
      /\ keyEpoch \in [User -> Nat] /\ wrapKey \in [User -> Nat]
      /\ \A q \in reqs : q.by \in User /\ q.key \in Nat
  BY DEF TypeOK, Request
<1>1. Reads => QuietRows
  BY ReadsChangeNothing DEF QuietRows, groupRows, accountRows, Members
<1>2. ASSUME NEW q \in reqs,
             CommitRemoveOpen(q) \/ CommitLeaveRotating(q) \/ CommitLeaveOpen(q)
             \/ CommitDeleteGroup(q) \/ SweepGroup(q)
      PROVE  QuietRows
  <2>1. /\ \A u \in User : member'[u] = member[u] \/ member'[u] = NoRow
        /\ links' \subseteq links /\ UNCHANGED accountRows
    BY <1>2, <1>t DEF CommitRemoveOpen, CommitLeaveRotating, CommitLeaveOpen, LeaveAllowed,
       CommitDeleteGroup, SweepGroup
  <2> QED BY <2>1 DEF QuietRows, NoRow, Members, accountRows
<1>3. ASSUME NEW q \in reqs, CommitComplete(q) \/ CommitConvert(q) \/ Drop(q)
      PROVE  QuietRows
  BY <1>3 DEF CommitComplete, CommitConvert, Drop, QuietRows, groupRows, accountRows, Members
<1>4. ASSUME NEW q \in reqs, CommitRotateKeys(q) PROVE QuietRows
  <2>1. /\ UNCHANGED groupRows /\ keyEpoch[q.by] = q.gen
        /\ keyEpoch' = [keyEpoch EXCEPT ![q.by] = @ + 1]
        /\ wrapKey' = [wrapKey EXCEPT ![q.by] = q.key]
        /\ handoff' = handoff \/ handoff' = [handoff EXCEPT ![q.by] = NoHandoff]
    BY <1>4 DEF CommitRotateKeys
  <2>2. q.key > wrapKey[q.by]
    BY <1>4, <2>1 DEF HandoffInv, KeyChangeInv, CommitRotateKeys
  <2>3. \A u \in User : \/ keyEpoch'[u] = keyEpoch[u] /\ wrapKey'[u] = wrapKey[u]
                        \/ keyEpoch'[u] > keyEpoch[u] /\ wrapKey'[u] > wrapKey[u]
    BY <1>t, <2>1, <2>2
  <2>4. \A u \in User : handoff'[u] = handoff[u] \/ handoff'[u] = NoHandoff
    BY <1>t, <2>1
  <2> QED BY <2>1, <2>3, <2>4 DEF QuietRows, groupRows, Members
<1>5. ASSUME NEW q \in reqs, CommitDeleteAccount(q) PROVE QuietRows
  BY <1>5, <1>t DEF CommitDeleteAccount, QuietRows, groupRows, Members
<1>6. ASSUME NEW u \in User, DeleteHandoff(u) PROVE QuietRows
  BY <1>6, <1>t DEF DeleteHandoff, QuietRows, groupRows, Members
<1>7. ASSUME NEW u \in User, NEW v \in User, NEW r \in Role, ChangeMemberRole(u, v, r)
      PROVE  QuietRows
  <2>1. /\ v \in Members /\ UNCHANGED accountRows /\ links' = links
        /\ member' = [member EXCEPT ![v].role = r]
    BY <1>7 DEF ChangeMemberRole
  <2>2. \A w \in User : /\ member'[w].gen = member[w].gen /\ member'[w].epoch = member[w].epoch
                        /\ member'[w].role # "none" => w \in Members
    BY <1>t, <2>1 DEF Row, Members
  <2> QED BY <2>1, <2>2 DEF QuietRows, accountRows
<1>8. QuietRows
  BY <1>1, <1>2, <1>3, <1>4, <1>5, <1>6, <1>7 DEF Quiet
<1>9. /\ entryBox' = [u \in User |-> IF u \in Members' THEN entryBox[u] ELSE NoBox]
      /\ handoffBox' = [u \in User |-> IF handoff'[u] = NoHandoff THEN NoBox ELSE handoffBox[u]]
      /\ linkBox' = [n \in links' |-> linkBox[n]]
  BY DEF Quiet
<1>10. \A u \in User : u \in Members' <=> member'[u].role # "none"
  BY DEF Members
<1>11. ASSUME NEW u \in User PROVE (Stays(u) \/ Goes(u)) /\ HandStep(u)
  BY <1>8, <1>9, <1>10 DEF QuietRows, Stays, Goes, HandStep
<1>12. linkBox' = [n \in links' |-> LinkOf(n)]
  BY <1>8, <1>9 DEF QuietRows, BoxInv
<1>13. /\ entryBox' = [u \in User |-> entryBox'[u]]
       /\ handoffBox' = [u \in User |-> handoffBox'[u]]
  BY <1>9
<1> QED BY <1>11, <1>12, <1>13 DEF BoxStep

-----------------------------------------------------------------------------
(* The vault adds boxes to the key protocol: it takes the same steps.      *)

KeyInv == TypeOK /\ ChainInv /\ RequestInv /\ EpochInv /\ HandoffInv /\ SweepInv

LEMMA VaultTakesKeySteps ==
  /\ VaultInit => Init
  /\ [VaultNext]_vaultVars => [Next]_vars
<1>1. VaultInit => Init
  BY DEF VaultInit
<1>2. ASSUME NEW q \in reqs, VaultRemove(q) \/ VaultSelfRekey(q) \/ VaultApproveRekey(q)
      PROVE  Next
  BY <1>2 DEF VaultRemove, VaultSelfRekey, VaultApproveRekey, Next, Transactions
<1>3. ASSUME NEW u \in User, NEW v \in User, VaultJoin(u, v) \/ VaultApproveRewrap(u, v)
      PROVE  Next
  BY <1>3 DEF VaultJoin, VaultApproveRewrap, Next, Handlers
<1>4. ASSUME NEW u \in User, VaultTakeOver(u) \/ VaultSelfWrap(u)
      PROVE  Next
  BY <1>4 DEF VaultTakeOver, VaultSelfWrap, Next, Handlers
<1>5. ASSUME NEW u \in User, NEW batch \in SUBSET User, VaultRewrap(u, batch)
      PROVE  Next
  BY <1>5 DEF VaultRewrap, Next, Handlers
<1>6. ASSUME NEW u \in User, NEW k \in 1..MaxKey, VaultPutHandoff(u, k)
      PROVE  Next
  BY <1>6 DEF VaultPutHandoff, Next, Handlers
<1>7. Quiet => Next
  BY DEF Quiet, Next, Transactions, Handlers
<1>8. KeySteps => Next
  BY <1>2, <1>3, <1>4, <1>5, <1>6, <1>7 DEF KeySteps
<1>9. ASSUME [VaultNext]_vaultVars PROVE [Next]_vars
  <2>1. CASE VaultNext
    BY <1>8, <2>1 DEF VaultNext
  <2>2. CASE UNCHANGED vaultVars
    BY <2>2 DEF vaultVars
  <2> QED BY <1>9, <2>1, <2>2
<1> QED BY <1>1, <1>9

\* Every step of the key protocol with boxes is one of the cases above.
LEMMA BoxSteps ==
  ASSUME KeyInv, BoxInv, KeySteps
  PROVE  BoxStep
<1>1. \A q \in reqs : VaultRemove(q) \/ VaultSelfRekey(q) \/ VaultApproveRekey(q) => BoxStep
  BY RemoveStep, SelfRekeyStep, ApproveRekeyStep DEF KeyInv
<1>2. \A u, v \in User : VaultJoin(u, v) \/ VaultApproveRewrap(u, v) => BoxStep
  BY JoinStep, ApproveRewrapStep DEF KeyInv
<1>3. ASSUME NEW u \in User, VaultTakeOver(u) \/ VaultSelfWrap(u) PROVE BoxStep
  BY <1>3, TakeOverStep, SelfWrapStep DEF KeyInv
<1>4. ASSUME NEW u \in User, NEW batch \in SUBSET User, VaultRewrap(u, batch) PROVE BoxStep
  BY <1>4, RewrapStep DEF KeyInv
<1>5. ASSUME NEW u \in User, NEW k \in 1..MaxKey, VaultPutHandoff(u, k) PROVE BoxStep
  BY <1>5, PutHandoffStep DEF KeyInv
<1>6. CASE Quiet
  BY <1>6, QuietStep DEF KeyInv
<1> QED BY <1>1, <1>2, <1>3, <1>4, <1>5, <1>6 DEF KeySteps

-----------------------------------------------------------------------------
(* The invariants of the rows and of the boxes, together.                  *)

LEMMA KeyInvNext == KeyInv /\ [Next]_vars => KeyInv'
<1> SUFFICES ASSUME KeyInv, [Next]_vars PROVE KeyInv'
  OBVIOUS
<1>1. TypeOK'
  BY NextTyped DEF KeyInv
<1>2. HandoffInv'
  <2>1. CASE UNCHANGED vars
    BY <2>1 DEF KeyInv, HandoffInv, KeyChangeInv, vars, accountRows
  <2> QED BY <2>1, HandoffReads, HandoffTransactions, HandoffHandlers DEF KeyInv, Next
<1> QED BY <1>1, <1>2, ChainNext, RequestNext, EpochNext, SweepNext DEF KeyInv

LEMMA KeyInvInit == Init => KeyInv
<1> SUFFICES ASSUME Init PROVE KeyInv
  OBVIOUS
<1>1. RequestInv /\ HandoffInv /\ SweepInv
  BY DEF Init, RequestInv, HandoffInv, SweepInv
<1>2. EpochInv
  BY DEF Init, EpochInv, Members, NoRow
<1> QED BY <1>1, <1>2, InitTyped, ChainInit DEF KeyInv

LEMMA KeyInvAlways == VaultSpec => []KeyInv
<1>1. VaultInit => KeyInv
  BY VaultTakesKeySteps, KeyInvInit
<1>2. KeyInv /\ [VaultNext]_vaultVars => KeyInv'
  BY VaultTakesKeySteps, KeyInvNext
<1> QED BY <1>1, <1>2, PTL DEF VaultSpec

\* The creator seals generation 0 to itself and wraps it to the founders.
LEMMA BoxInit == VaultInit => BoxInv
<1> SUFFICES ASSUME VaultInit PROVE BoxInv
  OBVIOUS
<1> DEFINE creation == KM!SignGroupCreation(Keys(Creator), Group, "root")
           creators == [generation |-> 0, wrapped |-> creation.wrapped, chain |-> <<>>]
           others   == Members \ {Creator}
<1>1. PICK wraps \in KM!RewrapGroupKey(Keys(Creator), Group, creators, others,
                                       [u \in others |-> Pub(u)]) :
        entryBox = [u \in User |-> IF u = Creator THEN creation.wrapped
                                   ELSE IF u \in others THEN wraps[u] ELSE NoBox]
  BY DEF VaultInit
<1>2. /\ linkBox = <<>> /\ handoffBox = [u \in User |-> NoBox] /\ links = {}
      /\ member = [u \in User |-> [NoRow EXCEPT !.role = Founder[u]]]
      /\ wrapKey = [u \in User |-> 1] /\ keyEpoch = [u \in User |-> 0]
      /\ handoff = [u \in User |-> NoHandoff] /\ Creator \in User
  BY FounderAssumption DEF VaultInit, Init
<1>3. creation.wrapped = Wrapped(Creator, 1, 0)
  BY <1>2 DEF KM!SignGroupCreation, Keys, KM!LiveKeys, Wrapped
<1>4. KM!OwnKey(Keys(Creator), Group, creators) = KM!GroupKey(Group, 0)
  <2>1. KM!OwnKey(Keys(Creator), Group, creators)
          = KM!Decrypt(KM!KeyPair(Creator, 1), Wrapped(Creator, 1, 0),
                       KM!MemberWrapAAD(Group, Creator, 0))
    <3> HIDE DEF creation
    <3> QED BY <1>2, <1>3 DEF KM!OwnKey, KM!Unwrap, Keys, KM!LiveKeys
  <2> QED BY <2>1, Opening DEF Wrapped, KM!Wrap
<1>5. ASSUME NEW u \in others PROVE wraps[u] = Wrapped(u, 1, 0)
  <2>1. wraps = [r \in others |-> KM!Wrap([v \in others |-> Pub(v)][r],
                                          KM!OwnKey(Keys(Creator), Group, creators),
                                          KM!MemberWrapAAD(Group, r, creators.generation))]
    <3> HIDE DEF creators, others
    <3> QED BY <1>1 DEF KM!RewrapGroupKey, KM!Unless
  <2>2. u \in User
    BY DEF Members
  <2> QED BY <1>2, <1>4, <2>1, <2>2 DEF Wrapped, Pub
<1>6. ASSUME NEW u \in Members PROVE EntryRight(u)
  <2>1. /\ u \in User /\ member[u].gen = 0 /\ member[u].epoch = 0
        /\ wrapKey[u] = 1 /\ keyEpoch[u] = 0
    BY <1>2 DEF Members, NoRow
  <2>2. entryBox[u] = Wrapped(u, 1, 0)
    <3> HIDE DEF creation
    <3> QED BY <1>1, <1>3, <1>5, <2>1
  <2> QED BY <2>1, <2>2 DEF EntryRight, Dormant
<1>7. linkBox = [n \in links |-> LinkOf(n)]
  BY <1>2
<1> QED BY <1>1, <1>2, <1>6, <1>7 DEF BoxInv

\* A step leaves every entry, link and handoff row right.
LEMMA BoxNext == KeyInv /\ BoxInv /\ [VaultNext]_vaultVars => BoxInv'
<1> SUFFICES ASSUME KeyInv, BoxInv, [VaultNext]_vaultVars PROVE BoxInv'
  OBVIOUS
<1>1. CASE BoxStep
  <2>1. ASSUME NEW u \in User, u \in Members' PROVE EntryRight(u)'
    <3>1. member'[u].role # "none"
      BY <2>1 DEF Members
    <3>2. CASE Stays(u)
      <4>1. u \in Members /\ member'[u].gen = member[u].gen /\ member'[u].epoch = member[u].epoch
        BY <3>1, <3>2 DEF Stays
      <4>2. PICK k \in Nat : /\ entryBox[u] = Wrapped(u, k, member[u].gen)
                             /\ IF Dormant(u) THEN k < wrapKey[u] ELSE k = wrapKey[u]
        BY <4>1 DEF BoxInv, EntryRight
      <4>3. /\ keyEpoch[u] \in Nat /\ wrapKey[u] \in Nat /\ member[u].epoch \in Nat
            /\ keyEpoch'[u] \in Nat /\ wrapKey'[u] \in Nat
        <5>1. TypeOK'
          BY VaultTakesKeySteps, KeyInvNext DEF KeyInv
        <5> QED BY <5>1 DEF KeyInv, TypeOK, Row
      <4>4. member[u].epoch <= keyEpoch[u]
        BY <4>1 DEF KeyInv, EpochInv
      <4>5. IF Dormant(u)' THEN k < wrapKey'[u] ELSE k = wrapKey'[u]
        BY <3>2, <4>1, <4>2, <4>3, <4>4 DEF Stays, Dormant
      <4>6. entryBox'[u] = Wrapped(u, k, member'[u].gen)
        BY <3>2, <4>1, <4>2 DEF Stays
      <4> QED BY <4>5, <4>6 DEF EntryRight
    <3>3. CASE Made(u)
      <4>1. wrapKey[u] \in Nat
        BY DEF KeyInv, TypeOK
      <4> QED BY <3>3, <4>1 DEF Made, EntryRight
    <3> QED BY <1>1, <2>1, <3>1, <3>2, <3>3 DEF BoxStep, Goes
  <2>2. ASSUME NEW u \in User, handoff'[u] # NoHandoff
        PROVE  handoffBox'[u] = HandedTo(u, handoff'[u].key, handoff'[u].gen)
    BY <1>1, <2>2 DEF BoxStep, HandStep, BoxInv
  <2>3. \A u \in Members' : u \in User
    BY DEF Members
  <2> QED BY <1>1, <2>1, <2>2, <2>3 DEF BoxStep, BoxInv
<1>2. CASE UNCHANGED <<vars, vault>>
  BY <1>2 DEF BoxInv, EntryRight, Members, Dormant, vars, vault, groupRows, accountRows
<1>3. BoxStep \/ UNCHANGED <<vars, vault>>
  BY BoxSteps DEF VaultNext, vaultVars
<1> QED BY <1>1, <1>2, <1>3

LEMMA BoxAlways == VaultSpec => [](KeyInv /\ BoxInv)
<1>1. VaultInit => KeyInv /\ BoxInv
  BY VaultTakesKeySteps, KeyInvInit, BoxInit
<1>2. (KeyInv /\ BoxInv) /\ [VaultNext]_vaultVars => (KeyInv /\ BoxInv)'
  BY VaultTakesKeySteps, KeyInvNext, BoxNext
<1> QED BY <1>1, <1>2, PTL DEF VaultSpec

\* A member who is not dormant reaches the key of every generation up to its own.
LEMMA ReadsBack ==
  ASSUME KeyInv, BoxInv, NEW u \in Members, ~Dormant(u), NEW n \in 0..member[u].gen
  PROVE  KM!KeyOfGeneration(Keys(u), Group, Material(u), n) = KM!GroupKey(Group, n)
<1>1. /\ u \in User /\ member[u].gen \in Nat
      /\ \A m \in 0..(member[u].gen - 1) : m \in DOMAIN linkBox /\ linkBox[m] = LinkOf(m)
  <2>1. member[u].gen \in Nat
    BY DEF KeyInv, TypeOK, Row, Members
  <2>2. PICK k \in Nat : links = 0..(k - 1) /\ member[u].gen <= k
    BY DEF KeyInv, ChainInv, ChainIs
  <2> QED BY <2>1, <2>2 DEF BoxInv, Members
<1>2. KM!OwnKey(Keys(u), Group, Material(u)) = KM!GroupKey(Group, member[u].gen)
  BY OwnKeyOpens
<1>3. KM!KeyOfGeneration(Keys(u), Group, Material(u), n)
        = KM!WalkChainDown(KM!GroupKey(Group, member[u].gen), Group, member[u].gen, n, linkBox)
  BY <1>2, Terms DEF KM!KeyOfGeneration, Material
<1> QED BY <1>1, <1>3, WalkDown

\* Every current member whose entry is wrapped to the pair they hold opens it and
\* walks back to the key of every generation up to its own, in any number of
\* rotations, joins, approvals and key changes.
THEOREM MembersReadBack == VaultSpec => []CurrentMembersReadBack
<1>1. ASSUME KeyInv, BoxInv PROVE CurrentMembersReadBack
  <2>1. ASSUME NEW u \in Members, ~Dormant(u)
        PROVE  KM!GenerationKeys(Keys(u), Group, Material(u), 0..member[u].gen) =
                 [n \in 0..member[u].gen |-> KM!GroupKey(Group, n)]
    BY <1>1, <2>1, ReadsBack DEF KM!GenerationKeys
  <2> QED BY <2>1 DEF CurrentMembersReadBack
<1> QED BY <1>1, BoxAlways, PTL

\* The handoff row of a committed key change opens with the new pair, to the key
\* of the generation it names.
THEOREM HandoffOpens == VaultSpec => []PendingHandoffOpens
<1>1. ASSUME KeyInv, BoxInv PROVE PendingHandoffOpens
  <2>1. ASSUME NEW u \in Members, handoff[u].key = wrapKey[u]
        PROVE  KM!HandedOffKey(Keys(u), Group, HandedOff(u)) = KM!GroupKey(Group, handoff[u].gen)
    <3>1. u \in User
      BY DEF Members
    <3>2. handoff[u] # NoHandoff
      BY <1>1, <2>1, <3>1 DEF KeyInv, HandoffInv, NoHandoff
    <3> QED BY <1>1, <2>1, <3>1, <3>2, HandedOffOpens
  <2> QED BY <2>1 DEF PendingHandoffOpens
<1> QED BY <1>1, BoxAlways, PTL

-----------------------------------------------------------------------------
(* Everything that was ever stored.  A box addressed to a pair of v's holds  *)
(* a key v was let in on: of a generation not past v's entry, while v is a   *)
(* member, or past the newest key at the moment v last left.                 *)

Reached(v, n) == n <= departed[v] \/ (v \in Members /\ n <= member[v].gen)

Honest(x) ==
  \/ \E v \in User, k \in Nat, n \in Nat :
       /\ x[2] = KM!KeyPair(v, k) /\ x[4] = KM!GroupKey(Group, n)
       /\ Reached(v, n)
  \/ \E n \in Nat : x[2] = KM!GroupKey(Group, n + 1) /\ x[4] = KM!GroupKey(Group, n)

SeenInv ==
  /\ departed \in [User -> Nat \cup {Never}]
  /\ Members # {} => \A u \in User : departed[u] <= CurrentGeneration
  /\ Stored \subseteq seen
  /\ \A x \in seen \ {NoBox} : Honest(x)

\* Only the sweep of a group, which takes every row, shortens the chain.
LEMMA NewestGrows ==
  ASSUME KeyInv, KeyInv', [Next]_vars, Members' # {}
  PROVE  CurrentGeneration <= CurrentGeneration'
<1>1. links \subseteq links'
  <2>1. ASSUME NEW q \in reqs PROVE ~SweepGroup(q)
    BY DEF SweepGroup, Members, NoRow
  <2> QED BY <2>1, LinksStep DEF KeyInv
<1>2. /\ CurrentGeneration \in Nat /\ links = 0..(CurrentGeneration - 1)
      /\ CurrentGeneration' \in Nat /\ links' = 0..(CurrentGeneration' - 1)
  BY CurrentIs DEF KeyInv
<1> QED BY <1>1, <1>2, PrefixGrows

\* What an account was let in on stays so.
LEMMA ReachedStays ==
  ASSUME KeyInv, SeenInv, [Next]_vars, Witness, NEW v \in User, NEW n \in Nat, Reached(v, n)
  PROVE  Reached(v, n)'
<1>1. /\ departed[v] \in Int /\ CurrentGeneration \in Nat
      /\ v \in Members => departed[v] <= CurrentGeneration /\ member[v].gen <= CurrentGeneration
      /\ member[v].gen \in Nat
  BY CurrentIs DEF SeenInv, Never, KeyInv, TypeOK, Row, Members
<1>2. departed'[v] = IF v \in Members /\ v \notin Members' THEN CurrentGeneration ELSE departed[v]
  BY DEF Witness
<1>3. CASE v \in Members /\ v \in Members'
  <2>1. member'[v].gen \in Nat /\ member[v].gen <= member'[v].gen
    <3>1. TypeOK'
      BY KeyInvNext DEF KeyInv
    <3>2. RowStep(v)
      BY RowSteps DEF KeyInv
    <3> QED BY <1>1, <1>3, <3>1, <3>2
        DEF RowStep, Leaves, Joins, RoleChanges, Moves, Catches, Members, TypeOK, Row
  <2> QED BY <1>1, <1>2, <1>3, <2>1 DEF Reached
<1>4. CASE v \in Members /\ v \notin Members'
  BY <1>1, <1>2, <1>4 DEF Reached
<1>5. CASE v \notin Members
  BY <1>1, <1>2, <1>5 DEF Reached
<1> QED BY <1>3, <1>4, <1>5

\* Founders hold generation 0 and nothing else was stored.
LEMMA SeenInit == VaultInit => SeenInv
<1> SUFFICES ASSUME VaultInit PROVE SeenInv
  OBVIOUS
<1>1. /\ KeyInv /\ BoxInv
      /\ seen = Stored /\ departed = [u \in User |-> Never] /\ links = {}
      /\ handoffBox = [u \in User |-> NoBox]
      /\ \A u \in User : u \notin Members => entryBox[u] = NoBox
  BY VaultTakesKeySteps, KeyInvInit, BoxInit, FounderAssumption DEF VaultInit, Init, Members, NoRow
<1>2. CurrentGeneration \in Nat
  BY <1>1, CurrentIs DEF KeyInv
<1>3. ASSUME NEW x \in Stored, x # NoBox PROVE Honest(x)
  <2>1. PICK u \in Members : x = entryBox[u]
    BY <1>1, <1>3 DEF Stored, BoxInv
  <2>2. PICK k \in Nat : x = Wrapped(u, k, member[u].gen)
    BY <1>1, <2>1 DEF BoxInv, EntryRight
  <2>3. u \in User /\ member[u].gen \in Nat
    BY <1>1 DEF KeyInv, TypeOK, Row, Members
  <2>4. Reached(u, member[u].gen)
    BY <2>3 DEF Reached
  <2> QED BY <2>2, <2>3, <2>4, Boxes DEF Honest
<1> QED BY <1>1, <1>2, <1>3 DEF SeenInv, Never

\* Every box a step stores is one of an honest kind.
LEMMA StoredHonest ==
  ASSUME KeyInv', BoxInv, BoxInv', SeenInv, BoxStep, NEW x \in Stored', x # NoBox
  PROVE  x \in seen \/ Honest(x)'
<1>1. CASE \E u \in User : x = entryBox'[u]
  <2>1. PICK u \in User : x = entryBox'[u]
    BY <1>1
  <2>2. CASE Stays(u)
    BY <2>1, <2>2 DEF Stays, SeenInv, Stored
  <2>3. CASE Made(u)
    <3>1. u \in Members' /\ wrapKey[u] \in Nat /\ member'[u].gen \in Nat
      BY <2>3 DEF Made, Members, KeyInv, TypeOK, Row
    <3>2. x = Wrapped(u, wrapKey[u], member'[u].gen)
      BY <2>1, <2>3 DEF Made
    <3>3. Reached(u, member[u].gen)'
      BY <3>1 DEF Reached
    <3> QED BY <3>1, <3>2, <3>3, Boxes DEF Honest, Reached
  <2> QED BY <2>1, <2>2, <2>3 DEF BoxStep, Goes
<1>2. CASE \E n \in DOMAIN linkBox' : x = linkBox'[n]
  <2>1. PICK n \in Nat : x = LinkOf(n)
    BY <1>2 DEF BoxInv, KeyInv, TypeOK
  <2> QED BY <2>1, Boxes DEF Honest
<1>3. CASE \E u \in User : x = handoffBox'[u]
  <2>1. PICK u \in User : x = handoffBox'[u]
    BY <1>3
  <2>2. CASE handoffBox'[u] = handoffBox[u]
    BY <2>1, <2>2 DEF SeenInv, Stored
  <2>3. CASE /\ u \in Members /\ member'[u] = member[u]
             /\ handoff'[u].gen = member[u].gen
             /\ handoffBox'[u] = HandedTo(u, handoff'[u].key, handoff'[u].gen)
    <3>1. u \in Members' /\ handoff'[u].key \in Nat /\ handoff'[u].gen \in Nat
      BY <2>3 DEF Members, KeyInv, TypeOK, Handoff
    <3>2. Reached(u, handoff[u].gen)'
      BY <2>3, <3>1 DEF Reached
    <3> QED BY <2>1, <2>3, <3>1, <3>2, Boxes DEF Honest, Reached
  <2> QED BY <2>1, <2>2, <2>3 DEF BoxStep, HandStep
<1> QED BY <1>1, <1>2, <1>3 DEF Stored

LEMMA SeenNext ==
  KeyInv /\ BoxInv /\ SeenInv /\ [VaultNext]_vaultVars => SeenInv'
<1> SUFFICES ASSUME KeyInv, BoxInv, SeenInv, [VaultNext]_vaultVars PROVE SeenInv'
  OBVIOUS
<1>1. CASE UNCHANGED vaultVars
  <2>1. /\ UNCHANGED <<member, links, entryBox, linkBox, handoffBox, seen, departed>>
    BY <1>1 DEF vaultVars, vars, vault, groupRows
  <2>2. UNCHANGED <<Members, CurrentGeneration, Stored>>
    BY <2>1 DEF Members, CurrentGeneration, Stored
  <2>3. ASSUME NEW x PROVE Honest(x)' <=> Honest(x)
    BY <2>1, <2>2 DEF Honest, Reached
  <2> QED BY <2>1, <2>2, <2>3 DEF SeenInv
<1>2. CASE VaultNext
  <2>1. Witness /\ [Next]_vars /\ KeyInv' /\ BoxInv'
    BY <1>2, VaultTakesKeySteps, KeyInvNext, BoxNext DEF VaultNext
  <2>2. departed' \in [User -> Nat \cup {Never}]
    BY <2>1, CurrentIs DEF Witness, SeenInv, KeyInv
  <2>3. ASSUME Members' # {}, NEW u \in User PROVE departed'[u] <= CurrentGeneration'
    <3>1. Members # {}
      <4>1. PICK v \in User : member'[v].role # "none"
        BY <2>3 DEF Members
      <4>2. CASE BoxStep
        BY <4>1, <4>2 DEF BoxStep, Stays, Goes, Made
      <4>3. CASE UNCHANGED <<vars, vault>>
        BY <4>1, <4>3 DEF Members, vars, groupRows
      <4> QED BY <1>2, <4>2, <4>3, BoxSteps DEF VaultNext
    <3>2. /\ departed[u] \in Int /\ departed[u] <= CurrentGeneration
          /\ departed'[u] = CurrentGeneration \/ departed'[u] = departed[u]
      BY <2>1, <3>1 DEF SeenInv, Witness, Never
    <3>3. CurrentGeneration \in Nat /\ CurrentGeneration' \in Nat
          /\ CurrentGeneration <= CurrentGeneration'
      BY <2>1, <2>3, NewestGrows, CurrentIs DEF KeyInv
    <3> QED BY <3>2, <3>3
  <2>4. seen' = seen \cup Stored'
    BY <2>1 DEF Witness
  <2>5. ASSUME NEW x \in seen, x # NoBox PROVE Honest(x)'
    <3>1. \A v \in User, n \in Nat : Reached(v, n) => Reached(v, n)'
      BY <2>1, ReachedStays
    <3> QED BY <2>5, <3>1 DEF SeenInv, Honest
  <2>6. ASSUME NEW x \in Stored', x # NoBox PROVE x \in seen \/ Honest(x)'
    <3>1. CASE BoxStep
      BY <2>1, <2>6, <3>1, StoredHonest
    <3>2. CASE UNCHANGED <<vars, vault>>
      BY <2>6, <3>2 DEF SeenInv, Stored, vault
    <3> QED BY <1>2, <3>1, <3>2, BoxSteps DEF VaultNext
  <2> QED BY <2>2, <2>3, <2>4, <2>5, <2>6 DEF SeenInv
<1> QED BY <1>1, <1>2

LEMMA SeenAlways == VaultSpec => [](KeyInv /\ BoxInv /\ SeenInv)
<1>1. VaultInit => KeyInv /\ BoxInv /\ SeenInv
  BY VaultTakesKeySteps, KeyInvInit, BoxInit, SeenInit
<1>2. (KeyInv /\ BoxInv /\ SeenInv) /\ [VaultNext]_vaultVars => (KeyInv /\ BoxInv /\ SeenInv)'
  BY VaultTakesKeySteps, KeyInvNext, BoxNext, SeenNext
<1> QED BY <1>1, <1>2, PTL DEF VaultSpec

\* From pairs of u alone nobody derives a key past what u was let in on, if that
\* ends at generation top.
LEMMA DerivesUpTo ==
  ASSUME SeenInv, NEW u \in User, NEW secrets, NEW top \in Int,
         \A s \in secrets : \E k \in Nat : s = KM!KeyPair(u, k),
         \A x \in seen \ {NoBox} :
           x[2] \in secrets /\ (\E n \in Nat : x[4] = KM!GroupKey(Group, n) /\ Reached(u, n))
             => \E n \in Nat : x[4] = KM!GroupKey(Group, n) /\ n <= top,
         NEW m \in Nat, m > top
  PROVE  KM!GroupKey(Group, m) \notin Derived(secrets)
<1> DEFINE K == secrets \cup {KM!GroupKey(Group, n) : n \in {i \in Nat : i <= top}}
<1>1. ASSUME NEW x \in seen \ {NoBox}, x[2] \in K PROVE x[4] \in K
  <2>1. Honest(x)
    BY DEF SeenInv
  <2>2. CASE \E v \in User, k \in Nat, n \in Nat :
               /\ x[2] = KM!KeyPair(v, k) /\ x[4] = KM!GroupKey(Group, n)
               /\ Reached(v, n)
    <3>1. PICK v \in User, k \in Nat, n \in Nat :
               /\ x[2] = KM!KeyPair(v, k) /\ x[4] = KM!GroupKey(Group, n)
               /\ Reached(v, n)
      BY <2>2
    <3>2. x[2] \in secrets /\ v = u
      BY <1>1, <3>1, Terms
    <3> QED BY <3>1, <3>2
  <2>3. CASE \E n \in Nat : x[2] = KM!GroupKey(Group, n + 1) /\ x[4] = KM!GroupKey(Group, n)
    <3>1. PICK n \in Nat : x[2] = KM!GroupKey(Group, n + 1) /\ x[4] = KM!GroupKey(Group, n)
      BY <2>3
    <3>2. n + 1 <= top
      BY <1>1, <3>1, Terms
    <3> QED BY <3>1, <3>2
  <2> QED BY <2>1, <2>2, <2>3 DEF Honest
<1>2. Derived(secrets) \subseteq K
  BY <1>1, BoundAssumption, DerivedWithin
<1>3. KM!GroupKey(Group, m) \notin K
  BY Terms
<1> QED BY <1>2, <1>3

\* An account outside the group derives, from all of its pairs and everything that
\* was ever stored, no key minted after it left.
THEOREM DepartedDeriveNothing == VaultSpec => []DepartedLearnNothingNew
<1>1. ASSUME KeyInv, SeenInv PROVE DepartedLearnNothingNew
  <2>1. ASSUME NEW u \in User \ Members, NEW m \in (departed[u] + 1)..MaxGen
        PROVE  KM!GroupKey(Group, m) \notin Derived(Secrets(u))
    <3>1. departed[u] \in Int /\ m \in Nat /\ m > departed[u]
      BY <1>1, BoundAssumption DEF SeenInv, Never
    <3>2. \A s \in Secrets(u) : \E k \in Nat : s = KM!KeyPair(u, k)
      BY <1>1 DEF Secrets, KeyInv, TypeOK
    <3>3. \A n \in Nat : Reached(u, n) => n <= departed[u]
      BY DEF Reached
    <3> QED BY <1>1, <3>1, <3>2, <3>3, DerivesUpTo
  <2> QED BY <2>1 DEF DepartedLearnNothingNew
<1> QED BY <1>1, SeenAlways, PTL

-----------------------------------------------------------------------------
(* A Rotating group.  Whoever acts in it holds a key the last departure did  *)
(* not outdate: between rotations every member who is not dormant is at the  *)
(* newest generation, so a departure, which starts the next, finds nobody    *)
(* behind, and a rotation is completed only when nobody is behind again.     *)

Lagging == {v \in Members : ~Dormant(v) /\ member[v].gen < CurrentGeneration}

CatchUpInv ==
  /\ mode = "rotating" => \A q \in reqs : q.op \in {"remove", "leave"} => q.rotating
  /\ Members # {} => \A q \in reqs : q.op = "complete" => q.gen <= CurrentGeneration
  /\ mode = "rotating" /\ Lagging # {} =>
       /\ marker # NoMarker /\ marker.gen = CurrentGeneration
       /\ \A q \in reqs : q.op = "complete" => q.gen # CurrentGeneration
  /\ mode = "rotating" =>
       \A u \in User : \A v \in Members : v = u \/ ~Dormant(v) => departed[u] <= member[v].gen

\* A Rotating group was one before the step.
LEMMA RotatingBefore ==
  ASSUME KeyInv, [Next]_vars, mode' = "rotating"
  PROVE  mode = "rotating"
BY ModeSteps DEF KeyInv, CommitConvert

\* Nobody leaves a Rotating group while a rotation runs.
LEMMA DepartsBetween ==
  ASSUME KeyInv, CatchUpInv, [Next]_vars, mode' = "rotating",
         NEW u \in User, u \in Members, u \notin Members'
  PROVE  marker = NoMarker
<1>r. mode = "rotating"
  BY RotatingBefore
<1>t. member \in [User -> Row] /\ member[u].role # "none" /\ member'[u].role = "none"
  BY DEF KeyInv, TypeOK, Members
<1>1. CASE Transactions
  <2>1. PICK q \in reqs :
          \/ CommitRemoveRotating(q) \/ CommitRemoveOpen(q)
          \/ CommitSelfRekey(q) \/ CommitApproveRekey(q)
          \/ CommitLeaveRotating(q) \/ CommitLeaveOpen(q)
          \/ CommitDeleteGroup(q) \/ SweepGroup(q)
          \/ CommitComplete(q) \/ CommitConvert(q)
          \/ CommitRotateKeys(q) \/ CommitDeleteAccount(q)
          \/ Drop(q)
    BY <1>1 DEF Transactions
  <2>2. CASE CommitRemoveRotating(q) \/ CommitSelfRekey(q) \/ CommitApproveRekey(q)
             \/ CommitLeaveRotating(q)
    BY <2>2 DEF CommitRemoveRotating, RemovalStart, CommitSelfRekey, CommitApproveRekey,
       CommitLeaveRotating, LeaveStart
  <2>3. ~CommitRemoveOpen(q) /\ ~CommitLeaveOpen(q)
    BY <1>r DEF CommitRemoveOpen, CommitLeaveOpen, LeaveAllowed, CatchUpInv
  <2>4. ~CommitDeleteGroup(q) /\ ~SweepGroup(q)
    BY <1>r DEF CommitDeleteGroup, SweepGroup, KeyInv, SweepInv
  <2>5. CASE CommitComplete(q) \/ CommitConvert(q) \/ CommitRotateKeys(q)
             \/ CommitDeleteAccount(q) \/ Drop(q)
    BY <1>t, <2>5 DEF CommitComplete, CommitConvert, CommitRotateKeys, CommitDeleteAccount,
       Drop, groupRows
  <2> QED BY <2>1, <2>2, <2>3, <2>4, <2>5
<1>2. CASE Handlers
  <2>1. /\ \A v \in User, g \in Nat : MovedTo(v, g).role = member[v].role
        /\ \A v \in User : member[v].gen \in Nat /\ member[v].gen + 1 \in Nat
        /\ "none" \notin Role
    BY MovedFields DEF KeyInv, TypeOK, Row, Role
  <2>2. ASSUME NEW w \in User, TakeOverLeaveRotation(w) \/ SelfWrap(w) PROVE member'[u].role # "none"
    BY <1>t, <2>1, <2>2 DEF TakeOverLeaveRotation, SelfWrap
  <2>3. ASSUME NEW w \in User, NEW v \in User,
               CompleteInvite(w, v) \/ ReadmitMember(w, v) \/ ApproveRewrap(w, v)
               \/ \E r \in Role : ChangeMemberRole(w, v, r)
        PROVE  member'[u].role # "none"
    BY <1>t, <2>1, <2>3 DEF CompleteInvite, JoinAllowed, NewMember, ReadmitMember, ApproveRewrap,
       ChangeMemberRole, Row
  <2>4. ASSUME NEW w \in User, NEW batch \in SUBSET User, RewrapMembers(w, batch)
        PROVE  member'[u].role # "none"
    BY <1>t, <2>4 DEF RewrapMembers, Row
  <2>5. ASSUME NEW w \in User, DeleteHandoff(w) \/ \E k \in 1..MaxKey : PutHandoff(w, k)
        PROVE  member'[u].role # "none"
    BY <1>t, <2>5 DEF DeleteHandoff, PutHandoff, groupRows
  <2> QED BY <1>2, <1>t, <2>2, <2>3, <2>4, <2>5 DEF Handlers
<1>3. CASE Reads \/ UNCHANGED vars
  BY <1>3, <1>t, ReadsChangeNothing DEF vars, groupRows
<1> QED BY <1>1, <1>2, <1>3 DEF Next

\* Whoever is active after a step was active before it or got its key from somebody
\* who was, unless it holds a key just minted.
LEMMA ActiveFrom ==
  ASSUME KeyInv, KeyInv', BoxStep, mode = "rotating",
         NEW v \in User, v \in Members', ~Dormant(v)'
  PROVE  \/ \E a \in Members : ~Dormant(a) /\ member'[v].gen = member[a].gen
         \/ member'[v].gen = CurrentGeneration + 1
<1>1. member'[v].role # "none"
  BY DEF Members
<1>2. CASE Stays(v)
  <2>1. /\ v \in Members /\ member'[v].gen = member[v].gen /\ member'[v].epoch = member[v].epoch
        /\ keyEpoch'[v] = keyEpoch[v] \/ keyEpoch'[v] > keyEpoch[v]
    BY <1>1, <1>2 DEF Stays
  <2>2. member[v].epoch \in Nat /\ keyEpoch[v] \in Nat /\ keyEpoch'[v] \in Nat
    BY DEF KeyInv, TypeOK, Row
  <2>3. ~Dormant(v)
    BY <2>1, <2>2 DEF Dormant
  <2> QED BY <2>1, <2>3
<1>3. CASE Made(v)
  BY <1>3 DEF Made, MadeBy
<1> QED BY <1>1, <1>2, <1>3 DEF BoxStep, Goes

\* Nobody falls behind but by a mint, which leaves its marker at the new generation.
LEMMA LaggingFrom ==
  ASSUME KeyInv, KeyInv', CatchUpInv, BoxStep, [Next]_vars, mode' = "rotating", Lagging' # {}
  PROVE  \/ Lagging # {} /\ CurrentGeneration' = CurrentGeneration
         \/ marker' # NoMarker /\ marker'.gen = CurrentGeneration'
            /\ CurrentGeneration' = CurrentGeneration + 1
<1>r. mode = "rotating"
  BY RotatingBefore
<1>c. /\ CurrentGeneration \in Nat /\ links = 0..(CurrentGeneration - 1)
      /\ CurrentGeneration' \in Nat /\ links' = 0..(CurrentGeneration' - 1)
      /\ \A a \in Members : member[a].gen <= CurrentGeneration
  BY CurrentIs DEF KeyInv
<1>1. CASE links' = links
  <2>1. CurrentGeneration' = CurrentGeneration
    BY <1>1 DEF CurrentGeneration
  <2>2. PICK v \in User : v \in Members' /\ ~Dormant(v)' /\ member'[v].gen < CurrentGeneration'
    BY DEF Lagging, Members
  <2>3. member'[v].gen \in Nat
    BY DEF KeyInv, TypeOK, Row
  <2>4. \E a \in Members : ~Dormant(a) /\ member'[v].gen = member[a].gen
    BY <1>r, <1>c, <2>1, <2>2, <2>3, ActiveFrom
  <2> QED BY <2>1, <2>2, <2>4 DEF Lagging
<1>2. ASSUME NEW w \in User, NEW g \in Nat, NEW r, Mint(w, g, r)
      PROVE  marker' # NoMarker /\ marker'.gen = CurrentGeneration'
             /\ CurrentGeneration' = CurrentGeneration + 1
  <2>1. links' = links \cup {g} /\ g \notin links /\ marker'.gen = g + 1 /\ member[w].gen = g
        /\ member[w].role = "admin"
    BY <1>2 DEF Mint, MintAllowed, AdminAt, IsAdmin
  <2>2. g = CurrentGeneration
    <3>1. w \in Members
      BY <2>1 DEF Members
    <3> QED BY <1>c, <2>1, <3>1
  <2>3. links' = 0..((CurrentGeneration + 1) - 1)
    BY <1>c, <2>1, <2>2
  <2>4. CurrentGeneration' = CurrentGeneration + 1
    BY <1>c, <2>3, CurrentOfPrefix
  <2> QED BY <2>1, <2>2, <2>4 DEF NoMarker
<1>3. \/ links' = links \/ \E q \in reqs : SweepGroup(q)
      \/ \E w \in User, g \in Nat, r \in User \cup {NoOne} : Mint(w, g, r)
  <2>1. \A w \in User : member[w].gen \in Nat
    BY DEF KeyInv, TypeOK, Row
  <2>2. ASSUME NEW w \in User, TakeOverLeaveRotation(w)
        PROVE  \E g \in Nat, r \in User \cup {NoOne} : Mint(w, g, r)
    BY <2>1, <2>2 DEF TakeOverLeaveRotation, KeyInv, TypeOK, Marker
  <2>3. CASE \E q \in reqs : CommitLeaveRotating(q)
    BY <2>3 DEF CommitLeaveRotating
  <2>4. CASE links' = {}
    <3>1. links = {} \/ \E q \in reqs : SweepGroup(q)
      BY <2>4, LinksStep DEF KeyInv
    <3> QED BY <2>4, <3>1
  <2> QED BY <2>2, <2>3, <2>4, MarkerSteps DEF MarkerStep, KeyInv
<1>4. ~(\E q \in reqs : SweepGroup(q))
  BY <1>r DEF SweepGroup, KeyInv, SweepInv
<1> QED BY <1>1, <1>2, <1>3, <1>4

LEMMA CatchUpInit == VaultInit => CatchUpInv
<1> SUFFICES ASSUME VaultInit PROVE CatchUpInv
  OBVIOUS
<1>1. /\ KeyInv /\ reqs = {} /\ links = {} /\ departed = [u \in User |-> Never]
  BY VaultTakesKeySteps, KeyInvInit DEF VaultInit, Init
<1>2. CurrentGeneration = 0 /\ \A v \in Members : member[v].gen \in Nat
  BY <1>1 DEF CurrentGeneration, KeyInv, TypeOK, Row, Members
<1>3. Lagging = {}
  BY <1>2 DEF Lagging
<1>4. \A u \in User, v \in Members : departed[u] <= member[v].gen
  BY <1>1, <1>2 DEF Never
<1> QED BY <1>1, <1>3, <1>4 DEF CatchUpInv

LEMMA CatchUpRequests ==
  ASSUME KeyInv, KeyInv', SeenInv, CatchUpInv, BoxStep, [Next]_vars
  PROVE  /\ mode' = "rotating" => \A q \in reqs' : q.op \in {"remove", "leave"} => q.rotating
         /\ Members' # {} => \A q \in reqs' : q.op = "complete" => q.gen <= CurrentGeneration'
<1>1. ASSUME NEW q \in reqs', q.op \in {"remove", "leave"}, mode' = "rotating" PROVE q.rotating
  <2>1. mode = "rotating"
    BY <1>1, RotatingBefore
  <2> QED BY <1>1, <2>1, NewRequests DEF CatchUpInv, RequestRead, KeyInv
<1>2. ASSUME NEW q \in reqs', q.op = "complete", Members' # {}
      PROVE  q.gen <= CurrentGeneration'
  <2>1. Members # {}
    <3>1. PICK v \in User : member'[v].role # "none"
      BY <1>2 DEF Members
    <3> QED BY <3>1 DEF BoxStep, Stays, Goes, Made
  <2>2. q.gen <= CurrentGeneration
    <3>1. CASE q \in reqs
      BY <1>2, <2>1, <3>1 DEF CatchUpInv
    <3>2. CASE q \notin reqs
      <4>1. q.by \in Members /\ member[q.by].gen = q.gen
        BY <1>2, <3>2, NewRequests DEF RequestRead, KeyInv
      <4> QED BY <4>1, CurrentIs DEF KeyInv
    <3> QED BY <3>1, <3>2
  <2>3. /\ q.gen \in Nat /\ CurrentGeneration \in Nat /\ CurrentGeneration' \in Nat
        /\ CurrentGeneration <= CurrentGeneration'
    BY <1>2, CurrentIs, NewestGrows DEF KeyInv, TypeOK, Request
  <2> QED BY <2>2, <2>3
<1> QED BY <1>1, <1>2

\* A completion and whatever moves a marker needs that nobody is behind it.
LEMMA CatchUpMarker ==
  ASSUME KeyInv, KeyInv', SeenInv, CatchUpInv, BoxStep, [Next]_vars,
         mode' = "rotating", Lagging' # {}
  PROVE  /\ marker' # NoMarker /\ marker'.gen = CurrentGeneration'
         /\ \A q \in reqs' : q.op = "complete" => q.gen # CurrentGeneration'
<1>r. mode = "rotating"
  BY RotatingBefore
<1>c. /\ CurrentGeneration \in Nat /\ CurrentGeneration' \in Nat
      /\ links = 0..(CurrentGeneration - 1) /\ links' = 0..(CurrentGeneration' - 1)
      /\ \A a \in Members : member[a].gen <= CurrentGeneration
  BY CurrentIs DEF KeyInv
<1>n. \A q \in reqs' : q.op = "complete" =>
        q \in reqs \/ (q.gen <= CurrentGeneration /\ NoneLeftBehind(q.gen))
  BY <1>c, NewRequests DEF RequestRead, KeyInv
<1>1. CASE Lagging # {} /\ CurrentGeneration' = CurrentGeneration
  <2>1. /\ marker # NoMarker /\ marker.gen = CurrentGeneration
        /\ \A q \in reqs : q.op = "complete" => q.gen # CurrentGeneration
    BY <1>r, <1>1 DEF CatchUpInv
  <2>2. marker' = marker
    <3>1. links' = links
      BY <1>1, <1>c
    <3>2. \A w, g, r : ~Mint(w, g, r)
      BY <3>1 DEF Mint, MintAllowed
    <3>3. \A q \in reqs : ~CommitLeaveRotating(q)
      BY <2>1 DEF CommitLeaveRotating, LeaveStart
    <3>4. \A u \in User : ~TakeOverLeaveRotation(u)
      BY <3>2 DEF TakeOverLeaveRotation
    <3>5. marker' # NoMarker
      <4>1. \A q \in reqs : ~CommitComplete(q)
        BY <2>1 DEF CommitComplete
      <4>2. \A q \in reqs : ~SweepGroup(q)
        BY <1>r DEF SweepGroup, KeyInv, SweepInv
      <4> QED BY <2>1, <4>1, <4>2, LinksStep DEF KeyInv
    <3> QED BY <3>2, <3>3, <3>4, <3>5, MarkerSteps DEF MarkerStep, KeyInv
  <2>3. ASSUME NEW q \in reqs', q.op = "complete", q.gen = CurrentGeneration PROVE FALSE
    <3>1. NoneLeftBehind(CurrentGeneration)
      BY <1>n, <2>1, <2>3
    <3>2. \A v \in Members : member[v].gen \in Nat
      BY DEF KeyInv, TypeOK, Row, Members
    <3> QED BY <1>1, <1>c, <3>1, <3>2 DEF NoneLeftBehind, Lagging
  <2> QED BY <1>1, <2>1, <2>2, <2>3
<1>2. CASE marker' # NoMarker /\ marker'.gen = CurrentGeneration'
           /\ CurrentGeneration' = CurrentGeneration + 1
  <2>1. ASSUME NEW q \in reqs', q.op = "complete" PROVE q.gen # CurrentGeneration + 1
    <3>1. q.gen \in Nat /\ q.gen <= CurrentGeneration
      <4>1. Members # {}
        <5>1. PICK v \in User : member'[v].role # "none"
          BY DEF Lagging, Members
        <5> QED BY <5>1 DEF BoxStep, Stays, Goes, Made
      <4> QED BY <1>n, <2>1, <4>1 DEF CatchUpInv, KeyInv, TypeOK, Request
    <3> QED BY <1>c, <3>1
  <2> QED BY <1>2, <2>1
<1> QED BY <1>1, <1>2, LaggingFrom

\* Nobody active is behind a departure.
LEMMA CatchUpDepartures ==
  ASSUME KeyInv, KeyInv', SeenInv, CatchUpInv, BoxStep, [Next]_vars, Witness,
         mode' = "rotating", NEW u \in User, NEW v \in User, v \in Members', v = u \/ ~Dormant(v)'
  PROVE  departed'[u] <= member'[v].gen
<1>r. mode = "rotating"
  BY RotatingBefore
<1>c. /\ CurrentGeneration \in Nat /\ \A a \in Members : member[a].gen <= CurrentGeneration
      /\ \A a \in User : member[a].gen \in Nat /\ member'[a].gen \in Nat
      /\ departed[u] \in Int
  <2>1. \A a \in User : member[a].gen \in Nat /\ member'[a].gen \in Nat
    BY DEF KeyInv, TypeOK, Row
  <2> QED BY <2>1, CurrentIs DEF KeyInv, SeenInv, Never
<1>1. CASE departed'[u] = departed[u]
  <2>1. CASE ~Dormant(v)'
    <3>1. CASE \E a \in Members : ~Dormant(a) /\ member'[v].gen = member[a].gen
      BY <1>r, <1>1, <3>1 DEF CatchUpInv
    <3>2. CASE member'[v].gen = CurrentGeneration + 1
      <4>1. Members # {}
        <5>1. member'[v].role # "none"
          BY DEF Members
        <5> QED BY <5>1 DEF BoxStep, Stays, Goes, Made
      <4> QED BY <1>c, <1>1, <3>2, <4>1 DEF SeenInv
    <3> QED BY <1>r, <2>1, <3>1, <3>2, ActiveFrom
  <2>2. CASE Dormant(v)' /\ v = u
    <3>1. Stays(v)
      BY <2>2 DEF BoxStep, Goes, Made, Members
    <3>2. v \in Members /\ member'[v].gen = member[v].gen
      BY <3>1 DEF Stays, Members
    <3> QED BY <1>r, <1>1, <2>2, <3>2 DEF CatchUpInv
  <2> QED BY <2>1, <2>2
<1>2. CASE u \in Members /\ u \notin Members' /\ departed'[u] = CurrentGeneration
  <2>1. v # u /\ ~Dormant(v)'
    BY <1>2
  <2>2. Lagging = {}
    BY <1>r, <1>2, DepartsBetween DEF CatchUpInv
  <2>3. CASE \E a \in Members : ~Dormant(a) /\ member'[v].gen = member[a].gen
    BY <1>c, <1>2, <2>2, <2>3 DEF Lagging, Members
  <2>4. CASE member'[v].gen = CurrentGeneration + 1
    BY <1>c, <1>2, <2>4
  <2> QED BY <1>r, <2>1, <2>3, <2>4, ActiveFrom
<1> QED BY <1>1, <1>2 DEF Witness

LEMMA CatchUpNext ==
  KeyInv /\ BoxInv /\ SeenInv /\ CatchUpInv /\ [VaultNext]_vaultVars => CatchUpInv'
<1> SUFFICES ASSUME KeyInv, BoxInv, SeenInv, CatchUpInv, [VaultNext]_vaultVars PROVE CatchUpInv'
  OBVIOUS
<1>1. [Next]_vars /\ KeyInv'
  BY VaultTakesKeySteps, KeyInvNext
<1>2. CASE BoxStep /\ Witness
  <2>1. ASSUME mode' = "rotating", NEW u \in User, NEW v \in Members', v = u \/ ~Dormant(v)'
        PROVE  departed'[u] <= member'[v].gen
    <3>1. v \in User
      BY DEF Members
    <3> QED BY <1>1, <1>2, <2>1, <3>1, CatchUpDepartures
  <2>2. ASSUME mode' = "rotating", Lagging' # {}
        PROVE  /\ marker' # NoMarker /\ marker'.gen = CurrentGeneration'
               /\ \A q \in reqs' : q.op = "complete" => q.gen # CurrentGeneration'
    BY <1>1, <1>2, <2>2, CatchUpMarker
  <2> QED BY <1>1, <1>2, <2>1, <2>2, CatchUpRequests DEF CatchUpInv
<1>3. CASE UNCHANGED vars /\ departed' = departed
  <2>1. UNCHANGED <<mode, member, marker, links, keyEpoch, reqs>>
    BY <1>3 DEF vars, groupRows, accountRows
  <2>2. UNCHANGED <<Members, CurrentGeneration, Lagging>> /\ \A v : Dormant(v)' <=> Dormant(v)
    BY <2>1 DEF Members, CurrentGeneration, Lagging, Dormant
  <2> QED BY <1>3, <2>1, <2>2 DEF CatchUpInv
<1>4. (BoxStep /\ Witness) \/ (UNCHANGED vars /\ departed' = departed)
  <2>1. CASE VaultNext /\ ~KeySteps
    <3>1. UNCHANGED vars /\ Witness
      BY <2>1 DEF VaultNext
    <3>2. Members' = Members
      BY <3>1 DEF vars, groupRows, Members
    <3>3. departed = [u \in User |-> departed[u]]
      BY DEF SeenInv
    <3> QED BY <3>1, <3>2, <3>3 DEF Witness
  <2>2. CASE VaultNext /\ KeySteps
    BY <2>2, BoxSteps DEF VaultNext
  <2>3. CASE UNCHANGED vaultVars
    BY <2>3 DEF vaultVars
  <2> QED BY <2>1, <2>2, <2>3
<1> QED BY <1>2, <1>3, <1>4

VaultInv == KeyInv /\ BoxInv /\ SeenInv /\ CatchUpInv

LEMMA VaultAlways == VaultSpec => []VaultInv
<1>1. VaultInit => VaultInv
  BY VaultTakesKeySteps, KeyInvInit, BoxInit, SeenInit, CatchUpInit DEF VaultInv
<1>2. VaultInv /\ [VaultNext]_vaultVars => VaultInv'
  BY VaultTakesKeySteps, KeyInvNext, BoxNext, SeenNext, CatchUpNext DEF VaultInv
<1> QED BY <1>1, <1>2, PTL DEF VaultSpec

\* A dormant member of a Rotating group comes back past where it was.
LEMMA ComesBackAhead ==
  ASSUME KeyInv, BoxInv, [Next]_vars, BoxStep, mode = "rotating",
         NEW u \in Members, Dormant(u), u \in Members', ~Dormant(u)'
  PROVE  member[u].gen < member'[u].gen
<1>t. /\ u \in User /\ member \in [User -> Row] /\ member[u].role # "none"
      /\ member[u].epoch < keyEpoch[u] /\ ~(member'[u].epoch < keyEpoch'[u])
      /\ \A w \in User : member[w].gen \in Nat /\ member[w].epoch \in Nat /\ keyEpoch[w] \in Nat
  BY DEF KeyInv, TypeOK, Row, Members, Dormant
<1>k. keyEpoch[u] <= keyEpoch'[u] /\ keyEpoch'[u] \in Nat
  <2>1. TypeOK'
    BY KeyInvNext DEF KeyInv
  <2> QED BY <1>t, <2>1, EpochGrows DEF KeyInv, TypeOK
<1>m. \A w \in User, g \in Nat : MovedTo(w, g).gen = g /\ MovedTo(w, g).epoch = keyEpoch[w]
  BY MovedFields, MovedEpoch DEF KeyInv
<1>u. member'[u] # member[u]
  BY <1>t, <1>k
<1>1. ASSUME NEW q \in reqs, CommitRemoveRotating(q) \/ CommitSelfRekey(q) \/ CommitApproveRekey(q)
      PROVE  member[u].gen < member'[u].gen
  <2>1. q.by \in User /\ q.gen \in Nat
    BY DEF KeyInv, TypeOK, Request
  <2>2. q.gen = member[q.by].gen
    BY <1>1 DEF CommitRemoveRotating, CommitSelfRekey, CommitApproveRekey, Mint, MintAllowed,
       AdminAt
  <2>3. member'[u] # NoRow
    BY DEF Members, NoRow
  <2>4. CASE CommitRemoveRotating(q)
    <3>1. member' = [member EXCEPT ![q.by] = MovedTo(q.by, q.gen + 1), ![q.who] = NoRow]
      BY <2>4 DEF CommitRemoveRotating
    <3>2. u = q.by /\ member'[u] = MovedTo(u, q.gen + 1)
      BY <1>t, <1>u, <2>1, <2>3, <3>1
    <3> QED BY <1>t, <1>m, <2>1, <2>2, <3>2
  <2>5. CASE CommitSelfRekey(q)
    <3>1. member' = [member EXCEPT ![q.by] = MovedTo(q.by, q.gen + 1)]
      BY <2>5 DEF CommitSelfRekey
    <3>2. u = q.by /\ member'[u] = MovedTo(u, q.gen + 1)
      BY <1>t, <1>u, <2>1, <3>1
    <3> QED BY <1>t, <1>m, <2>1, <2>2, <3>2
  <2>6. CASE CommitApproveRekey(q)
    <3>1. member' = [member EXCEPT ![q.by] = MovedTo(q.by, q.gen + 1),
                                   ![q.who] = MovedTo(q.who, q.gen + 1)]
          /\ member[q.who].gen = q.gen
      BY <2>6 DEF CommitApproveRekey
    <3>2. (u = q.by \/ u = q.who) /\ member'[u] = MovedTo(u, q.gen + 1)
      BY <1>t, <1>u, <2>1, <3>1
    <3> QED BY <1>t, <1>m, <2>1, <2>2, <3>1, <3>2
  <2> QED BY <1>1, <2>4, <2>5, <2>6
<1>2. ASSUME NEW w \in User, TakeOverLeaveRotation(w) PROVE member[u].gen < member'[u].gen
  <2>1. member' = [member EXCEPT ![w] = MovedTo(w, member[w].gen + 1)]
    BY <1>2 DEF TakeOverLeaveRotation
  <2> QED BY <1>t, <1>u, <1>m, <2>1
<1>3. ASSUME NEW w \in User, NEW v \in User, ApproveRewrap(w, v) PROVE member[u].gen < member'[u].gen
  <2>1. member' = [member EXCEPT ![v] = MovedTo(v, member[w].gen)] /\ member[v].gen < member[w].gen
    BY <1>3 DEF ApproveRewrap
  <2> QED BY <1>t, <1>u, <1>m, <2>1
<1>4. ASSUME NEW w \in User, NEW v \in User,
             CompleteInvite(w, v) \/ ReadmitMember(w, v) \/ \E r \in Role : ChangeMemberRole(w, v, r)
      PROVE  FALSE
  <2>1. keyEpoch' = keyEpoch /\ member'[u].epoch = member[u].epoch
    BY <1>4, <1>t DEF CompleteInvite, JoinAllowed, ReadmitMember, ChangeMemberRole, accountRows, Row
  <2> QED BY <1>t, <2>1
<1>5. ASSUME NEW w \in User, NEW batch \in SUBSET User, RewrapMembers(w, batch) PROVE FALSE
  <2>1. u \notin batch
    BY <1>5 DEF RewrapMembers, MayRewrap
  <2> QED BY <1>5, <1>t, <1>u, <2>1 DEF RewrapMembers
<1>6. ASSUME NEW w \in User, SelfWrap(w) PROVE FALSE
  BY <1>6 DEF SelfWrap
<1>7. ASSUME NEW w \in User, DeleteHandoff(w) \/ \E k \in 1..MaxKey : PutHandoff(w, k) PROVE FALSE
  BY <1>7, <1>u DEF DeleteHandoff, PutHandoff, groupRows
<1>8. ASSUME NEW q \in reqs, CommitRemoveOpen(q) \/ CommitLeaveRotating(q) \/ CommitLeaveOpen(q)
                             \/ CommitDeleteGroup(q) \/ SweepGroup(q)
      PROVE  FALSE
  <2>1. member'[u] = member[u] \/ member'[u] = NoRow
    BY <1>8, <1>t DEF CommitRemoveOpen, CommitLeaveRotating, CommitLeaveOpen, CommitDeleteGroup,
       SweepGroup
  <2>2. member'[u] # NoRow
    BY DEF Members, NoRow
  <2> QED BY <1>u, <2>1, <2>2
<1>9. ASSUME NEW q \in reqs, CommitComplete(q) \/ CommitConvert(q) \/ CommitRotateKeys(q)
                             \/ CommitDeleteAccount(q) \/ Drop(q)
      PROVE  FALSE
  BY <1>9, <1>u DEF CommitComplete, CommitConvert, CommitRotateKeys, CommitDeleteAccount, Drop,
     groupRows
<1>10. CASE Transactions
  BY <1>1, <1>8, <1>9, <1>10 DEF Transactions
<1>11. CASE Handlers
  BY <1>2, <1>3, <1>4, <1>5, <1>6, <1>7, <1>11 DEF Handlers
<1>12. CASE Reads \/ UNCHANGED vars
  BY <1>12, <1>u, ReadsChangeNothing DEF vars, groupRows
<1> QED BY <1>10, <1>11, <1>12 DEF Next

\* What a set of retired pairs of u gives away, when no box they open holds a key
\* past generation top.
RetiredDerive(u, top) ==
  (\A x \in seen \ {NoBox} :
     x[2] \in Secrets(u) \ {Pub(u)} /\ (\E n \in Nat : x[4] = KM!GroupKey(Group, n))
       => \E n \in Nat : x[4] = KM!GroupKey(Group, n) /\ n <= top)
  => \A m \in Nat : m > top => KM!GroupKey(Group, m) \notin Derived(Secrets(u) \ {Pub(u)})

RetiredDeriveLittle == \A u \in User, top \in Int : RetiredDerive(u, top)

LEMMA RetiredUpTo == SeenInv /\ KeyInv => RetiredDeriveLittle
<1> SUFFICES ASSUME SeenInv, KeyInv, NEW u \in User, NEW top \in Int,
               \A x \in seen \ {NoBox} :
                 x[2] \in Secrets(u) \ {Pub(u)} /\ (\E n \in Nat : x[4] = KM!GroupKey(Group, n))
                   => \E n \in Nat : x[4] = KM!GroupKey(Group, n) /\ n <= top,
               NEW m \in Nat, m > top
             PROVE  KM!GroupKey(Group, m) \notin Derived(Secrets(u) \ {Pub(u)})
  BY DEF RetiredDeriveLittle, RetiredDerive
<1>1. \A s \in Secrets(u) \ {Pub(u)} : \E k \in Nat : s = KM!KeyPair(u, k)
  BY DEF Secrets, KeyInv, TypeOK
<1> QED BY <1>1, DerivesUpTo

\* The same after a step.
LEMMA RetiredUpToThen == SeenInv' /\ KeyInv' => RetiredDeriveLittle'
BY RetiredUpTo, PTL

\* When a dormant member of a Rotating group comes back, the key its entry moves to
\* is one that its former pairs, with everything stored by then, do not give.
THEOREM RetiredPairsLearnNothing == VaultSpec => RetiredPairLearnsNothingNew
<1>1. ASSUME VaultInv, [VaultNext]_vaultVars,
             NEW u \in Members, Dormant(u), u \in Members', ~Dormant(u)', mode = "rotating"
      PROVE  KM!GroupKey(Group, member'[u].gen) \notin Derived(Secrets(u) \ {Pub(u)})'
  <2>1. /\ u \in User /\ KeyInv /\ BoxInv /\ SeenInv /\ CatchUpInv /\ [Next]_vars
        /\ departed[u] \in Int /\ member[u].gen \in Nat
    BY <1>1, VaultTakesKeySteps DEF VaultInv, SeenInv, Never, Members, KeyInv, TypeOK, Row
  <2>2. ~UNCHANGED vars
    BY <1>1 DEF vars, groupRows, accountRows, Dormant
  <2>3. BoxStep /\ Witness
    BY <1>1, <2>1, <2>2, BoxSteps DEF VaultNext, vaultVars
  <2>4. KeyInv' /\ SeenInv'
    BY <1>1, <2>1, KeyInvNext, SeenNext
  <2>5. member[u].gen < member'[u].gen /\ member'[u].gen \in Nat
    BY <1>1, <2>1, <2>3, <2>4, ComesBackAhead DEF KeyInv, TypeOK, Row
  <2>6. \A n \in Nat : Reached(u, n) => n <= member[u].gen
    BY <1>1, <2>1 DEF CatchUpInv, Reached
  <2>7. ASSUME NEW x \in (seen \ {NoBox})', x[2] \in (Secrets(u) \ {Pub(u)})',
               NEW n \in Nat, x[4] = KM!GroupKey(Group, n)
        PROVE  n <= member[u].gen
    <3>1. PICK k \in Nat : x[2] = KM!KeyPair(u, k) /\ x[2] # KM!KeyPair(u, wrapKey'[u])
      BY <2>4, <2>7 DEF Secrets, Pub, KeyInv, TypeOK
    <3>2. CASE x \in seen
      <4>1. Honest(x)
        BY <2>1, <2>7, <3>2 DEF SeenInv
      <4>2. PICK v \in User, i \in Nat, j \in Nat :
              x[2] = KM!KeyPair(v, i) /\ x[4] = KM!GroupKey(Group, j) /\ Reached(v, j)
        BY <3>1, <4>1, Terms DEF Honest
      <4>3. v = u /\ j = n
        BY <2>1, <2>7, <3>1, <4>2, Terms
      <4> QED BY <2>6, <4>2, <4>3
    <3>3. CASE x \notin seen
      <4>1. x \in Stored' /\ x \notin Stored
        BY <2>1, <2>3, <2>7, <3>3 DEF Witness, SeenInv
      <4>2. CASE \E v \in User : x = entryBox'[v]
        <5>1. PICK v \in User : x = entryBox'[v]
          BY <4>2
        <5>2. Made(v)
          BY <2>3, <2>7, <4>1, <5>1 DEF BoxStep, Stays, Goes, Stored
        <5>3. x[2] = KM!KeyPair(v, wrapKey'[v])
          BY <2>1, <2>4, <5>1, <5>2, Boxes DEF Made, KeyInv, TypeOK, Row
        <5> QED BY <2>1, <2>4, <3>1, <5>3, Terms DEF KeyInv, TypeOK
      <4>3. CASE \E m \in DOMAIN linkBox' : x = linkBox'[m]
        <5>1. PICK m \in Nat : x = LinkOf(m)
          BY <2>3, <2>4, <4>3 DEF BoxStep, KeyInv, TypeOK
        <5> QED BY <2>1, <3>1, <5>1, Boxes, Terms
      <4>4. CASE \E v \in User : x = handoffBox'[v]
        <5>1. PICK v \in User : x = handoffBox'[v]
          BY <4>4
        <5>2. /\ v \in Members /\ member'[v] = member[v]
              /\ handoff'[v].gen = member[v].gen
              /\ handoffBox'[v] = HandedTo(v, handoff'[v].key, handoff'[v].gen)
          BY <2>3, <2>7, <4>1, <5>1 DEF BoxStep, HandStep, Stored
        <5>3. /\ x[2] = KM!KeyPair(v, handoff'[v].key) /\ x[4] = KM!GroupKey(Group, member[v].gen)
              /\ handoff'[v].key \in Nat /\ member[v].gen \in Nat
          BY <2>1, <2>4, <5>1, <5>2, Boxes DEF KeyInv, TypeOK, Handoff, Row
        <5>4. v = u
          BY <3>1, <5>3, Terms
        <5>5. n = member[v].gen
          BY <2>7, <5>3, Terms
        <5> QED BY <2>1, <5>4, <5>5
      <4> QED BY <4>1, <4>2, <4>3, <4>4 DEF Stored
    <3> QED BY <3>2, <3>3
  <2>8. \A top \in Int : RetiredDerive(u, top)'
    BY <2>1, <2>4, RetiredUpToThen DEF RetiredDeriveLittle
  <2>9. \A x \in (seen \ {NoBox})' :
          x[2] \in (Secrets(u) \ {Pub(u)})' /\ (\E n \in Nat : x[4] = KM!GroupKey(Group, n))
            => \E n \in Nat : x[4] = KM!GroupKey(Group, n) /\ n <= member[u].gen
    BY <2>7
  <2>10. \A m \in Nat : m > member[u].gen =>
           KM!GroupKey(Group, m) \notin Derived(Secrets(u) \ {Pub(u)})'
    <3>1. PICK top \in Int : top = member[u].gen
      BY <2>1
    <3>2. RetiredDerive(u, top)'
      BY <2>8
    <3> QED BY <2>9, <3>1, <3>2 DEF RetiredDerive
  <2> QED BY <2>1, <2>5, <2>10
<1>2. VaultInv /\ [VaultNext]_vaultVars =>
        [\A u \in Members : Dormant(u) /\ u \in Members' /\ ~Dormant(u)' /\ mode = "rotating"
           => KM!GroupKey(Group, member'[u].gen)
                \notin Derived(Secrets(u) \ {Pub(u)})']_vaultVars
  BY <1>1
<1> QED BY <1>2, VaultAlways, PTL DEF VaultSpec, RetiredPairLearnsNothingNew

-----------------------------------------------------------------------------
(* Content.  Whatever is stored was sealed under the key of the generation   *)
(* it names and bound to its own place; its readers derive that key.         *)

MarkInv == marker # NoMarker => marker.gen \in Nat \ {0}

LEMMA MarkNext == KeyInv /\ MarkInv /\ [Next]_vars => MarkInv'
<1> SUFFICES ASSUME KeyInv, MarkInv, [Next]_vars PROVE MarkInv'
  OBVIOUS
<1>t. /\ \A q \in reqs : q.gen \in Nat
      /\ \A u \in User : member[u].gen \in Nat
  BY DEF KeyInv, TypeOK, Request, Row
<1>1. CASE \E q \in reqs : CommitLeaveRotating(q)
  BY <1>t, <1>1 DEF CommitLeaveRotating, MarkInv
<1>2. ASSUME NEW u \in User, NEW g \in Nat, NEW r, Mint(u, g, r) PROVE MarkInv'
  BY <1>2 DEF Mint, MarkInv
<1>3. CASE \E u \in User : TakeOverLeaveRotation(u)
  BY <1>t, <1>2, <1>3 DEF TakeOverLeaveRotation
<1>4. marker' = marker \/ marker' = NoMarker => MarkInv'
  BY DEF MarkInv
<1> QED BY <1>1, <1>2, <1>3, <1>4, MarkerSteps DEF MarkerStep, KeyInv

SealedPost(x) ==
  \E author, sortKey, day, content, signature : \E n \in Nat :
    x = [author |-> author, sortKey |-> sortKey, generation |-> n, day |-> day,
         box |-> KM!Encrypt(KM!GroupKey(Group, n), content, KM!PostAAD(Group, sortKey, n)),
         signature |-> signature]

SealedComment(x) ==
  \E author, post, path, day, content, signature : \E n \in Nat :
    x = [author |-> author, post |-> post, path |-> path, generation |-> n, day |-> day,
         box |-> KM!Encrypt(KM!GroupKey(Group, n), content, KM!CommentAAD(post, path, n)),
         signature |-> signature]

SealedReaction(x) ==
  \E post, target, by, content : \E n \in Nat :
    x = [post |-> post, target |-> target, by |-> by, generation |-> n,
         box |-> KM!Encrypt(KM!GroupKey(Group, n), content, KM!ReactionAAD(post, target, by, n))]

SealedName(x) ==
  \E n \in Nat :
    x = [generation |-> n,
         name |-> KM!Encrypt(KM!GroupKey(Group, n), <<"name">>, KM!GroupNameAAD(Group, "NAME", n)),
         desc |-> KM!Encrypt(KM!GroupKey(Group, n), <<"name">>, KM!GroupNameAAD(Group, "DESC", n))]

ItemInv == SealedPost(item) \/ SealedComment(item) \/ SealedReaction(item) \/ SealedName(item)

\* Each shape is known by the field the clients tell it by.
LEMMA Kinds ==
  ASSUME NEW x
  PROVE  /\ SealedPost(x) => Kind(x) = "sortKey"
         /\ SealedComment(x) => Kind(x) = "path"
         /\ SealedReaction(x) => Kind(x) = "target"
         /\ SealedName(x) => Kind(x) = "desc"
<1>1. ASSUME NEW f \in {"sortKey", "path", "target", "desc"},
             \A k \in {"sortKey", "path", "target", "desc"} : k \in DOMAIN x <=> k = f
      PROVE  Kind(x) = f
  BY <1>1 DEF Kind
<1>2. SealedPost(x) => DOMAIN x = {"author", "sortKey", "generation", "day", "box", "signature"}
  BY DEF SealedPost
<1>3. SealedComment(x) =>
        DOMAIN x = {"author", "post", "path", "generation", "day", "box", "signature"}
  BY DEF SealedComment
<1>4. SealedReaction(x) => DOMAIN x = {"post", "target", "by", "generation", "box"}
  BY DEF SealedReaction
<1>5. SealedName(x) => DOMAIN x = {"generation", "name", "desc"}
  BY DEF SealedName
<1> QED BY <1>1, <1>2, <1>3, <1>4, <1>5

\* A writer holds the key of the generation new content is sealed for.
LEMMA WriterKey ==
  ASSUME KeyInv, BoxInv, MarkInv, NEW u, MayWrite(u)
  PROVE  /\ ContentGeneration \in Nat
         /\ KM!KeyOfGeneration(Keys(u), Group, Material(u), ContentGeneration)
              = KM!GroupKey(Group, ContentGeneration)
<1>1. ContentGeneration \in Nat
  BY CurrentIs DEF ContentGeneration, MarkInv, KeyInv
<1>2. /\ u \in Members /\ ~Dormant(u) /\ ContentGeneration <= member[u].gen
      /\ member[u].gen \in Nat
  BY <1>1 DEF MayWrite, KeyInv, TypeOK, Row, Members
<1>3. ContentGeneration \in 0..member[u].gen
  BY <1>1, <1>2
<1> QED BY <1>1, <1>2, <1>3, ReadsBack

LEMMA ItemWritten ==
  ASSUME KeyInv, BoxInv, MarkInv, ContentSteps
  PROVE  ItemInv'
<1>1. ASSUME NEW u, NEW sortKey, NEW content, NEW day, MayWrite(u),
             item' \in KM!SealPostContent(Keys(u), Group, Material(u), sortKey,
                                          ContentGeneration, content, day)
      PROVE  SealedPost(item')
  <2>1. ContentGeneration \in Nat
        /\ KM!KeyOfGeneration(Keys(u), Group, Material(u), ContentGeneration)
             = KM!GroupKey(Group, ContentGeneration)
    BY <1>1, WriterKey
  <2> QED BY <1>1, <2>1 DEF KM!SealPostContent, KM!Unless, SealedPost
<1>2. ASSUME NEW u, NEW post, NEW path, NEW content, NEW day, MayWrite(u),
             item' \in KM!SealCommentContent(Keys(u), Group, Material(u), post, path,
                                             ContentGeneration, content, day)
      PROVE  SealedComment(item')
  <2>1. ContentGeneration \in Nat
        /\ KM!KeyOfGeneration(Keys(u), Group, Material(u), ContentGeneration)
             = KM!GroupKey(Group, ContentGeneration)
    BY <1>2, WriterKey
  <2> QED BY <1>2, <2>1 DEF KM!SealCommentContent, KM!Unless, SealedComment
<1>3. ASSUME NEW u, React(u) PROVE SealedReaction(item')
  <2>1. MayWrite(u)
    BY <1>3 DEF React
  <2>2. ContentGeneration \in Nat
        /\ KM!KeyOfGeneration(Keys(u), Group, Material(u), ContentGeneration)
             = KM!GroupKey(Group, ContentGeneration)
    BY <2>1, WriterKey
  <2> QED BY <1>3, <2>2 DEF React, KM!SealReaction, KM!Unless, SealedReaction
<1>4. ASSUME NEW u \in User, Rename(u) PROVE SealedName(item')
  <2>1. u \in Members /\ member[u].gen \in Nat
    BY <1>4 DEF Rename, IsAdmin, Members, KeyInv, TypeOK, Row
  <2>2. /\ KM!OwnKey(Keys(u), Group, Material(u)) # KM!Fail
        /\ item' = [generation |-> Material(u).generation,
             name |-> KM!Encrypt(KM!OwnKey(Keys(u), Group, Material(u)), <<"name">>,
                                 KM!GroupNameAAD(Group, "NAME", Material(u).generation)),
             desc |-> KM!Encrypt(KM!OwnKey(Keys(u), Group, Material(u)), <<"name">>,
                                 KM!GroupNameAAD(Group, "DESC", Material(u).generation))]
    BY <1>4 DEF Rename, KM!EncryptGroupText, KM!Unless
  <2>3. KM!OwnKey(Keys(u), Group, Material(u)) = KM!GroupKey(Group, member[u].gen)
    BY <2>1, <2>2, OwnKeyOpens
  <2>4. Material(u).generation = member[u].gen
    BY DEF Material
  <2> QED BY <2>1, <2>2, <2>3, <2>4 DEF SealedName
<1>5. ASSUME NEW u \in User, NEW now, WritePost(u, now) \/ EditPost(u, now)
      PROVE  SealedPost(item')
  BY <1>1, <1>5 DEF WritePost, EditPost, KM!SealPost, KM!SealPostEdit
<1>6. ASSUME NEW u \in User, NEW now, WriteComment(u, now) \/ EditComment(u, now)
      PROVE  SealedComment(item')
  BY <1>2, <1>6 DEF WriteComment, EditComment, KM!SealComment, KM!SealCommentEdit
<1>7. SealedPost(item') \/ SealedComment(item') \/ SealedReaction(item') \/ SealedName(item')
  BY <1>3, <1>4, <1>5, <1>6 DEF ContentSteps
<1> QED BY <1>7 DEF ItemInv, SealedPost, SealedComment, SealedReaction, SealedName

LEMMA ItemInit == VaultInit => ItemInv
<1> SUFFICES ASSUME VaultInit PROVE ItemInv
  OBVIOUS
<1> DEFINE creation == KM!SignGroupCreation(Keys(Creator), Group, "root")
           creators == [generation |-> 0, wrapped |-> creation.wrapped, chain |-> <<>>]
<1>1. item \in KM!EncryptGroupText(Keys(Creator), Group, creators, <<"name">>)
  BY DEF VaultInit
<1>2. creation.wrapped = KM!Encrypt(Keys(Creator).pair, KM!GroupKey(Group, 0),
                                    KM!MemberWrapAAD(Group, Keys(Creator).userId, 0))
  BY DEF KM!SignGroupCreation, KM!Wrap
<1>3. KM!OwnKey(Keys(Creator), Group, creators) = KM!GroupKey(Group, 0)
  <2> HIDE DEF creation
  <2>1. KM!OwnKey(Keys(Creator), Group, creators)
          = KM!Decrypt(Keys(Creator).pair, creation.wrapped,
                       KM!MemberWrapAAD(Group, Keys(Creator).userId, 0))
    BY DEF KM!OwnKey, KM!Unwrap
  <2> QED BY <1>2, <2>1, Opening
<1>4. creators.generation = 0
  OBVIOUS
<1>5. SealedName(item)
  <2> HIDE DEF creators
  <2> QED BY <1>1, <1>3, <1>4 DEF KM!EncryptGroupText, KM!Unless, SealedName
<1> QED BY <1>5 DEF ItemInv

ContentInv == MarkInv /\ ItemInv

LEMMA ContentAlways == VaultSpec => [](KeyInv /\ BoxInv /\ ContentInv)
<1>1. VaultInit => ContentInv
  <2>1. Init => MarkInv
    BY DEF Init, MarkInv
  <2> QED BY <2>1, VaultTakesKeySteps, ItemInit DEF ContentInv
<1>2. KeyInv /\ BoxInv /\ ContentInv /\ [VaultNext]_vaultVars => ContentInv'
  <2> SUFFICES ASSUME KeyInv, BoxInv, ContentInv, [VaultNext]_vaultVars PROVE ContentInv'
    OBVIOUS
  <2>1. MarkInv'
    BY MarkNext, VaultTakesKeySteps DEF ContentInv
  <2>2. item' = item => ItemInv'
    BY DEF ContentInv, ItemInv, SealedPost, SealedComment, SealedReaction, SealedName
  <2>3. item' = item \/ ContentSteps
    BY DEF VaultNext, KeySteps, vaultVars
  <2> QED BY <2>1, <2>2, <2>3, ItemWritten DEF ContentInv
<1> QED BY <1>1, <1>2, BoxAlways, PTL DEF VaultSpec

\* Stored content and the group's name open, as they were written, for every member
\* whose entry has caught up with them and is not dormant.
THEOREM ContentStaysReadable == VaultSpec => []ContentReadable
<1>1. ASSUME KeyInv, BoxInv, ContentInv PROVE ContentReadable
  <2> SUFFICES ASSUME NEW u \in Members, ~Dormant(u), member[u].gen >= item.generation
               PROVE  LET m == Material(u)
                          opened == CASE Kind(item) = "sortKey" ->
                                           KM!OpenPosts(Keys(u), Group, m, {item})[item]
                                      [] Kind(item) = "path" ->
                                           KM!OpenComments(Keys(u), Group, m, {item})[item]
                                      [] Kind(item) = "target" ->
                                           KM!OpenReactions(Keys(u), Group, m, {item})[item]
                                      [] IsName -> KM!DecryptGroupName(Keys(u), Group, m, item)
                      IN  IF IsName THEN opened # KM!Fail ELSE opened = item.box[4]
    BY DEF ContentReadable
  <2>k. ASSUME NEW n \in Nat, item.generation = n
        PROVE  /\ KM!KeyOfGeneration(Keys(u), Group, Material(u), n) = KM!GroupKey(Group, n)
               /\ KM!GenerationKeys(Keys(u), Group, Material(u), {item.generation})[n]
                    = KM!GroupKey(Group, n)
    <3>1. n \in 0..member[u].gen
      BY <1>1, <2>k DEF KeyInv, TypeOK, Row, Members
    <3> QED BY <1>1, <2>k, <3>1, ReadsBack DEF KM!GenerationKeys
  <2>g. /\ {x.generation : x \in {item}} = {item.generation}
        /\ item.generation \in {x.generation : x \in {item}} /\ item \in {item}
    OBVIOUS
  <2>1. CASE SealedPost(item)
    <3>1. PICK n \in Nat :
            /\ item.generation = n
            /\ \E content : item.box = KM!Encrypt(KM!GroupKey(Group, n), content,
                                                  KM!PostAAD(Group, item.sortKey, n))
      BY <2>1 DEF SealedPost
    <3>2. KM!OpenPosts(Keys(u), Group, Material(u), {item})[item]
            = KM!Decrypt(KM!GroupKey(Group, n), item.box, KM!PostAAD(Group, item.sortKey, n))
      <4> DEFINE keyFor == KM!GenerationKeys(Keys(u), Group, Material(u),
                                             {x.generation : x \in {item}})
      <4>1. KM!OpenPosts(Keys(u), Group, Material(u), {item})[item]
              = IF keyFor[item.generation] = KM!Fail THEN KM!Fail
                ELSE KM!Decrypt(keyFor[item.generation], item.box,
                                KM!PostAAD(Group, item.sortKey, item.generation))
        BY DEF KM!OpenPosts
      <4>2. keyFor[item.generation] = KM!GroupKey(Group, n)
        BY <2>g, <2>k, <3>1
      <4> QED BY <3>1, <4>1, <4>2, Terms
    <3>3. Kind(item) = "sortKey"
      BY <2>1, Kinds
    <3> QED BY <3>1, <3>2, <3>3, Opening DEF IsName
  <2>2. CASE SealedComment(item)
    <3>1. PICK n \in Nat :
            /\ item.generation = n
            /\ \E content : item.box = KM!Encrypt(KM!GroupKey(Group, n), content,
                                                  KM!CommentAAD(item.post, item.path, n))
      BY <2>2 DEF SealedComment
    <3>2. KM!OpenComments(Keys(u), Group, Material(u), {item})[item]
            = KM!Decrypt(KM!GroupKey(Group, n), item.box, KM!CommentAAD(item.post, item.path, n))
      <4> DEFINE keyFor == KM!GenerationKeys(Keys(u), Group, Material(u),
                                             {x.generation : x \in {item}})
      <4>1. KM!OpenComments(Keys(u), Group, Material(u), {item})[item]
              = IF keyFor[item.generation] = KM!Fail THEN KM!Fail
                ELSE KM!Decrypt(keyFor[item.generation], item.box,
                                KM!CommentAAD(item.post, item.path, item.generation))
        BY DEF KM!OpenComments
      <4>2. keyFor[item.generation] = KM!GroupKey(Group, n)
        BY <2>g, <2>k, <3>1
      <4> QED BY <3>1, <4>1, <4>2, Terms
    <3>3. Kind(item) = "path"
      BY <2>2, Kinds
    <3> QED BY <3>1, <3>2, <3>3, Opening DEF IsName
  <2>3. CASE SealedReaction(item)
    <3>1. PICK n \in Nat :
            /\ item.generation = n
            /\ \E content : item.box = KM!Encrypt(KM!GroupKey(Group, n), content,
                                                  KM!ReactionAAD(item.post, item.target, item.by, n))
      BY <2>3 DEF SealedReaction
    <3>2. KM!OpenReactions(Keys(u), Group, Material(u), {item})[item]
            = KM!Decrypt(KM!GroupKey(Group, n), item.box, KM!ReactionAAD(item.post, item.target, item.by, n))
      <4> DEFINE keyFor == KM!GenerationKeys(Keys(u), Group, Material(u),
                                             {x.generation : x \in {item}})
      <4>1. KM!OpenReactions(Keys(u), Group, Material(u), {item})[item]
              = IF keyFor[item.generation] = KM!Fail THEN KM!Fail
                ELSE KM!Decrypt(keyFor[item.generation], item.box,
                                KM!ReactionAAD(item.post, item.target, item.by, item.generation))
        BY DEF KM!OpenReactions
      <4>2. keyFor[item.generation] = KM!GroupKey(Group, n)
        BY <2>g, <2>k, <3>1
      <4> QED BY <3>1, <4>1, <4>2, Terms
    <3>3. Kind(item) = "target"
      BY <2>3, Kinds
    <3> QED BY <3>1, <3>2, <3>3, Opening DEF IsName
  <2>4. CASE SealedName(item)
    <3>1. PICK n \in Nat :
            item = [generation |-> n,
                    name |-> KM!Encrypt(KM!GroupKey(Group, n), <<"name">>,
                                        KM!GroupNameAAD(Group, "NAME", n)),
                    desc |-> KM!Encrypt(KM!GroupKey(Group, n), <<"name">>,
                                        KM!GroupNameAAD(Group, "DESC", n))]
      BY <2>4 DEF SealedName
    <3>2. /\ item.generation = n
          /\ item.name = KM!Encrypt(KM!GroupKey(Group, n), <<"name">>,
                                    KM!GroupNameAAD(Group, "NAME", n))
          /\ item.desc = KM!Encrypt(KM!GroupKey(Group, n), <<"name">>,
                                    KM!GroupNameAAD(Group, "DESC", n))
      BY <3>1
    <3>3. KM!DecryptGroupName(Keys(u), Group, Material(u), item)
            = IF KM!Fail \in {KM!GroupKey(Group, n), <<"name">>, <<"name">>} THEN KM!Fail
              ELSE <<<<"name">>, <<"name">>>>
      BY <2>k, <3>2, Opening DEF KM!DecryptGroupName
    <3>4. KM!DecryptGroupName(Keys(u), Group, Material(u), item) # KM!Fail
      BY <3>3, Terms DEF KM!Fail
    <3>5. Kind(item) = "desc"
      BY <2>4, Kinds
    <3> QED BY <3>4, <3>5 DEF IsName
  <2> QED BY <1>1, <2>1, <2>2, <2>3, <2>4 DEF ContentInv, ItemInv
<1> QED BY <1>1, ContentAlways, PTL
=============================================================================

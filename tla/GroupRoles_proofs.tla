--------------------------- MODULE GroupRoles_proofs ---------------------------
(***************************************************************************)
(* What a group's signed history of roles backs, for any accounts, days,   *)
(* clocks and bounds.                                                      *)
(*                                                                         *)
(* The argument.  A verdict on a row depends on the days up to its own     *)
(* only (DaysDecide), and nothing is signed on a day nobody can date any   *)
(* more, so verdicts settle.  What the server takes verifies, because the  *)
(* grant it makes the signer cite is the newest about the signer           *)
(* (RosterInv), and under right clocks the rows come in the order of their *)
(* days (OrderInv).  A day on which somebody was not an admin lies before  *)
(* every grant that made it one, or behind a row that ended it (HeldInv).  *)
(***************************************************************************)
EXTENDS GroupRoles, FiniteSetTheorems, WellFoundedInduction, TLAPS

Role == Elevated \cup {"member"}

RowType ==
  [id : Nat, subject : User, role : Role, day : Day,
   grantor : User, ref : Nat, via : Nat, key : Nat]

DesigType ==
  [id : Nat \ {0}, admin : User, successor : User \cup {None}, day : Day, ref : Nat, key : Nat]

RosterType == [role : Role \cup {"none"}, ref : Nat, joined : Day]

TypeOK ==
  /\ day \in Day
  /\ roster \in [User -> RosterType]
  /\ rows \in SUBSET RowType /\ IsFiniteSet(rows)
  /\ desigs \in SUBSET DesigType /\ IsFiniteSet(desigs)
  /\ rot \in [User -> Seq(Day)]
  /\ seen \in [User -> Day]
  /\ claims \subseteq [row : RowType, old : Role \cup {"none"}]
  /\ held \in [User -> SUBSET Day]
  /\ exact \in BOOLEAN

-----------------------------------------------------------------------------
(* The days a history is judged on.                                        *)

Below == {ss \in Nat \X Nat : ss[1] < ss[2]}

LEMMA BelowWellFounded == IsWellFoundedOn(Below, Nat)
BY NatLessThanWellFounded DEF OpToRel, Below

\* A set of days that holds every day whose earlier days it holds holds all.
LEMMA DayByDay ==
  ASSUME NEW S, \A n \in Day : (\A m \in 0..n - 1 : m \in S) => n \in S
  PROVE  Day \subseteq S
<1>1. SUFFICES ASSUME Day \ S # {} PROVE FALSE
  OBVIOUS
<1>2. Day \ S \in SUBSET Nat
  BY DaysAssumption DEF Day
<1>3. PICK n \in Day \ S : \A m \in Day \ S : <<m, n>> \notin Below
  BY <1>1, <1>2, BelowWellFounded, WFMin
<1>4. ASSUME NEW m \in 0..n - 1 PROVE m \in S
  <2>1. m \in Day /\ <<m, n>> \in Below
    BY DaysAssumption DEF Day, Below
  <2> QED BY <1>3, <2>1
<1> QED BY <1>3, <1>4

\* The rows judged on a day are rows of that day.
LEMMA JudgedOfDay ==
  ASSUME NEW R, NEW D, NEW K, NEW good, NEW e
  PROVE  Judged(R, D, K, good, e) \subseteq {g \in R : g.day = e}
BY DEF Judged

\* What the recursion of Verified says of a day, from the day before.
UpTo(R, D, K, F, e) ==
  LET before == IF e = 0 THEN {} ELSE F[e - 1]
  IN  before \cup Judged(R, D, K, before, e)

\* There is a function that obeys it for every day.
LEMMA RecursionDefined ==
  ASSUME NEW R, NEW D, NEW K
  PROVE  VerifiedUpTo(R, D, K) = [e \in Day |-> UpTo(R, D, K, VerifiedUpTo(R, D, K), e)]
<1> DEFINE Solves(F, n) == F = [e \in 0..n |-> UpTo(R, D, K, F, e)]
           Solved == {n \in Day : \E F : Solves(F, n)}
<1>1. ASSUME NEW n \in Day, \A m \in 0..n - 1 : m \in Solved PROVE n \in Solved
  <2>0. n \in Nat
    BY DaysAssumption DEF Day
  <2>1. CASE n = 0
    <3> DEFINE F == [e \in 0..0 |-> Judged(R, D, K, {}, 0)]
    <3>1. Solves(F, 0)
      BY DEF UpTo
    <3> QED BY <2>1, <3>1
  <2>2. CASE n # 0
    <3>1. n - 1 \in Solved
      BY <1>1, <2>0, <2>2
    <3>2. PICK F : Solves(F, n - 1)
      BY <3>1
    <3> DEFINE H == [e \in 0..n |-> IF e = n THEN F[n - 1] \cup Judged(R, D, K, F[n - 1], n) ELSE F[e]]
    <3>3. ASSUME NEW e \in 0..n PROVE H[e] = UpTo(R, D, K, H, e)
      <4>1. CASE e = n
        BY <2>0, <2>2, <4>1 DEF UpTo
      <4>2. CASE e # n
        <5>1. e \in 0..n - 1 /\ H[e] = F[e]
          BY <2>0, <4>2
        <5>2. F[e] = UpTo(R, D, K, F, e)
          BY <3>2, <5>1
        <5>3. e # 0 => H[e - 1] = F[e - 1]
          BY <2>0, <5>1
        <5> QED BY <5>1, <5>2, <5>3 DEF UpTo
      <4> QED BY <4>1, <4>2
    <3>4. Solves(H, n)
      BY <3>3
    <3> QED BY <3>4
  <2> QED BY <2>1, <2>2
<1>2. MaxDay \in Solved
  <2> HIDE DEF Solved
  <2> QED BY <1>1, DayByDay, DaysAssumption DEF Day
<1>3. PICK F : Solves(F, MaxDay)
  BY <1>2
<1>4. F = [e \in Day |-> LET before == IF e = 0 THEN {} ELSE F[e - 1]
                         IN  before \cup Judged(R, D, K, before, e)]
  BY <1>3 DEF Day, UpTo
<1>5. VerifiedUpTo(R, D, K) =
        [e \in Day |-> LET before == IF e = 0 THEN {} ELSE VerifiedUpTo(R, D, K)[e - 1]
                       IN  before \cup Judged(R, D, K, before, e)]
  BY <1>4 DEF VerifiedUpTo
<1> QED BY <1>5 DEF UpTo

\* A row verifies if it is judged to, given what verifies of earlier days.
LEMMA VerifiedByDay ==
  ASSUME NEW R, \A g \in R : g.day \in Day, NEW D, NEW K, NEW g
  PROVE  LET V == Verified(R, D, K)
         IN  g \in V <=> /\ g \in R
                         /\ g \in Judged(R, D, K, {h \in V : h.day < g.day}, g.day)
<1> DEFINE F == VerifiedUpTo(R, D, K)
           Before(e) == IF e = 0 THEN {} ELSE F[e - 1]
           Right(m) == \A h : h \in F[m] <=> /\ h \in R /\ h.day \in 0..m
                                             /\ h \in Judged(R, D, K, Before(h.day), h.day)
           Rightly == {m \in Day : Right(m)}
<1>1. ASSUME NEW m \in Day, \A k \in 0..m - 1 : k \in Rightly PROVE m \in Rightly
  <2>0. m \in Nat /\ F[m] = Before(m) \cup Judged(R, D, K, Before(m), m)
    BY RecursionDefined, DaysAssumption DEF UpTo, Day
  <2>1. ASSUME NEW h PROVE h \in Before(m) <=> /\ h \in R /\ h.day \in 0..m - 1
                                               /\ h \in Judged(R, D, K, Before(h.day), h.day)
    <3>1. CASE m = 0
      BY <3>1
    <3>2. CASE m # 0
      <4>1. m - 1 \in Rightly /\ Before(m) = F[m - 1]
        BY <1>1, <2>0, <3>2
      <4> QED BY <4>1
    <3> QED BY <3>1, <3>2
  <2>2. ASSUME NEW h PROVE h \in F[m] <=> /\ h \in R /\ h.day \in 0..m
                                          /\ h \in Judged(R, D, K, Before(h.day), h.day)
    <3>1. h \in Judged(R, D, K, Before(m), m) => h \in R /\ h.day = m
      BY JudgedOfDay
    <3>2. h \in R /\ h.day = m => (h \in Before(m) => FALSE)
      BY <2>0, <2>1
    <3>3. h \in R => h.day \in Nat
      BY DaysAssumption DEF Day
    <3>4. CASE h.day = m
      <4> HIDE DEF Before, F
      <4> QED BY <2>0, <2>1, <3>1, <3>2, <3>4
    <3>5. CASE h.day # m
      <4>1. h \in R => (h.day \in 0..m <=> h.day \in 0..m - 1)
        BY <2>0, <3>3, <3>5
      <4> HIDE DEF Before, F
      <4> QED BY <2>0, <2>1, <3>1, <3>5, <4>1
    <3> QED BY <3>4, <3>5
  <2> QED BY <2>2
<1>2. ASSUME NEW m \in Day PROVE Right(m)
  <2>1. Day \subseteq Rightly
    <3> HIDE DEF Rightly
    <3> QED BY <1>1, DayByDay
  <2> QED BY <2>1
<1>3. Verified(R, D, K) = F[MaxDay] /\ MaxDay \in Day
  BY DaysAssumption DEF Verified, Day
<1>4. ASSUME g \in R PROVE Before(g.day) = {h \in F[MaxDay] : h.day < g.day}
  <2>1. g.day \in Day /\ g.day \in Nat /\ MaxDay \in Nat /\ g.day <= MaxDay
    BY <1>4, DaysAssumption DEF Day
  <2>2. ASSUME NEW h PROVE h \in Before(g.day) <=> h \in F[MaxDay] /\ h.day < g.day
    <3>1. h \in F[MaxDay] <=> /\ h \in R /\ h.day \in 0..MaxDay
                              /\ h \in Judged(R, D, K, Before(h.day), h.day)
      BY <1>2, <1>3
    <3>2. CASE g.day = 0
      <4>1. h \in R => ~(h.day < 0)
        BY DaysAssumption DEF Day
      <4> QED BY <3>1, <3>2, <4>1
    <3>3. CASE g.day # 0
      <4>1. g.day - 1 \in Day /\ Before(g.day) = F[g.day - 1]
        BY <2>1, <3>3 DEF Day
      <4>2. h \in F[g.day - 1] <=> /\ h \in R /\ h.day \in 0..g.day - 1
                                   /\ h \in Judged(R, D, K, Before(h.day), h.day)
        BY <1>2, <4>1
      <4>3. h \in R => (h.day \in 0..g.day - 1 <=> h.day \in 0..MaxDay /\ h.day < g.day)
        BY <2>1, DaysAssumption DEF Day
      <4> HIDE DEF Before, F
      <4> QED BY <3>1, <4>1, <4>2, <4>3
    <3> QED BY <3>2, <3>3
  <2> HIDE DEF Before, F
  <2> QED BY <2>2
<1>5. g \in R => g.day \in 0..MaxDay
  BY DEF Day
<1>6. g \in F[MaxDay] <=> /\ g \in R /\ g.day \in 0..MaxDay
                          /\ g \in Judged(R, D, K, Before(g.day), g.day)
  BY <1>2, <1>3
<1> HIDE DEF F, Before
<1> QED BY <1>3, <1>4, <1>5, <1>6

-----------------------------------------------------------------------------
(* A verdict depends on the days up to its own.                            *)

UpToDay(R, n) == {g \in R : g.day <= n}

CitedOnce(R, g) == \A h \in R : h.via = g.via => h = g

\* Two histories that agree on the days up to n, and on what is cited twice.
AgreeUpTo(R, D, K, R2, D2, K2, n) ==
  /\ UpToDay(R, n) = UpToDay(R2, n)
  /\ UpToDay(D, n) = UpToDay(D2, n)
  /\ \A u \in User, e \in 0..n : KeysOn(K, u, e) = KeysOn(K2, u, e)
  /\ \A g \in UpToDay(R, n) : g.via # NoRow => (CitedOnce(R, g) <=> CitedOnce(R2, g))

\* The newest rows before a day, and the rows of days, agree.
LEMMA DaysAgree ==
  ASSUME NEW R \in SUBSET RowType, NEW R2 \in SUBSET RowType, NEW n \in Day,
         UpToDay(R, n) = UpToDay(R2, n), NEW u, NEW e \in Day, e <= n
  PROVE  /\ CurrentOn(R, u, e) = CurrentOn(R2, u, e)
         /\ \A d : Dated(R, u, d, e) = Dated(R2, u, d, e)
<1>0. /\ n \in Nat /\ e \in Nat
      /\ \A g \in R \cup R2 : g.day \in Nat
  BY DaysAssumption DEF Day, RowType
<1>1. ASSUME NEW g PROVE g \in R /\ g.day <= e <=> g \in R2 /\ g.day <= e
  BY <1>0 DEF UpToDay
<1>2. {g \in Of(R, u) : g.day < e} = {g \in Of(R2, u) : g.day < e}
  BY <1>0, <1>1 DEF Of
<1>3. ASSUME NEW d PROVE Dated(R, u, d, e) = Dated(R2, u, d, e)
  BY <1>0, <1>1 DEF Of, Dated
<1> QED BY <1>2, <1>3 DEF CurrentOn

\* What the rows of a day are judged by agrees.
LEMMA JudgesAgree ==
  ASSUME NEW R \in SUBSET RowType, NEW R2 \in SUBSET RowType,
         NEW D \in SUBSET DesigType, NEW D2 \in SUBSET DesigType, NEW K, NEW K2,
         NEW n \in Day, AgreeUpTo(R, D, K, R2, D2, K2, n), NEW good, NEW e \in Day, e <= n
  PROVE  Judged(R, D, K, good, e) = Judged(R2, D2, K2, good, e)
<1>0. /\ n \in Nat /\ e \in Nat /\ e \in 0..n
      /\ \A g \in R \cup R2 : g.day \in Day /\ g.day \in Nat /\ g.subject \in User /\ g.grantor \in User
      /\ \A d \in D \cup D2 : d.day \in Day /\ d.day \in Nat /\ d.admin \in User
  BY DaysAssumption DEF Day, RowType, DesigType
<1>1. UpToDay(R, n) = UpToDay(R2, n)
  BY DEF AgreeUpTo
<1>2. ASSUME NEW u, NEW d \in Day, d <= n
      PROVE  /\ CurrentOn(R, u, d) = CurrentOn(R2, u, d)
             /\ \A c : Dated(R, u, c, d) = Dated(R2, u, c, d)
  BY <1>1, <1>2, DaysAgree
<1>3. ASSUME NEW u, NEW ref, NEW d \in Day, d <= n, NEW rs
      PROVE  StandsOn(R, good, u, ref, d, rs) = StandsOn(R2, good, u, ref, d, rs)
  BY <1>2, <1>3 DEF StandsOn
<1>4. ASSUME NEW u \in User, NEW d \in Day, d <= n PROVE KeysOn(K, u, d) = KeysOn(K2, u, d)
  <2>1. d \in 0..n
    BY <1>0, <1>4, DaysAssumption DEF Day
  <2> QED BY <2>1 DEF AgreeUpTo
<1>5. {g \in R : g.day = e} = {g \in R2 : g.day = e}
  BY <1>0, <1>1 DEF UpToDay
<1>6. ASSUME NEW g \in R, g.day = e
      PROVE  SelfDemotionVerifies(g, R, good, K) = SelfDemotionVerifies(g, R2, good, K2)
  BY <1>0, <1>2, <1>3, <1>4, <1>6 DEF SelfDemotionVerifies
<1>7. ASSUME NEW g \in R, g.day = e, NEW left
      PROVE  GrantVerifies(g, R, left, good, K) = GrantVerifies(g, R2, left, good, K2)
  BY <1>0, <1>2, <1>3, <1>4, <1>7 DEF GrantVerifies
<1>8. ASSUME NEW g \in R, g.day = e PROVE RootVerifies(g, K) = RootVerifies(g, K2)
  BY <1>0, <1>4, <1>8, UserAssumption DEF RootVerifies
<1>9. ASSUME NEW g \in R, g.day = e, g.via # NoRow
      PROVE  ClaimVerifies(g, R, D, good, K) = ClaimVerifies(g, R2, D2, good, K2)
  <2>1. CitedOnce(R, g) <=> CitedOnce(R2, g)
    BY <1>0, <1>9 DEF AgreeUpTo, UpToDay
  <2>2. ASSUME NEW d, d.day <= e PROVE d \in D <=> d \in D2
    <3>1. d \in UpToDay(D, n) <=> d \in UpToDay(D2, n)
      BY DEF AgreeUpTo
    <3> QED BY <1>0, <2>2, <3>1 DEF UpToDay
  <2>3. ASSUME NEW d \in D \cup D2, d.day <= e
        PROVE  /\ DesignationVerifies(d, R, good, K) = DesignationVerifies(d, R2, good, K2)
               /\ Lapsed(d, R, D, e) = Lapsed(d, R2, D2, e)
    <3>1. d.day <= n /\ d.day \in Day /\ d.admin \in User
      BY <1>0, <2>3
    <3>2. DesignationVerifies(d, R, good, K) = DesignationVerifies(d, R2, good, K2)
      BY <1>2, <1>3, <1>4, <3>1 DEF DesignationVerifies
    <3>3. (\E o \in D \ {d} : o.admin = d.admin /\ d.day <= o.day /\ o.day <= e)
            <=> (\E o \in D2 \ {d} : o.admin = d.admin /\ d.day <= o.day /\ o.day <= e)
      BY <2>2
    <3>4. Dated(R, d.admin, d.day, e) = Dated(R2, d.admin, d.day, e)
      BY <1>0, <1>2
    <3> QED BY <3>2, <3>3, <3>4 DEF Lapsed
  <2> DEFINE Backs(d, X, Y, Z) ==
               /\ d.id = g.via /\ d.successor = g.subject /\ d.admin = g.grantor /\ d.ref = g.ref
               /\ DesignationVerifies(d, X, good, Z)
               /\ g.day - d.day >= Period
               /\ ~Lapsed(d, X, Y, g.day)
  <2>4. ASSUME NEW d PROVE d \in D /\ Backs(d, R, D, K) <=> d \in D2 /\ Backs(d, R2, D2, K2)
    <3>1. d \in D \cup D2 /\ g.day - d.day >= Period => d.day <= e
      BY <1>0, <1>9, PeriodAssumption
    <3> QED BY <1>9, <2>2, <2>3, <3>1
  <2>5. (\E d \in D : Backs(d, R, D, K)) <=> (\E d \in D2 : Backs(d, R2, D2, K2))
    <3> HIDE DEF Backs
    <3> QED BY <2>4
  <2>6. g.key \in KeysOn(K, g.subject, g.day) <=> g.key \in KeysOn(K2, g.subject, g.day)
    BY <1>0, <1>4, <1>9
  <2>7. /\ ClaimVerifies(g, R, D, good, K) <=>
             /\ g.role = "admin" /\ CitedOnce(R, g) /\ \E d \in D : Backs(d, R, D, K)
             /\ g.key \in KeysOn(K, g.subject, g.day)
        /\ ClaimVerifies(g, R2, D2, good, K2) <=>
             /\ g.role = "admin" /\ CitedOnce(R2, g) /\ \E d \in D2 : Backs(d, R2, D2, K2)
             /\ g.key \in KeysOn(K2, g.subject, g.day)
    BY DEF ClaimVerifies, CitedOnce
  <2>8. ClaimVerifies(g, R, D, good, K) \in BOOLEAN /\ ClaimVerifies(g, R2, D2, good, K2) \in BOOLEAN
    BY DEF ClaimVerifies
  <2> HIDE DEF Backs
  <2> QED BY <2>1, <2>5, <2>6, <2>7, <2>8
<1>10. {g \in R : g.day = e /\ g.id # Root /\ g.grantor = g.subject /\ SelfDemotionVerifies(g, R, good, K)}
       = {g \in R2 : g.day = e /\ g.id # Root /\ g.grantor = g.subject /\ SelfDemotionVerifies(g, R2, good, K2)}
  BY <1>5, <1>6
<1> QED
  <2> DEFINE left == {g \in {g \in R : g.day = e} : /\ g.id # Root /\ g.grantor = g.subject
                                                    /\ SelfDemotionVerifies(g, R, good, K)}
             left2 == {g \in {g \in R2 : g.day = e} : /\ g.id # Root /\ g.grantor = g.subject
                                                      /\ SelfDemotionVerifies(g, R2, good, K2)}
             Backed(g, X, Y, Z, l) ==
               \/ g.id = Root /\ RootVerifies(g, Z)
               \/ g.via # NoRow /\ ClaimVerifies(g, X, Y, good, Z)
               \/ g.via = NoRow /\ g.grantor # g.subject /\ GrantVerifies(g, X, l, good, Z)
  <2>1. left = left2
    BY <1>10
  <2>2. ASSUME NEW g \in R, g.day = e PROVE Backed(g, R, D, K, left) <=> Backed(g, R2, D2, K2, left)
    <3> HIDE DEF left
    <3> QED BY <1>7, <1>8, <1>9, <2>2
  <2>3. {g \in {g \in R : g.day = e} : Backed(g, R, D, K, left)}
        = {g \in {g \in R2 : g.day = e} : Backed(g, R2, D2, K2, left2)}
    <3> HIDE DEF Backed
    <3> QED BY <1>5, <2>1, <2>2
  <2>4. /\ Judged(R, D, K, good, e) = left \cup {g \in {g \in R : g.day = e} : Backed(g, R, D, K, left)}
        /\ Judged(R2, D2, K2, good, e) = left2 \cup {g \in {g \in R2 : g.day = e} : Backed(g, R2, D2, K2, left2)}
    BY DEF Judged
  <2> HIDE DEF left, left2, Backed
  <2> QED BY <2>1, <2>3, <2>4

\* Two histories that agree on the days up to n agree on what verifies of them.
LEMMA DaysDecide ==
  ASSUME NEW R \in SUBSET RowType, NEW R2 \in SUBSET RowType,
         NEW D \in SUBSET DesigType, NEW D2 \in SUBSET DesigType, NEW K, NEW K2,
         NEW n \in Day, AgreeUpTo(R, D, K, R2, D2, K2, n)
  PROVE  UpToDay(Verified(R, D, K), n) = UpToDay(Verified(R2, D2, K2), n)
<1> DEFINE V == Verified(R, D, K)
           W == Verified(R2, D2, K2)
           Same(e) == \A g : g.day = e => (g \in V <=> g \in W)
           Days == {e \in Day : e <= n => Same(e)}
<1>0. \A g \in R \cup R2 : g.day \in Day
  BY DEF RowType
<1>1. \A g : /\ g \in V <=> g \in R /\ g \in Judged(R, D, K, {h \in V : h.day < g.day}, g.day)
             /\ g \in W <=> g \in R2 /\ g \in Judged(R2, D2, K2, {h \in W : h.day < g.day}, g.day)
  BY <1>0, VerifiedByDay
<1> HIDE DEF V, W
<1>2. ASSUME NEW e \in Day, \A m \in 0..e - 1 : m \in Days, e <= n, NEW g, g.day = e
      PROVE  g \in V <=> g \in W
  <2>1. ASSUME NEW h \in R \cup R2, h.day < e PROVE h \in V <=> h \in W
    <3>1. h.day \in 0..e - 1 /\ h.day <= n
      BY <1>0, <1>2, <2>1, DaysAssumption DEF Day
    <3> QED BY <1>2, <3>1
  <2>2. {h \in V : h.day < e} = {h \in W : h.day < e}
    BY <1>1, <2>1
  <2>3. Judged(R, D, K, {h \in V : h.day < e}, e) = Judged(R2, D2, K2, {h \in W : h.day < e}, e)
    <3>1. ASSUME NEW X PROVE Judged(R, D, K, X, e) = Judged(R2, D2, K2, X, e)
      <4>1. e <= n
        BY <1>2
      <4> QED BY ONLY <4>1, JudgesAgree, R \in SUBSET RowType, R2 \in SUBSET RowType,
            D \in SUBSET DesigType, D2 \in SUBSET DesigType, n \in Day, e \in Day,
            AgreeUpTo(R, D, K, R2, D2, K2, n)
    <3> QED BY <2>2, <3>1
  <2>4. \A X : g \in Judged(R, D, K, X, e) => g \in R
    BY JudgedOfDay
  <2>5. \A X : g \in Judged(R2, D2, K2, X, e) => g \in R2
    BY JudgedOfDay
  <2>6. /\ g \in V <=> g \in R /\ g \in Judged(R, D, K, {h \in V : h.day < e}, e)
        /\ g \in W <=> g \in R2 /\ g \in Judged(R2, D2, K2, {h \in W : h.day < e}, e)
    BY <1>1, <1>2
  <2> QED BY <2>3, <2>4, <2>5, <2>6
<1>3. Day \subseteq Days
  <2>1. ASSUME NEW e \in Day, \A m \in 0..e - 1 : m \in Days PROVE e \in Days
    BY <1>2, <2>1
  <2> HIDE DEF Days
  <2> QED BY <2>1, DayByDay
<1>4. ASSUME NEW g, g.day <= n PROVE g \in V <=> g \in W
  <2>1. g \in V \/ g \in W => g.day \in Day
    BY <1>0, <1>1
  <2> QED BY <1>3, <1>4, <2>1
<1> QED BY <1>4 DEF UpToDay, V, W

-----------------------------------------------------------------------------
(* Type correctness.                                                       *)

LEMMA RowsCounted ==
  ASSUME TypeOK
  PROVE  /\ Cardinality(rows) \in Nat /\ Cardinality(desigs) \in Nat
         /\ \A u \in User : KeyOf(u) \in Nat
<1>1. \A u \in User : Len(rot[u]) \in Nat
  BY DEF TypeOK
<1> QED BY <1>1, FS_CardinalityType DEF TypeOK, KeyOf

LEMMA NewRowTyped ==
  ASSUME TypeOK, NEW a \in User, NEW s \in User, NEW role \in Role, NEW e \in Day
  PROVE  NewRow(s, role, e, a) \in RowType
<1>1. roster[a].ref \in Nat
  BY DEF TypeOK, RosterType
<1> QED BY <1>1, RowsCounted DEF NewRow, RowType, NoRow

LEMMA AppendTyped ==
  ASSUME TypeOK, NEW g \in RowType, AppendRow(g)
  PROVE  rows' \in SUBSET RowType /\ IsFiniteSet(rows') /\ exact' \in BOOLEAN
BY FS_AddElement DEF AppendRow, TypeOK

LEMMA WithRole ==
  ASSUME NEW r \in RosterType, NEW role \in Role, NEW n \in Nat
  PROVE  [r EXCEPT !.role = role, !.ref = n] \in RosterType
BY DEF RosterType

LEMMA InitTyped == Init => TypeOK
<1> SUFFICES ASSUME Init PROVE TypeOK
  OBVIOUS
<1>0. 0 \in Day /\ Creator \in User
  BY DaysAssumption, UserAssumption DEF Day
<1>1. rows \in SUBSET RowType /\ IsFiniteSet(rows)
  <2>1. RootRow \in RowType
    BY <1>0 DEF RootRow, RowType, Root, NoRow, Role, Elevated
  <2> QED BY <2>1, FS_Singleton DEF Init
<1>2. desigs \in SUBSET DesigType /\ IsFiniteSet(desigs)
  BY FS_EmptySet DEF Init
<1>3. roster \in [User -> RosterType]
  BY <1>0 DEF Init, RosterType, Role, Elevated, Root, NoRow
<1>4. rot \in [User -> Seq(Day)]
  BY DEF Init
<1> QED BY <1>0, <1>1, <1>2, <1>3, <1>4 DEF Init, TypeOK

LEMMA NextTyped == TypeOK /\ [Next]_vars => TypeOK'
<1> SUFFICES ASSUME TypeOK, [Next]_vars PROVE TypeOK'
  OBVIOUS
<1> USE UserAssumption
<1>a. \A u : Dates(u) \subseteq Day
  BY DEF Dates
<1>b. /\ "member" \in Role /\ Elevated \subseteq Role
      /\ Outside \in RosterType
      /\ day \in Day /\ 0 \in Day
  BY DaysAssumption DEF Role, Elevated, Outside, RosterType, NoRow, Day, TypeOK
<1>c. \A u \in User : roster[u] \in RosterType
  BY DEF TypeOK
<1>1. CASE UNCHANGED vars
  BY <1>1 DEF vars, TypeOK
<1>2. ASSUME NEW a \in User, NEW s \in User, NEW e \in Dates(a),
             NEW role \in Elevated \cup {"member"}, ChangeMemberRole(a, s, role, e)
      PROVE  TypeOK'
  <2>1. NewRow(s, role, e, a) \in RowType
    BY <1>a, NewRowTyped DEF Role
  <2>2. rows' \in SUBSET RowType /\ IsFiniteSet(rows') /\ exact' \in BOOLEAN
    BY <1>2, <2>1, AppendTyped DEF ChangeMemberRole
  <2>3. roster' \in [User -> RosterType]
    <3>1. [roster[s] EXCEPT !.role = role, !.ref = Cardinality(rows) + 1] \in RosterType
      <4>1. roster[s] \in RosterType /\ role \in Role /\ Cardinality(rows) + 1 \in Nat
        BY <1>c, RowsCounted DEF Role
      <4> QED BY ONLY <4>1, WithRole
    <3>2. roster' = [roster EXCEPT ![s] = [roster[s] EXCEPT !.role = role, !.ref = Cardinality(rows) + 1]]
      BY <1>2 DEF ChangeMemberRole, TypeOK
    <3> QED BY <3>1, <3>2 DEF TypeOK
  <2>4. held' \in [User -> SUBSET Day]
    BY <1>2 DEF ChangeMemberRole, Holds, TypeOK
  <2> QED BY <1>2, <2>2, <2>3, <2>4 DEF ChangeMemberRole, TypeOK
<1>3. ASSUME NEW a \in User, NEW s \in User, NEW e \in Dates(a), RemoveMember(a, s, e)
      PROVE  TypeOK'
  <2>1. NewRow(s, "member", e, a) \in RowType
    BY <1>a, <1>b, NewRowTyped
  <2>2. rows' \in SUBSET RowType /\ IsFiniteSet(rows') /\ exact' \in BOOLEAN
    <3>1. CASE roster[s].role \in Elevated
      BY <1>3, <2>1, <3>1, AppendTyped DEF RemoveMember
    <3>2. CASE roster[s].role \notin Elevated
      BY <1>3, <3>2 DEF RemoveMember, TypeOK
    <3> QED BY <3>1, <3>2
  <2>3. roster' \in [User -> RosterType]
    BY <1>3, <1>b DEF RemoveMember, TypeOK
  <2> QED BY <1>3, <2>2, <2>3 DEF RemoveMember, TypeOK
<1>4. ASSUME NEW u \in User, NEW e \in Dates(u), LeaveGroup(u, e)
      PROVE  TypeOK'
  <2>1. NewRow(u, "member", e, u) \in RowType
    BY <1>a, <1>b, NewRowTyped
  <2>2. rows' \in SUBSET RowType /\ IsFiniteSet(rows') /\ exact' \in BOOLEAN
    <3>1. CASE roster[u].role \in Elevated
      BY <1>4, <2>1, <3>1, AppendTyped DEF LeaveGroup
    <3>2. CASE roster[u].role \notin Elevated
      BY <1>4, <3>2 DEF LeaveGroup, TypeOK
    <3> QED BY <3>1, <3>2
  <2>3. roster' \in [User -> RosterType]
    BY <1>4, <1>b DEF LeaveGroup, TypeOK
  <2> QED BY <1>4, <2>2, <2>3 DEF LeaveGroup, TypeOK
<1>5. ASSUME NEW u \in User, NEW e \in Dates(u), NEW s \in User \cup {None}, PutDesignation(u, s, e)
      PROVE  TypeOK'
  <2>1. Named(u, s, e) \in DesigType
    BY <1>a, <1>c, RowsCounted DEF Named, DesigType, RosterType
  <2>2. desigs' \in SUBSET DesigType /\ IsFiniteSet(desigs')
    BY <1>5, <2>1, FS_AddElement DEF PutDesignation, TypeOK
  <2>3. exact' \in BOOLEAN
    BY <1>5 DEF PutDesignation
  <2> QED BY <1>5, <2>2, <2>3 DEF PutDesignation, TypeOK
<1>6. ASSUME NEW u \in User, NEW e \in Dates(u), NEW d \in desigs, BeginClaim(u, d, e)
      PROVE  TypeOK'
  <2>1. d \in DesigType
    BY DEF TypeOK
  <2>2. ClaimRow(u, d, e, KeyOf(u)) \in RowType
    BY <1>a, <1>b, <2>1, RowsCounted DEF ClaimRow, RowType, DesigType, Elevated
  <2>3. roster[u].role \in Role \cup {"none"}
    BY <1>c DEF RosterType
  <2>4. claims' \subseteq [row : RowType, old : Role \cup {"none"}]
    BY <1>6, <2>2, <2>3 DEF BeginClaim, TypeOK
  <2> QED BY <1>6, <2>4 DEF BeginClaim, TypeOK
<1>7. ASSUME NEW u \in User, CompleteInvite(u) PROVE TypeOK'
  <2>1. [role |-> "member", ref |-> NoRow, joined |-> day] \in RosterType
    BY <1>b DEF RosterType, NoRow
  <2> QED BY <1>7, <2>1 DEF CompleteInvite, TypeOK
<1>8. ASSUME NEW u \in User, RecordLogin(u) PROVE TypeOK'
  BY <1>8 DEF RecordLogin, TypeOK
<1>9. ASSUME NEW u \in User, RotateKeys(u) PROVE TypeOK'
  BY <1>9 DEF RotateKeys, TypeOK
<1>10. ASSUME NEW c \in claims, ClaimDesignation(c) PROVE TypeOK'
  <2> DEFINE g == [c.row EXCEPT !.id = Cardinality(rows) + 1]
  <2>0. c.row \in RowType
    BY DEF TypeOK
  <2>1. g \in RowType /\ g.subject \in User /\ g.id \in Nat
    BY <2>0, RowsCounted DEF RowType
  <2>2. /\ AppendRow(g) /\ Holds(g.subject, "admin") /\ claims' = claims \ {c}
        /\ roster' = [roster EXCEPT ![g.subject].role = "admin", ![g.subject].ref = g.id]
        /\ UNCHANGED <<day, desigs, rot, seen>>
    BY <1>10 DEF ClaimDesignation
  <2> HIDE DEF g
  <2>3. rows' \in SUBSET RowType /\ IsFiniteSet(rows') /\ exact' \in BOOLEAN
    BY <2>1, <2>2, AppendTyped
  <2>4. roster' \in [User -> RosterType]
    <3>1. [roster[g.subject] EXCEPT !.role = "admin", !.ref = g.id] \in RosterType
      BY <1>b, <1>c, <2>1, WithRole DEF Elevated
    <3>2. roster' = [roster EXCEPT ![g.subject] = [roster[g.subject] EXCEPT !.role = "admin", !.ref = g.id]]
      BY <2>1, <2>2 DEF TypeOK
    <3> QED BY <3>1, <3>2 DEF TypeOK
  <2>5. held' \in [User -> SUBSET Day]
    BY <2>2 DEF Holds, TypeOK
  <2> QED BY <2>2, <2>3, <2>4, <2>5 DEF TypeOK
<1>11. ASSUME NEW c \in claims, DropClaim(c) PROVE TypeOK'
  BY <1>11 DEF DropClaim, TypeOK
<1>12. CASE NextDay
  <2>1. day' \in Day /\ day + 1 \in Day
    BY <1>12, DaysAssumption DEF NextDay, Day, TypeOK
  <2> QED BY <1>12, <2>1 DEF NextDay, TypeOK
<1> QED BY <1>1, <1>2, <1>3, <1>4, <1>5, <1>6, <1>7, <1>8, <1>9, <1>10, <1>11, <1>12 DEF Next

-----------------------------------------------------------------------------
(* What a step does to the history.                                        *)

\* The days a request may carry, whoever's clock dates it.
Datable(e) == \E s \in Skew : e = day + s

\* A claim in flight is of today, and nobody else's row relies on its
\* designation unless it is of today, too.
ClaimsInv ==
  \A c \in claims : /\ Datable(c.row.day)
                    /\ c.row.role = "admin" /\ c.row.via # NoRow
                    /\ \A h \in rows : h.via = c.row.via => Datable(h.day)

\* What the server checked of a row that is no claim.
Checked(g) ==
  /\ g.ref = roster[g.grantor].ref /\ g.key = KeyOf(g.grantor)
  /\ g.grantor # g.subject => g.grantor \in Admins /\ DatedAfterOwn(g.grantor, g.day)
  /\ g.grantor = g.subject => g.role = "member" /\ roster[g.grantor].role \in Elevated

Appends(g) ==
  /\ g \in RowType /\ g.id = Cardinality(rows) + 1 /\ Datable(g.day)
  /\ g.via = NoRow => Checked(g)
  /\ g.via # NoRow => \A h \in rows : h.via = g.via => Datable(h.day)
  /\ rows' = rows \cup {g} /\ exact' = (exact /\ g.day = day)
  /\ UNCHANGED <<day, desigs, rot>>

\* A row that gives a role, and one that goes with its subject's end.
Grants(g) ==
  /\ Appends(g) /\ Holds(g.subject, g.role)
  /\ roster' = [roster EXCEPT ![g.subject] = [@ EXCEPT !.role = g.role, !.ref = g.id]]

Demotes(g) ==
  /\ Appends(g) /\ held' = held /\ g.role = "member"
  /\ roster' = [roster EXCEPT ![g.subject] = Outside]

\* Somebody without a role comes or goes.
Unsigned(u) ==
  /\ roster[u].role \notin Elevated
  /\ roster'[u].role \notin Elevated /\ roster'[u].ref = NoRow
  /\ \A v \in User \ {u} : roster'[v] = roster[v]
  /\ UNCHANGED <<day, rows, desigs, rot, held, exact>>

HistoryStays == UNCHANGED <<day, roster, rows, desigs, rot, held, exact>>

\* What Next says, step by step.
LEMMA NextCases ==
  ASSUME TypeOK, ClaimsInv, [Next]_vars
  PROVE  \/ HistoryStays
         \/ \E g : Grants(g) \/ Demotes(g)
         \/ \E u \in User : Unsigned(u)
         \/ \E a \in User, s \in User \cup {None} : \E e \in Dates(a) : PutDesignation(a, s, e)
         \/ \E u \in User : RotateKeys(u)
         \/ NextDay
<1> USE UserAssumption
<1>a. \A u : \A e \in Dates(u) : e \in Day /\ Datable(e)
  BY SkewAssumption DEF Dates, Datable, Day, TypeOK
<1>b. "member" \in Role /\ Elevated \subseteq Role /\ "member" \notin Elevated
  BY DEF Role, Elevated
<1>1. CASE UNCHANGED vars
  BY <1>1 DEF vars, HistoryStays
<1>2. ASSUME NEW a \in User, NEW s \in User, NEW e \in Dates(a),
             NEW role \in Elevated \cup {"member"}, ChangeMemberRole(a, s, role, e)
      PROVE  \E g : Grants(g)
  <2> DEFINE g == NewRow(s, role, e, a)
  <2>1. g \in RowType
    BY <1>a, NewRowTyped DEF Role
  <2>2. /\ g.id = Cardinality(rows) + 1 /\ g.day = e /\ g.subject = s /\ g.grantor = a /\ g.role = role
        /\ g.via = NoRow /\ g.ref = roster[a].ref /\ g.key = KeyOf(a)
    BY DEF NewRow
  <2> HIDE DEF g
  <2>3. Checked(g)
    BY <1>2, <2>2 DEF ChangeMemberRole, Checked
  <2>4. AppendRow(g)
    BY <1>2 DEF ChangeMemberRole, g
  <2>5. Appends(g)
    BY <1>2, <1>a, <2>1, <2>2, <2>3, <2>4 DEF Appends, AppendRow, ChangeMemberRole
  <2>6. roster' = [roster EXCEPT ![g.subject] = [@ EXCEPT !.role = g.role, !.ref = g.id]]
    BY <1>2, <2>2 DEF ChangeMemberRole, TypeOK
  <2>7. Holds(g.subject, g.role)
    BY <1>2, <2>2 DEF ChangeMemberRole
  <2> QED BY <2>5, <2>6, <2>7 DEF Grants
<1>3. ASSUME NEW a \in User, NEW s \in User, NEW e \in Dates(a), RemoveMember(a, s, e)
      PROVE  (\E g : Demotes(g)) \/ Unsigned(s)
  <2>1. CASE roster[s].role \in Elevated
    <3> DEFINE g == NewRow(s, "member", e, a)
    <3>1. g \in RowType
      BY <1>a, <1>b, NewRowTyped
    <3>2. /\ g.id = Cardinality(rows) + 1 /\ g.day = e /\ g.subject = s /\ g.grantor = a
          /\ g.role = "member" /\ g.via = NoRow /\ g.ref = roster[a].ref /\ g.key = KeyOf(a)
      BY DEF NewRow
    <3> HIDE DEF g
    <3>3. Checked(g)
      BY <1>3, <2>1, <3>2 DEF RemoveMember, Checked
    <3>4. AppendRow(g)
      BY <1>3, <2>1 DEF RemoveMember, g
    <3>5. Appends(g)
      BY <1>3, <1>a, <3>1, <3>2, <3>3, <3>4 DEF Appends, AppendRow, RemoveMember
    <3> QED BY <1>3, <3>2, <3>5 DEF Demotes, RemoveMember
  <2>2. CASE roster[s].role \notin Elevated
    BY <1>3, <2>2 DEF RemoveMember, Unsigned, Outside, Elevated, TypeOK
  <2> QED BY <2>1, <2>2
<1>4. ASSUME NEW u \in User, NEW e \in Dates(u), LeaveGroup(u, e)
      PROVE  (\E g : Demotes(g)) \/ Unsigned(u)
  <2>1. CASE roster[u].role \in Elevated
    <3> DEFINE g == NewRow(u, "member", e, u)
    <3>1. g \in RowType
      BY <1>a, <1>b, NewRowTyped
    <3>2. /\ g.id = Cardinality(rows) + 1 /\ g.day = e /\ g.subject = u /\ g.grantor = u
          /\ g.role = "member" /\ g.via = NoRow /\ g.ref = roster[u].ref /\ g.key = KeyOf(u)
      BY DEF NewRow
    <3> HIDE DEF g
    <3>3. Checked(g)
      BY <2>1, <3>2 DEF Checked
    <3>4. AppendRow(g)
      BY <1>4, <2>1 DEF LeaveGroup, g
    <3>5. Appends(g)
      BY <1>4, <1>a, <3>1, <3>2, <3>3, <3>4 DEF Appends, AppendRow, LeaveGroup
    <3> QED BY <1>4, <3>2, <3>5 DEF Demotes, LeaveGroup
  <2>2. CASE roster[u].role \notin Elevated
    BY <1>4, <2>2 DEF LeaveGroup, Unsigned, Outside, Elevated, TypeOK
  <2> QED BY <2>1, <2>2
<1>5. ASSUME NEW u \in User, NEW e \in Dates(u), NEW d \in desigs, BeginClaim(u, d, e)
      PROVE  HistoryStays
  BY <1>5 DEF BeginClaim, HistoryStays
<1>6. ASSUME NEW u \in User, CompleteInvite(u) PROVE Unsigned(u)
  BY <1>6 DEF CompleteInvite, Unsigned, Members, Elevated, TypeOK
<1>7. ASSUME NEW u \in User, RecordLogin(u) PROVE HistoryStays
  BY <1>7 DEF RecordLogin, HistoryStays
<1>8. ASSUME NEW c \in claims, ClaimDesignation(c) PROVE \E g : Grants(g)
  <2> DEFINE g == [c.row EXCEPT !.id = Cardinality(rows) + 1]
  <2>0. c.row \in RowType
    BY DEF TypeOK
  <2>1. /\ g \in RowType /\ g.subject \in User /\ g.id = Cardinality(rows) + 1
        /\ g.day = c.row.day /\ g.role = c.row.role /\ g.via = c.row.via
    BY <2>0, RowsCounted DEF RowType
  <2>2. /\ AppendRow(g) /\ Holds(g.subject, "admin")
        /\ roster' = [roster EXCEPT ![g.subject].role = "admin", ![g.subject].ref = g.id]
        /\ UNCHANGED <<day, desigs, rot>>
    BY <1>8 DEF ClaimDesignation
  <2> HIDE DEF g
  <2>3. /\ g.role = "admin" /\ Datable(g.day) /\ g.via # NoRow
        /\ \A h \in rows : h.via = g.via => Datable(h.day)
    BY <2>1 DEF ClaimsInv
  <2>4. Appends(g)
    BY <2>1, <2>2, <2>3 DEF Appends, AppendRow
  <2> QED BY <2>1, <2>2, <2>3, <2>4 DEF Grants, TypeOK
<1>9. ASSUME NEW c \in claims, DropClaim(c) PROVE HistoryStays
  BY <1>9 DEF DropClaim, HistoryStays
<1> QED BY <1>1, <1>2, <1>3, <1>4, <1>5, <1>6, <1>7, <1>8, <1>9 DEF Next

LEMMA InitClaims == Init => ClaimsInv
BY DEF Init, ClaimsInv

\* What a row relies on, it relies on within the day.
LEMMA NextClaims == TypeOK /\ ClaimsInv /\ [Next]_vars => ClaimsInv'
<1> SUFFICES ASSUME TypeOK, ClaimsInv, [Next]_vars PROVE ClaimsInv'
  OBVIOUS
<1>1. CASE NextDay
  BY <1>1 DEF NextDay, ClaimsInv
<1>2. CASE ~NextDay
  <2>1. day' = day /\ \A h \in rows' : h \in rows \/ Datable(h.day)
    BY <1>2, NextCases DEF HistoryStays, Grants, Demotes, Appends, Unsigned, PutDesignation, RotateKeys
  <2>2. \A e : Datable(e) => Datable(e)'
    BY <2>1 DEF Datable
  <2>3. ASSUME NEW c \in claims'
        PROVE  /\ Datable(c.row.day) /\ c.row.role = "admin" /\ c.row.via # NoRow
               /\ \A h \in rows : h.via = c.row.via => Datable(h.day)
    <3>1. CASE c \in claims
      BY <3>1 DEF ClaimsInv
    <3>2. CASE c \notin claims
      <4>0. PICK u \in User : \E e \in Dates(u), d \in desigs : BeginClaim(u, d, e)
        BY <1>2, <3>2 DEF Next, vars, ChangeMemberRole, RemoveMember, LeaveGroup, CompleteInvite,
           PutDesignation, ClaimDesignation, DropClaim, RecordLogin, RotateKeys
      <4>1. PICK e \in Dates(u), d \in desigs : BeginClaim(u, d, e)
        BY <4>0
      <4>2. c.row = ClaimRow(u, d, e, KeyOf(u)) /\ ClaimAllowed(u, d, e)
        BY <3>2, <4>1 DEF BeginClaim
      <4>3. /\ c.row.day = e /\ c.row.role = "admin" /\ c.row.via = d.id
            /\ d.id \in Nat \ {0} /\ Datable(e)
        BY <4>2, SkewAssumption DEF ClaimRow, TypeOK, DesigType, Dates, Datable, Day
      <4> QED BY <4>2, <4>3 DEF ClaimAllowed, Claimed, NoRow
    <3> QED BY <3>1, <3>2
  <2> QED BY <2>1, <2>2, <2>3 DEF ClaimsInv
<1> QED BY <1>1, <1>2

-----------------------------------------------------------------------------
(* Verdicts settle.                                                        *)

\* A row whose day nobody can date any more.
Settled(g) == \A s \in Skew : g.day < day + s

\* A step writes nothing that bears on a day nobody can date any more.
LEMMA PastStays ==
  ASSUME TypeOK, ClaimsInv, [Next]_vars, NEW n \in Day, \A s \in Skew : n < day + s
  PROVE  AgreeUpTo(rows, desigs, rot, rows', desigs', rot', n)
<1>0. n \in Nat /\ n < day /\ day \in Nat
  BY SkewAssumption, DaysAssumption DEF Day, TypeOK
<1>1. \A e : Datable(e) => ~(e <= n)
  BY <1>0, SkewAssumption DEF Datable
<1>2. UpToDay(rows, n) = UpToDay(rows', n)
  BY <1>1, NextCases DEF UpToDay, HistoryStays, Grants, Demotes, Appends, Unsigned, PutDesignation,
     RotateKeys, NextDay
<1>3. UpToDay(desigs, n) = UpToDay(desigs', n)
  <2>1. ASSUME NEW a \in User, NEW s \in User \cup {None}, NEW e \in Dates(a), PutDesignation(a, s, e)
        PROVE  UpToDay(desigs, n) = UpToDay(desigs', n)
    <3>1. desigs' = desigs \cup {Named(a, s, e)} /\ Named(a, s, e).day = e
      BY <2>1 DEF PutDesignation, Named
    <3>2. Datable(e)
      BY SkewAssumption, <1>0 DEF Dates, Datable, Day, TypeOK
    <3> QED BY <1>1, <3>1, <3>2 DEF UpToDay
  <2> QED BY <2>1, NextCases DEF HistoryStays, Grants, Demotes, Appends, Unsigned, RotateKeys, NextDay
<1>4. ASSUME NEW u \in User, NEW e \in 0..n PROVE KeysOn(rot, u, e) = KeysOn(rot', u, e)
  <2>1. CASE rot' = rot
    BY <2>1
  <2>2. ASSUME NEW v \in User, RotateKeys(v) PROVE KeysOn(rot, u, e) = KeysOn(rot', u, e)
    <3>1. CASE u # v
      <4>1. rot'[u] = rot[u]
        BY <2>2, <3>1 DEF RotateKeys, TypeOK
      <4> QED BY <4>1 DEF KeysOn
    <3>2. CASE u = v
      <4>1. rot[u] = <<>> /\ rot'[u] = <<day>>
        BY <2>2, <3>2 DEF RotateKeys, TypeOK
      <4>2. KeysOn(rot, u, e) = {1}
        BY <4>1 DEF KeysOn
      <4>3. KeysOn(rot', u, e) = {1}
        BY <1>0, <4>1 DEF KeysOn
      <4> QED BY <4>2, <4>3
    <3> QED BY <3>1, <3>2
  <2> QED BY <2>1, <2>2, NextCases DEF HistoryStays, Grants, Demotes, Appends, Unsigned,
             PutDesignation, NextDay
<1>5. ASSUME NEW g \in UpToDay(rows, n), g.via # NoRow
      PROVE  CitedOnce(rows, g) <=> CitedOnce(rows', g)
  <2>1. CASE rows' = rows
    BY <2>1
  <2>2. ASSUME NEW h, Grants(h) \/ Demotes(h) PROVE CitedOnce(rows, g) <=> CitedOnce(rows', g)
    <3>1. rows' = rows \cup {h}
      BY <2>2 DEF Grants, Demotes, Appends
    <3>2. h.via # g.via
      BY <1>1, <1>5, <2>2 DEF Grants, Demotes, Appends, UpToDay
    <3> QED BY <3>1, <3>2 DEF CitedOnce
  <2> QED BY <2>1, <2>2, NextCases DEF HistoryStays, Unsigned, PutDesignation, RotateKeys, NextDay
<1> QED BY <1>2, <1>3, <1>4, <1>5 DEF AgreeUpTo

\* Once nobody can date a row on its day any more, no later change of role,
\* key or designation turns its verdict around, whatever clocks and bounds.
THEOREM VerdictsFinal == Spec => VerdictsSettle
<1>1. Init => TypeOK /\ ClaimsInv
  BY InitTyped, InitClaims
<1>2. TypeOK /\ ClaimsInv /\ [Next]_vars => (TypeOK /\ ClaimsInv)'
  BY NextTyped, NextClaims
<1>3. TypeOK /\ ClaimsInv /\ [Next]_vars =>
        LET settled == {g \in rows : \A s \in Skew : g.day < day + s}
        IN  Good \cap settled = Good' \cap settled
  <2> SUFFICES ASSUME TypeOK, ClaimsInv, [Next]_vars,
                      NEW g \in rows, \A s \in Skew : g.day < day + s
               PROVE  g \in Good <=> g \in Good'
    OBVIOUS
  <2>1. /\ rows \in SUBSET RowType /\ rows' \in SUBSET RowType
        /\ desigs \in SUBSET DesigType /\ desigs' \in SUBSET DesigType
    BY NextTyped DEF TypeOK
  <2>2. g.day \in Day /\ g.day <= g.day
    BY <2>1, DaysAssumption DEF RowType, Day
  <2>3. AgreeUpTo(rows, desigs, rot, rows', desigs', rot', g.day)
    BY <2>2, PastStays
  <2>4. UpToDay(Good, g.day) = UpToDay(Good', g.day)
    BY <2>1, <2>2, <2>3, DaysDecide DEF Good
  <2> QED BY <2>2, <2>4 DEF UpToDay
<1> QED BY <1>1, <1>2, <1>3, PTL DEF Spec, VerdictsSettle

-----------------------------------------------------------------------------
(* The roster and the rows.                                                *)

\* Nobody wrote a later row about the subject.
NewestRow(g) == \A h \in rows : h.subject = g.subject => h.id <= g.id

\* Rows are numbered as they come; whoever has a role cites the newest row
\* about it, which gives that role; and whose newest row says admin is one.
RosterInv ==
  /\ \A g \in rows : g.id \in 1..Cardinality(rows)
  /\ \A g, h \in rows : g.id = h.id => g = h
  /\ \A u \in User : roster[u].role \in Elevated => roster[u].ref # NoRow
  /\ \A u \in User : roster[u].ref # NoRow =>
       \E g \in rows : /\ g.id = roster[u].ref /\ g.subject = u /\ g.role = roster[u].role
                       /\ NewestRow(g)
  /\ \A g \in rows : g.role = "admin" /\ NewestRow(g) => roster[g.subject].role = "admin"

LEMMA InitRoster == Init => RosterInv
<1> SUFFICES ASSUME Init PROVE RosterInv
  OBVIOUS
<1>1. rows = {RootRow} /\ Cardinality(rows) = 1
  BY FS_Singleton DEF Init
<1>2. RootRow.id = 1 /\ RootRow.subject = Creator /\ RootRow.role = "admin"
  BY DEF RootRow, Root
<1>3. \A u \in User : roster[u].role \in Elevated \/ roster[u].ref # NoRow
        => u = Creator /\ roster[u].role = "admin" /\ roster[u].ref = 1
  BY DEF Init, Elevated, NoRow, Root
<1>4. roster[Creator].role = "admin" /\ roster[Creator].ref = 1 /\ Creator \in User
  BY UserAssumption DEF Init, Root
<1> QED BY <1>1, <1>2, <1>3, <1>4 DEF RosterInv, NewestRow, NoRow

\* A row with a number of its own joins the others.
LEMMA NumbersKept ==
  ASSUME TypeOK, RosterInv, NEW g, Appends(g)
  PROVE  /\ Cardinality(rows) \in Nat /\ Cardinality(rows') = Cardinality(rows) + 1
         /\ rows' = rows \cup {g} /\ g.id = Cardinality(rows) + 1 /\ g.subject \in User
         /\ \A h \in rows : h.id \in Nat /\ h.id < g.id
         /\ \A h \in rows' : h.id \in 1..Cardinality(rows')
         /\ \A h, k \in rows' : h.id = k.id => h = k
         /\ \A h : h.id = g.id /\ h \in rows' => h = g
         /\ NewestRow(g)'
         /\ \A h \in rows : h.subject = g.subject => ~NewestRow(h)'
         /\ \A h \in rows : h.subject # g.subject => (NewestRow(h)' <=> NewestRow(h))
<1>1. Cardinality(rows) \in Nat /\ rows' = rows \cup {g} /\ g.id = Cardinality(rows) + 1
      /\ g.subject \in User
  BY RowsCounted DEF Appends, RowType
<1>2. \A h \in rows : h.id \in 1..Cardinality(rows)
  BY DEF RosterInv
<1>3. g \notin rows
  BY <1>1, <1>2
<1>4. Cardinality(rows') = Cardinality(rows) + 1
  BY <1>1, <1>3, FS_AddElement DEF TypeOK
<1>5. \A h \in rows : h.id \in Nat /\ h.id < g.id
  BY <1>1, <1>2
<1>6. \A h, k \in rows' : h.id = k.id => h = k
  BY <1>1, <1>5 DEF RosterInv
<1>7. /\ NewestRow(g)'
      /\ \A h \in rows : h.subject = g.subject => ~NewestRow(h)'
      /\ \A h \in rows : h.subject # g.subject => (NewestRow(h)' <=> NewestRow(h))
  BY <1>1, <1>5 DEF NewestRow
<1>8. \A h \in rows' : h.id \in 1..Cardinality(rows')
  BY <1>1, <1>2, <1>4
<1>9. \A h : h.id = g.id /\ h \in rows' => h = g
  BY <1>1, <1>6
<1> QED BY <1>1, <1>4, <1>5, <1>6, <1>7, <1>8, <1>9

LEMMA NextRoster == TypeOK /\ ClaimsInv /\ RosterInv /\ [Next]_vars => RosterInv'
<1> SUFFICES ASSUME TypeOK, ClaimsInv, RosterInv, [Next]_vars PROVE RosterInv'
  OBVIOUS
<1>1. ASSUME rows' = rows, roster' = roster PROVE RosterInv'
  BY <1>1 DEF RosterInv, NewestRow
<1>2. ASSUME NEW g, Grants(g) PROVE RosterInv'
  <2>1. Appends(g) /\ g.subject \in User
    BY <1>2, NumbersKept DEF Grants
  <2>2. roster'[g.subject].role = g.role /\ roster'[g.subject].ref = g.id
    BY <1>2, <2>1 DEF Grants, TypeOK, RosterType
  <2>3. \A v \in User : v # g.subject => roster'[v] = roster[v]
    BY <1>2, <2>1 DEF Grants, TypeOK
  <2>4. g.id # NoRow /\ g \in rows'
    BY <2>1, NumbersKept DEF NoRow
  <2>5. ASSUME NEW u \in User, roster'[u].ref # NoRow
        PROVE  \E h \in rows' : /\ h.id = roster'[u].ref /\ h.subject = u /\ h.role = roster'[u].role
                                /\ NewestRow(h)'
    BY <2>1, <2>2, <2>3, <2>4, <2>5, NumbersKept DEF RosterInv
  <2>6. ASSUME NEW h \in rows', h.role = "admin", NewestRow(h)'
        PROVE  roster'[h.subject].role = "admin"
    <3>1. h \in rows => h.subject \in User
      BY DEF TypeOK, RowType
    <3>2. CASE h = g
      BY <2>2, <2>6, <3>2
    <3>3. CASE h # g
      <4>1. h \in rows /\ h.subject # g.subject /\ NewestRow(h)
        BY <2>1, <2>6, <3>3, NumbersKept
      <4> QED BY <2>3, <2>6, <3>1, <4>1 DEF RosterInv
    <3> QED BY <3>2, <3>3
  <2>7. \A u \in User : roster'[u].role \in Elevated => roster'[u].ref # NoRow
    BY <2>2, <2>3, <2>4 DEF RosterInv
  <2>8. /\ \A h \in rows' : h.id \in 1..Cardinality(rows')
        /\ \A h, k \in rows' : h.id = k.id => h = k
    BY <2>1, NumbersKept
  <2> QED BY <2>5, <2>6, <2>7, <2>8 DEF RosterInv
<1>3. ASSUME NEW g, Demotes(g) PROVE RosterInv'
  <2>1. Appends(g) /\ g.subject \in User
    BY <1>3, NumbersKept DEF Demotes
  <2>2. roster'[g.subject] = Outside /\ g.role = "member"
    BY <1>3, <2>1 DEF Demotes, TypeOK
  <2>3. \A v \in User : v # g.subject => roster'[v] = roster[v]
    BY <1>3, <2>1 DEF Demotes, TypeOK
  <2>4. ASSUME NEW u \in User, roster'[u].ref # NoRow
        PROVE  \E h \in rows' : /\ h.id = roster'[u].ref /\ h.subject = u /\ h.role = roster'[u].role
                                /\ NewestRow(h)'
    BY <2>1, <2>2, <2>3, <2>4, NumbersKept DEF RosterInv, Outside
  <2>5. ASSUME NEW h \in rows', h.role = "admin", NewestRow(h)'
        PROVE  roster'[h.subject].role = "admin"
    <3>1. h \in rows => h.subject \in User
      BY DEF TypeOK, RowType
    <3> QED BY <2>1, <2>2, <2>3, <2>5, <3>1, NumbersKept DEF RosterInv
  <2>6. \A u \in User : roster'[u].role \in Elevated => roster'[u].ref # NoRow
    BY <2>2, <2>3 DEF RosterInv, Outside, Elevated
  <2>7. /\ \A h \in rows' : h.id \in 1..Cardinality(rows')
        /\ \A h, k \in rows' : h.id = k.id => h = k
    BY <2>1, NumbersKept
  <2> QED BY <2>4, <2>5, <2>6, <2>7 DEF RosterInv
<1>4. ASSUME NEW u \in User, Unsigned(u) PROVE RosterInv'
  <2>1. /\ rows' = rows /\ roster[u].role # "admin" /\ roster'[u].role \notin Elevated
        /\ roster'[u].ref = NoRow /\ \A v \in User \ {u} : roster'[v] = roster[v]
    BY <1>4 DEF Unsigned, Elevated
  <2>2. \A h : NewestRow(h)' <=> NewestRow(h)
    BY <2>1 DEF NewestRow
  <2>3. \A h \in rows : h.subject \in User
    BY DEF TypeOK, RowType
  <2>4. \A h \in rows : h.role = "admin" /\ NewestRow(h) => roster'[h.subject].role = "admin"
    BY <2>1, <2>3 DEF RosterInv
  <2> QED BY <2>1, <2>2, <2>4 DEF RosterInv
<1> QED BY <1>1, <1>2, <1>3, <1>4, NextCases DEF HistoryStays, PutDesignation, RotateKeys, NextDay

-----------------------------------------------------------------------------
(* Who could sign as an admin.                                             *)

\* Clocks are right, or a day behind.  A leave dated ahead takes effect on
\* its own day, when the leaver is gone already.
NoClockAhead == Skew \subseteq {-1, 0}

\* A day after a grant of the admin role is one on which its subject was an
\* admin, unless a later row about it is dated before that day.
HeldInv ==
  /\ \A g \in rows : g.day <= day
  /\ \A u \in User : roster[u].role = "admin" => day \in held[u]
  /\ \A g \in rows : g.role = "admin" =>
       \A e \in 0..day : g.day < e /\ e \notin held[g.subject] =>
         \E h \in rows : h.subject = g.subject /\ g.id < h.id /\ h.day < e

LEMMA InitHeld == Init => HeldInv
<1> SUFFICES ASSUME Init PROVE HeldInv
  OBVIOUS
<1>1. day = 0 /\ rows = {RootRow} /\ RootRow.day = 0
  BY DEF Init, RootRow
<1>2. \A u \in User : roster[u].role = "admin" => 0 \in held[u]
  BY DEF Init
<1> QED BY <1>1, <1>2 DEF HeldInv

\* The third part of HeldInv is kept while the day and the rows stay and the
\* days held only grow, but for the rows that come.
LEMMA HeldGrows ==
  ASSUME TypeOK, HeldInv, NEW g \in rows, g.role = "admin", rows \subseteq rows',
         \A u \in User : held[u] \subseteq held'[u],
         NEW e \in 0..day, g.day < e, e \notin held'[g.subject]
  PROVE  \E h \in rows' : h.subject = g.subject /\ g.id < h.id /\ h.day < e
<1>1. g.subject \in User
  BY DEF TypeOK, RowType
<1> QED BY <1>1 DEF HeldInv

LEMMA NextHeld ==
  ASSUME NoClockAhead
  PROVE  TypeOK /\ ClaimsInv /\ RosterInv /\ HeldInv /\ [Next]_vars => HeldInv'
<1> SUFFICES ASSUME TypeOK, ClaimsInv, RosterInv, HeldInv, [Next]_vars PROVE HeldInv'
  OBVIOUS
<1>0. day \in Nat
  BY DaysAssumption DEF TypeOK, Day
<1>a. \A e : Datable(e) => e \in {day - 1, day}
  BY <1>0 DEF Datable, NoClockAhead
<1>b. \A g \in rows : g.subject \in User /\ g.day \in Nat
  BY DaysAssumption DEF TypeOK, RowType, Day
<1>1. ASSUME UNCHANGED <<day, rows, held>>,
             \A u \in User : roster'[u].role = "admin" => roster[u].role = "admin"
      PROVE  HeldInv'
  BY <1>1 DEF HeldInv
<1>2. ASSUME NEW g, Grants(g) PROVE HeldInv'
  <2>1. /\ day' = day /\ rows' = rows \cup {g} /\ Datable(g.day) /\ g.subject \in User /\ g.day \in Int
    BY <1>2 DEF Grants, Appends, RowType, Day
  <2>2. /\ \A u \in User : held[u] \subseteq held'[u]
        /\ g.role = "admin" => day \in held'[g.subject]
    BY <1>2, <2>1 DEF Grants, Holds, TypeOK
  <2>3. \A u \in User : roster'[u].role = "admin" =>
           roster[u].role = "admin" \/ (u = g.subject /\ g.role = "admin")
    BY <1>2, <2>1 DEF Grants, TypeOK, RosterType
  <2>4. \A u \in User : roster'[u].role = "admin" => day \in held'[u]
    BY <2>2, <2>3 DEF HeldInv
  <2>5. \A h \in rows' : h.day <= day
    BY <1>0, <1>a, <2>1 DEF HeldInv
  <2>6. ASSUME NEW k \in rows', k.role = "admin", NEW e \in 0..day, k.day < e, e \notin held'[k.subject]
        PROVE  \E h \in rows' : h.subject = k.subject /\ k.id < h.id /\ h.day < e
    <3>1. CASE k \in rows
      BY <2>1, <2>2, <2>6, <3>1, HeldGrows
    <3>2. CASE k = g
      BY <1>0, <1>a, <2>1, <2>2, <2>6, <3>2
    <3> QED BY <2>1, <3>1, <3>2
  <2> QED BY <2>1, <2>4, <2>5, <2>6 DEF HeldInv
<1>3. ASSUME NEW g, Demotes(g) PROVE HeldInv'
  <2>1. /\ day' = day /\ rows' = rows \cup {g} /\ Datable(g.day) /\ g.subject \in User
        /\ held' = held /\ g.role # "admin"
    BY <1>3 DEF Demotes, Appends, RowType
  <2>2. \A u \in User : roster'[u].role = "admin" => roster[u].role = "admin"
    BY <1>3, <2>1 DEF Demotes, TypeOK, Outside
  <2>3. \A h \in rows' : h.day <= day
    BY <1>0, <1>a, <2>1 DEF HeldInv
  <2>4. ASSUME NEW k \in rows', k.role = "admin", NEW e \in 0..day, k.day < e, e \notin held'[k.subject]
        PROVE  \E h \in rows' : h.subject = k.subject /\ k.id < h.id /\ h.day < e
    BY <2>1, <2>4, HeldGrows
  <2> QED BY <2>1, <2>2, <2>3, <2>4 DEF HeldInv
<1>4. CASE NextDay
  <2>1. /\ day' = day + 1 /\ rows' = rows /\ roster' = roster
        /\ \A u \in User : /\ held[u] \subseteq held'[u]
                           /\ roster[u].role = "admin" => day + 1 \in held'[u]
    BY <1>4 DEF NextDay, Admins
  <2>2. ASSUME NEW k \in rows, k.role = "admin", NEW e \in 0..day + 1, k.day < e,
               e \notin held'[k.subject]
        PROVE  \E h \in rows : h.subject = k.subject /\ k.id < h.id /\ h.day < e
    <3>1. CASE e \in 0..day
      BY <2>1, <2>2, <3>1, HeldGrows
    <3>2. CASE e = day + 1
      <4>1. ~NewestRow(k)
        BY <1>b, <2>1, <2>2, <3>2 DEF RosterInv
      <4>2. PICK h \in rows : h.subject = k.subject /\ ~(h.id <= k.id)
        BY <4>1 DEF NewestRow
      <4>3. h.day <= day /\ h.day \in Nat /\ h.id \in Nat /\ k.id \in Nat
        BY <1>b DEF HeldInv, TypeOK, RowType
      <4> QED BY <1>0, <3>2, <4>2, <4>3
    <3> QED BY <1>0, <3>1, <3>2
  <2>3. \A g \in rows : g.day <= day + 1
    BY <1>0, <1>b DEF HeldInv
  <2> QED BY <2>1, <2>2, <2>3 DEF HeldInv
<1>5. ASSUME NEW u \in User, Unsigned(u) PROVE HeldInv'
  BY <1>1, <1>5 DEF Unsigned, Elevated
<1> QED BY <1>1, <1>2, <1>3, <1>4, <1>5, NextCases DEF HistoryStays, PutDesignation, RotateKeys

\* Where clocks are right or a day behind, no row dated a day on which its
\* signer was not an admin verifies, nor one dated from the day somebody took
\* the role away, whichever of the signer's keys and grants it uses.
THEOREM OnlyAdminsBacked == NoClockAhead => (Spec => []OnlyAdminsGrant)
<1> SUFFICES ASSUME NoClockAhead PROVE Spec => []OnlyAdminsGrant
  OBVIOUS
<1> DEFINE Inv == TypeOK /\ ClaimsInv /\ RosterInv /\ HeldInv
<1>1. Init => Inv
  BY InitTyped, InitClaims, InitRoster, InitHeld
<1>2. Inv /\ [Next]_vars => Inv'
  BY NextTyped, NextClaims, NextRoster, NextHeld
<1>3. Inv => OnlyAdminsGrant
  <2> DEFINE takenOn(u, e) == \E g \in Of(rows, u) : g.role # "admin" /\ g.grantor # u /\ g.day = e
  <2> SUFFICES ASSUME TypeOK, HeldInv, NEW u \in User, NEW e \in 0..day,
                      InOrder(u), e \notin held[u] \/ takenOn(u, e),
                      NEW c, c.day = e, c.grantor = u,
                      GrantVerifies(c, rows, {g \in Good : g.day = e /\ g.subject = g.grantor},
                                    {g \in Good : g.day < e}, rot)
               PROVE  FALSE
    BY DEF OnlyAdminsGrant
  <2>1. \A h \in Dated(rows, u, e, e) : h.subject = h.grantor
    BY DEF GrantVerifies
  <2>2. PICK g : CurrentOn(rows, u, e) = {g} /\ g.role = "admin"
    BY DEF GrantVerifies, StandsOn
  <2>3. /\ g \in rows /\ g.subject = u /\ g.day < e
        /\ \A h \in rows : h.subject = u /\ h.day < e => h.day <= g.day
    BY <2>2 DEF CurrentOn, Of
  <2>4. \A h \in rows : h.day \in Nat /\ h.id \in Nat
    BY DaysAssumption DEF TypeOK, RowType, Day
  <2>5. CASE takenOn(u, e)
    BY <2>1, <2>4, <2>5 DEF Dated, Of
  <2>6. CASE e \notin held[u]
    <3>1. PICK h \in rows : h.subject = u /\ g.id < h.id /\ h.day < e
      BY <2>2, <2>3, <2>6 DEF HeldInv
    <3>2. g.day <= h.day
      BY <2>3, <3>1 DEF InOrder, Of
    <3>3. h.day = g.day
      BY <2>3, <2>4, <3>1, <3>2
    <3>4. h \in CurrentOn(rows, u, e)
      BY <2>3, <3>1, <3>3 DEF CurrentOn, Of
    <3>5. h = g
      BY <2>2, <3>4
    <3> QED BY <2>3, <2>4, <3>1, <3>5
  <2> QED BY <2>5, <2>6
<1> QED BY <1>1, <1>2, <1>3, PTL DEF Spec

-----------------------------------------------------------------------------
(* What is signed while clocks are right.                                  *)

\* Whoever changed its keys did so by today.
RotInv == \A u \in User : rot[u] = <<>> \/ \E k \in 0..day : rot[u] = <<k>>

\* Rows come in the order of their days, none from days to come; and a
\* designation cites the newest grant of its admin, dated before it.
OrderInv ==
  exact =>
    /\ \A g \in rows : g.day <= day
    /\ \A g, h \in rows : g.id < h.id => g.day <= h.day
    /\ \A d \in desigs :
         /\ d.day <= day /\ d.key \in KeysOn(rot, d.admin, d.day)
         /\ \E g \in rows : /\ g.id = d.ref /\ g.subject = d.admin /\ g.day < d.day
                            /\ \A h \in rows : h.subject = d.admin /\ g.id < h.id => d.day <= h.day

LEMMA InitOrder == Init => RotInv /\ OrderInv
<1> SUFFICES ASSUME Init PROVE RotInv /\ OrderInv
  OBVIOUS
<1>1. day = 0 /\ rows = {RootRow} /\ RootRow.day = 0 /\ desigs = {} /\ RootRow.id = 1
  BY DEF Init, RootRow, Root
<1>2. RotInv
  BY DEF Init, RotInv
<1> QED BY <1>1, <1>2 DEF OrderInv

\* The key one signs with is one of today.
LEMMA KeyOfToday ==
  ASSUME TypeOK, RotInv, NEW u \in User
  PROVE  KeyOf(u) \in KeysOn(rot, u, day)
<1>0. day \in Nat
  BY DaysAssumption DEF TypeOK, Day
<1>1. CASE rot[u] = <<>>
  BY <1>0, <1>1 DEF KeyOf, KeysOn
<1>2. ASSUME NEW k \in 0..day, rot[u] = <<k>> PROVE KeyOf(u) \in KeysOn(rot, u, day)
  BY <1>0, <1>2 DEF KeyOf, KeysOn
<1> QED BY <1>1, <1>2 DEF RotInv

\* Whoever has a role cites the newest row about it; a row so cited is it.
LEMMA CitedIsNewest ==
  ASSUME TypeOK, RosterInv, NEW u \in User, NEW e, DatedAfterOwn(u, e)
  PROVE  \E k \in rows : /\ k.id = roster[u].ref /\ k.subject = u /\ k.role = roster[u].role
                         /\ NewestRow(k) /\ k.day < e
<1>1. PICK g \in rows : g.id = roster[u].ref /\ g.day < e
  BY DEF DatedAfterOwn
<1>2. g.id # 0
  BY RowsCounted DEF RosterInv
<1>3. PICK k \in rows : /\ k.id = roster[u].ref /\ k.subject = u /\ k.role = roster[u].role
                        /\ NewestRow(k)
  BY <1>1, <1>2 DEF RosterInv, NoRow
<1>4. k = g
  BY <1>1, <1>3 DEF RosterInv
<1> QED BY <1>1, <1>3, <1>4

LEMMA NextRot == TypeOK /\ ClaimsInv /\ RotInv /\ [Next]_vars => RotInv'
<1> SUFFICES ASSUME TypeOK, ClaimsInv, RotInv, [Next]_vars PROVE RotInv'
  OBVIOUS
<1>0. day \in Nat
  BY DaysAssumption DEF TypeOK, Day
<1>1. CASE rot' = rot /\ (day' = day \/ day' = day + 1)
  BY <1>0, <1>1 DEF RotInv
<1>2. ASSUME NEW v \in User, RotateKeys(v) PROVE RotInv'
  <2>1. /\ rot'[v] = <<day>> /\ day' = day
        /\ \A u \in User : u # v => rot'[u] = rot[u]
    BY <1>2 DEF RotateKeys, TypeOK
  <2> QED BY <1>0, <2>1 DEF RotInv
<1> QED BY <1>1, <1>2, NextCases DEF HistoryStays, Grants, Demotes, Appends, Unsigned, PutDesignation, NextDay

LEMMA NextOrder == TypeOK /\ ClaimsInv /\ RosterInv /\ RotInv /\ OrderInv /\ [Next]_vars => OrderInv'
<1> SUFFICES ASSUME TypeOK, ClaimsInv, RosterInv, RotInv, OrderInv, [Next]_vars, exact'
             PROVE  OrderInv'
  BY DEF OrderInv
<1>0. day \in Nat
  BY DaysAssumption DEF TypeOK, Day
<1>a. /\ \A g \in rows : g.day \in Nat /\ g.id \in Nat /\ g.subject \in User
      /\ \A d \in desigs : d.day \in Nat /\ d.admin \in User
  BY DaysAssumption DEF TypeOK, RowType, DesigType, Day
<1>1. ASSUME UNCHANGED <<rows, desigs, rot, exact>>, day' = day \/ day' = day + 1 PROVE OrderInv'
  <2>1. \A n \in Nat : n <= day => n <= day'
    BY <1>0, <1>1
  <2>2. OrderInv
    OBVIOUS
  <2>3. /\ \A g \in rows : g.day <= day'
        /\ \A d \in desigs : d.day <= day'
    BY <1>1, <1>a, <2>1 DEF OrderInv
  <2> QED BY <1>1, <2>3 DEF OrderInv
<1>2. ASSUME NEW g, Appends(g) PROVE OrderInv'
  <2>1. /\ exact /\ g.day = day /\ rows' = rows \cup {g} /\ UNCHANGED <<day, desigs, rot>>
        /\ \A h \in rows : h.id < g.id
        /\ g.id \in Nat
    BY <1>2, NumbersKept DEF Appends, RowType
  <2>2. \A h, k \in rows' : h.id < k.id => h.day <= k.day
    BY <1>0, <1>a, <2>1 DEF OrderInv
  <2>3. \A h \in rows' : h.day <= day
    BY <1>0, <2>1 DEF OrderInv
  <2>4. ASSUME NEW d \in desigs
        PROVE  /\ d.day <= day /\ d.key \in KeysOn(rot, d.admin, d.day)
               /\ \E k \in rows' : /\ k.id = d.ref /\ k.subject = d.admin /\ k.day < d.day
                                   /\ \A h \in rows' : h.subject = d.admin /\ k.id < h.id => d.day <= h.day
    <3>1. /\ d.day <= day /\ d.key \in KeysOn(rot, d.admin, d.day)
          /\ \E k \in rows : /\ k.id = d.ref /\ k.subject = d.admin /\ k.day < d.day
                             /\ \A h \in rows : h.subject = d.admin /\ k.id < h.id => d.day <= h.day
      BY <2>1 DEF OrderInv
    <3> QED BY <2>1, <3>1
  <2> QED BY <2>1, <2>2, <2>3, <2>4 DEF OrderInv
<1>3. ASSUME NEW a \in User, NEW s \in User \cup {None}, NEW e \in Dates(a), PutDesignation(a, s, e)
      PROVE  OrderInv'
  <2>1. /\ exact /\ e = day /\ desigs' = desigs \cup {Named(a, s, e)} /\ DatedAfterOwn(a, e)
        /\ UNCHANGED <<day, rows, rot>>
    BY <1>3 DEF PutDesignation
  <2>2. /\ Named(a, s, e).day = day /\ Named(a, s, e).key = KeyOf(a)
        /\ Named(a, s, e).admin = a /\ Named(a, s, e).ref = roster[a].ref
    BY <2>1 DEF Named
  <2>3. KeyOf(a) \in KeysOn(rot, a, day)
    BY KeyOfToday
  <2>4. PICK k \in rows : /\ k.id = roster[a].ref /\ k.subject = a /\ NewestRow(k) /\ k.day < e
    BY <2>1, CitedIsNewest
  <2>5. \A h \in rows : h.subject = a => ~(k.id < h.id)
    BY <1>a, <2>4 DEF NewestRow
  <2>6. ASSUME NEW d \in desigs'
        PROVE  /\ d.day <= day /\ d.key \in KeysOn(rot, d.admin, d.day)
               /\ \E g \in rows : /\ g.id = d.ref /\ g.subject = d.admin /\ g.day < d.day
                                  /\ \A h \in rows : h.subject = d.admin /\ g.id < h.id => d.day <= h.day
    <3>1. CASE d \in desigs
      BY <2>1, <3>1 DEF OrderInv
    <3>2. CASE d = Named(a, s, e)
      BY <1>0, <2>1, <2>2, <2>3, <2>4, <2>5, <3>2
    <3> QED BY <2>1, <3>1, <3>2
  <2> QED BY <2>1, <2>6 DEF OrderInv
<1>4. ASSUME NEW v \in User, RotateKeys(v) PROVE OrderInv'
  <2>1. /\ rot[v] = <<>> /\ rot'[v] = <<day>> /\ UNCHANGED <<day, rows, desigs, exact>>
        /\ \A u \in User : u # v => rot'[u] = rot[u]
    BY <1>4 DEF RotateKeys, TypeOK
  <2>2. ASSUME NEW d \in desigs PROVE d.key \in KeysOn(rot', d.admin, d.day)
    <3>1. d.key \in KeysOn(rot, d.admin, d.day) /\ d.day <= day
      BY <2>1 DEF OrderInv
    <3>2. CASE d.admin # v
      <4>1. rot'[d.admin] = rot[d.admin]
        BY <1>a, <2>1, <3>2
      <4> QED BY <3>1, <4>1 DEF KeysOn
    <3>3. CASE d.admin = v
      <4>1. d.key = 1
        BY <2>1, <3>1, <3>3 DEF KeysOn
      <4> QED BY <1>0, <1>a, <2>1, <3>1, <3>3, <4>1 DEF KeysOn
    <3> QED BY <3>2, <3>3
  <2> QED BY <2>1, <2>2 DEF OrderInv
<1> QED BY <1>1, <1>2, <1>3, <1>4, NextCases DEF HistoryStays, Grants, Demotes, Unsigned, NextDay

-----------------------------------------------------------------------------
(* What the server takes verifies.                                         *)

RolesInv == TypeOK /\ ClaimsInv /\ RosterInv /\ RotInv /\ OrderInv

LEMMA RolesAlways == Spec => []RolesInv
<1>1. Init => RolesInv
  BY InitTyped, InitClaims, InitRoster, InitOrder DEF RolesInv
<1>2. RolesInv /\ [Next]_vars => RolesInv'
  BY NextTyped, NextClaims, NextRoster, NextRot, NextOrder DEF RolesInv
<1> QED BY <1>1, <1>2, PTL DEF Spec

\* Under right clocks, the row an account cites is the only newest about it.
LEMMA CitedIsCurrent ==
  ASSUME RolesInv, exact, NEW u \in User, DatedAfterOwn(u, day),
         RoleBacked(rows, Good, u, roster[u].role), roster[u].role \in Elevated
  PROVE  \E k \in Good : /\ k \in rows /\ k.id = roster[u].ref /\ k.role = roster[u].role
                         /\ k.day < day /\ CurrentOn(rows, u, day) = {k}
                         /\ \A h \in rows : h.subject = u => h.day < day
<1>a. day \in Nat /\ \A g \in rows : g.day \in Nat /\ g.id \in Nat
  BY DaysAssumption DEF RolesInv, TypeOK, RowType, Day
<1>1. PICK k \in rows : /\ k.id = roster[u].ref /\ k.subject = u /\ k.role = roster[u].role
                        /\ NewestRow(k) /\ k.day < day
  BY CitedIsNewest DEF RolesInv
<1>2. \A h \in rows : h.subject = u => h.day <= k.day
  <2>1. ASSUME NEW h \in rows, h.subject = u PROVE h.day <= k.day
    <3>1. h.id <= k.id
      BY <1>1, <2>1 DEF NewestRow
    <3>2. CASE h.id = k.id
      BY <1>1, <1>a, <3>2 DEF RolesInv, RosterInv
    <3>3. CASE h.id < k.id
      BY <3>3 DEF RolesInv, OrderInv
    <3> QED BY <1>a, <3>1, <3>2, <3>3
  <2> QED BY <2>1
<1>3. PICK g \in Good : {h \in Of(rows, u) : \A o \in Of(rows, u) : o.day <= h.day} = {g}
  BY DEF RoleBacked, Elevated
<1>4. k \in {h \in Of(rows, u) : \A o \in Of(rows, u) : o.day <= h.day}
  BY <1>1, <1>2 DEF Of
<1>5. k = g
  BY <1>3, <1>4
<1>6. \A h \in rows : h.subject = u => h.day < day
  BY <1>1, <1>2, <1>a
<1>7. {h \in Of(rows, u) : h.day < day} = Of(rows, u)
  BY <1>6 DEF Of
<1>8. CurrentOn(rows, u, day) = {k}
  BY <1>3, <1>5, <1>7 DEF CurrentOn
<1> QED BY <1>1, <1>5, <1>6, <1>8

\* A row of today that is no claim leaves the verdicts of earlier days alone.
LEMMA EarlierStays ==
  ASSUME TypeOK, TypeOK', NEW g, Appends(g), g.day = day, g.via = NoRow,
         NEW k \in Good, k \in rows, k.day < day
  PROVE  k \in Good'
<1>0. day \in Nat /\ \A h \in rows : h.day \in Nat
  BY DaysAssumption DEF TypeOK, RowType, Day
<1> DEFINE n == day - 1
<1>1. n \in Day
  BY <1>0, DaysAssumption DEF TypeOK, RowType, Day
<1>2. rows' = rows \cup {g} /\ desigs' = desigs /\ rot' = rot /\ ~(g.day <= n) /\ k.day <= n
  BY <1>0 DEF Appends
<1> HIDE DEF n
<1>3. UpToDay(rows, n) = UpToDay(rows', n)
  BY <1>2 DEF UpToDay
<1>4. \A h : h.via # NoRow => (CitedOnce(rows, h) <=> CitedOnce(rows', h))
  BY <1>2 DEF CitedOnce
<1>5. AgreeUpTo(rows, desigs, rot, rows', desigs', rot', n)
  BY <1>2, <1>3, <1>4 DEF AgreeUpTo
<1>6. /\ rows \in SUBSET RowType /\ rows' \in SUBSET RowType
      /\ desigs \in SUBSET DesigType /\ desigs' \in SUBSET DesigType
  BY DEF TypeOK
<1>7. UpToDay(Good, n) = UpToDay(Good', n)
  BY <1>1, <1>5, <1>6, DaysDecide DEF Good
<1> QED BY <1>2, <1>7 DEF UpToDay

\* While nobody's clock is off, a row the server takes from somebody whose
\* own role verifies is one that verifies.
THEOREM TakenVerify == Spec => AcceptedVerifies
<1>1. RolesInv /\ RolesInv' /\ [Next]_vars =>
        \A g \in rows' \ rows :
          (/\ exact' /\ g.via = NoRow
           /\ RoleBacked(rows, Good, g.grantor, roster[g.grantor].role)
           /\ g.subject = g.grantor => DatedAfterOwn(g.grantor, g.day))
            => g \in Good'
  <2> SUFFICES ASSUME RolesInv, RolesInv', [Next]_vars,
                      NEW g \in rows', g \notin rows, exact', g.via = NoRow,
                      RoleBacked(rows, Good, g.grantor, roster[g.grantor].role),
                      g.subject = g.grantor => DatedAfterOwn(g.grantor, g.day)
               PROVE  g \in Good'
    OBVIOUS
  <2>0. /\ TypeOK /\ TypeOK' /\ ClaimsInv /\ RosterInv /\ RotInv
        /\ day \in Nat /\ day \in Day
    BY DaysAssumption DEF RolesInv, TypeOK, Day
  <2>1. Appends(g)
    BY <2>0, NextCases DEF HistoryStays, Grants, Demotes, Appends, Unsigned, PutDesignation,
       RotateKeys, NextDay
  <2>2. /\ exact /\ g.day = day /\ Checked(g)
        /\ rows' = rows \cup {g} /\ desigs' = desigs /\ rot' = rot
        /\ g.grantor \in User /\ g.subject \in User
    BY <2>1 DEF Appends, RowType
  <2> DEFINE u == g.grantor
  <2>3. /\ DatedAfterOwn(u, day) /\ roster[u].role \in Elevated
        /\ g.subject # u => roster[u].role = "admin"
        /\ g.ref = roster[u].ref /\ g.key \in KeysOn(rot', u, day)
    BY <2>0, <2>2, KeyOfToday DEF Checked, Admins, Elevated
  <2>4. PICK k \in Good : /\ k \in rows /\ k.id = roster[u].ref /\ k.role = roster[u].role
                          /\ k.day < day /\ CurrentOn(rows, u, day) = {k}
                          /\ \A h \in rows : h.subject = u => h.day < day
    BY <2>2, <2>3, CitedIsCurrent
  <2>5. k \in Good'
    BY <2>0, <2>1, <2>2, <2>4, EarlierStays
  <2> DEFINE before == {h \in Good' : h.day < day}
  <2>6. CurrentOn(rows', u, day) = {k}
    <3>1. {h \in Of(rows', u) : h.day < day} = {h \in Of(rows, u) : h.day < day}
      BY <2>0, <2>2 DEF Of
    <3> QED BY <2>4, <3>1 DEF CurrentOn
  <2>7. \A rs : roster[u].role \in rs => StandsOn(rows', before, u, g.ref, day, rs)
    BY <2>3, <2>4, <2>5, <2>6 DEF StandsOn
  <2>8. Dated(rows', u, day, day) = IF g.subject = u THEN {g} ELSE {}
    <3>0. \A h \in rows : h.day \in Nat
      BY <2>0, DaysAssumption DEF TypeOK, RowType, Day
    <3>1. \A h \in rows : h.subject = u => ~(day <= h.day)
      BY <2>0, <2>4, <3>0
    <3> QED BY <2>0, <2>2, <3>1 DEF Dated, Of
  <2>9. g \in Judged(rows', desigs', rot', before, day)
    <3> HIDE DEF before
    <3>1. CASE g.subject = u
      <4>1. g.role = "member"
        BY <2>2, <3>1 DEF Checked
      <4>2. SelfDemotionVerifies(g, rows', before, rot')
        BY <2>2, <2>3, <2>7, <2>8, <3>1, <4>1 DEF SelfDemotionVerifies
      <4>3. g.id # Root
        BY <2>0, <2>1, <2>4, NumbersKept DEF RosterInv, Root
      <4> QED BY <2>2, <3>1, <4>2, <4>3 DEF Judged
    <3>2. CASE g.subject # u
      <4>1. \A left : GrantVerifies(g, rows', left, before, rot')
        BY <2>2, <2>3, <2>7, <2>8, <3>2 DEF GrantVerifies
      <4> QED BY <2>2, <3>2, <4>1 DEF Judged
    <3> QED BY <3>1, <3>2
  <2>10. \A h \in rows' : h.day \in Day
    BY <2>0 DEF TypeOK, RowType
  <2>11. g \in Good' <=> g \in rows' /\ g \in Judged(rows', desigs', rot', {h \in Good' : h.day < g.day}, g.day)
    BY <2>10, VerifiedByDay DEF Good
  <2> QED BY <2>2, <2>9, <2>11
<1> QED BY <1>1, RolesAlways, PTL DEF Spec, AcceptedVerifies

-----------------------------------------------------------------------------
(* What the screens say of a designation.                                  *)

\* The successor's screen offers what the admin's own calls active.
LEMMA ScreensAgree ==
  ASSUME TypeOK, NEW d \in desigs
  PROVE  d.successor \in Members \ Admins /\ d \in Offers(d.successor, rows, desigs, Admins, day)
           <=> /\ d.admin \in Admins /\ NewestOf(desigs, d.admin) = {d}
               /\ SuccessorStatus(d.admin, rows, desigs, Members, Admins, day) = "active"
<1>1. d \in Offers(d.successor, rows, desigs, Admins, day) <=>
        /\ d.admin \in Admins /\ NewestOf(desigs, d.admin) = {d}
        /\ ~Claimed(rows, d) /\ Dated(rows, d.admin, d.day, day) = {}
  BY DEF Offers
<1>2. d.successor \in Members => d.successor # None
  BY UserAssumption DEF Members
<1>3. ASSUME NewestOf(desigs, d.admin) = {d}
      PROVE  SuccessorStatus(d.admin, rows, desigs, Members, Admins, day) = "active" <=>
               /\ d.successor # None /\ ~Claimed(rows, d) /\ Dated(rows, d.admin, d.day, day) = {}
               /\ d.successor \in Members /\ d.successor \notin Admins
  <2>1. /\ NewestOf(desigs, d.admin) # {} /\ ~(Cardinality(NewestOf(desigs, d.admin)) > 1)
        /\ (CHOOSE o \in NewestOf(desigs, d.admin) : TRUE) = d
    BY <1>3, FS_Singleton
  <2> QED BY <2>1 DEF SuccessorStatus
<1> QED BY <1>1, <1>2, <1>3

\* An offered claim by an admin's verified word makes a row that verifies.
LEMMA OfferedVerifies ==
  ASSUME RolesInv, exact, NEW d \in desigs, NEW s, s = d.successor, s \in Members,
         Claimable(s, d, day), RoleBacked(rows, Good, d.admin, "admin"),
         NEW g, g = ClaimRow(s, d, day, KeyOf(s))
  PROVE  ClaimVerifies(g, rows \cup {g}, desigs, {h \in Good : h.day < day}, rot)
<1> DEFINE a == d.admin
           good == {h \in Good : h.day < day}
           all == rows \cup {g}
<1>0. /\ TypeOK /\ RosterInv /\ RotInv /\ day \in Nat
      /\ \A h \in rows : h.day \in Nat /\ h.id \in Nat
      /\ \A o \in desigs : o.day \in Nat
      /\ a \in User /\ s \in User /\ Period \in Nat
  <2>1. TypeOK /\ RosterInv /\ RotInv
    BY DEF RolesInv
  <2>2. /\ rows \in SUBSET RowType /\ desigs \in SUBSET DesigType /\ day \in Day
    BY <2>1 DEF TypeOK
  <2>3. Day \subseteq Nat /\ Period \in Nat
    BY DaysAssumption, PeriodAssumption DEF Day
  <2>4. \A h \in rows : h.day \in Nat /\ h.id \in Nat
    BY <2>2, <2>3 DEF RowType
  <2>5. a \in User /\ \A o \in desigs : o.day \in Nat
    BY <2>2, <2>3 DEF DesigType
  <2>6. s \in User
    BY DEF Members
  <2> QED BY <2>1, <2>2, <2>3, <2>4, <2>5, <2>6
<1>1. /\ a \in Admins /\ NewestOf(desigs, a) = {d} /\ ~Claimed(rows, d)
      /\ Dated(rows, a, d.day, day) = {} /\ roster[s].role # "admin" /\ day - d.day >= Period
  BY DEF Claimable, Offers
<1>2. /\ g.subject = s /\ g.role = "admin" /\ g.day = day /\ g.grantor = a /\ g.ref = d.ref
      /\ g.via = d.id /\ g.key = KeyOf(s) /\ s # a
  BY <1>1 DEF ClaimRow, Admins
<1> HIDE DEF a
<1>3. /\ d.day <= day /\ d.key \in KeysOn(rot, a, d.day)
      /\ \E k \in rows : /\ k.id = d.ref /\ k.subject = a /\ k.day < d.day
                         /\ \A h \in rows : h.subject = a /\ k.id < h.id => d.day <= h.day
  BY DEF RolesInv, OrderInv, a
<1>4. \A h \in rows : h.subject = a => h.day < d.day
  <2>1. ASSUME NEW h \in rows, h.subject = a PROVE h.day < d.day
    <3>1. h.day <= day
      BY DEF RolesInv, OrderInv
    <3>2. ~(d.day <= h.day /\ h.day <= day)
      BY <1>1, <2>1 DEF Dated, Of
    <3> QED BY <1>0, <3>1, <3>2
  <2> QED BY <2>1
<1>5. PICK k \in rows : k.id = d.ref /\ k.subject = a /\ k.day < d.day
                        /\ \A h \in rows : h.subject = a /\ k.id < h.id => d.day <= h.day
  BY <1>3
<1>6. \A h \in rows : h.subject = a => h.day <= k.day
  <2>1. ASSUME NEW h \in rows, h.subject = a PROVE h.day <= k.day
    <3>1. ~(k.id < h.id)
      BY <1>0, <1>4, <1>5, <2>1
    <3>2. CASE h.id = k.id
      BY <1>0, <1>5, <3>2 DEF RosterInv
    <3>3. CASE h.id < k.id
      BY <3>3 DEF RolesInv, OrderInv
    <3> QED BY <1>0, <3>1, <3>2, <3>3
  <2> QED BY <2>1
<1>7. PICK b \in Good : /\ {h \in Of(rows, a) : \A o \in Of(rows, a) : o.day <= h.day} = {b}
                        /\ b.role = "admin"
  <2>1. Of(rows, a) # {}
    BY <1>5 DEF Of
  <2> QED BY <2>1 DEF RoleBacked, a
<1>8. k = b
  <2>1. k \in {h \in Of(rows, a) : \A o \in Of(rows, a) : o.day <= h.day}
    BY <1>5, <1>6 DEF Of
  <2> QED BY <1>7, <2>1
<1>9. CurrentOn(all, a, d.day) = {k}
  <2>1. {h \in Of(all, a) : h.day < d.day} = Of(rows, a)
    BY <1>2, <1>4 DEF Of
  <2> QED BY <1>7, <1>8, <2>1 DEF CurrentOn
<1>10. Dated(all, a, d.day, d.day) = {} /\ Dated(all, a, d.day, day) = {}
  <2>1. \A h \in rows : h.subject = a => ~(d.day <= h.day)
    BY <1>0, <1>4
  <2> QED BY <1>2, <2>1 DEF Dated, Of
<1>11. k \in good
  BY <1>0, <1>3, <1>5, <1>7, <1>8
<1>12. StandsOn(all, good, a, d.ref, d.day, {"admin"})
  BY <1>5, <1>7, <1>8, <1>9, <1>11 DEF StandsOn
<1> HIDE DEF good, all
<1>13. DesignationVerifies(d, all, good, rot)
  BY <1>3, <1>10, <1>12 DEF DesignationVerifies, a
<1>14. ~Lapsed(d, all, desigs, day)
  <2>1. ASSUME NEW o \in desigs, o.admin = a, d.day <= o.day PROVE o = d
    <3>1. \A p \in desigs : p.admin = a => p.day <= d.day
      BY <1>1 DEF NewestOf
    <3>2. o.day = d.day
      BY <1>0, <2>1, <3>1
    <3>3. o \in NewestOf(desigs, a)
      BY <2>1, <3>1, <3>2 DEF NewestOf
    <3> QED BY <1>1, <3>3
  <2> QED BY <1>10, <2>1 DEF Lapsed, a
<1>15. \A h \in all : h.via = g.via => h = g
  BY <1>1, <1>2 DEF all, Claimed
<1>16. g.key \in KeysOn(rot, g.subject, g.day)
  BY <1>0, <1>2, KeyOfToday
<1> QED BY <1>1, <1>2, <1>13, <1>14, <1>15, <1>16 DEF ClaimVerifies, a, good, all

\* While nobody's clock is off, what the two screens say of a designation
\* agrees, and what can be claimed by an admin's verified word verifies.
THEOREM OffersStand == Spec => []OffersHold
<1>1. RolesInv => OffersHold
  <2> SUFFICES ASSUME RolesInv, exact, NEW d \in desigs
               PROVE  LET s == d.successor IN
                      /\ s \in Members \ Admins /\ d \in Offers(s, rows, desigs, Admins, day)
                           <=> /\ d.admin \in Admins /\ NewestOf(desigs, d.admin) = {d}
                               /\ SuccessorStatus(d.admin, rows, desigs, Members, Admins, day) = "active"
                      /\ s \in Members /\ Claimable(s, d, day) /\ RoleBacked(rows, Good, d.admin, "admin") =>
                           LET g == ClaimRow(s, d, day, KeyOf(s))
                           IN  ClaimVerifies(g, rows \cup {g}, desigs, {h \in Good : h.day < day}, rot)
    BY DEF OffersHold
  <2> QED BY ScreensAgree, OfferedVerifies DEF RolesInv
<1> QED BY <1>1, RolesAlways, PTL
=============================================================================

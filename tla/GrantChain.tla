------------------------------ MODULE GrantChain ------------------------------
(* Which roles a group's signed history backs, as every client works it out    *)
(* from the rows the server serves (src/web/src/lib/crypto/grant-chain.ts),    *)
(* and what its screens offer on the successor designations                    *)
(* (src/web/src/lib/groups/designation.ts).                                    *)
(*                                                                             *)
(* A row carries no time but the day its signer dated it, so order within a    *)
(* day is unknown and the rules fail towards "not verified". A signature is    *)
(* abstracted to the number of the signer's key that made it: what was signed  *)
(* is the row. Malformed and duplicate addresses are left out, and so is the   *)
(* check of a claim against the viewer's clock, which no accepted row fails.   *)
EXTENDS Integers, Sequences, FiniteSets

CONSTANTS
  User, None,
  Creator,   \* who made the group: signer and subject of the root grant
  MaxDay,    \* bound on the days
  Period     \* how long an admin must be away before a successor may claim

ASSUME UserAssumption   == Creator \in User /\ None \notin User
ASSUME DaysAssumption   == MaxDay \in Nat
ASSUME PeriodAssumption == Period \in Nat \ {0}

Day == 0..MaxDay
Elevated == {"admin", "ambassador"}

\* The rows' addresses are numbers; the root grant's is 1 and 0 is no address.
Root == 1
NoRow == 0

-----------------------------------------------------------------------------
KeysOn_Current(rot, u, e) == {Len(rot[u]) + 1}   \* faulty: the key of now

\* rot[u] holds the days u changed keys: key k was used from the change before
\* it up to its own, both days included, and the last one since.
KeysOn(rot, u, e) ==
  {k \in 1..Len(rot[u]) + 1 : /\ k > 1 => rot[u][k - 1] <= e
                              /\ k <= Len(rot[u]) => e <= rot[u][k]}

Of(rows, u) == {g \in rows : g.subject = u}

Dated(rows, u, from, to) == {g \in Of(rows, u) : from <= g.day /\ g.day <= to}

\* The newest of u's rows dated strictly before e; more than one is a tie.
CurrentOn(rows, u, e) ==
  LET past == {g \in Of(rows, u) : g.day < e}
  IN  {g \in past : \A h \in past : h.day <= g.day}

\* What u signs on day e rests on u's one current grant, which must be the one
\* cited, verify, and give one of the roles.
StandsOn(rows, good, u, ref, e, roles) ==
  \E g \in good : g.id = ref /\ g.role \in roles /\ CurrentOn(rows, u, e) = {g}

-----------------------------------------------------------------------------
\* The group's anchor is the creator's first key.
RootVerifies(g, rot) ==
  /\ g.subject = Creator /\ g.grantor = Creator /\ g.role = "admin" /\ g.ref = NoRow
  /\ g.key = 1 /\ g.key \in KeysOn(rot, Creator, g.day)

\* A leave: nobody else's authority is needed to lower one's own role.
SelfDemotionVerifies(g, rows, good, rot) ==
  /\ g.role = "member"
  /\ Dated(rows, g.subject, g.day, g.day) = {g}
  /\ StandsOn(rows, good, g.subject, g.ref, g.day, Elevated)
  /\ g.key \in KeysOn(rot, g.subject, g.day)

GrantVerifies_IgnoresTheDay(g, rows, left, good, rot) ==   \* faulty: no same-day rule
  /\ StandsOn(rows, good, g.grantor, g.ref, g.day, {"admin"})
  /\ g.key \in KeysOn(rot, g.grantor, g.day)

\* Somebody else's change of a role. A row of the grantor's own on the day
\* voids it, unless it is a verified leave (left), which takes effect tomorrow.
GrantVerifies(g, rows, left, good, rot) ==
  /\ Dated(rows, g.grantor, g.day, g.day) \subseteq left
  /\ StandsOn(rows, good, g.grantor, g.ref, g.day, {"admin"})
  /\ g.key \in KeysOn(rot, g.grantor, g.day)

DesignationVerifies(d, rows, good, rot) ==
  /\ Dated(rows, d.admin, d.day, d.day) = {}
  /\ StandsOn(rows, good, d.admin, d.ref, d.day, {"admin"})
  /\ d.key \in KeysOn(rot, d.admin, d.day)

\* Anything the admin did or was given from the designation's day to the claim's.
Lapsed(d, rows, desigs, e) ==
  \/ \E o \in desigs \ {d} : o.admin = d.admin /\ d.day <= o.day /\ o.day <= e
  \/ Dated(rows, d.admin, d.day, e) # {}

ClaimVerifies(g, rows, desigs, good, rot) ==
  /\ g.role = "admin"
  /\ \A h \in rows : h.via = g.via => h = g
  /\ \E d \in desigs :
       /\ d.id = g.via /\ d.successor = g.subject /\ d.admin = g.grantor /\ d.ref = g.ref
       /\ DesignationVerifies(d, rows, good, rot)
       /\ g.day - d.day >= Period
       /\ ~Lapsed(d, rows, desigs, g.day)
  /\ g.key \in KeysOn(rot, g.subject, g.day)

\* The rows dated e that verify, given those of earlier days.
Judged(rows, desigs, rot, good, e) ==
  LET dated == {g \in rows : g.day = e}
      left  == {g \in dated : /\ g.id # Root /\ g.grantor = g.subject
                              /\ SelfDemotionVerifies(g, rows, good, rot)}
  IN  left \cup {g \in dated :
        \/ g.id = Root /\ RootVerifies(g, rot)
        \/ g.via # NoRow /\ ClaimVerifies(g, rows, desigs, good, rot)
        \/ /\ g.via = NoRow /\ g.grantor # g.subject
           /\ GrantVerifies(g, rows, left, good, rot)}

\* Every row is judged by rows of earlier days, and leaves of its own:
\* VerifiedUpTo(...)[e] are the rows that verify among those dated up to e.
VerifiedUpTo(rows, desigs, rot) ==
  LET upTo[e \in Day] ==
        LET before == IF e = 0 THEN {} ELSE upTo[e - 1]
        IN  before \cup Judged(rows, desigs, rot, before, e)
  IN  upTo

Verified(rows, desigs, rot) == VerifiedUpTo(rows, desigs, rot)[MaxDay]

\* Whether the roster's role for u is the one its newest row gives.
RoleBacked(rows, good, u, role) ==
  LET mine   == Of(rows, u)
      newest == {g \in mine : \A h \in mine : h.day <= g.day}
  IN  \/ mine = {} /\ role = "member"
      \/ \E g \in good : newest = {g} /\ g.role = role

-----------------------------------------------------------------------------
\* The admin's newest designation; two of one day cancel each other.
NewestOf(desigs, a) ==
  LET mine == {d \in desigs : d.admin = a}
  IN  {d \in mine : \A o \in mine : o.day <= d.day}

Claimed(rows, d) == \E g \in rows : g.via = d.id

Offers_AnyOfTheirs(u, rows, desigs, admins, e) ==   \* faulty: a replaced one is still offered
  {d \in desigs : /\ d.successor = u /\ d.admin \in admins
                  /\ ~Claimed(rows, d)
                  /\ Dated(rows, d.admin, d.day, e) = {}}

\* The designations that name u and still stand for a claim dated e.
Offers(u, rows, desigs, admins, e) ==
  {d \in desigs : /\ d.successor = u /\ d.admin \in admins
                  /\ NewestOf(desigs, d.admin) = {d}
                  /\ ~Claimed(rows, d)
                  /\ Dated(rows, d.admin, d.day, e) = {}}

\* What the admin's own screen says of its designation.
SuccessorStatus(a, rows, desigs, members, admins, e) ==
  LET newest == NewestOf(desigs, a)
      d      == CHOOSE o \in newest : TRUE
  IN  CASE newest = {}                         -> "none"
        [] Cardinality(newest) > 1             -> "cancelled"
        [] d.successor = None                  -> "revoked"
        [] Claimed(rows, d)                    -> "used"
        [] Dated(rows, a, d.day, e) # {}       -> "lapsed"
        [] d.successor \notin members          -> "successorGone"
        [] d.successor \in admins              -> "successorAdmin"
        [] OTHER                               -> "active"
=============================================================================

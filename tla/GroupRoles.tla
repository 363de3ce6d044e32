------------------------------ MODULE GroupRoles ------------------------------
(* The roles of a group as its server keeps them, with the signed row each     *)
(* change appends and what a client makes of the rows (GrantChain): role       *)
(* changes, removals, leaves, rejoins, successor designations and claims       *)
(* (src/internal/handlers/members.go, designation.go, claim.go and the         *)
(* transactions behind them; the requests are those of src/web/src/routes/     *)
(* runGroupMembers.ts, runLeaveGroup.ts and runSuccessor.ts).                  *)
(*                                                                             *)
(* A client dates what it signs by its own clock, which may be off. Each       *)
(* handler's transaction repeats the reads its row depends on, so it is one    *)
(* step, except the claim: its transaction repeats only some of them. An       *)
(* account changes keys as GroupKeys says; here only the day matters.          *)
EXTENDS GrantChain

CONSTANTS
  Skew,        \* by how many days a client's clock may be off
  Astray,      \* bound: whose clock may be
  Movers,      \* bound: who gives roles and removes, and who leaves or is removed
  Given,       \* bound: the roles each account is given by others
  Away,        \* bound: who may stay away; everybody else logs in daily
  Namers,      \* bound: who designates a successor
  Rotators,    \* bound: who changes keys, once each
  MaxRow,      \* bound on the grant rows
  MaxNamed     \* bound on the designations

ASSUME SkewAssumption == Skew \subseteq Int /\ 0 \in Skew /\ Astray \subseteq User
ASSUME GivenAssumption == Given \in [User -> SUBSET (Elevated \cup {"member"})]
ASSUME RowsAssumption == MaxRow \in Nat \ {0} /\ MaxNamed \in Nat

VARIABLES
  day,      \* the server's day
  roster,   \* the MEMBER# rows: role, current grant, the day of joining
  rows,     \* the GRANT# rows
  desigs,   \* the DESIGNATION# rows
  rot,      \* the days each account changed its keys
  seen,     \* PROFILE.LastLoginDay
  claims,   \* claims between their reads and their transaction
  held,     \* history: the days on which each account was an admin
  exact     \* history: every row so far was dated with the server's day

vars == <<day, roster, rows, desigs, rot, seen, claims, held, exact>>

Outside == [role |-> "none", ref |-> NoRow, joined |-> 0]

Members == {u \in User : roster[u].role # "none"}
Admins  == {u \in User : roster[u].role = "admin"}

RootRow == [id |-> Root, subject |-> Creator, role |-> "admin", day |-> 0,
            grantor |-> Creator, ref |-> NoRow, via |-> NoRow, key |-> 1]

\* CreateGroup, and everybody else in by invite.
Init ==
  /\ day = 0
  /\ roster = [u \in User |-> IF u = Creator
                              THEN [role |-> "admin", ref |-> Root, joined |-> 0]
                              ELSE [role |-> "member", ref |-> NoRow, joined |-> 0]]
  /\ rows = {RootRow} /\ desigs = {}
  /\ rot = [u \in User |-> <<>>]
  /\ seen = [u \in User |-> 0]
  /\ claims = {}
  /\ held = [u \in User |-> IF u = Creator THEN {0} ELSE {}]
  /\ exact = TRUE

-----------------------------------------------------------------------------
LastLogin(u) == IF u \in Away THEN seen[u] ELSE day

\* A session outlives midnight, but not a day.
SignedIn(u) == LastLogin(u) >= day - 1

\* The days a request may carry: within the tolerance, by a clock in Skew.
Dates(u) == {e \in Day : e = day \/ (u \in Astray /\ e - day \in Skew)}

KeyOf(u) == Len(rot[u]) + 1

\* The request must cite the caller's current grant, which must be dated
\* strictly earlier than what is signed on it.
DatedAfterOwn_OrOn(u, e) ==   \* faulty: on the day it was granted
  \E g \in rows : g.id = roster[u].ref /\ g.day <= e

DatedAfterOwn(u, e) == \E g \in rows : g.id = roster[u].ref /\ g.day < e

NewRow(subject, role, e, grantor) ==
  [id |-> Cardinality(rows) + 1, subject |-> subject, role |-> role, day |-> e,
   grantor |-> grantor, ref |-> roster[grantor].ref, via |-> NoRow, key |-> KeyOf(grantor)]

AppendRow(row) ==
  /\ Cardinality(rows) < MaxRow
  /\ rows' = rows \cup {row}
  /\ exact' = (exact /\ row.day = day)

Holds(u, role) == held' = IF role = "admin" THEN [held EXCEPT ![u] = @ \cup {day}] ELSE held

ChangeMemberRole(a, s, role, e) ==
  /\ a \in Admins \cap Movers /\ SignedIn(a) /\ s \in Members \ {a}
  /\ role \in Given[s] /\ role # roster[s].role
  /\ DatedAfterOwn(a, e)
  /\ AppendRow(NewRow(s, role, e, a))
  /\ roster' = [roster EXCEPT ![s].role = role, ![s].ref = Cardinality(rows) + 1]
  /\ Holds(s, role)
  /\ UNCHANGED <<day, desigs, rot, seen, claims>>

\* Removing somebody with a role appends the remover's demotion of them.
RemoveMember(a, s, e) ==
  /\ a \in Admins \cap Movers /\ SignedIn(a) /\ s \in (Members \cap Movers) \ {a}
  /\ IF roster[s].role \in Elevated
     THEN DatedAfterOwn(a, e) /\ AppendRow(NewRow(s, "member", e, a))
     ELSE UNCHANGED <<rows, exact>>
  /\ roster' = [roster EXCEPT ![s] = Outside]
  /\ UNCHANGED <<day, desigs, rot, seen, claims, held>>

\* Leaving with a role appends one's own demotion, on whatever day. The last
\* member's leave, which deletes the group, is left out.
LeaveGroup(u, e) ==
  /\ u \in Members \cap Movers /\ SignedIn(u)
  /\ u \in Admins => Admins # {u}
  /\ IF roster[u].role \in Elevated
     THEN AppendRow(NewRow(u, "member", e, u))
     ELSE UNCHANGED <<rows, exact>>
  /\ roster' = [roster EXCEPT ![u] = Outside]
  /\ UNCHANGED <<day, desigs, rot, seen, claims, held>>

CompleteInvite(u) ==
  /\ u \notin Members /\ SignedIn(u)
  /\ roster' = [roster EXCEPT ![u] = [role |-> "member", ref |-> NoRow, joined |-> day]]
  /\ UNCHANGED <<day, rows, desigs, rot, seen, claims, held, exact>>

Named(a, s, e) ==
  [id |-> Cardinality(desigs) + 1, admin |-> a, successor |-> s, day |-> e,
   ref |-> roster[a].ref, key |-> KeyOf(a)]

\* Two of one day by requests in flight together, which cancel each other, are
\* left out. A designation of None revokes.
PutDesignation(a, s, e) ==
  /\ a \in Admins \cap Namers /\ SignedIn(a) /\ s \in (Members \ {a}) \cup {None}
  /\ DatedAfterOwn(a, e)
  /\ \A d \in desigs : ~(d.admin = a /\ d.day = e)
  /\ Cardinality(desigs) < MaxNamed
  /\ desigs' = desigs \cup {Named(a, s, e)}
  /\ exact' = (exact /\ e = day)
  /\ UNCHANGED <<day, roster, rows, rot, seen, claims, held>>

-----------------------------------------------------------------------------
\* Nobody in charge has logged in for the period, from the later of that login
\* and the designation.
AllInactive(d, e) ==
  \A a \in Admins : e - d.day >= Period /\ e - LastLogin(a) >= Period

ClaimRow(u, d, e, key) ==
  [id |-> Cardinality(rows) + 1, subject |-> u, role |-> "admin", day |-> e,
   grantor |-> d.admin, ref |-> d.ref, via |-> d.id, key |-> key]

\* claimBlocker: what the screen lets its user claim on a day.
Claimable(u, d, e) ==
  /\ roster[u].role # "admin"
  /\ d \in Offers(u, rows, desigs, Admins, e)
  /\ e - d.day >= Period

\* What the handler reads before its transaction.
ClaimAllowed(u, d, e) ==
  /\ ~Lapsed(d, rows, desigs, e)
  /\ ~Claimed(rows, d)
  /\ d.admin \in Admins /\ roster[d.admin].ref = d.ref
  /\ roster[u].joined <= d.day
  /\ AllInactive(d, e)

\* The client reloads, asks its own rule, signs and sends.
BeginClaim(u, d, e) ==
  /\ u \in Members /\ SignedIn(u)
  /\ Claimable(u, d, e) /\ ClaimAllowed(u, d, e)
  /\ claims' = claims \cup {[row |-> ClaimRow(u, d, e, KeyOf(u)), old |-> roster[u].role]}
  /\ UNCHANGED <<day, roster, rows, desigs, rot, seen, held, exact>>

\* The transaction.
ClaimDesignation(c) ==
  LET g == [c.row EXCEPT !.id = Cardinality(rows) + 1]
  IN  /\ roster[g.grantor].role = "admin" /\ roster[g.grantor].ref = g.ref
      /\ roster[g.subject].role = c.old
      /\ AppendRow(g)
      /\ roster' = [roster EXCEPT ![g.subject].role = "admin", ![g.subject].ref = g.id]
      /\ Holds(g.subject, "admin")
      /\ claims' = claims \ {c}
      /\ UNCHANGED <<day, desigs, rot, seen>>

DropClaim(c) ==
  /\ claims' = claims \ {c}
  /\ UNCHANGED <<day, roster, rows, desigs, rot, seen, held, exact>>

-----------------------------------------------------------------------------
RecordLogin(u) ==
  /\ u \in Away /\ ~SignedIn(u)
  /\ seen' = [seen EXCEPT ![u] = day]
  /\ UNCHANGED <<day, roster, rows, desigs, rot, claims, held, exact>>

RotateKeys(u) ==
  /\ u \in Rotators /\ SignedIn(u) /\ rot[u] = <<>>
  /\ rot' = [rot EXCEPT ![u] = <<day>>]
  /\ UNCHANGED <<day, roster, rows, desigs, seen, claims, held, exact>>

\* No request outlives midnight by more than a moment.
NextDay ==
  /\ day < MaxDay /\ claims = {}
  /\ day' = day + 1
  /\ held' = [u \in User |-> IF u \in Admins THEN held[u] \cup {day + 1} ELSE held[u]]
  /\ UNCHANGED <<roster, rows, desigs, rot, seen, claims, exact>>

Next ==
  \/ \E a, s \in User : \E e \in Dates(a) :
       \/ \E role \in Elevated \cup {"member"} : ChangeMemberRole(a, s, role, e)
       \/ RemoveMember(a, s, e)
  \/ \E u \in User : \E e \in Dates(u) :
       \/ LeaveGroup(u, e)
       \/ \E s \in User \cup {None} : PutDesignation(u, s, e)
       \/ \E d \in desigs : BeginClaim(u, d, e)
  \/ \E u \in User : CompleteInvite(u) \/ RecordLogin(u) \/ RotateKeys(u)
  \/ \E c \in claims : ClaimDesignation(c) \/ DropClaim(c)
  \/ NextDay

Spec == Init /\ [][Next]_vars

-----------------------------------------------------------------------------
Good == Verified(rows, desigs, rot)

\* The rows about u came in the order of their days: nobody whose clock is slow
\* took back a role given after the day it dated that.
InOrder(u) == \A g, h \in Of(rows, u) : g.id < h.id => g.day <= h.day

\* No row dated a day on which its signer was not an admin verifies, nor one
\* dated from the day somebody took the role away: whichever of the signer's
\* keys and grants it uses, and however late it turns up.
OnlyAdminsGrant ==
  LET good == Good
      takenOn(u, e) == \E g \in Of(rows, u) : g.role # "admin" /\ g.grantor # u /\ g.day = e
      late(u, e) == {[id |-> 0, subject |-> s, role |-> "admin", day |-> e, grantor |-> u,
                      ref |-> g.id, via |-> NoRow, key |-> k] :
                       s \in {CHOOSE s \in User : s # u}, g \in Of(rows, u),
                       k \in KeysOn(rot, u, e)}
  IN  \A u \in User, e \in 0..day :
        InOrder(u) /\ (e \notin held[u] \/ takenOn(u, e)) =>
          \A c \in late(u, e) :
            ~GrantVerifies(c, rows, {g \in good : g.day = e /\ g.subject = g.grantor},
                           {g \in good : g.day < e}, rot)

\* While nobody's clock is off, a row the server takes from somebody whose own
\* role verifies is one that verifies. Leaving on the day of one's promotion is
\* the exception docs/DESIGN.md names; claims have a property of their own.
AcceptedVerifies ==
  [][\A g \in rows' \ rows :
       (/\ exact' /\ g.via = NoRow
        /\ RoleBacked(rows, Good, g.grantor, roster[g.grantor].role)
        /\ g.subject = g.grantor => DatedAfterOwn(g.grantor, g.day))
         => g \in Good']_vars

\* Once nobody can date a row on its day any more, a row's verdict is final:
\* no later change of role, key or designation turns it around.
VerdictsSettle ==
  [][LET settled == {g \in rows : \A s \in Skew : g.day < day + s}
     IN  Good \cap settled = Good' \cap settled]_vars

\* What the two screens say of a designation agrees, and one that can be
\* claimed today by an admin's verified word makes a row that verifies.
OffersHold ==
  exact =>
    LET good == Good
    IN  \A d \in desigs : LET s == d.successor IN
          /\ s \in Members \ Admins /\ d \in Offers(s, rows, desigs, Admins, day)
               <=> /\ d.admin \in Admins /\ NewestOf(desigs, d.admin) = {d}
                   /\ SuccessorStatus(d.admin, rows, desigs, Members, Admins, day) = "active"
          /\ s \in Members /\ Claimable(s, d, day) /\ RoleBacked(rows, good, d.admin, "admin") =>
               LET g == ClaimRow(s, d, day, KeyOf(s))
               IN  ClaimVerifies(g, rows \cup {g}, desigs, {h \in good : h.day < day}, rot)
=============================================================================

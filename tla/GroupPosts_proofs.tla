--------------------------- MODULE GroupPosts_proofs ---------------------------
(***************************************************************************)
(* Posts keep up with the rotations that completed before them.  The       *)
(* handler reads the chain and the marker at two different moments, so the *)
(* argument relates four generations: a post's own, the one it read, the   *)
(* marker's, and the highest one a rotation has completed to.              *)
(***************************************************************************)
EXTENDS GroupPosts, GroupKeys_proofs

-----------------------------------------------------------------------------
\* Posting is only added to the key protocol: what is proved of that holds here.
LEMMA PostsRefineKeys == PostSpec => Spec
<1>1. PostInit => Init
  BY DEF PostInit
<1>2. [PostNext]_postVars => [Next]_vars
  BY DEF PostNext, postVars, KeyStep, BeginPost, ReadPostMarker, CreatePost, DropPost
<1> QED BY <1>1, <1>2, PTL DEF PostSpec, Spec

\* Some admin of a group with posts remains, whatever its requests do.
THEOREM AdminAlwaysWithPosts == PostSpec => []AdminRemains
BY PostsRefineKeys, AdminAlways, PTL

-----------------------------------------------------------------------------
(* The cutoff.  It is behind a running rotation and, as long as there is a  *)
(* group, never past its newest key.                                        *)

Exists == mode # "gone" \/ Members # {}

CutoffInv ==
  /\ cutoff \in Nat
  /\ Exists => cutoff <= CurrentGeneration
  /\ marker # NoMarker => cutoff < marker.gen

\* A group that is gone stays gone.
LEMMA ExistsBefore ==
  ASSUME TypeOK, [Next]_vars, Exists'
  PROVE  Exists
<1>1. mode' # "gone" => mode # "gone"
  BY ModeSteps
<1>2. ASSUME NEW u \in User, member'[u].role # "none", mode = "gone"
      PROVE  u \in Members
  BY <1>2, RowSteps DEF RowStep, Leaves, Joins, RoleChanges, Moves, Catches, Members
<1> QED BY <1>1, <1>2 DEF Exists, Members

\* Links go only with the group, and only CompleteRotation ends a rotation of a
\* group that exists.
LEMMA LinksAndCompletion ==
  ASSUME TypeOK, SweepInv, [Next]_vars
  PROVE  /\ links \subseteq links' \/ ~Exists'
         /\ marker # NoMarker /\ marker' = NoMarker /\ mode # "gone"
              => \E q \in reqs : CommitComplete(q)
<1>1. ASSUME NEW q \in reqs, SweepGroup(q) PROVE mode = "gone" /\ ~Exists'
  BY <1>1 DEF SweepGroup, SweepInv, Exists, Members, NoRow
<1> QED BY <1>1, LinksStep

\* A marker that a step writes is past the newest key as it was, when a leave
\* never starts a rotation towards a key that exists.
LEMMA NewMarkerAhead ==
  ASSUME TypeOK, ChainInv, RequestInv, [Next]_vars, BareMarkerUnminted',
         marker' # marker, marker' # NoMarker
  PROVE  Exists /\ CurrentGeneration < marker'.gen
<1>c. CurrentGeneration \in Nat /\ links = 0..(CurrentGeneration - 1)
  BY CurrentIs
<1>1. ASSUME NEW q \in reqs, CommitLeaveRotating(q)
      PROVE  Exists /\ CurrentGeneration < marker'.gen
  <2>1. /\ q.by \in User /\ q.gen \in Nat /\ NamesAnother(q) /\ q.op = "leave"
        /\ member[q.by].role = q.role /\ links' = links
        /\ marker' = [gen |-> q.gen + 1, by |-> q.by, removed |-> q.by]
    BY <1>1 DEF TypeOK, Request, RequestInv, CommitLeaveRotating, LeaveAllowed
  <2>2. Exists
    BY <2>1 DEF NamesAnother, Exists, Members
  <2>3. q.gen \notin links
    BY <2>1 DEF BareMarkerUnminted, BareLeave, NoMarker
  <2>4. marker'.gen = q.gen + 1
    BY <2>1
  <2> QED BY <2>1, <2>2, <2>3, <2>4, <1>c
<1>2. ASSUME NEW u \in User, NEW g \in Nat, NEW r, Mint(u, g, r)
      PROVE  Exists /\ CurrentGeneration < marker'.gen
  <2>1. g \notin links /\ u \in Members /\ marker'.gen = g + 1
    BY <1>2 DEF Mint, MintAllowed, AdminAt, IsAdmin, Members
  <2> QED BY <2>1, <1>c DEF Exists
<1>3. ASSUME NEW u \in User, TakeOverLeaveRotation(u)
      PROVE  Exists /\ CurrentGeneration < marker'.gen
  <2>1. member[u].gen \in Nat /\ Mint(u, member[u].gen, marker.removed)
    BY <1>3 DEF TakeOverLeaveRotation, TypeOK, Row
  <2> QED BY <2>1, <1>2
<1> QED BY <1>1, <1>2, <1>3, MarkerSteps DEF MarkerStep

\* The inductive step of the cutoff.
LEMMA CutoffStep ==
  ASSUME TypeOK, ChainInv, ChainInv', RequestInv, SweepInv, BareMarkerUnminted',
         CutoffInv, KeyStep
  PROVE  CutoffInv' /\ cutoff <= cutoff'
<1>n. [Next]_vars
  BY DEF KeyStep
<1>c. /\ CurrentGeneration \in Nat /\ links = 0..(CurrentGeneration - 1)
      /\ CurrentGeneration' \in Nat /\ links' = 0..(CurrentGeneration' - 1)
  BY CurrentIs
<1>m. marker.gen \in Nat
  BY DEF TypeOK, Marker
<1>1. cutoff' \in Nat /\ cutoff <= cutoff'
  BY <1>m DEF KeyStep, CutoffInv
<1>2. ASSUME Exists' PROVE cutoff' <= CurrentGeneration'
  <2>1. Exists /\ cutoff <= CurrentGeneration
    BY <1>2, <1>n, ExistsBefore DEF CutoffInv
  <2>2. links \subseteq links'
    BY <1>2, <1>n, LinksAndCompletion
  <2>3. CurrentGeneration <= CurrentGeneration'
    BY <2>2, <1>c, PrefixGrows
  <2>4. CASE cutoff' = cutoff
    BY <2>1, <2>3, <2>4, <1>c, <1>1 DEF CutoffInv
  <2>5. CASE cutoff' # cutoff
    <3>1. /\ cutoff' = marker.gen
          /\ marker # NoMarker /\ marker' = NoMarker /\ mode # "gone"
      BY <2>5 DEF KeyStep
    <3> PICK q \in reqs : CommitComplete(q)
      BY <3>1, <1>n, LinksAndCompletion
    <3>2. /\ q.by \in Members /\ member[q.by].gen = marker.gen
      BY DEF CommitComplete, AdminAt, IsAdmin, Members, TypeOK, Request
    <3>3. marker.gen <= CurrentGeneration
      BY <3>2, CurrentIs
    <3> QED BY <3>1, <3>3, <2>3, <1>c, <1>m
  <2> QED BY <2>4, <2>5
<1>3. ASSUME marker' # NoMarker PROVE cutoff' < marker'.gen
  <2>1. cutoff' = cutoff /\ cutoff \in Nat
    BY <1>3 DEF KeyStep, CutoffInv
  <2>2. CASE marker' = marker
    BY <1>3, <2>1, <2>2 DEF CutoffInv
  <2>3. CASE marker' # marker
    <3>1. Exists /\ CurrentGeneration < marker'.gen
      BY <1>3, <2>3, <1>n, NewMarkerAhead
    <3>2. cutoff <= CurrentGeneration /\ marker'.gen \in Nat
      BY <3>1, <1>n, NextTyped DEF CutoffInv, TypeOK, Marker
    <3> QED BY <2>1, <3>1, <3>2, <1>c
  <2> QED BY <2>2, <2>3
<1> QED BY <1>1, <1>2, <1>3 DEF CutoffInv

-----------------------------------------------------------------------------
(* Posts in flight.                                                        *)

PostingInv ==
  \A p \in posting :
    /\ p.floor \in Nat /\ p.current \in Nat
    /\ p.floor <= cutoff /\ p.floor <= p.current
    /\ p.marked # Unread => p.floor <= p.gen

\* The inductive step: the reads of a post, and the key steps between them.
LEMMA PostingStep ==
  ASSUME TypeOK, ChainInv, CutoffInv, PostingInv, [PostNext]_postVars,
         cutoff' \in Nat, cutoff <= cutoff'
  PROVE  PostingInv'
<1>c. cutoff \in Nat /\ CurrentGeneration \in Nat /\ marker.gen \in Nat
  BY CurrentIs DEF CutoffInv, TypeOK, Marker
<1>1. ASSUME NEW u \in User, NEW g \in 0..MaxGen, BeginPost(u, g) PROVE PostingInv'
  <2>1. /\ NewPost(u, g).floor = cutoff /\ NewPost(u, g).current = CurrentGeneration
        /\ NewPost(u, g).marked = Unread
    BY DEF NewPost
  <2>2. cutoff <= CurrentGeneration
    BY <1>1 DEF BeginPost, CutoffInv, Exists
  <2> QED BY <1>1, <2>1, <2>2, <1>c DEF BeginPost, PostingInv
<1>2. ASSUME NEW p \in posting, ReadPostMarker(p) PROVE PostingInv'
  <2> DEFINE r == [p EXCEPT !.marked = marker.gen]
  <2>1. p.floor <= p.gen
    BY <1>2, <1>c DEF ReadPostMarker, PostGeneration, PostingInv, CutoffInv
  <2>2. r.floor = p.floor /\ r.current = p.current /\ r.gen = p.gen
    OBVIOUS
  <2>3. posting' \subseteq posting \cup {r} /\ cutoff' = cutoff
    BY <1>2 DEF ReadPostMarker
  <2> QED BY <2>1, <2>2, <2>3 DEF PostingInv
<1>3. ASSUME posting' \subseteq posting PROVE PostingInv'
  BY <1>3, <1>c DEF PostingInv
<1>4. \A p \in posting : CreatePost(p) \/ DropPost(p) => posting' \subseteq posting
  BY DEF CreatePost, DropPost
<1> QED BY <1>1, <1>2, <1>3, <1>4 DEF PostNext, KeyStep, postVars

\* If no leave starts a rotation towards a key that is already minted, a post is
\* never sealed for a key older than the newest whose rotation had completed when
\* its handler began, however its reads and other requests interleave.
THEOREM PostsKeepUp == PostSpec /\ []BareMarkerUnminted => PostNotBehindItsStart
<1> DEFINE Keys == TypeOK /\ ChainInv /\ RequestInv /\ SweepInv
           Inv  == Keys /\ CutoffInv /\ PostingInv
<1>1. PostInit => Inv
  BY InitTyped, ChainInit
  DEF PostInit, Init, RequestInv, SweepInv, CutoffInv, PostingInv, CurrentGeneration
<1>2. Keys /\ [PostNext]_postVars => Keys'
  <2>1. [PostNext]_postVars => [Next]_vars
    BY DEF PostNext, postVars, KeyStep, BeginPost, ReadPostMarker, CreatePost, DropPost
  <2> QED BY <2>1, NextTyped, ChainNext, RequestNext, SweepNext
<1>3. Inv /\ BareMarkerUnminted' /\ [PostNext]_postVars => Inv'
  <2> SUFFICES ASSUME Inv, BareMarkerUnminted', [PostNext]_postVars PROVE Inv'
    OBVIOUS
  <2>1. ASSUME KeyStep PROVE CutoffInv' /\ cutoff <= cutoff'
    BY <2>1, <1>2, CutoffStep
  <2>2. ASSUME UNCHANGED <<vars, cutoff>> PROVE CutoffInv' /\ cutoff <= cutoff'
    BY <2>2 DEF CutoffInv, Exists, Members, CurrentGeneration, vars, groupRows
  <2>3. CutoffInv' /\ cutoff <= cutoff'
    BY <2>1, <2>2
    DEF PostNext, postVars, BeginPost, ReadPostMarker, CreatePost, DropPost, CutoffInv
  <2> QED BY <2>3, <1>2, PostingStep DEF CutoffInv
<1>4. Inv /\ [PostNext]_postVars
        => [\A p \in posting : CreatePost(p) => p.gen >= p.floor]_postVars
  BY DEF PostingInv, CreatePost, PostAllowed
<1> QED BY <1>1, <1>3, <1>4, PTL DEF PostSpec, PostNotBehindItsStart
=============================================================================

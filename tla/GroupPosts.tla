------------------------------ MODULE GroupPosts ------------------------------
(***************************************************************************)
(* Creating posts while the group's keys rotate.  The handler reads the    *)
(* author's rows, then the current generation from the chain, then the     *)
(* rotation marker, and only then decides which generation new posts use;  *)
(* the transaction repeats the author's checks and pins the marker it      *)
(* read.  Any request of GroupKeys may run between these steps.            *)
(*                                                                         *)
(* A post is abstracted to its author and the generation it is sealed for. *)
(* Resending a stored post changes nothing and is left out, as are the     *)
(* address, the day and the expiry.                                        *)
(***************************************************************************)
EXTENDS GroupKeys

CONSTANTS
  Authors,   \* bound: the accounts that post
  MaxPost    \* bound: post requests in flight at once

ASSUME PostBoundAssumption == Authors \subseteq User /\ MaxPost \in Nat

VARIABLES
  posting,   \* post requests between their reads and their transaction
  posts,     \* the posts stored
  cutoff     \* history: the highest generation a rotation has completed to

postVars == <<vars, posting, posts, cutoff>>

\* What a request carries: the post's author and generation, the author's key
\* epoch and the current generation as read, the marker's generation as read (0
\* for none, Unread before), and for the properties the cutoff when it started.
Unread == -1

PostInit ==
  /\ Init
  /\ posting = {} /\ posts = {} /\ cutoff = 0

\* CompleteRotation is what cuts a removed member off; a deleted group's marker
\* goes with the sweep and cuts nobody off.
KeyStep ==
  /\ Next
  /\ cutoff' = IF marker # NoMarker /\ marker' = NoMarker /\ mode # "gone"
                 /\ marker.gen > cutoff
               THEN marker.gen ELSE cutoff
  /\ UNCHANGED <<posting, posts>>

NewPost(u, g) ==
  [by |-> u, gen |-> g, epoch |-> keyEpoch[u],
   current |-> CurrentGeneration, marked |-> Unread, floor |-> cutoff]

BeginPost(u, g) ==
  /\ u \in Authors /\ u \in Members /\ mode # "gone"
  /\ member[u].gen >= g /\ ~Dormant(u)
  /\ Cardinality(posting) < MaxPost
  /\ posting' = posting \cup {NewPost(u, g)}
  /\ UNCHANGED <<vars, posts, cutoff>>

\* The generation new posts use: the one below a running rotation's.
PostGeneration(p) ==
  IF marker # NoMarker THEN marker.gen - 1 ELSE p.current

ReadPostMarker_AnyGeneration(p) ==   \* faulty: any generation is taken
  /\ p.marked = Unread
  /\ posting' = (posting \ {p}) \cup {[p EXCEPT !.marked = marker.gen]}
  /\ UNCHANGED <<vars, posts, cutoff>>

ReadPostMarker(p) ==
  /\ p.marked = Unread
  /\ p.gen = PostGeneration(p)
  /\ posting' = (posting \ {p}) \cup {[p EXCEPT !.marked = marker.gen]}
  /\ UNCHANGED <<vars, posts, cutoff>>

AuthorUnchanged(p) ==
  /\ p.by \in Members /\ member[p.by].gen >= p.gen
  /\ member[p.by].epoch = p.epoch
  /\ keyEpoch[p.by] = p.epoch /\ Live(p.by)

PostAllowed(p) == p.marked # Unread /\ AuthorUnchanged(p) /\ marker.gen = p.marked

CreatePost(p) ==
  /\ PostAllowed(p)
  /\ posting' = posting \ {p}
  /\ posts' = posts \cup {[by |-> p.by, gen |-> p.gen]}
  /\ UNCHANGED <<vars, cutoff>>

DropPost(p) ==
  /\ posting' = posting \ {p}
  /\ UNCHANGED <<vars, posts, cutoff>>

PostNext ==
  \/ KeyStep
  \/ \E u \in User, g \in 0..MaxGen : BeginPost(u, g)
  \/ \E p \in posting : ReadPostMarker(p) \/ CreatePost(p) \/ DropPost(p)

PostSpec == PostInit /\ [][PostNext]_postVars

-----------------------------------------------------------------------------
\* A post is never sealed for a key older than the newest one whose rotation
\* had completed when its handler started: not for a removed member's key.
PostNotBehindItsStart ==
  [][\A p \in posting : CreatePost(p) => p.gen >= p.floor]_postVars
=============================================================================

------------------------------ MODULE KeyChain ------------------------------
(***************************************************************************)
(* What a Rotating group promises about its keys, without markers, links   *)
(* or requests: generations are numbered 0, 1, 2, ... and a new one is     *)
(* minted by a holder of the newest, only when the one before is settled   *)
(* (its removed member is cut off); nobody's entry point moves backward.   *)
(***************************************************************************)
EXTENDS Integers

CONSTANT User

VARIABLES
  current,   \* the newest generation minted
  settled,   \* whether no rotation towards the newest generation is running
  entry      \* the generation of each member's entry point, -1 for no member

chainVars == <<current, settled, entry>>

NoEntry == -1

ChainInit ==
  /\ current = 0 /\ settled = TRUE
  /\ entry \in [User -> {NoEntry, 0}]

\* A member joins with a key some member holds.
Admit(u) ==
  /\ entry[u] = NoEntry /\ entry'[u] # NoEntry
  /\ \E i \in User : entry'[u] = entry[i]
  /\ \A v \in User \ {u} : entry'[v] = entry[v]
  /\ UNCHANGED <<current, settled>>

\* Some members' entries move up to the generation of one whose entry stays.
Advance(moved) ==
  /\ \A u \in User \ moved : entry'[u] = entry[u]
  /\ \E i \in User \ moved : \A u \in moved :
       entry[u] # NoEntry /\ entry[u] <= entry[i] /\ entry'[u] = entry[i]
  /\ UNCHANGED <<current, settled>>

\* A member goes.  One that was a generation behind reopens the newest one: the
\* rotation its leave starts runs towards a key that has been minted already.
Depart(u) ==
  /\ entry' = [entry EXCEPT ![u] = NoEntry]
  /\ current' = current
  /\ \/ settled' = settled
     \/ settled' = FALSE /\ entry[u] = current - 1

\* A holder of the newest key mints the next.  One other account may go with the
\* same step (it is removed) or come along (its key change is approved).
MintNext(u, v) ==
  /\ settled /\ entry[u] = current
  /\ current' = current + 1 /\ settled' = FALSE
  /\ entry'[u] = current + 1
  /\ v # u => \/ entry'[v] \in {entry[v], NoEntry}
              \/ entry[v] = current /\ entry'[v] = current + 1
  /\ \A w \in User \ {u, v} : entry'[w] = entry[w]

\* Every member that could be moved has been: the rotation is over.
Settle ==
  /\ ~settled /\ settled' = TRUE
  /\ UNCHANGED <<current, entry>>

Disband ==
  /\ current' = 0 /\ settled' = TRUE
  /\ entry' = [u \in User |-> NoEntry]

ChainNext ==
  \/ \E u \in User : Admit(u) \/ Depart(u)
  \/ \E moved \in SUBSET User : Advance(moved)
  \/ \E u, v \in User : MintNext(u, v)
  \/ Settle
  \/ Disband

ChainSpec == ChainInit /\ [][ChainNext]_chainVars
=============================================================================

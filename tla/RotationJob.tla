---------------------------- MODULE RotationJob ----------------------------
(***************************************************************************)
(* The web client's rotation job (web/src/routes): runRotation, which      *)
(* resumes a rotation or catches members up from fresh reads of the        *)
(* server; the removal, the approval and the re-admission that run it      *)
(* under the tab's guard; and the acceptance of a changed key.             *)
(*                                                                         *)
(* Every read and every request is a step, so other tabs, other admins and *)
(* the members act in between.  A request takes effect at once (how the    *)
(* handlers interleave is GroupKeys' subject); its answer may be lost.     *)
(* Keys are the account's KeyEpoch; signatures of starts and links always  *)
(* verify under the keys their signer has, so what can be wrong with one   *)
(* is the reader's pin of the signer.                                      *)
(***************************************************************************)
EXTENDS Integers, Sequences, FiniteSets

CONSTANTS
  User, NoOne, Creator,
  Founder,    \* role of each account at the start
  Tab, Owner, \* the open tabs, and whose they are
  Leavers,    \* bound: the accounts that may leave
  Changers,   \* bound: the accounts that change their keys
  Strays,     \* bound: the accounts whose row may be listed again uninvited
  Spoiled,    \* bound: the accounts whose admission record may stop verifying
  MaxGen, MaxKey, MaxLost, \* bounds: generations, key changes, lost answers
  MaxPass,    \* passes of a job before it gives up
  Batch       \* recipients of one request

ASSUME JobAssumption ==
  /\ Creator \in User /\ NoOne \notin User
  /\ Founder \in [User -> {"out", "member", "ambassador", "admin"}]
  /\ Founder[Creator] = "admin" /\ \A v \in Strays \cap User : Founder[v] # "out"
  /\ Owner \in [Tab -> User]
  /\ {MaxGen, MaxKey, MaxLost} \subseteq Nat
  /\ {MaxPass, Batch} \subseteq Nat \ {0}

VARIABLES
  row,        \* MEMBER# rows
  key,        \* each account's KeyEpoch
  marker,     \* ROTATION
  links,      \* GENKEY#: who minted generation 1, 2, ... and why
  admission,  \* ADMISSION#: the generation each member's record was signed at
  pins,       \* each account's pins of the others' keys
  tab,        \* what each tab's guard is held for
  screen,     \* what each tab shows
  lost,       \* answers lost so far
  invited     \* history: let in by somebody, and not out since

server == <<row, key, marker, links, admission>>
vars   == <<server, pins, tab, screen, lost, invited>>

None     == -1
Out      == [role |-> "out", gen |-> 0, epoch |-> 0]
NoMarker == [gen |-> None, by |-> NoOne, who |-> NoOne, kind |-> "none"]
NoPrompt == [kind |-> "none", who |-> NoOne, print |-> None]

NoJob ==
  [pc |-> "idle", who |-> NoOne, print |-> None, own |-> 0, mk |-> NoMarker,
   exclude |-> {}, blocked |-> {}, changed |-> {}, unadmitted |-> {}, readmittable |-> {},
   todo |-> {}, batch |-> {}, saved |-> [v \in User |-> None], ctx |-> {},
   restarted |-> FALSE, moved |-> FALSE, mint |-> FALSE, second |-> FALSE,
   unsettled |-> "ambiguous", pass |-> 0]

Members     == {u \in User : row[u].role # "out"}
IsAdmin(u)  == row[u].role = "admin"
Inviting(u) == row[u].role \in {"admin", "ambassador"}
Dormant(u)  == row[u].epoch < key[u]
AdminAt(u, g) == IsAdmin(u) /\ row[u].gen = g
BareLeave(mk) == mk # NoMarker /\ mk.by = mk.who

Init ==
  /\ row = [u \in User |-> [Out EXCEPT !.role = Founder[u]]]
  /\ key = [u \in User |-> 0]
  /\ marker = NoMarker /\ links = <<>>
  /\ admission = [u \in User |-> IF u \in Members \ {Creator} THEN 0 ELSE None]
  /\ pins \in [User -> [User -> {None, 0}]]
  /\ \A u, v \in User : pins[u][v] = 0 <=> u = Creator /\ v \in Members \ {u}
  /\ tab = [t \in Tab |-> NoJob]
  /\ screen = [t \in Tab |-> [status |-> "unknown", said |-> "nothing", readmittable |-> {},
                              prompt |-> NoPrompt]]
  /\ lost = 0
  /\ invited = Members

-----------------------------------------------------------------------------
(* Pins and admissions.                                                    *)

Verdict(p, k) == CASE p = None -> "first-sight" [] p = k -> "match"
                   [] p < k -> "mismatch" [] p > k -> "rollback"

\* The allowlist of every check: what is not one of these blocks.
Trusted(p, k) == Verdict(p, k) \in {"match", "first-sight"}

\* The keys of whoever signed something the job relies on; one's own are known.
SignersTrusted(u, signers) == \A s \in signers \ {u} : Trusted(pins[u][s], key[s])

RemovedAt_BelowOwn(g) ==     \* faulty: the links are read one short
  [v \in User |->
     LET at == {i \in 1..(g - 1) : links[i].kind = "removal" /\ links[i].who = v}
     IN  IF at = {} THEN 0 ELSE CHOOSE i \in at : \A k \in at : k <= i]

\* removedAt: the newest generation whose minting removed v, 0 for nobody's.
RemovedAt(g) ==
  [v \in User |->
     LET at == {i \in 1..g : links[i].kind = "removal" /\ links[i].who = v}
     IN  IF at = {} THEN 0 ELSE CHOOSE i \in at : \A k \in at : k <= i]

\* Who minted the generations up to g.
Removers(g) == {links[i].by : i \in 1..g}

\* The admission records and the removal history up to the caller's own
\* generation; nothing when a remover's keys do not match the caller's pin.
LoadAdmissions(u, g) ==
  IF SignersTrusted(u, Removers(g))
  THEN {[record |-> admission, removedAt |-> RemovedAt(g)]} ELSE {}

Admitted_OldRecord(c, v) == v = Creator \/ c.record[v] # None   \* faulty: removals forgotten

Admitted(c, v) ==
  \/ v = Creator /\ c.removedAt[v] = 0
  \/ c.record[v] # None /\ c.record[v] >= c.removedAt[v]

-----------------------------------------------------------------------------
(* Requests, as the server answers them.                                   *)

Mint(u, who, kind) ==
  /\ links' = Append(links, [by |-> u, who |-> who, kind |-> kind])
  /\ marker' = [gen |-> row[u].gen + 1, by |-> u, who |-> who, kind |-> kind]

MintAllowed(u, g) == AdminAt(u, g) /\ ~Dormant(u) /\ Len(links) = g /\ g < MaxGen
Moved(u, g) == [row[u] EXCEPT !.gen = g, !.epoch = key[u]]

\* The epoch a re-wrap states for each recipient: the client's RewrapEntry has
\* no such field, and the handler reads an absent one as 0.
StatedEpoch(v) == 0

RewrapAnswer(u, g, batch) ==
  CASE marker # NoMarker /\ marker.gen # g -> "rotation_not_active"
    [] ~AdminAt(u, g) -> "rotation_caller_behind"
    [] OTHER ->
       IF \E v \in batch : key[v] # StatedEpoch(v) THEN "wrap_epoch_stale"
       ELSE IF \E v \in batch : \/ v \notin Members \/ row[v].gen > g
                                \/ marker = NoMarker /\ row[v].gen = g THEN "member_changed"
       ELSE IF \E v \in batch : row[v].epoch # StatedEpoch(v) THEN "member_dormant"
       ELSE "ok"

RewrapWrites(t) ==
  LET j == tab[t]
  IN  /\ row' = IF RewrapAnswer(Owner[t], j.own, j.batch) = "ok"
                THEN [v \in User |-> IF v \in j.batch THEN [row[v] EXCEPT !.gen = j.own] ELSE row[v]]
                ELSE row
      /\ UNCHANGED <<key, marker, links, admission, invited>>

CompleteAnswer(u, g) ==
  CASE marker = NoMarker \/ marker.gen # g -> "rotation_not_active"
    [] ~AdminAt(u, g) -> "rotation_caller_behind"
    [] \E v \in Members : row[v].gen < g /\ ~Dormant(v) -> "members_behind"
    [] OTHER -> "ok"

CompleteWrites(t) ==
  /\ marker' = IF CompleteAnswer(Owner[t], tab[t].own) = "ok" THEN NoMarker ELSE marker
  /\ UNCHANGED <<row, key, links, admission, invited>>

\* The bare marker becomes the caller's rotation; the leaver's record goes.
TakeOverWrites(t) ==
  LET u == Owner[t]  who == tab[t].mk.who
  IN  IF marker = tab[t].mk /\ MintAllowed(u, tab[t].own)
      THEN /\ Mint(u, who, "removal")
           /\ row' = [row EXCEPT ![u] = Moved(u, row[u].gen + 1)]
           /\ admission' = [admission EXCEPT ![who] = None]
           /\ UNCHANGED <<key, invited>>
      ELSE UNCHANGED <<server, invited>>

RemoveAnswer(u, g, v) ==
  CASE v \notin Members -> "not_found" [] marker # NoMarker -> "rotation_in_progress"
    [] ~MintAllowed(u, g) -> "rotation_stale_generation" [] OTHER -> "ok"

RemoveWrites(t) ==
  LET u == Owner[t]  v == tab[t].who
  IN  IF RemoveAnswer(u, tab[t].own, v) = "ok"
      THEN /\ Mint(u, v, "removal")
           /\ row' = [row EXCEPT ![u] = Moved(u, row[u].gen + 1), ![v] = Out]
           /\ admission' = [admission EXCEPT ![v] = None]
           /\ invited' = invited \ {v}
           /\ UNCHANGED key
      ELSE UNCHANGED <<server, invited>>

\* The two writes of an approval.  Each states the epoch that was confirmed.
ApproveAnswer(how, u, g, v, k) ==
  CASE v \notin Members -> "not_found"
    [] ~Inviting(u) \/ row[u].gen # g -> "generation"
    [] k # key[v] -> "wrap_epoch_stale"
    [] ~Dormant(v) -> "member_not_dormant"
    [] how = "rewrap" /\ marker # NoMarker /\ marker.gen # g -> "rotation_not_active"
    [] how = "rewrap" /\ row[v].gen >= g -> "rekey_required"
    [] how = "rekey" /\ marker # NoMarker -> "rotation_in_progress"
    [] how = "rekey" /\ row[v].gen < g -> "rekey_not_required"
    [] how = "rekey" /\ ~MintAllowed(u, g) -> "conflict_retry"
    [] OTHER -> "ok"

\* The roster says which write applies; a refusal tries the other one, once.
How(j) == IF j.mint # j.second THEN "rekey" ELSE "rewrap"

ApproveWrites(t) ==
  LET u == Owner[t]  v == tab[t].who  g == tab[t].own
  IN  IF ApproveAnswer(How(tab[t]), u, g, v, tab[t].print) # "ok"
      THEN UNCHANGED <<server, invited>>
      ELSE /\ IF How(tab[t]) = "rekey"
              THEN /\ Mint(u, v, "rekey")
                   /\ row' = [row EXCEPT ![u] = Moved(u, g + 1), ![v] = Moved(v, g + 1)]
              ELSE row' = [row EXCEPT ![v] = Moved(v, g)] /\ UNCHANGED <<marker, links>>
           /\ UNCHANGED <<key, admission, invited>>

ReadmitWrites(t) ==
  LET v == tab[t].who
  IN  /\ admission' = IF Inviting(Owner[t]) /\ row[Owner[t]].gen = tab[t].own /\ v \in Members
                         /\ key[v] = tab[t].print
                      THEN [admission EXCEPT ![v] = tab[t].own] ELSE admission
      /\ UNCHANGED <<row, key, marker, links, invited>>

-----------------------------------------------------------------------------
(* What a tab does next.                                                   *)

Go(t, j) == tab' = [tab EXCEPT ![t] = j] /\ UNCHANGED screen

\* The job starts over from a fresh read; what it already excludes and whether
\* it re-wrapped anyone carry over.
Reload(j, restarted) ==
  [NoJob EXCEPT !.pc = "load", !.exclude = j.exclude, !.moved = j.moved, !.restarted = restarted]

\* The first job of a flow.
Run(t, exclude) == Go(t, [NoJob EXCEPT !.pc = "load", !.exclude = exclude])

\* What the roster offers to re-admit after a job, readmittableAfter.
Offered(status, j, before) ==
  CASE status = "blocked" -> j.readmittable
    [] status \in {"incomplete", "cannot-resume"} -> before
    [] OTHER -> {}

\* The job is over: the guard is released and the prompt it ran under is gone.
Finish(t, status) ==
  /\ tab' = [tab EXCEPT ![t] = NoJob]
  /\ screen' = [screen EXCEPT ![t].status = status, ![t].prompt = NoPrompt,
                              ![t].readmittable = Offered(status, tab[t], @)]

\* A flow that ends without a job.
Say(t, what) ==
  /\ tab' = [tab EXCEPT ![t] = NoJob]
  /\ screen' = [screen EXCEPT ![t].said = what, ![t].prompt = NoPrompt]

\* A flow that says something and goes on with a job.
SayAndRun(t, what) ==
  /\ tab' = [tab EXCEPT ![t] = [NoJob EXCEPT !.pc = "load"]]
  /\ screen' = [screen EXCEPT ![t].said = what]

-----------------------------------------------------------------------------
(* The steps of runRotation.                                               *)

OpenGroup(t) ==
  /\ tab[t].pc = "idle" /\ IsAdmin(Owner[t])
  /\ Run(t, {})
  /\ UNCHANGED <<server, pins, lost, invited>>

\* The leaver's key has a reason to be trusted that is not the server's word:
\* the caller's pin, or the admission that let them in.
LeaverKeyTrusted(u, g, who) ==
  \/ Verdict(pins[u][who], key[who]) = "match"
  \/ /\ pins[u][who] = None
     /\ \E c \in LoadAdmissions(u, g) : Admitted(c, who)

StartVerified(u) == SignersTrusted(u, {marker.by})

\* Whom the marker's signed start removes; a re-key removed nobody.
PutOut == IF marker.kind = "removal" THEN {marker.who} ELSE {}

Load(t) ==
  LET j == tab[t]  u == Owner[t]  own == row[u].gen
      behindLeave == BareLeave(marker) /\ marker.gen = own + 1 /\ ~j.restarted
  IN  /\ j.pc = "load"
      /\ CASE ~IsAdmin(u) -> Finish(t, "none")
           [] IsAdmin(u) /\ behindLeave ->
                IF StartVerified(u) /\ LeaverKeyTrusted(u, own, marker.who)
                THEN Go(t, [j EXCEPT !.pc = "takeover", !.own = own, !.mk = marker])
                ELSE Finish(t, "incomplete")
           [] IsAdmin(u) /\ ~behindLeave /\ marker # NoMarker /\ marker.gen # own ->
                Finish(t, "cannot-resume")
           [] OTHER ->
                IF marker # NoMarker /\ ~StartVerified(u)
                THEN Finish(t, "incomplete")
                ELSE Go(t, [Reload(j, j.restarted) EXCEPT !.pc = "list", !.own = own,
                              !.mk = marker, !.exclude = @ \cup PutOut])
      /\ UNCHANGED <<server, pins, lost, invited>>

\* Somebody else's takeover and one's own both end in a fresh read.  A dormant
\* caller cannot open the key it would link from.
TakeOver(t) ==
  LET j == tab[t]  u == Owner[t]
  IN  /\ j.pc = "takeover"
      /\ IF Dormant(u) THEN Finish(t, "incomplete") /\ UNCHANGED <<server, invited>>
         ELSE /\ TakeOverWrites(t)
              /\ IF marker # j.mk \/ MintAllowed(u, j.own)
                 THEN Go(t, Reload(j, TRUE)) ELSE Finish(t, "incomplete")
      /\ UNCHANGED <<pins, lost>>

\* Everyone behind whom nothing has ruled out; the pins and the roster are read
\* again in every pass.
Behind(t) ==
  LET j == tab[t]
  IN  {v \in Members \ ({Owner[t]} \cup j.blocked \cup j.unadmitted \cup j.exclude) :
         row[v].gen < j.own}

Outcome(j) ==
  CASE j.blocked \cup j.unadmitted # {} -> "blocked"
    [] j.mk = NoMarker /\ j.moved -> "caught-up" [] OTHER -> "none"

ListAgain(t, read, pass) ==
  LET j == [tab[t] EXCEPT !.saved = read, !.ctx = {}, !.pass = pass, !.todo = Behind(t)]
  IN  /\ tab[t].pc = "list"
      /\ CASE pass > MaxPass -> Finish(t, "incomplete")
           [] pass <= MaxPass /\ j.todo # {} -> Go(t, [j EXCEPT !.pc = "check"])
           [] pass <= MaxPass /\ j.todo = {} /\ j.blocked \cup j.unadmitted = {} /\ j.mk # NoMarker ->
                Go(t, [j EXCEPT !.pc = "complete"])
           [] OTHER -> Finish(t, Outcome(j))
      /\ UNCHANGED <<server, pins, lost, invited>>

List_PinsReadOnce(t) ==      \* faulty: the pins of the first pass serve them all
  ListAgain(t, IF tab[t].pass = 0 THEN pins[Owner[t]] ELSE tab[t].saved, tab[t].pass + 1)
List_NoPassLimit(t) ==       \* faulty: passes are not counted
  ListAgain(t, pins[Owner[t]], 1)

List(t) == ListAgain(t, pins[Owner[t]], tab[t].pass + 1)

Complete_Behind(t) ==        \* faulty: members_behind taken for done
  /\ tab[t].pc = "complete" /\ CompleteWrites(t) /\ Finish(t, "completed")
  /\ UNCHANGED <<pins, lost>>

Complete(t) ==
  LET answer == CompleteAnswer(Owner[t], tab[t].own)
  IN  /\ tab[t].pc = "complete"
      /\ CompleteWrites(t)
      /\ CASE answer \in {"ok", "rotation_not_active"} -> Finish(t, "completed")
           [] answer = "members_behind" -> Go(t, [tab[t] EXCEPT !.pc = "list"])
           [] OTHER -> Finish(t, "incomplete")
      /\ UNCHANGED <<pins, lost>>

\* A chunk, admins first: admission before the pin, so nobody uninvited is even
\* pinned; a key seen for the first time is pinned as it is served.
Chunks(j) ==
  {s \in SUBSET j.todo :
     /\ s # {} /\ Cardinality(s) = IF Cardinality(j.todo) < Batch THEN Cardinality(j.todo) ELSE Batch
     /\ \A v \in s, w \in j.todo \ s : IsAdmin(w) => IsAdmin(v)}

Check(t) ==
  LET j == tab[t]  u == Owner[t]
      loaded == IF j.ctx # {} THEN j.ctx ELSE LoadAdmissions(u, j.own)
  IN  /\ j.pc = "check"
      /\ IF loaded = {} THEN Finish(t, "incomplete") /\ UNCHANGED pins
         ELSE \E chunk \in Chunks(j), c \in loaded :
           LET in      == {v \in chunk : Admitted(c, v)}
               trusted == {v \in in : Trusted(j.saved[v], key[v])}
               seen    == {v \in trusted : j.saved[v] = None}
               next    == [j EXCEPT !.ctx = loaded, !.todo = @ \ chunk, !.batch = trusted,
                             !.unadmitted = @ \cup (chunk \ in),
                             !.readmittable = @ \cup {v \in chunk \ in : c.removedAt[v] = 0},
                             !.blocked = @ \cup (in \ trusted),
                             !.changed = @ \cup {v \in in \ trusted : j.saved[v] < key[v]}]
           IN  /\ pins' = [pins EXCEPT ![u] = [v \in User |-> IF v \in seen THEN key[v] ELSE @[v]]]
               /\ Go(t, [next EXCEPT !.pc = CASE trusted # {} -> "send"
                                              [] trusted = {} /\ next.todo # {} -> "check"
                                              [] OTHER -> "list"])
      /\ UNCHANGED <<server, lost, invited>>

Send(t) ==
  LET j == tab[t]  answer == RewrapAnswer(Owner[t], j.own, j.batch)
  IN  /\ j.pc = "send"
      /\ IF Dormant(Owner[t]) THEN Finish(t, "incomplete") /\ UNCHANGED <<server, invited>>
         ELSE /\ RewrapWrites(t)
              /\ CASE answer = "ok" -> Go(t, [j EXCEPT !.pc = IF j.todo # {} THEN "check" ELSE "list",
                                                  !.moved = TRUE])
                   [] answer = "member_changed" -> Go(t, [j EXCEPT !.pc = "list"])
                   [] answer = "rotation_not_active" /\ ~j.restarted -> Go(t, Reload(j, TRUE))
                   [] OTHER -> Finish(t, "incomplete")
      /\ UNCHANGED <<pins, lost>>

-----------------------------------------------------------------------------
(* Removal.                                                                *)

\* The job a removal's outcome needs, by whom it excludes: none, or one.
NeededAfter(outcome, v) ==
  CASE outcome \in {"ok", "ambiguous"} -> {{v}}
    [] outcome = "rotation_in_progress" -> {{}}
    [] OTHER -> {}

AfterRemoval(t, outcome, v) ==
  \/ \E exclude \in NeededAfter(outcome, v) : Run(t, exclude)
  \/ NeededAfter(outcome, v) = {} /\ Say(t, outcome)

\* The guard is taken; the removal waits for its read.
BeginRemove(t, v) ==
  /\ tab[t].pc = "idle" /\ v # Owner[t]
  /\ Go(t, [NoJob EXCEPT !.pc = "remove", !.who = v])
  /\ UNCHANGED <<server, pins, lost, invited>>

RemoveRead(t) ==
  LET j == tab[t]  u == Owner[t]
  IN  /\ j.pc = "remove"
      /\ CASE ~IsAdmin(u) -> AfterRemoval(t, "forbidden", j.who)
           [] IsAdmin(u) /\ marker # NoMarker -> AfterRemoval(t, "rotation_in_progress", j.who)
           [] OTHER -> IF Dormant(u) THEN AfterRemoval(t, "rejected", j.who)
                       ELSE Go(t, [j EXCEPT !.pc = "removeSend", !.own = row[u].gen])
      /\ UNCHANGED <<server, pins, lost, invited>>

RemoveSend(t) ==
  /\ tab[t].pc = "removeSend"
  /\ RemoveWrites(t)
  /\ AfterRemoval(t, RemoveAnswer(Owner[t], tab[t].own, tab[t].who), tab[t].who)
  /\ UNCHANGED <<pins, lost>>

-----------------------------------------------------------------------------
(* Approval of a dormant member.                                           *)

MayApprove(u, v) ==
  /\ v # u /\ Inviting(u) /\ v \in Members /\ Dormant(v) /\ Trusted(pins[u][v], key[v])

\* A prompt shows the fingerprint to compare; a tab keeps the last one it showed.
Prompt(t, kind, v) ==
  /\ screen' = [screen EXCEPT ![t].prompt = [kind |-> kind, who |-> v, print |-> key[v]]]
  /\ UNCHANGED <<server, pins, tab, lost, invited>>

Confirming(t, kind) == tab[t].pc = "idle" /\ screen[t].prompt.kind = kind

PinFirstSight(u, v) ==
  pins' = IF pins[u][v] = None THEN [pins EXCEPT ![u][v] = key[v]] ELSE pins

PrepareApprove(t, v) ==
  tab[t].pc = "idle" /\ MayApprove(Owner[t], v) /\ Prompt(t, "approve", v)

MustMint(u, v) == row[v].gen >= row[u].gen

\* The keys are read and compared again with what was confirmed.
ApprovalRefusal(u, v, print) ==
  CASE ~MayApprove(u, v)             -> "refused"
    [] key[v] # print                -> "keysChanged"
    [] marker # NoMarker             -> "rotationRunning"
    [] MustMint(u, v) /\ ~IsAdmin(u) -> "askAdmin"
    [] OTHER                         -> "none"

ConfirmApprove(t) ==
  LET u == Owner[t]  v == screen[t].prompt.who
      refusal == ApprovalRefusal(u, v, screen[t].prompt.print)
  IN  /\ Confirming(t, "approve")
      /\ IF refusal # "none" THEN Say(t, refusal) /\ UNCHANGED pins
         ELSE /\ PinFirstSight(u, v)
              /\ Go(t, [NoJob EXCEPT !.pc = "approveSend", !.who = v, !.print = key[v],
                                     !.own = row[u].gen, !.mint = MustMint(u, v)])
      /\ UNCHANGED <<server, lost, invited>>

\* What the client makes of an answer: `already` is success, the generation is
\* settled from the roster, the other write is tried once.
AfterWrite(t, a, other) ==
  LET j == tab[t]
  IN  CASE a = "member_not_dormant" -> SayAndRun(t, "approved")
        [] a = "generation" -> Go(t, [j EXCEPT !.pc = "settle", !.unsettled = "stale"])
        [] a = other /\ ~j.second -> Go(t, [j EXCEPT !.second = TRUE])
        [] OTHER -> Say(t, a)

TryRewrap(t, a) ==
  IF a = "ok" THEN Say(t, "approved") ELSE AfterWrite(t, a, "rekey_required")

\* A start needs the job that finishes it.
TryRekey(t, a) ==
  IF a = "ok" THEN SayAndRun(t, "approved") ELSE AfterWrite(t, a, "rekey_not_required")

ApproveSend(t) ==
  LET j == tab[t]  u == Owner[t]  answer == ApproveAnswer(How(j), u, j.own, j.who, j.print)
  IN  /\ j.pc = "approveSend"
      /\ IF Dormant(u) \/ (How(j) = "rekey" /\ ~IsAdmin(u))
         THEN Say(t, "refused") /\ UNCHANGED <<server, invited>>
         ELSE ApproveWrites(t) /\ IF How(j) = "rewrap" THEN TryRewrap(t, answer) ELSE TryRekey(t, answer)
      /\ UNCHANGED <<pins, lost>>

Settle_Landed(t) ==          \* faulty: a lost answer is taken for a success
  /\ tab[t].pc = "settle" /\ SayAndRun(t, "approved") /\ UNCHANGED <<server, pins, lost, invited>>

\* Whether an approval with no clear answer happened, from the roster.
Settle(t) ==
  LET j == tab[t]
  IN  /\ j.pc = "settle"
      /\ CASE j.who \notin Members -> Say(t, "notFound")
           [] j.who \in Members /\ ~Dormant(j.who) -> SayAndRun(t, "approved")
           [] OTHER -> IF j.unsettled = "stale" THEN Say(t, "stale") ELSE SayAndRun(t, "ambiguous")
      /\ UNCHANGED <<server, pins, lost, invited>>

-----------------------------------------------------------------------------
(* Re-admission, and the acceptance of a changed key.                      *)

\* Never a member the removal history names, whatever their record says.
MayReadmit(u, v) ==
  /\ v # u /\ Inviting(u) /\ Trusted(pins[u][v], key[v])
  /\ \E c \in LoadAdmissions(u, row[u].gen) : c.removedAt[v] = 0 /\ ~Admitted(c, v)

PrepareReadmit(t, v) ==
  /\ tab[t].pc = "idle" /\ v \in screen[t].readmittable
  /\ MayReadmit(Owner[t], v) /\ Prompt(t, "readmit", v)

ConfirmReadmit(t) ==
  LET u == Owner[t]  v == screen[t].prompt.who
  IN  /\ Confirming(t, "readmit")
      /\ IF MayReadmit(u, v) /\ key[v] = screen[t].prompt.print
         THEN /\ PinFirstSight(u, v)
              /\ Go(t, [NoJob EXCEPT !.pc = "readmitSend", !.who = v, !.print = key[v],
                                     !.own = row[u].gen])
         ELSE Say(t, "refused") /\ UNCHANGED pins
      /\ UNCHANGED <<server, lost, invited>>

ReadmitSend(t) ==
  /\ tab[t].pc = "readmitSend"
  /\ ReadmitWrites(t)
  /\ IF admission' # admission THEN SayAndRun(t, "readmitted") ELSE Say(t, "rejected")
  /\ UNCHANGED <<pins, lost>>

\* Only a mismatch is a key change: not a first sight, not a rollback.
MayAccept(u, v) == v # u /\ Verdict(pins[u][v], key[v]) = "mismatch"

PrepareAccept(t, v) ==
  tab[t].pc = "idle" /\ MayAccept(Owner[t], v) /\ Prompt(t, "accept", v)

AcceptedPins(u, v, print) ==
  IF MayAccept(u, v) /\ key[v] = print THEN [pins EXCEPT ![u][v] = key[v]] ELSE pins

ConfirmAccept(t) ==
  LET u == Owner[t]  v == screen[t].prompt.who
  IN  /\ Confirming(t, "accept")
      /\ pins' = AcceptedPins(u, v, screen[t].prompt.print)
      /\ Say(t, "accepted")
      /\ UNCHANGED <<server, lost, invited>>

-----------------------------------------------------------------------------
(* A request or its answer is lost: the write happened or it did not.       *)

Lose(t) ==
  LET j == tab[t]
  IN  /\ lost < MaxLost /\ lost' = lost + 1 /\ ~Dormant(Owner[t])
      /\ \/ UNCHANGED <<server, invited>> /\ j.pc \in {"takeover", "complete", "send", "removeSend",
                                                       "approveSend", "readmitSend"}
         \/ j.pc = "takeover" /\ TakeOverWrites(t)
         \/ j.pc = "complete" /\ CompleteWrites(t)
         \/ j.pc = "send" /\ RewrapWrites(t)
         \/ j.pc = "removeSend" /\ RemoveWrites(t)
         \/ j.pc = "approveSend" /\ ApproveWrites(t)
         \/ j.pc = "readmitSend" /\ ReadmitWrites(t)
      /\ CASE j.pc = "removeSend" -> AfterRemoval(t, "ambiguous", j.who)
           [] j.pc = "approveSend" -> Go(t, [j EXCEPT !.pc = "settle"])
           [] j.pc = "readmitSend" -> SayAndRun(t, "ambiguous")
           [] OTHER -> Finish(t, "incomplete")
      /\ UNCHANGED pins

\* The server answers that the group is busy: nothing was written, another pass.
Busy(t) ==
  /\ tab[t].pc \in {"send", "complete"}
  /\ Go(t, [tab[t] EXCEPT !.pc = "list"])
  /\ UNCHANGED <<server, pins, lost, invited>>

-----------------------------------------------------------------------------
(* Everybody else.                                                         *)

Invite(i, v) ==
  /\ Inviting(i) /\ ~Dormant(i) /\ v \notin Members
  /\ row' = [row EXCEPT ![v] = [role |-> "member", gen |-> row[i].gen, epoch |-> key[v]]]
  /\ admission' = [admission EXCEPT ![v] = row[i].gen]
  /\ invited' = invited \cup {v}
  /\ UNCHANGED <<key, marker, links, pins, tab, screen, lost>>

\* A member of a Rotating group leaves: a marker with no key; the record stays.
Leave(v) ==
  /\ v \in Leavers \cap Members /\ marker = NoMarker /\ row[v].gen = Len(links)
  /\ \E a \in Members \ {v} : IsAdmin(a) /\ ~Dormant(a)
  /\ marker' = [gen |-> row[v].gen + 1, by |-> v, who |-> v, kind |-> "removal"]
  /\ row' = [row EXCEPT ![v] = Out]
  /\ invited' = invited \ {v}
  /\ UNCHANGED <<key, links, admission, pins, tab, screen, lost>>

ChangeKeys(v) ==
  /\ v \in Changers /\ key[v] < MaxKey
  /\ key' = [key EXCEPT ![v] = @ + 1]
  /\ UNCHANGED <<row, marker, links, admission, pins, tab, screen, lost, invited>>

\* The server lists somebody nobody let back in, with the record of old.
Relist(v) ==
  /\ v \in Strays \ Members
  /\ row' = [row EXCEPT ![v] = [role |-> "member", gen |-> 0, epoch |-> key[v]]]
  /\ admission' = [admission EXCEPT ![v] = 0]
  /\ UNCHANGED <<key, marker, links, pins, tab, screen, lost, invited>>

\* The record of a member no longer verifies (the inviter's chain changed).
SpoilRecord(v) ==
  /\ v \in Spoiled \cap Members
  /\ admission' = [admission EXCEPT ![v] = None]
  /\ UNCHANGED <<row, key, marker, links, pins, tab, screen, lost, invited>>

JobStep(t) ==
  \/ Load(t) \/ TakeOver(t) \/ List(t) \/ Complete(t) \/ Check(t) \/ Send(t)
  \/ RemoveRead(t) \/ RemoveSend(t) \/ ApproveSend(t) \/ Settle(t) \/ ReadmitSend(t)

Press(t) ==
  \/ OpenGroup(t) \/ ConfirmApprove(t) \/ ConfirmReadmit(t) \/ ConfirmAccept(t)
  \/ \E v \in User : \/ BeginRemove(t, v) \/ PrepareApprove(t, v)
                     \/ PrepareReadmit(t, v) \/ PrepareAccept(t, v)

Others ==
  \E v \in User : \/ Leave(v) \/ ChangeKeys(v) \/ Relist(v) \/ SpoilRecord(v)
                  \/ \E i \in User : Invite(i, v)

Next == Others \/ \E t \in Tab : JobStep(t) \/ Press(t) \/ Lose(t) \/ Busy(t)

\* A tab that is open runs what it has started.
Spec == Init /\ [][Next]_vars /\ \A t \in Tab : WF_vars(JobStep(t))

-----------------------------------------------------------------------------
(* Properties.                                                             *)

\* The generation key goes only to somebody who was let in and has not been put
\* out or left since, whatever the server's list shows: runRotation's admission
\* check and its exclusions, across resumes, restarts and other admins' jobs.
WrapsOnlyInvited ==
  [][\A t \in Tab : \A v \in tab[t].batch :
       tab[t].pc = "send" /\ tab'[t] # tab[t] /\ row'[v].gen > row[v].gen => v \in invited]_vars

\* A key that was saved for somebody is replaced only by the one whose
\* fingerprint was shown and accepted: no pass of any job pins over it.
PinsKept ==
  [][\A u, v \in User : pins[u][v] \notin {None, pins'[u][v]} =>
       \E t \in Tab : Owner[t] = u /\ screen[t].prompt = [kind |-> "accept", who |-> v,
                                                          print |-> pins'[u][v]]]_vars

\* A job that says the rotation is complete says so of a rotation that is over.
CompletedIsTrue ==
  [][\A t \in Tab : tab[t].pc = "complete" /\ screen'[t].status = "completed" /\ tab'[t] = NoJob
       => marker' # tab[t].mk]_vars

\* "Approved" is said only of a member who is gone or whose entry is wrapped to
\* the confirmed keys or newer ones, a lost answer included.
ApprovedIsTrue ==
  [][\A t \in Tab : LET v == tab[t].who
       IN  tab[t].pc \in {"approveSend", "settle"} /\ screen'[t].said = "approved" /\ tab'[t] # tab[t]
             /\ tab'[t].pc \in {"idle", "load"}
           => row'[v].role = "out" \/ row'[v].epoch >= tab[t].print]_vars

\* Nobody the group's signed history says was removed is re-admitted by a
\* signature: only an invitation brings them back.
ReadmitsOnlyNeverRemoved ==
  [][\A v \in Members : admission'[v] > admission[v] /\ row'[v] = row[v] /\ marker' = marker =>
       \A i \in 1..admission'[v] : links[i].kind = "removal" => links[i].who # v]_vars

\* Every job ends, so the guard is released and the group's other actions are
\* not refused for ever: the passes, the restarts and the fallback are bounded.
JobEnds == \A t \in Tab : tab[t].pc # "idle" ~> tab[t].pc = "idle"

\* A batch of members none of whom is dormant is refused for their keys only if
\* somebody's changed since they were read (handlers/rotation.go on
\* wrap_epoch_stale: "a member's keys changed since you read them").
RefusedOnlyForChangedKeys ==
  \A t \in Tab : tab[t].pc = "send" /\ (\A v \in tab[t].batch : ~Dormant(v))
                 /\ RewrapAnswer(Owner[t], tab[t].own, tab[t].batch) = "wrap_epoch_stale"
    => \E v \in tab[t].batch : key[v] # pins[Owner[t]][v]
=============================================================================

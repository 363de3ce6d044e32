-------------------------- MODULE RotationJob_proofs --------------------------
(***************************************************************************)
(* What RotationJob promises of the wraps, the pins, the reports and the    *)
(* re-admissions of every job, for any accounts, tabs and bounds.           *)
(*                                                                         *)
(* The argument.  The rows, the marker and the links obey an invariant of   *)
(* their own (GenInv): generations end where the links do, and between      *)
(* rotations whoever may re-wrap is at the newest one.  Whoever was put out *)
(* or left is named by a link past its admission, or by the marker of its   *)
(* leave (OutInv).  So what a job loaded stays right until its generation   *)
(* is outdated, and then the server refuses its requests (TabInv).          *)
(***************************************************************************)
EXTENDS RotationJob, WellFoundedInduction, TLAPS

Account == User \cup {NoOne}
RowType == [role : {"out", "member", "ambassador", "admin"}, gen : Nat, epoch : Nat]
MarkerType == [gen : Int, by : Account, who : Account, kind : {"none", "removal", "rekey"}]
LinkType == [by : Account, who : Account, kind : {"removal", "rekey"}]
Context == [record : [User -> Int], removedAt : [User -> Nat]]
PromptType == {NoPrompt} \cup [kind : {"approve", "readmit", "accept"}, who : User, print : Nat]

Fields ==
  {"pc", "who", "print", "own", "mk", "exclude", "blocked", "changed", "unadmitted", "readmittable",
   "todo", "batch", "saved", "ctx", "restarted", "moved", "mint", "second", "unsettled", "pass"}

\* A job, and what the proofs need to know of its fields.
IsJob(j) ==
  /\ j = [f \in Fields |-> j[f]]
  /\ j.who \in Account /\ j.print \in Int /\ j.own \in Nat /\ j.mk \in MarkerType
  /\ j.todo \subseteq User /\ j.batch \subseteq User
  /\ j.saved \in [User -> Int] /\ j.ctx \subseteq Context

IsScreen(s) ==
  /\ s = [f \in {"status", "said", "readmittable", "prompt"} |-> s[f]]
  /\ s.prompt \in PromptType

ServerTyped ==
  /\ row \in [User -> RowType]
  /\ key \in [User -> Nat]
  /\ marker \in MarkerType
  /\ links \in Seq(LinkType)
  /\ admission \in [User -> Int]
  /\ invited \subseteq User

TypeOK ==
  /\ ServerTyped
  /\ pins \in [User -> [User -> Int]]
  /\ tab = [t \in Tab |-> tab[t]] /\ \A t \in Tab : IsJob(tab[t])
  /\ screen = [t \in Tab |-> screen[t]] /\ \A t \in Tab : IsScreen(screen[t])

-----------------------------------------------------------------------------
(* The links' history.                                                     *)

Below == {ss \in Nat \X Nat : ss[1] < ss[2]}

LEMMA BelowWellFounded == IsWellFoundedOn(Below, Nat)
BY NatLessThanWellFounded DEF OpToRel, Below

\* A set of naturals that is not empty has a least element.
LEMMA LeastNat ==
  ASSUME NEW T \in SUBSET Nat, T # {}
  PROVE  \E n \in T : \A m \in T : n <= m
<1>1. PICK n \in T : \A m \in T : <<m, n>> \notin Below
  BY BelowWellFounded, WFMin
<1>2. ASSUME NEW m \in T PROVE n <= m
  <2>1. n \in Nat /\ m \in Nat
    OBVIOUS
  <2>2. m < n => <<m, n>> \in Below
    BY <2>1 DEF Below
  <2> QED BY <1>1, <2>1, <2>2
<1> QED BY <1>2

\* A nonempty set of positions has a last one.
LEMMA LastPosition ==
  ASSUME NEW g \in Nat, NEW S \in SUBSET (1..g), S # {}
  PROVE  \E i \in S : \A k \in S : k <= i
<1> DEFINE T == {n \in Nat : g - n \in S}
<1>1. T # {}
  <2>1. PICK i \in S : TRUE
    OBVIOUS
  <2>2. g - i \in Nat /\ g - (g - i) = i
    BY <2>1
  <2> QED BY <2>1, <2>2
<1>2. PICK n \in T : \A m \in T : n <= m
  BY <1>1, LeastNat
<1>3. ASSUME NEW k \in S PROVE k <= g - n
  <2>1. g - k \in Nat /\ g - (g - k) = k
    OBVIOUS
  <2> QED BY <1>2, <2>1
<1> QED BY <1>2, <1>3

Removal(v, i) == links[i].kind = "removal" /\ links[i].who = v

\* removedAt names a link that removed v, and none that did lies past it.
LEMMA RemovedAtIs ==
  ASSUME ServerTyped, NEW g \in Nat, NEW v \in User
  PROVE  /\ RemovedAt(g) \in [User -> Nat] /\ RemovedAt(g)[v] <= g
         /\ \A i \in 1..g : Removal(v, i) => i <= RemovedAt(g)[v]
<1> DEFINE At(w) == {i \in 1..g : links[i].kind = "removal" /\ links[i].who = w}
           Is(w) == IF At(w) = {} THEN 0 ELSE CHOOSE i \in At(w) : \A k \in At(w) : k <= i
<1>1. ASSUME NEW w \in User
      PROVE  Is(w) \in Nat /\ Is(w) <= g /\ \A i \in At(w) : i <= Is(w)
  <2>1. At(w) \in SUBSET (1..g)
    OBVIOUS
  <2> HIDE DEF At
  <2>2. CASE At(w) = {}
    BY <2>2
  <2>3. CASE At(w) # {}
    <3>1. \E i \in At(w) : \A k \in At(w) : k <= i
      BY <2>1, <2>3, LastPosition
    <3>2. Is(w) \in At(w) /\ \A k \in At(w) : k <= Is(w)
      BY <2>3, <3>1
    <3> HIDE DEF Is
    <3> QED BY <2>1, <3>2
  <2> QED BY <2>2, <2>3
<1>2. RemovedAt(g) = [w \in User |-> Is(w)]
  BY DEF RemovedAt
<1>3. \A i \in 1..g : Removal(v, i) <=> i \in At(v)
  BY DEF Removal
<1> HIDE DEF At, Is
<1>4. RemovedAt(g)[v] = Is(v)
  BY <1>2
<1> QED BY <1>1, <1>2, <1>3, <1>4

\* What a job loads is the admissions as they are and the history of its generation.
LEMMA Loaded ==
  ASSUME ServerTyped, NEW u, NEW g \in Nat, NEW c \in LoadAdmissions(u, g)
  PROVE  c \in Context /\ c.record = admission /\ c.removedAt = RemovedAt(g)
<1>1. c = [record |-> admission, removedAt |-> RemovedAt(g)]
  BY DEF LoadAdmissions
<1>2. RemovedAt(g) \in [User -> Nat]
  BY RemovedAtIs, JobAssumption
<1> QED BY <1>1, <1>2 DEF ServerTyped, Context

-----------------------------------------------------------------------------
(* Steps of a tab.                                                         *)

Steps(t) == JobStep(t) \/ Press(t) \/ Lose(t) \/ Busy(t)

\* A tab's steps touch no other tab.
OnlyTab(t) ==
  /\ \E j : tab' = [tab EXCEPT ![t] = j]
  /\ \E s : screen' = [screen EXCEPT ![t] = s]

LEMMA Touches ==
  ASSUME TypeOK, NEW t \in Tab
  PROVE  /\ \A j : Go(t, j) => OnlyTab(t)
         /\ \A x : Run(t, x) => OnlyTab(t)
         /\ \A x : Finish(t, x) \/ Say(t, x) \/ SayAndRun(t, x) => OnlyTab(t)
         /\ \A x, v : AfterRemoval(t, x, v) => OnlyTab(t)
         /\ \A x, v : Prompt(t, x, v) => OnlyTab(t)
<1>1. /\ tab = [tab EXCEPT ![t] = tab[t]]
      /\ screen = [screen EXCEPT ![t] = screen[t]]
  BY DEF TypeOK
<1>2. \A j : Go(t, j) => OnlyTab(t)
  BY <1>1 DEF Go, OnlyTab
<1>3. \A x : Run(t, x) => OnlyTab(t)
  BY <1>2 DEF Run
<1>4. \A x : Finish(t, x) \/ Say(t, x) \/ SayAndRun(t, x) => OnlyTab(t)
  <2>1. ASSUME NEW x, Finish(t, x) PROVE OnlyTab(t)
    <3>1. screen' = [screen EXCEPT ![t] = [[[screen[t] EXCEPT !.status = x]
                       EXCEPT !.prompt = NoPrompt]
                       EXCEPT !.readmittable = Offered(x, tab[t], screen[t].readmittable)]]
      BY <2>1 DEF Finish, TypeOK
    <3> QED BY <2>1, <3>1 DEF Finish, OnlyTab
  <2>2. ASSUME NEW x, Say(t, x) PROVE OnlyTab(t)
    <3>1. screen' = [screen EXCEPT ![t] = [[screen[t] EXCEPT !.said = x] EXCEPT !.prompt = NoPrompt]]
      BY <2>2 DEF Say, TypeOK
    <3> QED BY <2>2, <3>1 DEF Say, OnlyTab
  <2>3. ASSUME NEW x, SayAndRun(t, x) PROVE OnlyTab(t)
    <3>1. screen' = [screen EXCEPT ![t] = [screen[t] EXCEPT !.said = x]]
      BY <2>3 DEF SayAndRun, TypeOK
    <3> QED BY <2>3, <3>1 DEF SayAndRun, OnlyTab
  <2> QED BY <2>1, <2>2, <2>3
<1>5. \A x, v : AfterRemoval(t, x, v) => OnlyTab(t)
  BY <1>3, <1>4 DEF AfterRemoval
<1>6. ASSUME NEW x, NEW v, Prompt(t, x, v) PROVE OnlyTab(t)
  <2>1. screen' = [screen EXCEPT ![t] = [screen[t] EXCEPT !.prompt = [kind |-> x, who |-> v, print |-> key[v]]]]
        /\ tab' = tab
    BY <1>6 DEF Prompt, TypeOK
  <2> QED BY <1>1, <2>1 DEF OnlyTab
<1> QED BY <1>2, <1>3, <1>4, <1>5, <1>6

LEMMA StepsTouch ==
  ASSUME TypeOK, NEW t \in Tab, Steps(t)
  PROVE  OnlyTab(t)
<1>1. Load(t) \/ TakeOver(t) \/ List(t) \/ Complete(t) => OnlyTab(t)
  BY Touches DEF Load, TakeOver, List, ListAgain, Complete
<1>2. Check(t) \/ Send(t) => OnlyTab(t)
  BY Touches DEF Check, Send
<1>3. RemoveRead(t) \/ RemoveSend(t) => OnlyTab(t)
  BY Touches DEF RemoveRead, RemoveSend
<1>4. ApproveSend(t) => OnlyTab(t)
  <2>1. \A a : TryRewrap(t, a) \/ TryRekey(t, a) => OnlyTab(t)
    BY Touches DEF TryRewrap, TryRekey, AfterWrite
  <2> QED BY <2>1, Touches DEF ApproveSend
<1>5. Settle(t) \/ ReadmitSend(t) => OnlyTab(t)
  BY Touches DEF Settle, ReadmitSend
<1>6. Press(t) => OnlyTab(t)
  BY Touches DEF Press, OpenGroup, ConfirmApprove, ConfirmReadmit, ConfirmAccept, BeginRemove,
     PrepareApprove, PrepareReadmit, PrepareAccept
<1>7. Lose(t) \/ Busy(t) => OnlyTab(t)
  BY Touches DEF Lose, Busy
<1> QED BY <1>1, <1>2, <1>3, <1>4, <1>5, <1>6, <1>7 DEF Steps, JobStep

\* Whoever's tab changes took the step.
LEMMA OwnSteps ==
  ASSUME TypeOK, [Next]_vars, NEW t \in Tab, tab'[t] # tab[t] \/ screen'[t] # screen[t]
  PROVE  Steps(t)
<1>1. CASE Others \/ UNCHANGED vars
  <2>1. tab' = tab /\ screen' = screen
    BY <1>1 DEF Others, Invite, Leave, ChangeKeys, Relist, SpoilRecord, vars
  <2> QED BY <2>1
<1>2. ASSUME NEW s \in Tab, Steps(s) PROVE s = t
  <2>1. PICK j : tab' = [tab EXCEPT ![s] = j]
    BY <1>2, StepsTouch DEF OnlyTab
  <2>2. PICK x : screen' = [screen EXCEPT ![s] = x]
    BY <1>2, StepsTouch DEF OnlyTab
  <2> QED BY <2>1, <2>2 DEF TypeOK
<1> QED BY <1>1, <1>2 DEF Next, Steps

-----------------------------------------------------------------------------
(* What a tab holds after one of its steps.                                 *)

Keeps(j, n) == n.own = j.own /\ n.mk = j.mk

\* The moves of a tab t from job j to job n.
Ends(n) == n.pc \in {"idle", "load"}

TakesOver(t, j, n) ==
  /\ j.pc = "load" /\ n.pc = "takeover"
  /\ n.own = row[Owner[t]].gen /\ n.mk = marker /\ BareLeave(marker) /\ marker.gen = n.own + 1

Lists(t, j, n) ==
  /\ j.pc = "load" /\ n.pc = "list"
  /\ n.own = row[Owner[t]].gen /\ n.mk = marker
  /\ marker = NoMarker \/ marker.gen = n.own

Passes(t, j, n) ==
  /\ j.pc = "list" /\ n.pc \in {"check", "complete"} /\ Keeps(j, n)
  /\ n.pc = "complete" => n.mk # NoMarker
  /\ n.ctx = {} /\ n.saved = pins[Owner[t]]

Checks(t, j, n) ==
  /\ j.pc = "check" /\ n.pc \in {"check", "send", "list"} /\ Keeps(j, n) /\ n.saved = j.saved
  /\ n.ctx = j.ctx \/ n.ctx = LoadAdmissions(Owner[t], j.own)
  /\ \E c \in n.ctx : \A v \in n.batch : Admitted(c, v)
  /\ \A v \in n.todo : v \in j.todo /\ pins'[Owner[t]][v] = pins[Owner[t]][v]

GoesOn(j, n) ==
  /\ j.pc \in {"send", "complete"} /\ n.pc \in {"check", "list"} /\ Keeps(j, n)
  /\ n.pc = "check" => j.pc = "send"
  /\ n.ctx = j.ctx /\ n.todo = j.todo /\ n.saved = j.saved

Removes(t, j, n) ==
  \/ j.pc = "idle" /\ n.pc = "remove" /\ n.who # Owner[t]
  \/ j.pc = "remove" /\ n.pc = "removeSend" /\ n.who = j.who

Approves(t, j, n) ==
  \/ /\ j.pc = "idle" /\ n.pc = "approveSend"
     /\ n.who \in User \ {Owner[t]} /\ n.print = key[n.who]
  \/ /\ j.pc = "approveSend" /\ n.pc \in {"approveSend", "settle"}
     /\ n.who = j.who /\ n.print = j.print

Readmits(t, n) ==
  n.pc = "readmitSend" /\ n.own = row[Owner[t]].gen /\ n.who \in User /\ MayReadmit(Owner[t], n.who)

Move(t, j, n) ==
  \/ Ends(n) \/ TakesOver(t, j, n) \/ Lists(t, j, n) \/ Passes(t, j, n) \/ Checks(t, j, n)
  \/ GoesOn(j, n) \/ Removes(t, j, n) \/ Approves(t, j, n) \/ Readmits(t, n)

Moves(t) ==
  IsJob(tab'[t]) /\ (tab'[t] = tab[t] \/ Move(t, tab[t], tab'[t]))

LEMMA NoJobTyped == IsJob(NoJob) /\ NoJob.pc = "idle"
<1>1. NoJob = [f \in Fields |-> NoJob[f]]
  BY DEF Fields, NoJob
<1>2. NoMarker \in MarkerType
  BY DEF Account, MarkerType, NoMarker, None
<1>3. NoJob.who \in Account /\ NoJob.print \in Int /\ NoJob.own \in Nat
  BY DEF NoJob, Account, None
<1>4. NoJob.mk = NoMarker /\ NoJob.todo = {} /\ NoJob.batch = {} /\ NoJob.ctx = {}
      /\ NoJob.pc = "idle"
  BY DEF NoJob
<1>5. NoJob.saved = [v \in User |-> None]
  BY DEF NoJob
<1> QED BY <1>1, <1>2, <1>3, <1>4, <1>5 DEF IsJob, None

LEMMA ReloadTyped ==
  ASSUME NEW j, IsJob(j), NEW r
  PROVE  IsJob(Reload(j, r)) /\ Reload(j, r).pc = "load"
<1>1. NoJob = [f \in Fields |-> NoJob[f]]
  BY DEF Fields, NoJob
<1> QED BY <1>1, NoJobTyped DEF Fields, IsJob, Reload

\* How a tab's own flows end or go on.
LEMMA FlowMoves ==
  ASSUME TypeOK, NEW t \in Tab
  PROVE  /\ \A j : Go(t, j) => tab'[t] = j
         /\ \A x : Run(t, x) => Moves(t)
         /\ \A x : Finish(t, x) \/ Say(t, x) \/ SayAndRun(t, x) => Moves(t)
         /\ \A x, v : AfterRemoval(t, x, v) => Moves(t)
<1>t. tab = [s \in Tab |-> tab[s]]
  BY DEF TypeOK
<1>1. \A j : Go(t, j) => tab'[t] = j
  BY <1>t DEF Go
<1>2. ASSUME NEW x, Run(t, x) PROVE Moves(t)
  <2>1. tab'[t] = [NoJob EXCEPT !.pc = "load", !.exclude = x]
    BY <1>1, <1>2 DEF Run
  <2>2. IsJob(tab'[t]) /\ tab'[t].pc = "load"
    BY <2>1, NoJobTyped DEF IsJob, Fields
  <2> QED BY <2>2 DEF Moves, Move, Ends
<1>3. ASSUME NEW x, Finish(t, x) \/ Say(t, x) \/ SayAndRun(t, x) PROVE Moves(t)
  <2>1. tab'[t] = NoJob \/ tab'[t] = [NoJob EXCEPT !.pc = "load"]
    BY <1>t, <1>3 DEF Finish, Say, SayAndRun
  <2>2. IsJob(tab'[t]) /\ tab'[t].pc \in {"load", "idle"}
    BY <2>1, NoJobTyped DEF IsJob, Fields
  <2> QED BY <2>2 DEF Moves, Move, Ends
<1>4. ASSUME NEW x, NEW v, AfterRemoval(t, x, v) PROVE Moves(t)
  BY <1>2, <1>3, <1>4 DEF AfterRemoval
<1> QED BY <1>1, <1>2, <1>3, <1>4

LEMMA LoadMoves == ASSUME TypeOK, NEW t \in Tab, Load(t) PROVE Moves(t)
<1> DEFINE j == tab[t]  u == Owner[t]  own == row[u].gen
           leave == BareLeave(marker) /\ marker.gen = own + 1 /\ ~j.restarted
<1>t. IsJob(j) /\ u \in User /\ own \in Nat /\ marker \in MarkerType /\ j.pc = "load"
  BY JobAssumption DEF TypeOK, ServerTyped, RowType, Load, IsJob
<1>1. CASE Go(t, [j EXCEPT !.pc = "takeover", !.own = own, !.mk = marker]) /\ leave
  <2>1. tab'[t] = [j EXCEPT !.pc = "takeover", !.own = own, !.mk = marker]
    BY <1>1, FlowMoves
  <2>2. IsJob(tab'[t]) /\ tab'[t].pc = "takeover" /\ tab'[t].own = own /\ tab'[t].mk = marker
    BY <1>t, <2>1 DEF IsJob, Fields
  <2> QED BY <1>t, <1>1, <2>2 DEF Moves, Move, TakesOver
<1>2. CASE Go(t, [Reload(j, j.restarted) EXCEPT !.pc = "list", !.own = own,
                    !.mk = marker, !.exclude = @ \cup PutOut])
           /\ (marker = NoMarker \/ marker.gen = own)
  <2>1. tab'[t] = [Reload(j, j.restarted) EXCEPT !.pc = "list", !.own = own,
                     !.mk = marker, !.exclude = @ \cup PutOut]
    BY <1>2, FlowMoves
  <2>2. IsJob(Reload(j, j.restarted))
    BY <1>t, ReloadTyped
  <2>3. IsJob(tab'[t]) /\ tab'[t].pc = "list" /\ tab'[t].own = own /\ tab'[t].mk = marker
    BY <1>t, <2>1, <2>2 DEF IsJob, Fields
  <2> QED BY <1>t, <1>2, <2>3 DEF Moves, Move, Lists
<1>3. CASE \E x : Finish(t, x)
  BY <1>3, FlowMoves
<1>4. \/ \E x : Finish(t, x)
      \/ Go(t, [j EXCEPT !.pc = "takeover", !.own = own, !.mk = marker]) /\ leave
      \/ Go(t, [Reload(j, j.restarted) EXCEPT !.pc = "list", !.own = own,
                  !.mk = marker, !.exclude = @ \cup PutOut])
         /\ (marker = NoMarker \/ marker.gen = own)
  <2>1. CASE ~IsAdmin(u)
    BY <2>1 DEF Load
  <2>2. CASE IsAdmin(u) /\ leave
    BY <2>2 DEF Load
  <2>3. CASE IsAdmin(u) /\ ~leave /\ marker # NoMarker /\ marker.gen # own
    BY <2>3 DEF Load
  <2>4. CASE IsAdmin(u) /\ ~leave /\ (marker = NoMarker \/ marker.gen = own)
    BY <2>4 DEF Load
  <2> QED BY <2>1, <2>2, <2>3, <2>4
<1> QED BY <1>1, <1>2, <1>3, <1>4

LEMMA TakeOverMoves == ASSUME TypeOK, NEW t \in Tab, TakeOver(t) PROVE Moves(t)
<1>1. CASE Go(t, Reload(tab[t], TRUE))
  <2>1. tab'[t] = Reload(tab[t], TRUE) /\ IsJob(tab[t])
    BY <1>1, FlowMoves DEF TypeOK
  <2> QED BY <2>1, ReloadTyped DEF Moves, Move, Ends
<1>2. CASE \E x : Finish(t, x)
  BY <1>2, FlowMoves
<1> QED BY <1>1, <1>2 DEF TakeOver

LEMMA ListMoves == ASSUME TypeOK, NEW t \in Tab, List(t) PROVE Moves(t)
<1> DEFINE u == Owner[t]
           pass == tab[t].pass + 1
           j == [tab[t] EXCEPT !.saved = pins[u], !.ctx = {}, !.pass = pass, !.todo = Behind(t)]
<1>t. /\ IsJob(tab[t]) /\ tab[t].pc = "list" /\ pins[u] \in [User -> Int]
      /\ Behind(t) \subseteq User
  BY JobAssumption DEF TypeOK, List, ListAgain, IsJob, Behind, Members
<1>j. /\ IsJob(j) /\ j.own = tab[t].own /\ j.mk = tab[t].mk /\ j.ctx = {} /\ j.saved = pins[u]
  BY <1>t DEF IsJob, Fields
<1> HIDE DEF j
<1>1. CASE Go(t, [j EXCEPT !.pc = "check"])
  <2>1. tab'[t] = [j EXCEPT !.pc = "check"]
    BY <1>1, FlowMoves
  <2>2. /\ IsJob(tab'[t]) /\ tab'[t].pc = "check" /\ tab'[t].own = j.own /\ tab'[t].mk = j.mk
        /\ tab'[t].ctx = j.ctx /\ tab'[t].saved = j.saved
    BY <1>j, <2>1 DEF IsJob, Fields
  <2> QED BY <1>t, <1>j, <2>2 DEF Moves, Move, Passes, Keeps
<1>2. CASE Go(t, [j EXCEPT !.pc = "complete"]) /\ j.mk # NoMarker
  <2>1. tab'[t] = [j EXCEPT !.pc = "complete"]
    BY <1>2, FlowMoves
  <2>2. /\ IsJob(tab'[t]) /\ tab'[t].pc = "complete" /\ tab'[t].own = j.own /\ tab'[t].mk = j.mk
        /\ tab'[t].ctx = j.ctx /\ tab'[t].saved = j.saved
    BY <1>j, <2>1 DEF IsJob, Fields
  <2> QED BY <1>t, <1>j, <1>2, <2>2 DEF Moves, Move, Passes, Keeps
<1>3. CASE \E x : Finish(t, x)
  BY <1>3, FlowMoves
<1>4. \/ Go(t, [j EXCEPT !.pc = "check"])
      \/ Go(t, [j EXCEPT !.pc = "complete"]) /\ j.mk # NoMarker
      \/ \E x : Finish(t, x)
  BY DEF List, ListAgain, j
<1> QED BY <1>1, <1>2, <1>3, <1>4

LEMMA CompleteMoves == ASSUME TypeOK, NEW t \in Tab, Complete(t) PROVE Moves(t)
<1>t. IsJob(tab[t]) /\ tab[t].pc = "complete"
  BY DEF TypeOK, Complete
<1>1. CASE Go(t, [tab[t] EXCEPT !.pc = "list"])
  <2>1. tab'[t] = [tab[t] EXCEPT !.pc = "list"]
    BY <1>1, FlowMoves
  <2>2. /\ IsJob(tab'[t]) /\ tab'[t].pc = "list" /\ tab'[t].own = tab[t].own
        /\ tab'[t].mk = tab[t].mk /\ tab'[t].ctx = tab[t].ctx /\ tab'[t].todo = tab[t].todo
        /\ tab'[t].saved = tab[t].saved
    BY <1>t, <2>1 DEF IsJob, Fields
  <2> QED BY <1>t, <2>2 DEF Moves, Move, GoesOn, Keeps
<1>2. CASE \E x : Finish(t, x)
  BY <1>2, FlowMoves
<1> QED BY <1>1, <1>2 DEF Complete

\* What Check makes of a chunk.
Chunked(t, chunk, c, ctx, n) ==
  /\ IsJob(n) /\ n.pc \in {"check", "send", "list"}
  /\ n.own = tab[t].own /\ n.mk = tab[t].mk /\ n.saved = tab[t].saved /\ n.ctx = ctx
  /\ n.todo = tab[t].todo \ chunk
  /\ n.batch = {v \in chunk : Admitted(c, v) /\ Trusted(tab[t].saved[v], key[v])}

CheckPins(t, chunk, c) ==
  pins' = [pins EXCEPT ![Owner[t]] =
            [v \in User |-> IF v \in chunk /\ Admitted(c, v) /\ tab[t].saved[v] = None
                                 /\ Trusted(tab[t].saved[v], key[v])
                            THEN key[v] ELSE pins[Owner[t]][v]]]

ChecksChunk(t) ==
  \E chunk \in SUBSET tab[t].todo,
     ctx \in {tab[t].ctx, LoadAdmissions(Owner[t], tab[t].own)} :
    \E c \in ctx : Chunked(t, chunk, c, ctx, tab'[t]) /\ CheckPins(t, chunk, c)

LEMMA CheckIs ==
  ASSUME TypeOK, NEW t \in Tab, Check(t)
  PROVE  (Finish(t, "incomplete") /\ UNCHANGED pins) \/ ChecksChunk(t)
<1> DEFINE j == tab[t]  u == Owner[t]
           loaded == IF j.ctx # {} THEN j.ctx ELSE LoadAdmissions(u, j.own)
           in(chunk, c) == {v \in chunk : Admitted(c, v)}
           trusted(chunk, c) == {v \in in(chunk, c) : Trusted(j.saved[v], key[v])}
           seen(chunk, c) == {v \in trusted(chunk, c) : j.saved[v] = None}
           next(chunk, c) ==
             [j EXCEPT !.ctx = loaded, !.todo = @ \ chunk, !.batch = trusted(chunk, c),
                !.unadmitted = @ \cup (chunk \ in(chunk, c)),
                !.readmittable = @ \cup {v \in chunk \ in(chunk, c) : c.removedAt[v] = 0},
                !.blocked = @ \cup (in(chunk, c) \ trusted(chunk, c)),
                !.changed = @ \cup {v \in in(chunk, c) \ trusted(chunk, c) : j.saved[v] < key[v]}]
           to(chunk, c) == CASE trusted(chunk, c) # {} -> "send"
                             [] trusted(chunk, c) = {} /\ next(chunk, c).todo # {} -> "check"
                             [] OTHER -> "list"
<1>t. IsJob(j) /\ u \in User /\ j.own \in Nat
  BY JobAssumption DEF TypeOK, IsJob
<1>1. \/ Finish(t, "incomplete") /\ UNCHANGED pins
      \/ \E chunk \in Chunks(j), c \in loaded :
           /\ pins' = [pins EXCEPT ![u] = [v \in User |-> IF v \in seen(chunk, c) THEN key[v] ELSE @[v]]]
           /\ Go(t, [next(chunk, c) EXCEPT !.pc = to(chunk, c)])
  BY DEF Check
<1>2. ASSUME NEW chunk \in Chunks(j), NEW c \in loaded,
             pins' = [pins EXCEPT ![u] = [v \in User |-> IF v \in seen(chunk, c) THEN key[v] ELSE @[v]]],
             Go(t, [next(chunk, c) EXCEPT !.pc = to(chunk, c)])
      PROVE  ChecksChunk(t)
  <2>1. chunk \in SUBSET j.todo
    BY DEF Chunks
  <2>2. loaded \in {j.ctx, LoadAdmissions(u, j.own)} /\ loaded \subseteq Context
    <3>1. ServerTyped
      BY DEF TypeOK
    <3>2. \A d \in LoadAdmissions(u, j.own) : d \in Context
      BY <3>1, <1>t, Loaded
    <3> QED BY <1>t, <3>2 DEF IsJob
  <2>3. tab'[t] = [next(chunk, c) EXCEPT !.pc = to(chunk, c)]
    BY <1>2, FlowMoves
  <2>4. to(chunk, c) \in {"check", "send", "list"}
    OBVIOUS
  <2>5. trusted(chunk, c) = {v \in chunk : Admitted(c, v) /\ Trusted(j.saved[v], key[v])}
        /\ trusted(chunk, c) \subseteq User
    BY <1>t, <2>1 DEF IsJob
  <2>6. Chunked(t, chunk, c, loaded, tab'[t])
    <3> HIDE DEF loaded, in, trusted, to
    <3>1. /\ tab'[t].pc = to(chunk, c) /\ tab'[t].own = j.own /\ tab'[t].mk = j.mk
          /\ tab'[t].saved = j.saved /\ tab'[t].ctx = loaded /\ tab'[t].todo = j.todo \ chunk
          /\ tab'[t].batch = trusted(chunk, c)
          /\ tab'[t].who = j.who /\ tab'[t].print = j.print
          /\ tab'[t] = [f \in Fields |-> tab'[t][f]]
      BY <1>t, <2>3 DEF IsJob, Fields
    <3>2. IsJob(tab'[t])
      BY <1>t, <2>2, <2>5, <3>1 DEF IsJob
    <3> QED BY <2>4, <2>5, <3>1, <3>2 DEF Chunked
  <2>7. pins' = [pins EXCEPT ![u] =
                   [v \in User |-> IF v \in chunk /\ Admitted(c, v) /\ j.saved[v] = None
                                        /\ Trusted(j.saved[v], key[v])
                                   THEN key[v] ELSE pins[u][v]]]
    <3>1. \A v : v \in seen(chunk, c) <=> v \in chunk /\ Admitted(c, v) /\ j.saved[v] = None
                                            /\ Trusted(j.saved[v], key[v])
      OBVIOUS
    <3> HIDE DEF seen, in, trusted
    <3>2. pins' = [pins EXCEPT ![u] = [v \in User |-> IF v \in seen(chunk, c) THEN key[v] ELSE pins[u][v]]]
      BY <1>2, <1>t DEF TypeOK
    <3> QED BY <3>1, <3>2
  <2> HIDE DEF j, u, loaded, in, trusted, seen, next, to
  <2>8. \E ctx \in {tab[t].ctx, LoadAdmissions(Owner[t], tab[t].own)} : c \in ctx
              /\ Chunked(t, chunk, c, ctx, tab'[t])
    BY <2>2, <2>6 DEF j, u
  <2> QED BY <2>1, <2>7, <2>8 DEF j, u, ChecksChunk, CheckPins
<1> QED BY <1>1, <1>2

LEMMA CheckMoves == ASSUME TypeOK, NEW t \in Tab, Check(t) PROVE Moves(t)
<1>1. CASE Finish(t, "incomplete")
  BY <1>1, FlowMoves
<1>2. CASE ChecksChunk(t)
  <2>p. PICK chunk \in SUBSET tab[t].todo,
             ctx \in {tab[t].ctx, LoadAdmissions(Owner[t], tab[t].own)} :
          \E c \in ctx : Chunked(t, chunk, c, ctx, tab'[t]) /\ CheckPins(t, chunk, c)
    BY <1>2 DEF ChecksChunk
  <2>c. PICK c \in ctx : Chunked(t, chunk, c, ctx, tab'[t]) /\ CheckPins(t, chunk, c)
    BY <2>p
  <2>1. tab[t].pc = "check" /\ Owner[t] \in User /\ tab[t].todo \subseteq User
    BY JobAssumption DEF Check, TypeOK, IsJob
  <2>2. \A v \in tab'[t].todo : v \in tab[t].todo /\ pins'[Owner[t]][v] = pins[Owner[t]][v]
    BY <2>c, <2>1 DEF Chunked, CheckPins, TypeOK
  <2>3. \E d \in tab'[t].ctx : \A v \in tab'[t].batch : Admitted(d, v)
    BY <2>c DEF Chunked
  <2> DEFINE n == tab'[t]
  <2>4. /\ IsJob(n) /\ n.pc \in {"check", "send", "list"} /\ n.own = tab[t].own /\ n.mk = tab[t].mk
        /\ n.saved = tab[t].saved /\ n.ctx = ctx
    BY <2>c DEF Chunked
  <2> HIDE DEF n
  <2>5. Checks(t, tab[t], tab'[t])
    BY <2>1, <2>2, <2>3, <2>4 DEF Checks, Keeps, n
  <2>6. Move(t, tab[t], tab'[t])
    BY <2>5 DEF Move
  <2>7. IsJob(tab'[t])
    BY <2>4 DEF n
  <2> QED BY <2>6, <2>7 DEF Moves
<1> QED BY <1>1, <1>2, CheckIs

LEMMA SendMoves == ASSUME TypeOK, NEW t \in Tab, Send(t) \/ Busy(t) PROVE Moves(t)
<1>t. IsJob(tab[t]) /\ tab[t].pc \in {"send", "complete"} /\ (Send(t) => tab[t].pc = "send")
  BY DEF TypeOK, Send, Busy
<1>1. CASE Send(t) /\ Go(t, [tab[t] EXCEPT !.pc = IF tab[t].todo # {} THEN "check" ELSE "list", !.moved = TRUE])
  <2>1. tab'[t] = [tab[t] EXCEPT !.pc = IF tab[t].todo # {} THEN "check" ELSE "list", !.moved = TRUE]
    BY <1>1, FlowMoves
  <2>2. /\ IsJob(tab'[t]) /\ tab'[t].pc \in {"check", "list"} /\ tab'[t].own = tab[t].own
        /\ tab'[t].mk = tab[t].mk /\ tab'[t].ctx = tab[t].ctx /\ tab'[t].todo = tab[t].todo
        /\ tab'[t].saved = tab[t].saved
    BY <1>t, <2>1 DEF IsJob, Fields
  <2> QED BY <1>t, <1>1, <2>2 DEF Moves, Move, GoesOn, Keeps
<1>2. CASE Go(t, [tab[t] EXCEPT !.pc = "list"])
  <2>1. tab'[t] = [tab[t] EXCEPT !.pc = "list"]
    BY <1>2, FlowMoves
  <2>2. /\ IsJob(tab'[t]) /\ tab'[t].pc = "list" /\ tab'[t].own = tab[t].own
        /\ tab'[t].mk = tab[t].mk /\ tab'[t].ctx = tab[t].ctx /\ tab'[t].todo = tab[t].todo
        /\ tab'[t].saved = tab[t].saved
    BY <1>t, <2>1 DEF IsJob, Fields
  <2> QED BY <1>t, <2>2 DEF Moves, Move, GoesOn, Keeps
<1>3. CASE Go(t, Reload(tab[t], TRUE))
  <2>1. tab'[t] = Reload(tab[t], TRUE)
    BY <1>3, FlowMoves
  <2> QED BY <1>t, <2>1, ReloadTyped DEF Moves, Move, Ends
<1>4. CASE \E x : Finish(t, x)
  BY <1>4, FlowMoves
<1> QED BY <1>1, <1>2, <1>3, <1>4 DEF Send, Busy

LEMMA RemoveMoves ==
  ASSUME TypeOK, NEW t \in Tab, RemoveRead(t) \/ RemoveSend(t) \/ Settle(t) \/ ReadmitSend(t)
  PROVE  Moves(t)
<1>t. IsJob(tab[t]) /\ row[Owner[t]].gen \in Nat
  BY JobAssumption DEF TypeOK, ServerTyped, RowType
<1>1. CASE Go(t, [tab[t] EXCEPT !.pc = "removeSend", !.own = row[Owner[t]].gen]) /\ tab[t].pc = "remove"
  <2>1. tab'[t] = [tab[t] EXCEPT !.pc = "removeSend", !.own = row[Owner[t]].gen]
    BY <1>1, FlowMoves
  <2>2. IsJob(tab'[t]) /\ tab'[t].pc = "removeSend" /\ tab'[t].who = tab[t].who
    BY <1>t, <2>1 DEF IsJob, Fields
  <2> QED BY <1>1, <2>2 DEF Moves, Move, Removes
<1>2. CASE (\E x, v : AfterRemoval(t, x, v)) \/ \E x : Say(t, x) \/ SayAndRun(t, x)
  BY <1>2, FlowMoves
<1> QED BY <1>1, <1>2 DEF RemoveRead, RemoveSend, Settle, ReadmitSend

LEMMA ApproveMoves == ASSUME TypeOK, NEW t \in Tab, ApproveSend(t) PROVE Moves(t)
<1>t. IsJob(tab[t]) /\ tab[t].pc = "approveSend"
  BY DEF TypeOK, ApproveSend
<1>1. CASE Go(t, [tab[t] EXCEPT !.pc = "settle", !.unsettled = "stale"])
  <2>1. tab'[t] = [tab[t] EXCEPT !.pc = "settle", !.unsettled = "stale"]
    BY <1>1, FlowMoves
  <2>2. IsJob(tab'[t]) /\ tab'[t].pc = "settle" /\ tab'[t].who = tab[t].who /\ tab'[t].print = tab[t].print
    BY <1>t, <2>1 DEF IsJob, Fields
  <2> QED BY <1>t, <2>2 DEF Moves, Move, Approves
<1>2. CASE Go(t, [tab[t] EXCEPT !.second = TRUE])
  <2>1. tab'[t] = [tab[t] EXCEPT !.second = TRUE]
    BY <1>2, FlowMoves
  <2>2. IsJob(tab'[t]) /\ tab'[t].pc = tab[t].pc /\ tab'[t].who = tab[t].who /\ tab'[t].print = tab[t].print
    BY <1>t, <2>1 DEF IsJob, Fields
  <2> QED BY <1>t, <2>2 DEF Moves, Move, Approves
<1>3. CASE \E x : Say(t, x) \/ SayAndRun(t, x)
  BY <1>3, FlowMoves
<1>4. \A a : TryRewrap(t, a) \/ TryRekey(t, a) => Moves(t)
  BY <1>1, <1>2, <1>3 DEF TryRewrap, TryRekey, AfterWrite
<1> QED BY <1>3, <1>4 DEF ApproveSend

LEMMA LoseMoves == ASSUME TypeOK, NEW t \in Tab, Lose(t) PROVE Moves(t)
<1>t. IsJob(tab[t])
  BY DEF TypeOK
<1>1. CASE Go(t, [tab[t] EXCEPT !.pc = "settle"]) /\ tab[t].pc = "approveSend"
  <2>1. tab'[t] = [tab[t] EXCEPT !.pc = "settle"]
    BY <1>1, FlowMoves
  <2>2. IsJob(tab'[t]) /\ tab'[t].pc = "settle" /\ tab'[t].who = tab[t].who /\ tab'[t].print = tab[t].print
    BY <1>t, <2>1 DEF IsJob, Fields
  <2> QED BY <1>1, <2>2 DEF Moves, Move, Approves
<1>2. CASE \E x, v : AfterRemoval(t, x, v) \/ SayAndRun(t, x) \/ Finish(t, x)
  BY <1>2, FlowMoves
<1> QED BY <1>1, <1>2 DEF Lose

\* The job a confirmed prompt starts.
Confirmed(pc, v, print, own) ==
  [NoJob EXCEPT !.pc = pc, !.who = v, !.print = print, !.own = own]

LEMMA ConfirmedTyped ==
  ASSUME NEW pc, NEW v \in User, NEW print \in Int, NEW own \in Nat
  PROVE  LET n == Confirmed(pc, v, print, own)
         IN  IsJob(n) /\ n.pc = pc /\ n.who = v /\ n.print = print /\ n.own = own
BY NoJobTyped DEF IsJob, Fields, Account, Confirmed

LEMMA PressMoves == ASSUME TypeOK, NEW t \in Tab, Press(t) PROVE Moves(t)
<1>t. /\ IsJob(tab[t]) /\ IsJob(NoJob) /\ row[Owner[t]].gen \in Nat /\ \A v \in User : key[v] \in Nat
      /\ \A kind : kind # "none" /\ Confirming(t, kind) => screen[t].prompt.who \in User
  BY JobAssumption, NoJobTyped DEF TypeOK, ServerTyped, RowType, IsScreen, PromptType, NoPrompt, Confirming
<1>1. ASSUME NEW v \in User, BeginRemove(t, v) PROVE Moves(t)
  <2>1. tab'[t] = [NoJob EXCEPT !.pc = "remove", !.who = v]
    BY <1>1, FlowMoves DEF BeginRemove
  <2>2. IsJob(tab'[t]) /\ tab'[t].pc = "remove" /\ tab'[t].who = v
    BY <1>t, <2>1 DEF IsJob, Fields, Account
  <2> QED BY <1>1, <2>2 DEF Moves, Move, Removes, BeginRemove
<1>2. ASSUME ConfirmApprove(t) PROVE Moves(t)
  <2> DEFINE u == Owner[t]  v == screen[t].prompt.who
             n == [NoJob EXCEPT !.pc = "approveSend", !.who = v, !.print = key[v],
                                     !.own = row[u].gen, !.mint = MustMint(u, v)]
  <2>1. v \in User
    BY <1>t, <1>2 DEF ConfirmApprove
  <2>2. CASE Go(t, n) /\ MayApprove(u, v)
    <3>1. tab'[t] = n
      BY <2>2, FlowMoves
    <3> HIDE DEF v
    <3>a. key[v] \in Int /\ row[u].gen \in Nat
      BY <1>t, <2>1
    <3> DEFINE m == Confirmed("approveSend", v, key[v], row[u].gen)
    <3>m. IsJob(m) /\ m.pc = "approveSend" /\ m.who = v /\ m.print = key[v]
      BY <3>a, <2>1, ConfirmedTyped
    <3>n. n = [m EXCEPT !.mint = MustMint(u, v)]
      BY DEF Confirmed
    <3> HIDE DEF n, m
    <3>2. IsJob(n) /\ n.pc = "approveSend" /\ n.who = v /\ n.print = key[v]
      BY <3>m, <3>n DEF Fields, IsJob
    <3>3. tab[t].pc = "idle" /\ v # u
      BY <1>2, <2>2 DEF ConfirmApprove, Confirming, MayApprove, v
    <3>4. tab'[t].pc = "approveSend" /\ tab'[t].who = v /\ tab'[t].print = key[v]
      BY <3>1, <3>2
    <3> QED BY <2>1, <3>1, <3>2, <3>3, <3>4 DEF Moves, Move, Approves
  <2>3. CASE \E x : Say(t, x)
    BY <2>3, FlowMoves
  <2>4. (\E x : Say(t, x)) \/ (Go(t, n) /\ MayApprove(u, v))
    BY <1>2 DEF ConfirmApprove, ApprovalRefusal
  <2> QED BY <2>2, <2>3, <2>4
<1>3. ASSUME ConfirmReadmit(t) PROVE Moves(t)
  <2> DEFINE u == Owner[t]  v == screen[t].prompt.who
             n == [NoJob EXCEPT !.pc = "readmitSend", !.who = v, !.print = key[v], !.own = row[u].gen]
  <2>1. v \in User
    BY <1>t, <1>3 DEF ConfirmReadmit
  <2>2. CASE Go(t, n) /\ MayReadmit(u, v)
    <3>1. tab'[t] = n
      BY <2>2, FlowMoves
    <3> HIDE DEF v
    <3>a. key[v] \in Int /\ row[u].gen \in Nat
      BY <1>t, <2>1
    <3>2. IsJob(n) /\ n.pc = "readmitSend" /\ n.who = v /\ n.own = row[u].gen
      <4>1. n = Confirmed("readmitSend", v, key[v], row[u].gen)
        BY DEF Confirmed
      <4> HIDE DEF n
      <4> QED BY <4>1, <3>a, <2>1, ConfirmedTyped
    <3> HIDE DEF n
    <3>3. tab'[t].pc = "readmitSend" /\ tab'[t].who = v /\ tab'[t].own = row[u].gen
      BY <3>1, <3>2
    <3>4. Readmits(t, tab'[t])
      BY <2>1, <2>2, <3>3 DEF Readmits
    <3> QED BY <3>1, <3>2, <3>4 DEF Moves, Move
  <2>3. CASE \E x : Say(t, x)
    BY <2>3, FlowMoves
  <2>4. (\E x : Say(t, x)) \/ (Go(t, n) /\ MayReadmit(u, v))
    BY <1>3 DEF ConfirmReadmit
  <2> QED BY <2>2, <2>3, <2>4
<1>4. ASSUME OpenGroup(t) \/ ConfirmAccept(t) PROVE Moves(t)
  BY <1>4, FlowMoves DEF OpenGroup, ConfirmAccept
<1>5. ASSUME NEW v, PrepareApprove(t, v) \/ PrepareReadmit(t, v) \/ PrepareAccept(t, v) PROVE Moves(t)
  <2>1. tab' = tab
    BY <1>5 DEF PrepareApprove, PrepareReadmit, PrepareAccept, Prompt
  <2> QED BY <1>t, <2>1 DEF Moves
<1> QED BY <1>1, <1>2, <1>3, <1>4, <1>5 DEF Press

\* Every tab moves, or keeps what it holds, in every step.
LEMMA NextMoves == ASSUME TypeOK, [Next]_vars PROVE \A t \in Tab : Moves(t)
<1> SUFFICES ASSUME NEW t \in Tab PROVE Moves(t)
  OBVIOUS
<1>1. CASE tab'[t] = tab[t]
  BY <1>1 DEF Moves, TypeOK
<1>2. CASE tab'[t] # tab[t]
  <2>1. Steps(t)
    BY <1>2, OwnSteps
  <2> QED BY <2>1, LoadMoves, TakeOverMoves, ListMoves, CompleteMoves, CheckMoves, SendMoves,
       RemoveMoves, ApproveMoves, LoseMoves, PressMoves DEF Steps, JobStep
<1> QED BY <1>1, <1>2

-----------------------------------------------------------------------------
(* What a step writes at the server.                                       *)

\* A request of tab t reaches the server; otherwise the others act, or nobody.
Writes(t) ==
  \/ tab[t].pc = "takeover" /\ ~Dormant(Owner[t]) /\ TakeOverWrites(t)
  \/ tab[t].pc = "complete" /\ CompleteWrites(t)
  \/ tab[t].pc = "send" /\ ~Dormant(Owner[t]) /\ RewrapWrites(t)
  \/ tab[t].pc = "removeSend" /\ RemoveWrites(t)
  \/ tab[t].pc = "approveSend" /\ ~Dormant(Owner[t]) /\ ApproveWrites(t)
  \/ tab[t].pc = "readmitSend" /\ ReadmitWrites(t)

LEMMA StepWrites ==
  ASSUME NEW t \in Tab, Steps(t)
  PROVE  UNCHANGED <<server, invited>> \/ Writes(t)
<1>1. CASE JobStep(t)
  BY <1>1 DEF JobStep, Load, TakeOver, List, ListAgain, Complete, Check, Send, RemoveRead, RemoveSend,
     ApproveSend, Settle, ReadmitSend, Writes
<1>2. CASE Press(t) \/ Busy(t)
  BY <1>2 DEF Press, Busy, OpenGroup, ConfirmApprove, ConfirmReadmit, ConfirmAccept, BeginRemove,
     PrepareApprove, PrepareReadmit, PrepareAccept, Prompt
<1>3. CASE Lose(t)
  BY <1>3 DEF Lose, Writes
<1> QED BY <1>1, <1>2, <1>3 DEF Steps

LEMMA ServerSteps ==
  ASSUME [Next]_vars
  PROVE  UNCHANGED <<server, invited>> \/ Others \/ \E t \in Tab : Writes(t)
BY StepWrites DEF Next, Steps, vars

-----------------------------------------------------------------------------
(* The server's own invariant.                                             *)

\* No generation lies past the links, and no entry states an epoch to come.
RowsInv ==
  \A u \in User : /\ row[u].gen <= Len(links) /\ row[u].epoch <= key[u]
                  /\ -1 <= admission[u] /\ admission[u] <= Len(links)

\* A running rotation is at the newest generation; a leave has not minted it,
\* and the leaver is no admin.  Between rotations, whoever may invite and is not
\* dormant is at the newest generation.
MarkerInv ==
  IF marker = NoMarker
  THEN \A u \in User : Inviting(u) /\ ~Dormant(u) => row[u].gen = Len(links)
  ELSE IF BareLeave(marker)
  THEN /\ marker.gen = Len(links) + 1
       /\ \A u \in User : marker.who = u => ~IsAdmin(u)
  ELSE marker.gen = Len(links)

GenInv == RowsInv /\ MarkerInv

\* What every step leaves of the history.
Grown ==
  /\ Len(links') >= Len(links) /\ \A i \in 1..Len(links) : links'[i] = links[i]
  /\ \A v \in User : key'[v] >= key[v]
  /\ \A v \in invited : v \in invited' \/ Len(links') > Len(links) \/ BareLeave(marker)'
  /\ BareLeave(marker) => marker' = marker \/ Len(links') > Len(links)

Good == ServerTyped' /\ GenInv' /\ Grown

\* What a start leaves.
LEMMA MintIs ==
  ASSUME ServerTyped, NEW u \in User, NEW who \in Account, NEW kind \in {"removal", "rekey"},
         Mint(u, who, kind), MintAllowed(u, row[u].gen)
  PROVE  /\ links' \in Seq(LinkType) /\ Len(links') = Len(links) + 1 /\ Len(links) = row[u].gen
         /\ \A i \in 1..Len(links) : links'[i] = links[i]
         /\ links'[Len(links) + 1].who = who /\ links'[Len(links) + 1].kind = kind
         /\ marker' \in MarkerType /\ marker' # NoMarker
         /\ marker'.gen = Len(links) + 1 /\ marker'.by = u /\ marker'.who = who
<1> DEFINE x == [by |-> u, who |-> who, kind |-> kind]
<1>1. x \in LinkType /\ links \in Seq(LinkType) /\ row[u].gen \in Nat /\ Len(links) = row[u].gen
  BY DEF LinkType, Account, ServerTyped, RowType, MintAllowed
<1>2. links' = Append(links, x)
  BY DEF Mint
<1>3. marker' = [gen |-> row[u].gen + 1, by |-> u, who |-> who, kind |-> kind]
  BY DEF Mint
<1>4. marker' \in MarkerType /\ marker'.gen = Len(links) + 1 /\ marker'.by = u /\ marker'.who = who
  BY <1>1, <1>3 DEF MarkerType, Account
<1>5. marker' # NoMarker
  BY <1>1, <1>4 DEF NoMarker, None
<1> HIDE DEF x
<1>6. /\ links' \in Seq(LinkType) /\ Len(links') = Len(links) + 1
      /\ \A i \in 1..Len(links) : links'[i] = links[i]
      /\ links'[Len(links) + 1] = x
  BY <1>1, <1>2
<1>7. x.who = who /\ x.kind = kind
  BY DEF x
<1> QED BY <1>1, <1>4, <1>5, <1>6, <1>7

LEMMA MovedTyped ==
  ASSUME ServerTyped, NEW u \in User, NEW g \in Nat
  PROVE  /\ Moved(u, g) \in RowType /\ Moved(u, g).role = row[u].role
         /\ Moved(u, g).gen = g /\ Moved(u, g).epoch = key[u]
BY DEF ServerTyped, RowType, Moved

LEMMA UnchangedGood ==
  ASSUME ServerTyped, GenInv, UNCHANGED <<server, invited>>
  PROVE  Good
<1>1. ServerTyped' /\ GenInv'
  BY DEF server, ServerTyped, GenInv, RowsInv, MarkerInv, Dormant, Inviting, IsAdmin, BareLeave
<1>2. Grown
  BY DEF server, Grown, ServerTyped, BareLeave
<1> QED BY <1>1, <1>2 DEF Good

\* A takeover mints what the leave left out; the taker is not the leaver.
LEMMA TakeOverIs ==
  ASSUME TypeOK, GenInv, NEW t \in Tab, TakeOverWrites(t), BareLeave(tab[t].mk)
  PROVE  \/ UNCHANGED <<server, invited>>
         \/ LET u == Owner[t]  who == marker.who
            IN  /\ u \in User /\ who # u /\ BareLeave(marker) /\ MintAllowed(u, row[u].gen)
                /\ Mint(u, who, "removal") /\ who \in Account
                /\ row' = [row EXCEPT ![u] = Moved(u, row[u].gen + 1)]
                /\ admission' = [admission EXCEPT ![who] = None]
                /\ UNCHANGED <<key, invited>>
<1> DEFINE u == Owner[t]  who == marker.who
<1>1. CASE ~(marker = tab[t].mk /\ MintAllowed(u, tab[t].own))
  BY <1>1 DEF TakeOverWrites
<1>2. CASE marker = tab[t].mk /\ MintAllowed(u, tab[t].own)
  <2>1. /\ Mint(u, who, "removal")
        /\ row' = [row EXCEPT ![u] = Moved(u, row[u].gen + 1)]
        /\ admission' = [admission EXCEPT ![who] = None]
        /\ UNCHANGED <<key, invited>>
    BY <1>2 DEF TakeOverWrites
  <2>2. u \in User /\ who \in Account
    BY JobAssumption DEF TypeOK, ServerTyped, MarkerType
  <2>3. BareLeave(marker) /\ MintAllowed(u, row[u].gen) /\ IsAdmin(u)
    BY <1>2 DEF MintAllowed, AdminAt
  <2>4. who # u
    BY <2>2, <2>3 DEF GenInv, MarkerInv, BareLeave
  <2> QED BY <2>1, <2>2, <2>3, <2>4
<1> QED BY <1>1, <1>2

LEMMA TakeOverGood ==
  ASSUME TypeOK, GenInv, NEW t \in Tab, TakeOverWrites(t), BareLeave(tab[t].mk)
  PROVE  Good
<1> DEFINE u == Owner[t]  who == marker.who
<1>s. ServerTyped
  BY DEF TypeOK
<1>1. CASE UNCHANGED <<server, invited>>
  BY <1>1, <1>s, UnchangedGood
<1>2. CASE /\ u \in User /\ who # u /\ BareLeave(marker) /\ MintAllowed(u, row[u].gen)
           /\ Mint(u, who, "removal") /\ who \in Account
           /\ row' = [row EXCEPT ![u] = Moved(u, row[u].gen + 1)]
           /\ admission' = [admission EXCEPT ![who] = None]
           /\ UNCHANGED <<key, invited>>
  <2>1. /\ links' \in Seq(LinkType) /\ Len(links') = Len(links) + 1 /\ Len(links) = row[u].gen
        /\ \A i \in 1..Len(links) : links'[i] = links[i]
        /\ marker' \in MarkerType /\ marker' # NoMarker
        /\ marker'.gen = Len(links) + 1 /\ marker'.by = u /\ marker'.who = who
    BY <1>2, <1>s, MintIs
  <2>2. row[u].gen \in Nat /\ Len(links) \in Nat
    BY <1>2, <1>s DEF ServerTyped, RowType
  <2>3. row' \in [User -> RowType] /\ \A v \in User : row'[v] = IF v = u THEN Moved(u, row[u].gen + 1) ELSE row[v]
    BY <1>2, <1>s, <2>2, MovedTyped DEF ServerTyped
  <2> HIDE DEF u, who
  <2>4. admission' \in [User -> Int] /\ \A v \in User : admission'[v] = IF v = who THEN None ELSE admission[v]
    <3>1. admission \in [User -> Int] /\ None \in Int
      BY <1>s DEF ServerTyped, None
    <3>2. admission' = [admission EXCEPT ![who] = None]
      BY <1>2
    <3> QED BY <3>1, <3>2
  <2>m. LET n == Moved(u, row[u].gen + 1)
        IN  n \in RowType /\ n.role = row[u].role /\ n.gen = Len(links) + 1 /\ n.epoch = key[u]
    BY <1>2, <1>s, <2>1, <2>2, MovedTyped
  <2>5. ServerTyped'
    BY <1>2, <1>s, <2>1, <2>3, <2>4 DEF ServerTyped
  <2>6. RowsInv'
    <3>1. /\ \A w \in User : row[w].gen \in Nat /\ row[w].epoch \in Nat /\ key[w] \in Nat /\ admission[w] \in Int
          /\ RowsInv /\ key' = key /\ None = -1
      BY <1>2, <1>s DEF ServerTyped, RowType, GenInv, None
    <3> QED BY <3>1, <2>1, <2>2, <2>3, <2>4, <2>m DEF RowsInv
  <2>7. MarkerInv'
    BY <1>2, <2>1 DEF MarkerInv, BareLeave, u, who
  <2>8. Grown
    BY <1>2, <1>s, <2>1, <2>2 DEF Grown, ServerTyped, u, who
  <2> QED BY <2>5, <2>6, <2>7, <2>8 DEF Good, GenInv
<1> QED BY <1>1, <1>2, TakeOverIs

\* A removal starts from no marker; nobody removes themselves.
LEMMA RemoveIs ==
  ASSUME TypeOK, NEW t \in Tab, RemoveWrites(t)
  PROVE  \/ UNCHANGED <<server, invited>>
         \/ LET u == Owner[t]  v == tab[t].who
            IN  /\ u \in User /\ v \in Members /\ v \in User
                /\ marker = NoMarker /\ MintAllowed(u, row[u].gen) /\ Mint(u, v, "removal")
                /\ row' = [row EXCEPT ![u] = Moved(u, row[u].gen + 1), ![v] = Out]
                /\ admission' = [admission EXCEPT ![v] = None]
                /\ invited' = invited \ {v} /\ UNCHANGED key
<1> DEFINE u == Owner[t]  v == tab[t].who
<1>1. CASE RemoveAnswer(u, tab[t].own, v) # "ok"
  BY <1>1 DEF RemoveWrites
<1>2. CASE RemoveAnswer(u, tab[t].own, v) = "ok"
  <2>1. v \in Members /\ marker = NoMarker /\ MintAllowed(u, tab[t].own)
    BY <1>2 DEF RemoveAnswer
  <2>2. MintAllowed(u, row[u].gen) /\ v \in User
    BY <2>1 DEF MintAllowed, AdminAt, Members
  <2> QED BY <1>2, <2>1, <2>2, JobAssumption DEF RemoveWrites
<1> QED BY <1>1, <1>2

LEMMA RemoveGood ==
  ASSUME TypeOK, GenInv, NEW t \in Tab, RemoveWrites(t), tab[t].who # Owner[t]
  PROVE  Good
<1> DEFINE u == Owner[t]  v == tab[t].who
<1>s. ServerTyped
  BY DEF TypeOK
<1>1. CASE UNCHANGED <<server, invited>>
  BY <1>1, <1>s, UnchangedGood
<1>2. CASE /\ u \in User /\ v \in Members /\ v \in User
           /\ marker = NoMarker /\ MintAllowed(u, row[u].gen) /\ Mint(u, v, "removal")
           /\ row' = [row EXCEPT ![u] = Moved(u, row[u].gen + 1), ![v] = Out]
           /\ admission' = [admission EXCEPT ![v] = None]
           /\ invited' = invited \ {v} /\ UNCHANGED key
  <2>1. /\ links' \in Seq(LinkType) /\ Len(links') = Len(links) + 1 /\ Len(links) = row[u].gen
        /\ \A i \in 1..Len(links) : links'[i] = links[i]
        /\ marker' \in MarkerType /\ marker' # NoMarker
        /\ marker'.gen = Len(links) + 1 /\ marker'.by = u /\ marker'.who = v
    BY <1>2, <1>s, MintIs DEF Account
  <2>2. row[u].gen \in Nat /\ Len(links) \in Nat /\ Out \in RowType /\ Out.gen = 0 /\ Out.epoch = 0
    BY <1>2, <1>s DEF ServerTyped, RowType, Out
  <2>3. row' \in [User -> RowType]
        /\ \A w \in User : row'[w] = IF w = v THEN Out ELSE IF w = u THEN Moved(u, row[u].gen + 1) ELSE row[w]
    <3> HIDE DEF u, v
    <3>1. Moved(u, row[u].gen + 1) \in RowType
      BY <1>2, <1>s, <2>2, MovedTyped
    <3>2. row' = [row EXCEPT ![u] = Moved(u, row[u].gen + 1), ![v] = Out] /\ row \in [User -> RowType]
      BY <1>2, <1>s DEF ServerTyped
    <3> QED BY <3>1, <3>2, <2>2
  <2> HIDE DEF u, v
  <2>4. admission' \in [User -> Int] /\ \A w \in User : admission'[w] = IF w = v THEN None ELSE admission[w]
    <3>1. admission \in [User -> Int] /\ None \in Int
      BY <1>s DEF ServerTyped, None
    <3>2. admission' = [admission EXCEPT ![v] = None]
      BY <1>2
    <3> QED BY <3>1, <3>2
  <2>m. LET n == Moved(u, row[u].gen + 1)
        IN  n \in RowType /\ n.role = row[u].role /\ n.gen = Len(links) + 1 /\ n.epoch = key[u]
    BY <1>2, <1>s, <2>1, <2>2, MovedTyped
  <2>5. ServerTyped'
    BY <1>2, <1>s, <2>1, <2>3, <2>4 DEF ServerTyped
  <2>6. RowsInv'
    <3>1. /\ \A w \in User : row[w].gen \in Nat /\ row[w].epoch \in Nat /\ key[w] \in Nat /\ admission[w] \in Int
          /\ RowsInv /\ key' = key /\ None = -1
      BY <1>2, <1>s DEF ServerTyped, RowType, GenInv, None
    <3> QED BY <3>1, <2>1, <2>2, <2>3, <2>4, <2>m DEF RowsInv
  <2>7. MarkerInv'
    BY <1>2, <2>1 DEF MarkerInv, BareLeave, u, v
  <2>8. Grown
    BY <1>2, <1>s, <2>1, <2>2 DEF Grown, ServerTyped, BareLeave, u, v
  <2> QED BY <2>5, <2>6, <2>7, <2>8 DEF Good, GenInv
<1> QED BY <1>1, <1>2, RemoveIs

\* An approval re-wraps, or re-keys from no marker; it re-wraps nobody past the
\* approver's own generation.
LEMMA ApproveIs ==
  ASSUME TypeOK, NEW t \in Tab, ApproveWrites(t)
  PROVE  \/ UNCHANGED <<server, invited>>
         \/ LET u == Owner[t]  v == tab[t].who  g == row[u].gen
            IN  /\ u \in User /\ v \in Members /\ v \in User /\ Inviting(u)
                /\ tab[t].print = key[v]
                /\ \/ /\ marker = NoMarker /\ MintAllowed(u, g) /\ Mint(u, v, "rekey")
                      /\ row' = [row EXCEPT ![u] = Moved(u, g + 1), ![v] = Moved(v, g + 1)]
                   \/ row' = [row EXCEPT ![v] = Moved(v, g)] /\ UNCHANGED <<marker, links>>
                /\ UNCHANGED <<key, admission, invited>>
<1> DEFINE u == Owner[t]  v == tab[t].who  g == row[u].gen
           how == How(tab[t])  a == ApproveAnswer(how, u, tab[t].own, v, tab[t].print)
<1>1. CASE a # "ok"
  BY <1>1 DEF ApproveWrites
<1>2. CASE a = "ok"
  <2>1. v \in Members /\ Inviting(u) /\ tab[t].own = g /\ tab[t].print = key[v]
        /\ (how = "rekey" => marker = NoMarker /\ MintAllowed(u, g))
    BY <1>2 DEF ApproveAnswer
  <2>2. u \in User /\ v \in User
    BY <2>1, JobAssumption DEF Members
  <2>3. /\ IF how = "rekey"
           THEN /\ Mint(u, v, "rekey")
                /\ row' = [row EXCEPT ![u] = Moved(u, g + 1), ![v] = Moved(v, g + 1)]
           ELSE row' = [row EXCEPT ![v] = Moved(v, g)] /\ UNCHANGED <<marker, links>>
        /\ UNCHANGED <<key, admission, invited>>
    BY <1>2, <2>1 DEF ApproveWrites
  <2> QED BY <2>1, <2>2, <2>3
<1> QED BY <1>1, <1>2

LEMMA ApproveGood ==
  ASSUME TypeOK, GenInv, NEW t \in Tab, ApproveWrites(t), ~Dormant(Owner[t]), tab[t].who # Owner[t]
  PROVE  Good
<1> DEFINE u == Owner[t]  v == tab[t].who  g == row[u].gen
<1>s. ServerTyped
  BY DEF TypeOK
<1>f. \A w \in User : /\ row[w].gen \in Nat /\ row[w].epoch \in Nat /\ key[w] \in Nat
                      /\ admission[w] \in Int
                      /\ row[w].gen <= Len(links) /\ row[w].epoch <= key[w] /\ -1 <= admission[w] /\ admission[w] <= Len(links)
  BY <1>s DEF ServerTyped, RowType, GenInv, RowsInv
<1>1. CASE UNCHANGED <<server, invited>>
  BY <1>1, <1>s, UnchangedGood
<1>2. CASE /\ u \in User /\ v \in User
           /\ marker = NoMarker /\ MintAllowed(u, g) /\ Mint(u, v, "rekey")
           /\ row' = [row EXCEPT ![u] = Moved(u, g + 1), ![v] = Moved(v, g + 1)]
           /\ UNCHANGED <<key, admission, invited>>
  <2>1. /\ links' \in Seq(LinkType) /\ Len(links') = Len(links) + 1 /\ Len(links) = g
        /\ \A i \in 1..Len(links) : links'[i] = links[i]
        /\ marker' \in MarkerType /\ marker' # NoMarker
        /\ marker'.gen = Len(links) + 1 /\ marker'.by = u /\ marker'.who = v
    BY <1>2, <1>s, MintIs DEF Account
  <2>m. \A w \in User : /\ Moved(w, g + 1) \in RowType
                        /\ Moved(w, g + 1).gen = g + 1 /\ Moved(w, g + 1).epoch = key[w]
    BY <1>2, <1>s, <1>f, MovedTyped
  <2>3. row' \in [User -> RowType]
        /\ \A w \in User : row'[w] \in {row[w], Moved(w, g + 1)}
    <3> HIDE DEF u, v, g
    <3>1. row' = [row EXCEPT ![u] = Moved(u, g + 1), ![v] = Moved(v, g + 1)] /\ row \in [User -> RowType]
      BY <1>2, <1>s DEF ServerTyped
    <3> QED BY <3>1, <2>m, <1>2
  <2>5. ServerTyped'
    BY <1>2, <1>s, <2>1, <2>3 DEF ServerTyped
  <2>6. RowsInv'
    BY <1>2, <1>f, <2>1, <2>3, <2>m DEF RowsInv
  <2>7. MarkerInv'
    BY <1>2, <2>1 DEF MarkerInv, BareLeave
  <2>8. Grown
    BY <1>2, <1>s, <1>f, <2>1 DEF Grown, ServerTyped, BareLeave
  <2> QED BY <2>5, <2>6, <2>7, <2>8 DEF Good, GenInv
<1>3. CASE /\ u \in User /\ v \in User /\ Inviting(u)
           /\ row' = [row EXCEPT ![v] = Moved(v, g)]
           /\ UNCHANGED <<marker, links, key, admission, invited>>
  <2>m. Moved(v, g) \in RowType /\ Moved(v, g).gen = g /\ Moved(v, g).epoch = key[v]
        /\ Moved(v, g).role = row[v].role
    BY <1>3, <1>s, <1>f, MovedTyped
  <2>3. row' \in [User -> RowType] /\ \A w \in User : row'[w] = IF w = v THEN Moved(v, g) ELSE row[w]
    <3> HIDE DEF u, v, g
    <3> QED BY <1>3, <1>s, <2>m DEF ServerTyped
  <2>5. ServerTyped'
    BY <1>3, <1>s, <2>3 DEF ServerTyped
  <2>6. RowsInv'
    BY <1>3, <1>f, <2>3, <2>m DEF RowsInv
  <2>7. MarkerInv'
    <3>1. marker = NoMarker => g = Len(links)
      BY <1>3 DEF GenInv, MarkerInv
    <3>2. \A w \in User : row'[w].role = row[w].role
                          /\ ((row'[w].gen = row[w].gen /\ row'[w].epoch = row[w].epoch) \/ row'[w].gen = g)
      BY <2>3, <2>m
    <3>3. \A w \in User : IsAdmin(w)' = IsAdmin(w) /\ Inviting(w)' = Inviting(w)
      BY <3>2 DEF IsAdmin, Inviting
    <3>4. \A w \in User : (Dormant(w)' = Dormant(w) /\ row'[w].gen = row[w].gen) \/ row'[w].gen = g
      BY <3>2, <1>3 DEF Dormant
    <3> HIDE DEF u, v, g
    <3> QED BY <1>3, <3>1, <3>3, <3>4 DEF GenInv, MarkerInv, BareLeave
  <2>8. Grown
    BY <1>3, <1>s, <1>f DEF Grown, ServerTyped, BareLeave
  <2> QED BY <2>5, <2>6, <2>7, <2>8 DEF Good, GenInv
<1> QED BY <1>1, <1>2, <1>3, ApproveIs

\* A completion ends a rotation nobody who may go on is behind.
LEMMA CompleteGood ==
  ASSUME TypeOK, GenInv, NEW t \in Tab, CompleteWrites(t)
  PROVE  Good /\ (marker' # marker => ~BareLeave(marker))
<1> DEFINE u == Owner[t]  g == tab[t].own
<1>s. ServerTyped /\ u \in User
  BY JobAssumption DEF TypeOK
<1>1. CASE CompleteAnswer(u, g) # "ok"
  <2>1. UNCHANGED <<server, invited>>
    BY <1>1 DEF CompleteWrites, server
  <2> QED BY <2>1, <1>s, UnchangedGood DEF server
<1>2. CASE CompleteAnswer(u, g) = "ok"
  <2>1. /\ marker # NoMarker /\ marker.gen = g /\ AdminAt(u, g)
        /\ \A v \in Members : row[v].gen < g => Dormant(v)
    BY <1>2 DEF CompleteAnswer
  <2>2. marker' = NoMarker /\ UNCHANGED <<row, key, links, admission, invited>>
    BY <1>2 DEF CompleteWrites
  <2>3. g <= Len(links) /\ g \in Nat /\ Len(links) \in Nat
    BY <1>s, <2>1 DEF AdminAt, GenInv, RowsInv, ServerTyped, RowType
  <2>4. ~BareLeave(marker) /\ g = Len(links)
    BY <2>1, <2>3 DEF GenInv, MarkerInv
  <2>5. ServerTyped'
    BY <1>s, <2>2 DEF ServerTyped, MarkerType, NoMarker, Account, None
  <2>6. RowsInv'
    BY <2>2 DEF GenInv, RowsInv
  <2>7. MarkerInv'
    <3>1. \A w \in User : Inviting(w) => w \in Members
      BY DEF Inviting, Members
    <3>2. \A w \in User : row[w].gen \in Nat /\ row[w].gen <= Len(links)
      BY <1>s DEF GenInv, RowsInv, ServerTyped, RowType
    <3>3. \A w \in User : Inviting(w) /\ ~Dormant(w) => row[w].gen = Len(links)
      BY <2>1, <2>3, <2>4, <3>1, <3>2
    <3> QED BY <2>2, <3>3 DEF MarkerInv, Inviting, Dormant
  <2>8. Grown
    BY <1>s, <2>2, <2>4 DEF Grown, ServerTyped, BareLeave
  <2> QED BY <2>4, <2>5, <2>6, <2>7, <2>8 DEF Good, GenInv
<1> QED BY <1>1, <1>2

\* A re-wrap is accepted at the newest generation only, unless somebody's leave
\* has outdated it, and then not at all.
LEMMA RewrapIs ==
  ASSUME TypeOK, GenInv, NEW t \in Tab, RewrapWrites(t), ~Dormant(Owner[t])
  PROVE  \/ UNCHANGED <<server, invited>>
         \/ /\ UNCHANGED <<key, marker, links, admission, invited>>
            /\ tab[t].batch \subseteq Members
            /\ tab[t].own = Len(links) /\ ~BareLeave(marker)
            /\ row' = [v \in User |-> IF v \in tab[t].batch THEN [row[v] EXCEPT !.gen = tab[t].own] ELSE row[v]]
<1> DEFINE u == Owner[t]  g == tab[t].own
<1>s. ServerTyped /\ u \in User
  BY JobAssumption DEF TypeOK
<1>1. CASE RewrapAnswer(u, g, tab[t].batch) # "ok"
  BY <1>1 DEF RewrapWrites, server
<1>2. CASE RewrapAnswer(u, g, tab[t].batch) = "ok"
  <2>1. /\ marker # NoMarker => marker.gen = g
        /\ AdminAt(u, g) /\ \A v \in tab[t].batch : v \in Members
    BY <1>2 DEF RewrapAnswer
  <2>2. g <= Len(links) /\ g \in Nat /\ Len(links) \in Nat
    BY <1>s, <2>1 DEF AdminAt, GenInv, RowsInv, ServerTyped, RowType
  <2>3. marker = NoMarker => g = Len(links) /\ ~BareLeave(marker)
    BY <1>s, <2>1 DEF AdminAt, IsAdmin, Inviting, GenInv, MarkerInv, BareLeave
  <2>4. marker # NoMarker => g = Len(links) /\ ~BareLeave(marker)
    BY <2>1, <2>2 DEF GenInv, MarkerInv
  <2> QED BY <1>2, <2>1, <2>3, <2>4 DEF RewrapWrites
<1> QED BY <1>1, <1>2

LEMMA RewrapGood ==
  ASSUME TypeOK, GenInv, NEW t \in Tab, RewrapWrites(t), ~Dormant(Owner[t])
  PROVE  Good
<1> DEFINE g == tab[t].own  b == tab[t].batch
<1>s. ServerTyped
  BY DEF TypeOK
<1>f. \A w \in User : /\ row[w].gen \in Nat /\ row[w].epoch \in Nat /\ key[w] \in Nat
                      /\ row[w] \in RowType
                      /\ row[w].gen <= Len(links) /\ row[w].epoch <= key[w] /\ -1 <= admission[w] /\ admission[w] <= Len(links)
  BY <1>s DEF ServerTyped, RowType, GenInv, RowsInv
<1>1. CASE UNCHANGED <<server, invited>>
  BY <1>1, <1>s, UnchangedGood
<1>2. CASE /\ UNCHANGED <<key, marker, links, admission, invited>>
           /\ g = Len(links) /\ ~BareLeave(marker)
           /\ row' = [v \in User |-> IF v \in b THEN [row[v] EXCEPT !.gen = g] ELSE row[v]]
  <2>1. \A w \in User : LET n == [row[w] EXCEPT !.gen = g]
                        IN  n \in RowType /\ n.gen = g /\ n.role = row[w].role /\ n.epoch = row[w].epoch
    <3>1. g \in Nat
      BY <1>2, <1>s DEF ServerTyped
    <3> HIDE DEF g
    <3> QED BY <1>f, <3>1 DEF RowType
  <2>2. row' \in [User -> RowType]
        /\ \A w \in User : /\ row'[w].role = row[w].role /\ row'[w].epoch = row[w].epoch
                           /\ row'[w].gen \in {row[w].gen, Len(links)}
    <3> HIDE DEF g, b
    <3> QED BY <1>f, <1>2, <2>1
  <2>3. ServerTyped'
    BY <1>2, <1>s, <2>2 DEF ServerTyped
  <2>4. RowsInv'
    BY <1>2, <1>s, <1>f, <2>2 DEF RowsInv, ServerTyped
  <2>5. MarkerInv'
    BY <1>2, <2>2 DEF GenInv, MarkerInv, BareLeave, IsAdmin, Inviting, Dormant
  <2>6. Grown
    BY <1>2, <1>s, <1>f DEF Grown, ServerTyped, BareLeave
  <2> QED BY <2>3, <2>4, <2>5, <2>6 DEF Good, GenInv
<1> QED BY <1>1, <1>2, RewrapIs

\* A re-admission is signed at the signer's generation.
LEMMA ReadmitIs ==
  ASSUME TypeOK, NEW t \in Tab, ReadmitWrites(t)
  PROVE  /\ UNCHANGED <<row, key, marker, links, invited>>
         /\ \/ admission' = admission
            \/ /\ tab[t].who \in Members /\ tab[t].who \in User /\ row[Owner[t]].gen = tab[t].own
               /\ admission' = [admission EXCEPT ![tab[t].who] = tab[t].own]
BY DEF ReadmitWrites, Members

LEMMA ReadmitGood ==
  ASSUME TypeOK, GenInv, NEW t \in Tab, ReadmitWrites(t)
  PROVE  Good
<1>s. ServerTyped /\ Owner[t] \in User /\ tab[t].own \in Nat
  BY JobAssumption DEF TypeOK, IsJob
<1>1. /\ UNCHANGED <<row, key, marker, links, invited>>
      /\ admission' \in [User -> Int]
      /\ \A v \in User : -1 <= admission'[v] /\ admission'[v] <= Len(links)
  <2>1. CASE admission' = admission
    BY <1>s, <2>1, ReadmitIs DEF GenInv, RowsInv, ServerTyped
  <2>2. CASE /\ row[Owner[t]].gen = tab[t].own /\ tab[t].who \in User
             /\ admission' = [admission EXCEPT ![tab[t].who] = tab[t].own]
    <3> DEFINE v == tab[t].who  g == tab[t].own
    <3>1. g \in Nat /\ g <= Len(links) /\ admission \in [User -> Int]
          /\ \A w \in User : -1 <= admission[w] /\ admission[w] <= Len(links)
      BY <1>s, <2>2 DEF GenInv, RowsInv, ServerTyped
    <3>2. admission' = [admission EXCEPT ![v] = g] /\ v \in User
      BY <2>2
    <3> HIDE DEF v, g
    <3>3. admission' \in [User -> Int] /\ \A w \in User : admission'[w] \in {admission[w], g}
      BY <3>1, <3>2
    <3>4. \A w \in User : -1 <= admission'[w] /\ admission'[w] <= Len(links)
      BY <3>1, <3>3
    <3>5. UNCHANGED <<row, key, marker, links, invited>>
      BY ReadmitIs
    <3> QED BY <3>3, <3>4, <3>5
  <2> QED BY <2>1, <2>2, ReadmitIs
<1>2. ServerTyped'
  BY <1>s, <1>1 DEF ServerTyped
<1>3. RowsInv'
  BY <1>1 DEF GenInv, RowsInv
<1>4. MarkerInv'
  BY <1>1 DEF GenInv, MarkerInv, BareLeave, IsAdmin, Inviting, Dormant
<1>5. Grown
  BY <1>1, <1>s DEF Grown, ServerTyped, BareLeave
<1> QED BY <1>2, <1>3, <1>4, <1>5 DEF Good, GenInv

\* Everybody else: an invitation, a leave, a change of keys, a stray entry, a
\* record that no longer verifies.
LEMMA OthersGood == ASSUME TypeOK, GenInv, Others PROVE Good
<1>s. ServerTyped
  BY DEF TypeOK
<1>f. \A w \in User : /\ row[w].gen \in Nat /\ row[w].epoch \in Nat /\ key[w] \in Nat
                      /\ row[w] \in RowType /\ admission[w] \in Int
                      /\ row[w].gen <= Len(links) /\ row[w].epoch <= key[w] /\ -1 <= admission[w] /\ admission[w] <= Len(links)
  BY <1>s DEF ServerTyped, RowType, GenInv, RowsInv
<1>l. Len(links) \in Nat /\ None = -1 /\ links \in Seq(LinkType)
  BY <1>s DEF ServerTyped, None
<1>1. ASSUME NEW i \in User, NEW v \in User, Invite(i, v) PROVE Good
  <2> DEFINE n == [role |-> "member", gen |-> row[i].gen, epoch |-> key[v]]
  <2>1. n \in RowType /\ n.role = "member" /\ n.gen = row[i].gen /\ n.epoch = key[v]
    BY <1>f DEF RowType
  <2> HIDE DEF n
  <2>2. row' = [row EXCEPT ![v] = n] /\ admission' = [admission EXCEPT ![v] = row[i].gen]
        /\ UNCHANGED <<key, marker, links>> /\ invited' = invited \cup {v} /\ v \notin Members
    BY <1>1 DEF Invite, n
  <2>3. row' \in [User -> RowType] /\ \A w \in User : row'[w] = IF w = v THEN n ELSE row[w]
    BY <1>s, <2>1, <2>2 DEF ServerTyped
  <2>4. admission' \in [User -> Int]
        /\ \A w \in User : admission'[w] = IF w = v THEN row[i].gen ELSE admission[w]
    BY <1>s, <1>f, <2>2 DEF ServerTyped
  <2>5. ServerTyped'
    BY <1>s, <2>2, <2>3, <2>4 DEF ServerTyped
  <2>6. RowsInv'
    BY <1>f, <2>1, <2>2, <2>3, <2>4 DEF RowsInv
  <2>7. MarkerInv'
    <3>1. \A w \in User : (IsAdmin(w)' => IsAdmin(w)) /\ (Inviting(w)' => Inviting(w) /\ w # v)
      BY <2>1, <2>3 DEF IsAdmin, Inviting
    <3>2. \A w \in User : w # v => row'[w] = row[w]
      BY <2>3
    <3> QED BY <2>2, <3>1, <3>2 DEF GenInv, MarkerInv, BareLeave, Dormant
  <2>8. Grown
    BY <1>f, <1>l, <2>2 DEF Grown, BareLeave
  <2> QED BY <2>5, <2>6, <2>7, <2>8 DEF Good, GenInv
<1>2. ASSUME NEW v \in User, Leave(v) PROVE Good
  <2>1. /\ marker = NoMarker /\ row[v].gen = Len(links)
        /\ marker' = [gen |-> Len(links) + 1, by |-> v, who |-> v, kind |-> "removal"]
        /\ row' = [row EXCEPT ![v] = Out] /\ invited' = invited \ {v}
        /\ UNCHANGED <<key, links, admission>>
    BY <1>2 DEF Leave
  <2>2. Out \in RowType /\ Out.role = "out" /\ Out.gen = 0 /\ Out.epoch = 0
    BY DEF Out, RowType
  <2>3. row' \in [User -> RowType] /\ \A w \in User : row'[w] = IF w = v THEN Out ELSE row[w]
    BY <1>s, <2>1, <2>2 DEF ServerTyped
  <2>4. marker' \in MarkerType /\ marker'.gen = Len(links) + 1 /\ marker'.by = v /\ marker'.who = v
    BY <1>l, <2>1 DEF MarkerType, Account
  <2>m. marker' # NoMarker
    BY <1>l, <2>4 DEF NoMarker
  <2>5. ServerTyped'
    BY <1>s, <2>1, <2>3, <2>4 DEF ServerTyped
  <2>6. RowsInv'
    BY <1>f, <1>l, <2>1, <2>2, <2>3 DEF RowsInv
  <2>7. MarkerInv'
    <3>1. ~IsAdmin(v)'
      BY <2>2, <2>3 DEF IsAdmin
    <3> QED BY <2>1, <2>4, <2>m, <3>1 DEF MarkerInv, BareLeave
  <2>8. Grown
    BY <1>f, <1>l, <2>1, <2>4, <2>m DEF Grown, BareLeave
  <2> QED BY <2>5, <2>6, <2>7, <2>8 DEF Good, GenInv
<1>3. ASSUME NEW v \in User, ChangeKeys(v) PROVE Good
  <2>1. key' = [key EXCEPT ![v] = key[v] + 1] /\ UNCHANGED <<row, marker, links, admission, invited>>
    BY <1>3, <1>s DEF ChangeKeys, ServerTyped
  <2>2. key' \in [User -> Nat] /\ \A w \in User : key'[w] >= key[w]
    BY <1>s, <1>f, <2>1 DEF ServerTyped
  <2>5. ServerTyped'
    BY <1>s, <2>1, <2>2 DEF ServerTyped
  <2>6. RowsInv'
    BY <1>f, <2>1, <2>2 DEF RowsInv
  <2>7. MarkerInv'
    <3>1. \A w \in User : ~Dormant(w)' => ~Dormant(w)
      BY <1>f, <2>1, <2>2 DEF Dormant
    <3> QED BY <2>1, <3>1 DEF GenInv, MarkerInv, BareLeave, IsAdmin, Inviting
  <2>8. Grown
    BY <1>f, <1>l, <2>1, <2>2 DEF Grown, BareLeave
  <2> QED BY <2>5, <2>6, <2>7, <2>8 DEF Good, GenInv
<1>4. ASSUME NEW v \in User, Relist(v) PROVE Good
  <2> DEFINE n == [role |-> "member", gen |-> 0, epoch |-> key[v]]
  <2>1. n \in RowType /\ n.role = "member" /\ n.gen = 0 /\ n.epoch = key[v]
    BY <1>f DEF RowType
  <2> HIDE DEF n
  <2>2. row' = [row EXCEPT ![v] = n] /\ admission' = [admission EXCEPT ![v] = 0]
        /\ UNCHANGED <<key, marker, links, invited>>
    BY <1>4 DEF Relist, n
  <2>3. row' \in [User -> RowType] /\ \A w \in User : row'[w] = IF w = v THEN n ELSE row[w]
    BY <1>s, <2>1, <2>2 DEF ServerTyped
  <2>4. admission' \in [User -> Int]
        /\ \A w \in User : admission'[w] = IF w = v THEN 0 ELSE admission[w]
    BY <1>s, <1>f, <2>2 DEF ServerTyped
  <2>5. ServerTyped'
    BY <1>s, <2>2, <2>3, <2>4 DEF ServerTyped
  <2>6. RowsInv'
    BY <1>f, <1>l, <2>1, <2>2, <2>3, <2>4 DEF RowsInv
  <2>7. MarkerInv'
    <3>1. \A w \in User : (IsAdmin(w)' => IsAdmin(w)) /\ (Inviting(w)' => Inviting(w) /\ w # v)
      BY <2>1, <2>3 DEF IsAdmin, Inviting
    <3>2. \A w \in User : w # v => row'[w] = row[w]
      BY <2>3
    <3> QED BY <2>2, <3>1, <3>2 DEF GenInv, MarkerInv, BareLeave, Dormant
  <2>8. Grown
    BY <1>f, <1>l, <2>2 DEF Grown, BareLeave
  <2> QED BY <2>5, <2>6, <2>7, <2>8 DEF Good, GenInv
<1>5. ASSUME NEW v \in User, SpoilRecord(v) PROVE Good
  <2>1. admission' = [admission EXCEPT ![v] = None] /\ UNCHANGED <<row, key, marker, links, invited>>
    BY <1>5 DEF SpoilRecord
  <2>2. admission' \in [User -> Int]
        /\ \A w \in User : admission'[w] = IF w = v THEN None ELSE admission[w]
    BY <1>s, <1>l, <2>1 DEF ServerTyped
  <2>5. ServerTyped'
    BY <1>s, <2>1, <2>2 DEF ServerTyped
  <2>6. RowsInv'
    BY <1>f, <1>l, <2>1, <2>2 DEF RowsInv
  <2>7. MarkerInv'
    BY <2>1 DEF GenInv, MarkerInv, BareLeave, IsAdmin, Inviting, Dormant
  <2>8. Grown
    BY <1>f, <1>l, <2>1 DEF Grown, BareLeave
  <2> QED BY <2>5, <2>6, <2>7, <2>8 DEF Good, GenInv
<1> QED BY <1>1, <1>2, <1>3, <1>4, <1>5 DEF Others

-----------------------------------------------------------------------------
(* The types of what the tabs hold.                                        *)

\* A step pins a key in a check, or one key from an idle tab: at first sight, or
\* because it was shown and accepted.
Accepts(t, v) == screen[t].prompt = [kind |-> "accept", who |-> v, print |-> key[v]]

PinsOne(t) ==
  /\ tab[t].pc = "idle" /\ tab'[t].pc \notin {"check", "send"}
  /\ \E v \in User : /\ pins' = [pins EXCEPT ![Owner[t]][v] = key[v]]
                     /\ pins[Owner[t]][v] = None \/ Accepts(t, v)

LEMMA PinSteps ==
  ASSUME TypeOK, NEW t \in Tab, Steps(t)
  PROVE  pins' = pins \/ (tab[t].pc = "check" /\ ChecksChunk(t)) \/ PinsOne(t)
<1>1. CASE \/ Load(t) \/ TakeOver(t) \/ List(t) \/ Complete(t) \/ Send(t)
           \/ RemoveRead(t) \/ RemoveSend(t) \/ ApproveSend(t) \/ Settle(t) \/ ReadmitSend(t)
  BY <1>1 DEF Load, TakeOver, List, ListAgain, Complete, Send, RemoveRead, RemoveSend,
     ApproveSend, Settle, ReadmitSend
<1>2. CASE Check(t)
  BY <1>2, CheckIs DEF Check
<1>3. CASE Lose(t) \/ Busy(t)
  BY <1>3 DEF Lose, Busy
<1>p. /\ \A kind : kind # "none" /\ Confirming(t, kind) =>
           tab[t].pc = "idle" /\ screen[t].prompt.who \in User
      /\ \A kind : screen[t].prompt.kind = kind /\ kind # "none" =>
           screen[t].prompt = [kind |-> kind, who |-> screen[t].prompt.who, print |-> screen[t].prompt.print]
  BY DEF TypeOK, IsScreen, PromptType, NoPrompt, Confirming
<1>m. ASSUME Press(t), tab[t].pc = "idle" PROVE tab'[t].pc \notin {"check", "send"}
  BY <1>m, PressMoves DEF Moves, Move, Ends, TakesOver, Lists, Passes, Checks, GoesOn, Removes,
     Approves, Readmits
<1>4. CASE ConfirmApprove(t)
  <2>1. pins' = pins \/ PinFirstSight(Owner[t], screen[t].prompt.who)
    BY <1>4 DEF ConfirmApprove
  <2>2. tab[t].pc = "idle" => tab'[t].pc \notin {"check", "send"}
    BY <1>m, <1>4 DEF Press
  <2>3. tab[t].pc = "idle" /\ screen[t].prompt.who \in User
    BY <1>4, <1>p DEF ConfirmApprove
  <2>4. \/ pins' = pins
        \/ LET v == screen[t].prompt.who
           IN  pins[Owner[t]][v] = None /\ pins' = [pins EXCEPT ![Owner[t]][v] = key[v]]
    BY <2>1 DEF PinFirstSight
  <2> QED BY <2>2, <2>3, <2>4 DEF PinsOne
<1>5. CASE ConfirmReadmit(t)
  <2>1. pins' = pins \/ PinFirstSight(Owner[t], screen[t].prompt.who)
    BY <1>5 DEF ConfirmReadmit
  <2>2. tab[t].pc = "idle" => tab'[t].pc \notin {"check", "send"}
    BY <1>m, <1>5 DEF Press
  <2>3. tab[t].pc = "idle" /\ screen[t].prompt.who \in User
    BY <1>5, <1>p DEF ConfirmReadmit
  <2>4. \/ pins' = pins
        \/ LET v == screen[t].prompt.who
           IN  pins[Owner[t]][v] = None /\ pins' = [pins EXCEPT ![Owner[t]][v] = key[v]]
    BY <2>1 DEF PinFirstSight
  <2> QED BY <2>2, <2>3, <2>4 DEF PinsOne
<1>6. CASE ConfirmAccept(t)
  <2> DEFINE u == Owner[t]  v == screen[t].prompt.who
  <2>1. pins' = pins \/ (key[v] = screen[t].prompt.print /\ pins' = [pins EXCEPT ![u][v] = key[v]])
    BY <1>6 DEF ConfirmAccept, AcceptedPins
  <2>2. tab'[t].pc \notin {"check", "send"} /\ tab[t].pc = "idle" /\ v \in User /\ screen[t].prompt.kind = "accept"
    <3>1. Confirming(t, "accept") /\ Press(t)
      BY <1>6 DEF ConfirmAccept, Press
    <3>2. tab[t].pc = "idle" /\ v \in User /\ screen[t].prompt.kind = "accept"
      BY <3>1, <1>p DEF Confirming
    <3> QED BY <3>1, <3>2, <1>m
  <2>3. key[v] = screen[t].prompt.print => Accepts(t, v)
    BY <2>2, <1>p DEF Accepts
  <2> QED BY <2>1, <2>2, <2>3 DEF PinsOne
<1>7. CASE OpenGroup(t)
  BY <1>7 DEF OpenGroup
<1>8. ASSUME NEW v, \/ BeginRemove(t, v) \/ PrepareApprove(t, v) \/ PrepareReadmit(t, v)
                    \/ PrepareAccept(t, v)
      PROVE  pins' = pins
  BY <1>8 DEF BeginRemove, PrepareApprove, PrepareReadmit, PrepareAccept, Prompt
<1> QED BY <1>1, <1>2, <1>3, <1>4, <1>5, <1>6, <1>7, <1>8 DEF Steps, JobStep, Press

LEMMA FlowScreens ==
  ASSUME TypeOK, NEW t \in Tab
  PROVE  /\ \A j : Go(t, j) => IsScreen(screen'[t])
         /\ \A x : Run(t, x) => IsScreen(screen'[t])
         /\ \A x : Finish(t, x) => IsScreen(screen'[t]) /\ screen'[t].status = x /\ tab'[t].pc = "idle"
         /\ \A x : Say(t, x) => IsScreen(screen'[t]) /\ screen'[t].said = x /\ tab'[t].pc = "idle"
         /\ \A x : SayAndRun(t, x) => IsScreen(screen'[t]) /\ screen'[t].said = x /\ tab'[t].pc = "load"
         /\ \A x, v : AfterRemoval(t, x, v) => IsScreen(screen'[t])
<1>t. /\ tab = [s \in Tab |-> tab[s]] /\ screen = [s \in Tab |-> screen[s]] /\ IsScreen(screen[t])
      /\ NoPrompt \in PromptType
  BY DEF TypeOK, PromptType
<1>1. \A j : Go(t, j) => IsScreen(screen'[t])
  BY <1>t DEF Go
<1>2. \A x : Run(t, x) => IsScreen(screen'[t])
  BY <1>1 DEF Run
<1>3. ASSUME NEW x, Finish(t, x)
      PROVE  IsScreen(screen'[t]) /\ screen'[t].status = x /\ tab'[t].pc = "idle"
  BY <1>t, <1>3, NoJobTyped DEF Finish, IsScreen
<1>4. ASSUME NEW x, Say(t, x)
      PROVE  IsScreen(screen'[t]) /\ screen'[t].said = x /\ tab'[t].pc = "idle"
  BY <1>t, <1>4, NoJobTyped DEF Say, IsScreen
<1>5. ASSUME NEW x, SayAndRun(t, x)
      PROVE  IsScreen(screen'[t]) /\ screen'[t].said = x /\ tab'[t].pc = "load"
  <2>1. tab'[t] = [NoJob EXCEPT !.pc = "load"]
    BY <1>t, <1>5 DEF SayAndRun
  <2>2. tab'[t].pc = "load"
    BY <2>1, NoJobTyped DEF IsJob, Fields
  <2> QED BY <1>t, <1>5, <2>2 DEF SayAndRun, IsScreen
<1>6. \A x, v : AfterRemoval(t, x, v) => IsScreen(screen'[t])
  BY <1>2, <1>4 DEF AfterRemoval
<1> QED BY <1>1, <1>2, <1>3, <1>4, <1>5, <1>6

LEMMA PromptScreens ==
  ASSUME TypeOK, NEW t \in Tab, NEW v \in User, NEW kind \in {"approve", "readmit", "accept"},
         Prompt(t, kind, v)
  PROVE  IsScreen(screen'[t])
<1>1. IsScreen(screen[t]) /\ screen = [s \in Tab |-> screen[s]] /\ key[v] \in Nat
  BY DEF TypeOK, ServerTyped
<1>2. [kind |-> kind, who |-> v, print |-> key[v]] \in PromptType
  BY <1>1 DEF PromptType
<1>3. screen'[t] = [screen[t] EXCEPT !.prompt = [kind |-> kind, who |-> v, print |-> key[v]]]
  BY <1>1 DEF Prompt
<1> QED BY <1>1, <1>2, <1>3 DEF IsScreen

LEMMA StepScreens ==
  ASSUME TypeOK, NEW t \in Tab, Steps(t)
  PROVE  IsScreen(screen'[t])
<1>1. Load(t) \/ TakeOver(t) \/ List(t) \/ Complete(t) => IsScreen(screen'[t])
  BY FlowScreens DEF Load, TakeOver, List, ListAgain, Complete
<1>2. Check(t) \/ Send(t) => IsScreen(screen'[t])
  BY FlowScreens DEF Check, Send
<1>3. RemoveRead(t) \/ RemoveSend(t) => IsScreen(screen'[t])
  BY FlowScreens DEF RemoveRead, RemoveSend
<1>4. ApproveSend(t) => IsScreen(screen'[t])
  <2>1. \A a : TryRewrap(t, a) \/ TryRekey(t, a) => IsScreen(screen'[t])
    BY FlowScreens DEF TryRewrap, TryRekey, AfterWrite
  <2> QED BY <2>1, FlowScreens DEF ApproveSend
<1>5. Settle(t) \/ ReadmitSend(t) => IsScreen(screen'[t])
  BY FlowScreens DEF Settle, ReadmitSend
<1>6. Press(t) => IsScreen(screen'[t])
  BY FlowScreens, PromptScreens DEF Press, OpenGroup, ConfirmApprove, ConfirmReadmit, ConfirmAccept,
     BeginRemove, PrepareApprove, PrepareReadmit, PrepareAccept
<1>7. Lose(t) \/ Busy(t) => IsScreen(screen'[t])
  BY FlowScreens DEF Lose, Busy
<1> QED BY <1>1, <1>2, <1>3, <1>4, <1>5, <1>6, <1>7 DEF Steps, JobStep

LEMMA StepPins ==
  ASSUME TypeOK, NEW t \in Tab, Steps(t)
  PROVE  pins' \in [User -> [User -> Int]]
<1>t. /\ pins \in [User -> [User -> Int]] /\ Owner[t] \in User
      /\ \A v \in User : key[v] \in Int
  BY JobAssumption DEF TypeOK, ServerTyped
<1>1. CASE pins' = pins
  BY <1>t, <1>1
<1>2. CASE ChecksChunk(t)
  <2>1. PICK chunk, c : CheckPins(t, chunk, c)
    BY <1>2 DEF ChecksChunk
  <2> QED BY <1>t, <2>1 DEF CheckPins
<1>3. CASE PinsOne(t)
  <2>1. PICK v \in User : pins' = [pins EXCEPT ![Owner[t]][v] = key[v]]
    BY <1>3 DEF PinsOne
  <2> QED BY <1>t, <2>1
<1> QED BY <1>1, <1>2, <1>3, PinSteps

LEMMA NextTyped ==
  ASSUME TypeOK, [Next]_vars, ServerTyped'
  PROVE  TypeOK'
<1>1. CASE Others \/ UNCHANGED vars
  <2>1. tab' = tab /\ screen' = screen /\ pins' = pins
    BY <1>1 DEF Others, Invite, Leave, ChangeKeys, Relist, SpoilRecord, vars
  <2> QED BY <2>1 DEF TypeOK
<1>2. ASSUME NEW t \in Tab, Steps(t) PROVE TypeOK'
  <2>t. /\ tab = [s \in Tab |-> tab[s]] /\ screen = [s \in Tab |-> screen[s]]
        /\ \A s \in Tab : IsScreen(screen[s])
    BY DEF TypeOK
  <2>1. PICK j : tab' = [tab EXCEPT ![t] = j]
    BY <1>2, StepsTouch DEF OnlyTab
  <2>2. PICK x : screen' = [screen EXCEPT ![t] = x]
    BY <1>2, StepsTouch DEF OnlyTab
  <2>3. tab' = [s \in Tab |-> tab'[s]] /\ screen' = [s \in Tab |-> screen'[s]]
        /\ \A s \in Tab : s # t => screen'[s] = screen[s]
    BY <2>t, <2>1, <2>2
  <2>4. \A s \in Tab : IsScreen(screen'[s])
    <3>1. IsScreen(screen'[t])
      BY <1>2, StepScreens
    <3> QED BY <2>t, <2>3, <3>1
  <2>5. \A s \in Tab : IsJob(tab'[s])
    BY NextMoves DEF Moves
  <2>6. \A s \in Tab : IsScreen(screen[s])' /\ IsJob(tab[s])'
    BY <2>4, <2>5 DEF IsScreen, IsJob
  <2> QED BY <1>2, <2>3, <2>6, StepPins DEF TypeOK
<1> QED BY <1>1, <1>2 DEF Next, Steps

-----------------------------------------------------------------------------
(* The invariant of the tabs, and of whoever is out.                       *)

\* A job's generation is outdated: its requests are refused from now on.
Stale(g) == g < Len(links) \/ BareLeave(marker)

\* Nobody removes or approves themselves; what an approval confirmed is no newer
\* than the keys; only a bare leave is taken over.
TargetsInv(t) ==
  LET j == tab[t]
  IN  /\ j.pc \in {"remove", "removeSend", "approveSend"} => j.who # Owner[t]
      /\ j.pc \in {"approveSend", "settle"} => j.who \in User /\ j.print <= key[j.who]
      /\ j.pc = "takeover" => BareLeave(j.mk)

\* A job runs for its own generation, under the marker it read.
JobInv(t) ==
  LET j == tab[t]
  IN  /\ j.pc \in {"list", "check", "send", "complete"} =>
           j.own <= Len(links) /\ (j.mk = NoMarker \/ j.mk.gen = j.own)
      /\ j.pc = "complete" => j.mk # NoMarker

\* What a job read of the admissions is right until its generation is outdated.
AdmittedInv(t) ==
  LET j == tab[t]
  IN  /\ j.pc \in {"check", "send"} =>
           \A c \in j.ctx, v \in User : Admitted(c, v) => v \in invited \/ Stale(j.own)
      /\ j.pc = "send" => Stale(j.own) \/ j.batch \subseteq invited

\* A re-admission names nobody whom the history it was checked against removed.
ReadmitInv(t) ==
  LET j == tab[t]
  IN  j.pc = "readmitSend" => j.own <= Len(links) /\ \A i \in 1..j.own : ~Removal(j.who, i)

TabInv == \A t \in Tab : TargetsInv(t) /\ JobInv(t) /\ AdmittedInv(t) /\ ReadmitInv(t)

\* Whoever is out was never let in, or a link past their admission removed them,
\* or the running leave is theirs.
Outside(v) ==
  \/ Founder[v] = "out" /\ v \notin Members /\ admission[v] = None
  \/ \E i \in 1..Len(links) : Removal(v, i) /\ admission[v] < i
  \/ BareLeave(marker) /\ marker.who = v

OutInv == \A v \in User \ invited : Outside(v)

IInv == TypeOK /\ GenInv /\ OutInv /\ TabInv

LEMMA InitIInv == ASSUME Init PROVE IInv
<1>1. ServerTyped
  <2>1. \A u \in User : [Out EXCEPT !.role = Founder[u]] \in RowType
    BY JobAssumption DEF Out, RowType
  <2>2. row \in [User -> RowType]
    BY <2>1 DEF Init
  <2>3. marker \in MarkerType /\ links \in Seq(LinkType)
    BY DEF Init, MarkerType, NoMarker, Account, None
  <2>4. key \in [User -> Nat] /\ admission \in [User -> Int] /\ invited \subseteq User
    BY DEF Init, None, Members
  <2> QED BY <2>2, <2>3, <2>4 DEF ServerTyped
<1>2. TypeOK
  <2>1. pins \in [User -> [User -> Int]]
    BY DEF Init, None
  <2>2. tab = [t \in Tab |-> tab[t]] /\ \A t \in Tab : IsJob(tab[t])
    BY NoJobTyped DEF Init
  <2>3. screen = [t \in Tab |-> screen[t]] /\ \A t \in Tab : IsScreen(screen[t])
    BY DEF Init, IsScreen, PromptType
  <2> QED BY <1>1, <2>1, <2>2, <2>3 DEF TypeOK
<1>r. /\ \A u \in User : row[u].role = Founder[u] /\ row[u].gen = 0 /\ row[u].epoch = 0 /\ key[u] = 0
      /\ links = <<>> /\ Len(links) = 0 /\ marker = NoMarker
  BY DEF Init, Out
<1>3. GenInv
  BY <1>r DEF GenInv, RowsInv, MarkerInv, Init, None
<1>4. OutInv
  BY <1>r DEF OutInv, Outside, Init, Members
<1>5. TabInv
  <2>1. \A t \in Tab : tab[t].pc = "idle"
    BY NoJobTyped DEF Init
  <2> QED BY <2>1 DEF TabInv, TargetsInv, JobInv, AdmittedInv, ReadmitInv
<1> QED BY <1>2, <1>3, <1>4, <1>5 DEF IInv

LEMMA NextGood == ASSUME IInv, [Next]_vars PROVE Good
<1>s. TypeOK /\ GenInv /\ ServerTyped
  BY DEF IInv, TypeOK
<1>1. CASE UNCHANGED <<server, invited>>
  BY <1>1, <1>s, UnchangedGood
<1>2. CASE Others
  BY <1>2, <1>s, OthersGood
<1>3. ASSUME NEW t \in Tab, Writes(t) PROVE Good
  <2>1. TargetsInv(t)
    BY DEF IInv, TabInv
  <2> QED BY <1>3, <1>s, <2>1, TakeOverGood, CompleteGood, RewrapGood, RemoveGood, ApproveGood, ReadmitGood
           DEF Writes, TargetsInv
<1> QED BY <1>1, <1>2, <1>3, ServerSteps

LEMMA StaleStays ==
  ASSUME ServerTyped, ServerTyped', Grown, NEW g \in Nat, g <= Len(links), Stale(g)
  PROVE  Stale(g)'
<1>1. Len(links) \in Nat /\ Len(links') \in Nat
  BY DEF ServerTyped
<1> QED BY <1>1 DEF Stale, Grown, BareLeave

\* Whoever is put out outdates every generation there is.
LEMMA InvitedStays ==
  ASSUME ServerTyped, ServerTyped', Grown, NEW g \in Nat, g <= Len(links), NEW v \in invited
  PROVE  v \in invited' \/ Stale(g)'
<1>1. Len(links) \in Nat /\ Len(links') \in Nat
  BY DEF ServerTyped
<1> QED BY <1>1 DEF Stale, Grown, BareLeave

\* What is loaded of the admissions admits nobody who is out, unless outdated.
LEMMA LoadedRight ==
  ASSUME IInv, NEW u \in User, NEW g \in Nat, g <= Len(links),
         NEW c \in LoadAdmissions(u, g), NEW v \in User, Admitted(c, v)
  PROVE  v \in invited \/ Stale(g)
<1>s. ServerTyped /\ Len(links) \in Nat /\ admission[v] \in Int
  BY DEF IInv, TypeOK, ServerTyped
<1> SUFFICES ASSUME v \notin invited, ~Stale(g) PROVE FALSE
  OBVIOUS
<1>1. g = Len(links) /\ ~BareLeave(marker)
  BY <1>s DEF Stale
<1>2. /\ c.record = admission /\ RemovedAt(g)[v] \in Nat /\ c.removedAt[v] = RemovedAt(g)[v]
      /\ \A i \in 1..g : Removal(v, i) => i <= RemovedAt(g)[v]
  BY <1>s, Loaded, RemovedAtIs
<1>3. CASE Founder[v] = "out" /\ admission[v] = None
  BY <1>2, <1>3, JobAssumption DEF Admitted
<1>4. ASSUME NEW i \in 1..Len(links), Removal(v, i), admission[v] < i PROVE FALSE
  BY <1>1, <1>2, <1>4, <1>s DEF Admitted
<1> QED BY <1>1, <1>3, <1>4 DEF IInv, OutInv, Outside

LEMMA TargetsNext ==
  ASSUME IInv, [Next]_vars, Good, NEW t \in Tab
  PROVE  TargetsInv(t)'
<1> DEFINE j == tab[t]  n == tab'[t]
<1>s. TypeOK /\ TargetsInv(t) /\ Grown /\ Moves(t) /\ ServerTyped /\ ServerTyped' /\ IsJob(j)
  BY NextMoves DEF IInv, TabInv, Good, TypeOK
<1>k. \A v \in User : key[v] \in Nat /\ key'[v] \in Nat /\ key'[v] >= key[v]
  BY <1>s DEF ServerTyped, Grown
<1>1. n.pc \in {"remove", "removeSend", "approveSend"} => n.who # Owner[t]
  BY <1>s DEF Moves, Move, Ends, TakesOver, Lists, Passes, Checks, GoesOn, Removes, Approves, Readmits,
     TargetsInv
<1>2. n.pc \in {"approveSend", "settle"} => n.who \in User /\ n.print <= key'[n.who]
  <2>1. CASE n.pc \in {"approveSend", "settle"} /\ n # j
    <3>1. Approves(t, j, n)
      BY <1>s, <2>1 DEF Moves, Move, Ends, TakesOver, Lists, Passes, Checks, GoesOn, Removes, Readmits
    <3>2. n.who \in User /\ n.print <= key[n.who] /\ n.print \in Int
      BY <1>s, <1>k, <3>1 DEF Approves, TargetsInv, IsJob
    <3> HIDE DEF n
    <3> QED BY <1>k, <3>2
  <2>2. CASE n.pc \in {"approveSend", "settle"} /\ n = j
    <3>1. j.who \in User /\ j.print <= key[j.who] /\ j.print \in Int
      BY <1>s, <2>2 DEF TargetsInv, IsJob
    <3> HIDE DEF n, j
    <3> QED BY <1>k, <2>2, <3>1
  <2> QED BY <2>1, <2>2
<1>3. n.pc = "takeover" => BareLeave(n.mk)
  BY <1>s DEF Moves, Move, Ends, TakesOver, Lists, Passes, Checks, GoesOn, Removes, Approves, Readmits,
     TargetsInv
<1> QED BY <1>1, <1>2, <1>3 DEF TargetsInv, BareLeave

LEMMA JobNext ==
  ASSUME IInv, [Next]_vars, Good, NEW t \in Tab
  PROVE  JobInv(t)'
<1> DEFINE j == tab[t]  n == tab'[t]
<1>s. /\ TypeOK /\ JobInv(t) /\ Grown /\ Moves(t) /\ IsJob(j) /\ IsJob(n)
      /\ Len(links) \in Nat /\ Len(links') \in Nat /\ Len(links') >= Len(links)
  BY NextMoves DEF IInv, TabInv, Good, TypeOK, ServerTyped, Moves, Grown
<1>r. row[Owner[t]].gen <= Len(links)
  BY JobAssumption DEF IInv, GenInv, RowsInv
<1>1. n.pc \in {"list", "check", "send", "complete"} => n.own <= Len(links) /\ (n.mk = NoMarker \/ n.mk.gen = n.own)
  BY <1>s, <1>r DEF Moves, Move, Ends, TakesOver, Lists, Passes, Checks, GoesOn, Removes, Approves,
     Readmits, Keeps, JobInv
<1>2. n.pc = "complete" => n.mk # NoMarker
  BY <1>s DEF Moves, Move, Ends, TakesOver, Lists, Passes, Checks, GoesOn, Removes, Approves,
     Readmits, JobInv
<1>3. n.own \in Nat
  BY <1>s DEF IsJob
<1> HIDE DEF n, j
<1>4. n.own <= Len(links) => n.own <= Len(links')
  BY <1>s, <1>3
<1> QED BY <1>1, <1>2, <1>4 DEF JobInv, n

LEMMA AdmittedNext ==
  ASSUME IInv, [Next]_vars, Good, NEW t \in Tab
  PROVE  AdmittedInv(t)'
<1> DEFINE j == tab[t]  n == tab'[t]  Right(c, g) == \A v \in User : Admitted(c, v) => v \in invited \/ Stale(g)
<1>s. /\ TypeOK /\ JobInv(t) /\ AdmittedInv(t) /\ Grown /\ Moves(t) /\ IsJob(j) /\ IsJob(n)
      /\ ServerTyped /\ ServerTyped' /\ Owner[t] \in User
  BY NextMoves, JobAssumption DEF IInv, TabInv, Good, TypeOK, Moves
<1>c. CASE n.pc \in {"check", "send"}
  <2>1. n.own = j.own /\ n.own \in Nat /\ n.own <= Len(links)
        /\ (n = j \/ Passes(t, j, n) \/ Checks(t, j, n) \/ GoesOn(j, n))
    BY <1>s, <1>c DEF Moves, Move, Ends, TakesOver, Lists, Passes, Checks, GoesOn, Removes, Approves,
       Readmits, Keeps, JobInv, IsJob
  <2>2. \A c \in n.ctx : Right(c, n.own)
    <3>1. CASE j.pc \in {"check", "send"} /\ n.ctx = j.ctx
      BY <1>s, <2>1, <3>1 DEF AdmittedInv
    <3>2. CASE n.ctx = LoadAdmissions(Owner[t], j.own)
      BY <1>s, <2>1, <3>2, LoadedRight
    <3>3. CASE n.ctx = {}
      BY <3>3
    <3> QED BY <1>c, <2>1, <3>1, <3>2, <3>3 DEF Passes, Checks, GoesOn
  <2>3. n.batch \subseteq User
    BY <1>s DEF IsJob
  <2>4. n.pc = "send" => Stale(n.own) \/ n.batch \subseteq invited
    <3>1. CASE n = j
      BY <1>s, <3>1 DEF AdmittedInv
    <3>2. CASE Checks(t, j, n)
      <4>1. PICK c \in n.ctx : \A v \in n.batch : Admitted(c, v)
        BY <3>2 DEF Checks
      <4> QED BY <2>2, <2>3, <4>1
    <3> QED BY <2>1, <3>1, <3>2 DEF Passes, GoesOn
  <2>g. PICK g \in Nat : g = n.own
    BY <2>1
  <2>5. \A v \in invited : v \in invited' \/ Stale(g)'
    BY <1>s, <2>1, <2>g, InvitedStays
  <2>6. Stale(g) => Stale(g)'
    BY <1>s, <2>1, <2>g, StaleStays
  <2>7. \A c \in n.ctx, v \in User : Admitted(c, v) => v \in invited' \/ Stale(g)'
    BY <2>2, <2>5, <2>6, <2>g
  <2>8. n.pc = "send" => Stale(g)' \/ n.batch \subseteq invited'
    BY <2>4, <2>5, <2>6, <2>g
  <2> QED BY <2>7, <2>8, <2>g DEF AdmittedInv, Stale, Admitted, BareLeave
<1> QED BY <1>c DEF AdmittedInv

LEMMA ReadmitNext ==
  ASSUME IInv, [Next]_vars, Good, NEW t \in Tab
  PROVE  ReadmitInv(t)'
<1> DEFINE j == tab[t]  n == tab'[t]
<1>s. /\ TypeOK /\ ReadmitInv(t) /\ Grown /\ Moves(t) /\ IsJob(j) /\ IsJob(n) /\ ServerTyped
      /\ Len(links) \in Nat /\ Len(links') \in Nat /\ Len(links') >= Len(links)
      /\ \A i \in 1..Len(links) : links'[i] = links[i]
  BY NextMoves DEF IInv, TabInv, Good, TypeOK, ServerTyped, Moves, Grown
<1>c. CASE n.pc = "readmitSend"
  <2>1. n.own \in Nat /\ n.own <= Len(links) /\ \A i \in 1..n.own : ~Removal(n.who, i)
    <3>1. CASE n = j
      BY <1>s, <1>c, <3>1 DEF ReadmitInv, IsJob
    <3>2. CASE n # j
      <4>1. Readmits(t, n)
        BY <1>s, <1>c, <3>2 DEF Moves, Move, Ends, TakesOver, Lists, Passes, Checks, GoesOn, Removes, Approves
      <4>2. n.own = row[Owner[t]].gen /\ n.own \in Nat /\ n.own <= Len(links)
        BY <1>s, <4>1, JobAssumption DEF Readmits, IsJob, IInv, GenInv, RowsInv
      <4>3. PICK c \in LoadAdmissions(Owner[t], n.own) : c.removedAt[n.who] = 0 /\ ~Admitted(c, n.who)
        BY <4>1, <4>2 DEF Readmits, MayReadmit
      <4>4. n.who \in User
        <5> QED BY <4>1 DEF Readmits
      <4> HIDE DEF n
      <4>5. \A i \in 1..n.own : Removal(n.who, i) => i <= 0
        BY <1>s, <4>2, <4>3, <4>4, Loaded, RemovedAtIs
      <4> QED BY <4>2, <4>5
    <3> QED BY <3>1, <3>2
  <2> HIDE DEF n, j
  <2>2. n.own <= Len(links') /\ \A i \in 1..n.own : links'[i] = links[i]
    BY <1>s, <2>1
  <2>3. \A i \in 1..n.own : ~(links'[i].kind = "removal" /\ links'[i].who = n.who)
    BY <2>1, <2>2 DEF Removal
  <2> QED BY <2>2, <2>3 DEF ReadmitInv, Removal, n
<1> QED BY <1>c DEF ReadmitInv

\* Whoever is out stays out of what a step does to others.
LEMMA OutsideStays ==
  ASSUME TypeOK, Good, NEW v \in User, Outside(v),
         row'[v].role = row[v].role, admission'[v] \in {admission[v], None},
         BareLeave(marker) /\ marker.who = v => marker' = marker
  PROVE  Outside(v)'
<1>s. /\ admission[v] \in Int /\ None = -1 /\ Len(links) \in Nat /\ Len(links') \in Nat
      /\ Len(links') >= Len(links) /\ \A i \in 1..Len(links) : links'[i] = links[i]
  BY DEF TypeOK, ServerTyped, None, Good, Grown
<1>1. CASE Founder[v] = "out" /\ v \notin Members /\ admission[v] = None
  BY <1>1 DEF Outside, Members
<1>2. ASSUME NEW i \in 1..Len(links), Removal(v, i), admission[v] < i PROVE Outside(v)'
  <2>1. i \in 1..Len(links') /\ Removal(v, i)'
    BY <1>s, <1>2 DEF Removal
  <2>2. admission'[v] < i
    BY <1>s, <1>2
  <2> QED BY <2>1, <2>2 DEF Outside
<1>3. CASE BareLeave(marker) /\ marker.who = v
  BY <1>3 DEF Outside, BareLeave
<1> QED BY <1>1, <1>2, <1>3 DEF Outside

\* A link that removes v puts v outside, once their record is gone.
LEMMA OutsideRemoved ==
  ASSUME Good, NEW v \in User, NEW i \in 1..Len(links'), admission'[v] = None,
         links'[i].kind = "removal", links'[i].who = v
  PROVE  Outside(v)'
<1>1. admission'[v] < i
  BY DEF None
<1> QED BY <1>1 DEF Outside, Removal

LEMMA OutTakeOver ==
  ASSUME IInv, Good, NEW t \in Tab, TakeOverWrites(t), BareLeave(tab[t].mk), NEW v \in User \ invited'
  PROVE  Outside(v)'
<1>s. TypeOK /\ GenInv /\ ServerTyped /\ (v \notin invited => Outside(v))
  BY DEF IInv, OutInv, TypeOK
<1>1. CASE UNCHANGED <<server, invited>>
  BY <1>1, <1>s, OutsideStays DEF server
<1>2. ASSUME NEW u \in User, NEW who \in Account, who = marker.who, IsAdmin(u),
             MintAllowed(u, row[u].gen), Mint(u, who, "removal"),
             row' = [row EXCEPT ![u] = Moved(u, row[u].gen + 1)],
             admission' = [admission EXCEPT ![who] = None], UNCHANGED <<key, invited>>
      PROVE Outside(v)'
  <2>0. "removal" \in {"removal", "rekey"} /\ who \in Account /\ Len(links) \in Nat
    BY <1>s DEF ServerTyped, Account
  <2>1. /\ Len(links') = Len(links) + 1 /\ links'[Len(links) + 1].who = who
        /\ links'[Len(links) + 1].kind = "removal"
    BY <1>s, <1>2, <2>0, MintIs
  <2>2. CASE v = who
    <3>1. admission'[v] = None
      BY <1>2, <1>s, <2>2 DEF ServerTyped
    <3> QED BY <2>1, <2>2, <3>1, OutsideRemoved
  <2>3. CASE v # who
    <3>1. admission'[v] = admission[v] /\ row[u].gen + 1 \in Nat
      BY <1>2, <1>s, <2>3 DEF ServerTyped, RowType
    <3>2. row'[v].role = row[v].role
      BY <1>2, <1>s, <3>1, MovedTyped DEF ServerTyped
    <3> QED BY <1>s, <1>2, <2>3, <3>1, <3>2, OutsideStays
  <2> QED BY <2>2, <2>3
<1> QED BY <1>s, <1>1, <1>2, TakeOverIs DEF MintAllowed, AdminAt

LEMMA OutRemove ==
  ASSUME IInv, Good, NEW t \in Tab, RemoveWrites(t), NEW v \in User \ invited'
  PROVE  Outside(v)'
<1>s. TypeOK /\ GenInv /\ ServerTyped /\ (v \notin invited => Outside(v))
  BY DEF IInv, OutInv, TypeOK
<1>1. CASE UNCHANGED <<server, invited>>
  BY <1>1, <1>s, OutsideStays DEF server
<1>2. ASSUME NEW u \in User, NEW who \in User, marker = NoMarker,
             MintAllowed(u, row[u].gen), Mint(u, who, "removal"),
             row' = [row EXCEPT ![u] = Moved(u, row[u].gen + 1), ![who] = Out],
             admission' = [admission EXCEPT ![who] = None], invited' = invited \ {who}
      PROVE Outside(v)'
  <2>0. "removal" \in {"removal", "rekey"} /\ who \in Account /\ Len(links) \in Nat
    BY <1>s DEF ServerTyped, Account
  <2>1. /\ Len(links') = Len(links) + 1 /\ links'[Len(links) + 1].who = who
        /\ links'[Len(links) + 1].kind = "removal"
    BY <1>s, <1>2, <2>0, MintIs
  <2>2. CASE v = who
    <3>1. admission'[v] = None
      BY <1>2, <1>s, <2>2 DEF ServerTyped
    <3> QED BY <2>1, <2>2, <3>1, OutsideRemoved
  <2>3. CASE v # who
    <3>1. admission'[v] = admission[v] /\ row[u].gen + 1 \in Nat
      BY <1>2, <1>s, <2>3 DEF ServerTyped, RowType
    <3>2. row'[v].role = row[v].role
      <4>1. Moved(u, row[u].gen + 1).role = row[u].role
        BY <1>s, <3>1, MovedTyped
      <4> QED BY <1>2, <1>s, <2>3, <4>1 DEF ServerTyped
    <3> QED BY <1>s, <1>2, <2>3, <3>1, <3>2, OutsideStays DEF BareLeave
  <2> QED BY <2>2, <2>3
<1> QED BY <1>1, <1>2, <1>s, RemoveIs

LEMMA OutApprove ==
  ASSUME IInv, Good, NEW t \in Tab, ApproveWrites(t), NEW v \in User \ invited'
  PROVE  Outside(v)'
<1>s. TypeOK /\ ServerTyped /\ (v \notin invited => Outside(v))
  BY DEF IInv, OutInv, TypeOK
<1>1. CASE UNCHANGED <<server, invited>>
  BY <1>1, <1>s, OutsideStays DEF server
<1>2. ASSUME NEW u \in User, NEW who \in User, NEW g \in Nat,
             \/ row' = [row EXCEPT ![u] = Moved(u, g + 1), ![who] = Moved(who, g + 1)]
             \/ row' = [row EXCEPT ![who] = Moved(who, g)],
             marker = NoMarker \/ marker' = marker,
             UNCHANGED <<admission, invited>>
      PROVE Outside(v)'
  <2>1. \A w \in User : Moved(w, g + 1).role = row[w].role /\ Moved(w, g).role = row[w].role
    BY <1>s, MovedTyped
  <2>2. row'[v].role = row[v].role
    BY <1>2, <1>s, <2>1 DEF ServerTyped
  <2> QED BY <1>s, <1>2, <2>2, OutsideStays DEF BareLeave
<1>3. row[Owner[t]].gen \in Nat
  BY <1>s, JobAssumption DEF ServerTyped, RowType
<1> DEFINE u == Owner[t]  who == tab[t].who  g == row[Owner[t]].gen
<1>4. \/ UNCHANGED <<server, invited>>
      \/ /\ u \in User /\ who \in User
         /\ \/ row' = [row EXCEPT ![u] = Moved(u, g + 1), ![who] = Moved(who, g + 1)]
            \/ row' = [row EXCEPT ![who] = Moved(who, g)]
         /\ marker = NoMarker \/ marker' = marker
         /\ UNCHANGED <<admission, invited>>
  BY <1>s, ApproveIs
<1> HIDE DEF u, who, g
<1>5. g \in Nat
  BY <1>3 DEF g
<1> QED BY <1>1, <1>2, <1>4, <1>5

LEMMA OutRewrap ==
  ASSUME IInv, Good, NEW t \in Tab, RewrapWrites(t), ~Dormant(Owner[t]), NEW v \in User \ invited'
  PROVE  Outside(v)'
<1>s. TypeOK /\ GenInv /\ ServerTyped /\ (v \notin invited => Outside(v))
  BY DEF IInv, OutInv, TypeOK
<1>1. row'[v].role = row[v].role /\ UNCHANGED <<marker, admission, invited>>
  <2>1. CASE UNCHANGED <<server, invited>>
    BY <2>1 DEF server
  <2>2. CASE /\ UNCHANGED <<key, marker, links, admission, invited>>
             /\ row' = [w \in User |-> IF w \in tab[t].batch THEN [row[w] EXCEPT !.gen = tab[t].own] ELSE row[w]]
    <3>1. row[v] \in RowType
      BY <1>s DEF ServerTyped
    <3> QED BY <2>2, <3>1 DEF RowType
  <2> QED BY <1>s, <2>1, <2>2, RewrapIs
<1> QED BY <1>1, <1>s, OutsideStays

LEMMA OutReadmit ==
  ASSUME IInv, Good, NEW t \in Tab, tab[t].pc = "readmitSend", ReadmitWrites(t), NEW v \in User \ invited'
  PROVE  Outside(v)'
<1>s. TypeOK /\ ServerTyped /\ (v \notin invited => Outside(v)) /\ ReadmitInv(t)
  BY DEF IInv, OutInv, TypeOK, TabInv
<1>u. UNCHANGED <<row, key, marker, links, invited>>
  BY <1>s, ReadmitIs
<1>1. CASE admission'[v] = admission[v]
  BY <1>s, <1>u, <1>1, OutsideStays
<1>2. CASE admission'[v] # admission[v]
  <2>1. v = tab[t].who /\ v \in Members /\ admission'[v] = tab[t].own
    BY <1>s, <1>2, ReadmitIs DEF ServerTyped
  <2>2. tab[t].own \in Nat /\ tab[t].own <= Len(links) /\ \A i \in 1..tab[t].own : ~Removal(v, i)
    BY <1>s, <2>1 DEF ReadmitInv, TypeOK, IsJob
  <2>3. \A i \in 1..Len(links) : Removal(v, i) => tab[t].own < i
    BY <2>2
  <2>4. \/ \E i \in 1..Len(links) : Removal(v, i) /\ admission[v] < i
        \/ BareLeave(marker) /\ marker.who = v
    BY <1>s, <1>u, <2>1 DEF Outside
  <2> QED BY <1>u, <2>1, <2>3, <2>4 DEF Outside, Removal, BareLeave
<1> QED BY <1>1, <1>2

LEMMA OutOthers ==
  ASSUME IInv, Good, Others, NEW v \in User \ invited'
  PROVE  Outside(v)'
<1>s. TypeOK /\ ServerTyped /\ (v \notin invited => Outside(v))
      /\ row \in [User -> RowType] /\ admission \in [User -> Int]
  BY DEF IInv, OutInv, TypeOK, ServerTyped
<1>1. ASSUME NEW i \in User, NEW w \in User, Invite(i, w) PROVE Outside(v)'
  <2>1. v # w /\ row'[v] = row[v] /\ admission'[v] = admission[v] /\ marker' = marker /\ v \notin invited
    BY <1>s, <1>1 DEF Invite
  <2> QED BY <1>s, <2>1, OutsideStays
<1>2. ASSUME NEW w \in User, Leave(w) PROVE Outside(v)'
  <2>1. CASE v = w
    <3>1. marker' = [gen |-> row[v].gen + 1, by |-> v, who |-> v, kind |-> "removal"]
      BY <1>2, <2>1 DEF Leave
    <3>2. marker'.by = v /\ marker'.who = v /\ marker'.gen = row[v].gen + 1 /\ row[v].gen \in Nat
      BY <1>s, <3>1 DEF RowType
    <3>3. marker' # NoMarker
      BY <3>2 DEF NoMarker, None
    <3> QED BY <3>2, <3>3 DEF Outside, BareLeave
  <2>2. CASE v # w
    <3>1. row'[v] = row[v] /\ admission'[v] = admission[v] /\ marker = NoMarker /\ v \notin invited
      BY <1>s, <1>2, <2>2 DEF Leave
    <3> QED BY <1>s, <3>1, OutsideStays DEF BareLeave
  <2> QED BY <2>1, <2>2
<1>3. ASSUME NEW w \in User, ChangeKeys(w) PROVE Outside(v)'
  BY <1>s, <1>3, OutsideStays DEF ChangeKeys
<1>4. ASSUME NEW w \in User, Relist(w) PROVE Outside(v)'
  <2>1. UNCHANGED <<marker, links, invited>>
    BY <1>4 DEF Relist
  <2>2. CASE v = w
    <3>1. Founder[v] # "out" /\ admission'[v] = 0
      BY <1>s, <1>4, <2>2, JobAssumption DEF Relist
    <3>2. \/ \E i \in 1..Len(links) : Removal(v, i) /\ admission[v] < i
          \/ BareLeave(marker) /\ marker.who = v
      BY <1>s, <2>1, <3>1 DEF Outside
    <3>3. \A i \in 1..Len(links) : 0 < i
      BY <1>s DEF ServerTyped
    <3> QED BY <2>1, <3>1, <3>2, <3>3 DEF Outside, Removal, BareLeave
  <2>3. CASE v # w
    <3>1. row'[v] = row[v] /\ admission'[v] = admission[v]
      BY <1>s, <1>4, <2>3 DEF Relist
    <3> QED BY <1>s, <2>1, <3>1, OutsideStays
  <2> QED BY <2>2, <2>3
<1>5. ASSUME NEW w \in User, SpoilRecord(w) PROVE Outside(v)'
  <2>1. UNCHANGED <<row, key, marker, links, invited>> /\ admission'[v] \in {admission[v], None}
    BY <1>s, <1>5 DEF SpoilRecord
  <2> QED BY <1>s, <2>1, OutsideStays
<1> QED BY <1>1, <1>2, <1>3, <1>4, <1>5 DEF Others

LEMMA OutNext == ASSUME IInv, [Next]_vars, Good PROVE OutInv'
<1> SUFFICES ASSUME NEW v \in User \ invited' PROVE Outside(v)'
  BY DEF OutInv
<1>s. TypeOK /\ ServerTyped /\ GenInv /\ (v \notin invited => Outside(v))
  BY DEF IInv, OutInv, TypeOK
<1>1. CASE UNCHANGED <<server, invited>>
  BY <1>1, <1>s, OutsideStays DEF server
<1>2. CASE Others
  BY <1>2, OutOthers
<1>3. ASSUME NEW t \in Tab, Writes(t) PROVE Outside(v)'
  <2>1. TargetsInv(t)
    BY DEF IInv, TabInv
  <2>2. CASE tab[t].pc = "complete" /\ CompleteWrites(t)
    <3>1. UNCHANGED <<row, admission, invited>> /\ (marker' # marker => ~BareLeave(marker))
      BY <1>s, <2>2, CompleteGood DEF CompleteWrites
    <3> QED BY <1>s, <3>1, OutsideStays
  <2> QED BY <1>3, <2>1, <2>2, OutTakeOver, OutRewrap, OutRemove, OutApprove, OutReadmit
           DEF Writes, TargetsInv
<1> QED BY <1>1, <1>2, <1>3, ServerSteps

LEMMA NextIInv == ASSUME IInv, [Next]_vars PROVE IInv'
<1>1. Good
  BY NextGood
<1>2. TypeOK'
  BY <1>1, NextTyped DEF IInv, Good
<1>3. \A t \in Tab : TargetsInv(t)' /\ JobInv(t)' /\ AdmittedInv(t)' /\ ReadmitInv(t)'
  BY <1>1, TargetsNext, JobNext, AdmittedNext, ReadmitNext
<1>4. TabInv'
  BY <1>3 DEF TabInv, TargetsInv, JobInv, AdmittedInv, ReadmitInv
<1> QED BY <1>1, <1>2, <1>4, OutNext DEF IInv, Good

LEMMA SpecIInv == Spec => []IInv
<1>1. Init => IInv
  BY InitIInv
<1>2. IInv /\ [Next]_vars => IInv'
  BY NextIInv
<1> QED BY <1>1, <1>2, PTL DEF Spec

-----------------------------------------------------------------------------
(* The theorems.                                                           *)

\* No job wraps the generation key to anybody who was not let in, or who has
\* been put out or has left since.
THEOREM JobsWrapOnlyInvited == Spec => WrapsOnlyInvited
<1> DEFINE A == \A t \in Tab : \A v \in tab[t].batch :
                  tab[t].pc = "send" /\ tab'[t] # tab[t] /\ row'[v].gen > row[v].gen => v \in invited
<1>1. ASSUME IInv, [Next]_vars PROVE A
  <2> SUFFICES ASSUME NEW t \in Tab, NEW v \in tab[t].batch, tab[t].pc = "send", tab'[t] # tab[t],
                      row'[v].gen > row[v].gen
               PROVE  v \in invited
    OBVIOUS
  <2>s. TypeOK /\ GenInv /\ ServerTyped /\ AdmittedInv(t) /\ v \in User /\ Len(links) \in Nat
    BY <1>1 DEF IInv, TabInv, TypeOK, IsJob, ServerTyped
  <2>1. row'[v] # row[v]
    <3>1. row[v].gen \in Nat
      BY <2>s DEF ServerTyped, RowType
    <3> QED BY <3>1
  <2>2. Writes(t)
    BY <1>1, <2>s, <2>1, OwnSteps, StepWrites DEF server
  <2>3. RewrapWrites(t) /\ ~Dormant(Owner[t])
    BY <2>2 DEF Writes
  <2>4. tab[t].own = Len(links) /\ ~BareLeave(marker)
    BY <2>s, <2>1, <2>3, RewrapIs DEF server
  <2>5. ~Stale(tab[t].own)
    BY <2>s, <2>4 DEF Stale
  <2> QED BY <2>s, <2>5 DEF AdmittedInv
<1>2. IInv /\ [Next]_vars => [A]_vars
  BY <1>1
<1> QED BY <1>2, SpecIInv, PTL DEF Spec, WrapsOnlyInvited

\* "Complete" is said only of a rotation that is over.
THEOREM CompletionsAreTrue == Spec => CompletedIsTrue
<1> DEFINE A == \A t \in Tab : tab[t].pc = "complete" /\ screen'[t].status = "completed" /\ tab'[t] = NoJob
                  => marker' # tab[t].mk
<1>1. ASSUME IInv, [Next]_vars PROVE A
  <2> SUFFICES ASSUME NEW t \in Tab, tab[t].pc = "complete", screen'[t].status = "completed", tab'[t] = NoJob
               PROVE  marker' # tab[t].mk
    OBVIOUS
  <2>s. TypeOK /\ JobInv(t)
    BY <1>1 DEF IInv, TabInv
  <2>1. Steps(t)
    BY <1>1, <2>s, NoJobTyped, OwnSteps
  <2>2. Complete(t) \/ Lose(t) \/ Busy(t)
    BY <2>1 DEF Steps, JobStep, Press, Load, TakeOver, List, ListAgain, Check, Send, RemoveRead,
       RemoveSend, ApproveSend, Settle, ReadmitSend, OpenGroup, ConfirmApprove, ConfirmReadmit,
       ConfirmAccept, Confirming, BeginRemove, PrepareApprove, PrepareReadmit, PrepareAccept
  <2>3. ~Lose(t)
    BY <2>s, FlowScreens DEF Lose
  <2>4. \A p : ~Go(t, [tab[t] EXCEPT !.pc = "list"])
    <3>1. IsJob(tab[t])
      BY <2>s DEF TypeOK
    <3>2. [tab[t] EXCEPT !.pc = "list"].pc = "list"
      BY <3>1 DEF IsJob, Fields
    <3> QED BY <2>s, <3>2, FlowMoves, NoJobTyped
  <2>5. Complete(t) /\ CompleteAnswer(Owner[t], tab[t].own) \in {"ok", "rotation_not_active"}
    BY <2>s, <2>2, <2>3, <2>4, FlowScreens DEF Complete, Busy
  <2>6. tab[t].mk # NoMarker /\ tab[t].mk.gen = tab[t].own
    BY <2>s DEF JobInv
  <2>7. CASE CompleteAnswer(Owner[t], tab[t].own) = "ok"
    BY <2>5, <2>6, <2>7 DEF Complete, CompleteWrites
  <2>8. CASE CompleteAnswer(Owner[t], tab[t].own) = "rotation_not_active"
    <3>1. marker = NoMarker \/ marker.gen # tab[t].own
      BY <2>8 DEF CompleteAnswer
    <3> QED BY <2>5, <2>6, <2>8, <3>1 DEF Complete, CompleteWrites
  <2> QED BY <2>5, <2>7, <2>8
<1>2. IInv /\ [Next]_vars => [A]_vars
  BY <1>1
<1> QED BY <1>2, SpecIInv, PTL DEF Spec, CompletedIsTrue

\* A re-admission is never of somebody whom the group's links removed.
THEOREM ReadmissionsRespectRemovals == Spec => ReadmitsOnlyNeverRemoved
<1> DEFINE A == \A v \in Members : admission'[v] > admission[v] /\ row'[v] = row[v] /\ marker' = marker =>
                  \A i \in 1..admission'[v] : links[i].kind = "removal" => links[i].who # v
<1>1. ASSUME IInv, [Next]_vars PROVE A
  <2> SUFFICES ASSUME NEW v \in Members, admission'[v] > admission[v], row'[v] = row[v], marker' = marker
               PROVE  \A i \in 1..admission'[v] : ~Removal(v, i)
    BY DEF Removal
  <2>s. /\ TypeOK /\ ServerTyped /\ GenInv /\ v \in User /\ admission \in [User -> Int]
        /\ row \in [User -> RowType] /\ admission[v] \in Int /\ -1 <= admission[v]
        /\ Len(links) \in Nat /\ \A t \in Tab : TargetsInv(t) /\ ReadmitInv(t)
    BY <1>1 DEF IInv, TabInv, TypeOK, ServerTyped, GenInv, RowsInv, Members
  <2>a. admission'[v] # admission[v]
    BY <2>s
  <2>1. CASE UNCHANGED <<server, invited>>
    BY <2>a, <2>1 DEF server
  <2>2. ~Others
    <3>1. \A i, w \in User : ~Invite(i, w)
      BY <2>s, <2>a DEF Invite
    <3>2. \A w \in User : ~Leave(w) /\ ~ChangeKeys(w)
      BY <2>a DEF Leave, ChangeKeys
    <3>3. \A w \in User : ~Relist(w)
      BY <2>s, <2>a DEF Relist
    <3>4. ASSUME NEW w \in User, SpoilRecord(w) PROVE FALSE
      <4>1. admission'[v] \in {admission[v], -1}
        BY <2>s, <3>4 DEF SpoilRecord, None
      <4> QED BY <2>s, <2>a, <4>1
    <3> QED BY <3>1, <3>2, <3>3, <3>4 DEF Others
  <2>3. ASSUME NEW t \in Tab, Writes(t) PROVE tab[t].pc = "readmitSend" /\ ReadmitWrites(t)
    <3>1. ASSUME NEW w, admission' = [admission EXCEPT ![w] = None] PROVE FALSE
      <4>1. admission'[v] \in {admission[v], -1}
        BY <2>s, <3>1 DEF None
      <4> QED BY <2>s, <2>a, <4>1
    <3>2. TargetsInv(t)
      BY <2>s
    <3>3. ~(tab[t].pc = "takeover" /\ TakeOverWrites(t))
      BY <2>a, <3>1, <3>2 DEF TakeOverWrites, server
    <3>4. ~RemoveWrites(t)
      BY <2>a, <3>1 DEF RemoveWrites, server
    <3>5. ~CompleteWrites(t) /\ ~RewrapWrites(t) /\ ~ApproveWrites(t)
      BY <2>a DEF CompleteWrites, RewrapWrites, ApproveWrites, server
    <3> QED BY <2>3, <3>3, <3>4, <3>5 DEF Writes
  <2>4. ASSUME NEW t \in Tab, tab[t].pc = "readmitSend", ReadmitWrites(t)
        PROVE  \A i \in 1..admission'[v] : ~Removal(v, i)
    <3>1. v = tab[t].who /\ admission'[v] = tab[t].own
      BY <2>s, <2>a, <2>4, ReadmitIs
    <3> QED BY <2>s, <2>4, <3>1 DEF ReadmitInv
  <2> QED BY <1>1, <2>1, <2>2, <2>3, <2>4, ServerSteps
<1>2. IInv /\ [Next]_vars => [A]_vars
  BY <1>1
<1> QED BY <1>2, SpecIInv, PTL DEF Spec, ReadmitsOnlyNeverRemoved

\* "Approved" is said of a member who is gone, or wrapped to what was confirmed.
THEOREM ApprovalsAreTrue == Spec => ApprovedIsTrue
<1> DEFINE A == \A t \in Tab : LET v == tab[t].who
       IN  tab[t].pc \in {"approveSend", "settle"} /\ screen'[t].said = "approved" /\ tab'[t] # tab[t]
             /\ tab'[t].pc \in {"idle", "load"}
           => row'[v].role = "out" \/ row'[v].epoch >= tab[t].print
<1>1. ASSUME IInv, [Next]_vars PROVE A
  <2> SUFFICES ASSUME NEW t \in Tab, tab[t].pc \in {"approveSend", "settle"},
                      screen'[t].said = "approved", tab'[t] # tab[t], tab'[t].pc \in {"idle", "load"}
               PROVE  row'[tab[t].who].role = "out" \/ row'[tab[t].who].epoch >= tab[t].print
    OBVIOUS
  <2> DEFINE u == Owner[t]  j == tab[t]  v == j.who
             a == ApproveAnswer(How(j), u, j.own, v, j.print)
  <2>s. /\ TypeOK /\ ServerTyped /\ IsJob(j) /\ v \in User /\ j.print <= key[v] /\ j.print \in Int
        /\ key[v] \in Nat /\ row \in [User -> RowType] /\ row[v].epoch \in Nat
    BY <1>1 DEF IInv, TabInv, TargetsInv, TypeOK, ServerTyped, IsJob, RowType
  <2>1. Steps(t)
    BY <1>1, <2>s, OwnSteps
  <2>2. ApproveSend(t) \/ Settle(t) \/ (Lose(t) /\ j.pc = "approveSend") \/ (Lose(t) /\ j.pc = "settle")
    BY <2>1 DEF Steps, JobStep, Press, Load, TakeOver, List, ListAgain, Complete, Check, Send, RemoveRead,
       RemoveSend, Busy, ReadmitSend, OpenGroup, ConfirmApprove, ConfirmReadmit,
       ConfirmAccept, Confirming, BeginRemove, PrepareApprove, PrepareReadmit, PrepareAccept
  <2>3. CASE Settle(t)
    <3>1. v \in Members /\ ~Dormant(v) /\ row' = row
      BY <2>3, <2>s, FlowScreens DEF Settle, server
    <3> QED BY <2>s, <3>1 DEF Dormant
  <2>4. CASE Lose(t) /\ j.pc = "approveSend"
    <3>1. tab'[t] = [j EXCEPT !.pc = "settle"]
      BY <2>4, <2>s, FlowMoves DEF Lose
    <3>2. tab'[t].pc = "settle"
      BY <3>1, <2>s DEF IsJob, Fields
    <3> QED BY <3>2
  <2>5. CASE Lose(t) /\ j.pc = "settle"
    BY <2>5 DEF Lose
  <2>6. CASE ApproveSend(t)
    <3>1. ~Say(t, "refused") /\ ~Say(t, a)
      BY <2>s, FlowScreens DEF ApproveAnswer
    <3>2. ApproveWrites(t) /\ (TryRewrap(t, a) \/ TryRekey(t, a))
      BY <2>6, <3>1 DEF ApproveSend
    <3>3. ~Go(t, [j EXCEPT !.pc = "settle", !.unsettled = "stale"]) /\ ~Go(t, [j EXCEPT !.second = TRUE])
      <4>1. [j EXCEPT !.pc = "settle", !.unsettled = "stale"].pc = "settle"
            /\ [j EXCEPT !.second = TRUE].pc = j.pc
        BY <2>s DEF IsJob, Fields
      <4>2. tab[t].pc \in {"approveSend", "settle"} /\ tab'[t].pc \in {"idle", "load"}
        OBVIOUS
      <4> HIDE DEF j
      <4> QED BY <2>s, <4>1, <4>2, FlowMoves DEF j
    <3>4. a \in {"ok", "member_not_dormant"}
      <4> HIDE DEF a
      <4>1. ASSUME NEW other, AfterWrite(t, a, other), a # "member_not_dormant" PROVE FALSE
        <5>1. CASE a = "generation"
          BY <3>3, <4>1, <5>1 DEF AfterWrite
        <5>2. CASE a # "generation" /\ a = other /\ ~tab[t].second
          BY <3>3, <4>1, <5>2 DEF AfterWrite
        <5>3. CASE a # "generation" /\ ~(a = other /\ ~tab[t].second)
          BY <3>1, <4>1, <5>3 DEF AfterWrite
        <5> QED BY <5>1, <5>2, <5>3
      <4>2. a = "ok" \/ \E other : AfterWrite(t, a, other)
        BY <3>2, Zenon DEF TryRewrap, TryRekey
      <4> QED BY <4>1, <4>2, Zenon
    <3>5. CASE a = "member_not_dormant"
      <4>1. ~Dormant(v)
        BY <3>5 DEF ApproveAnswer
      <4>2. row' = row
        BY <3>2, <3>5 DEF ApproveWrites, server
      <4> QED BY <2>s, <4>1, <4>2 DEF Dormant
    <3>6. CASE a = "ok"
      <4>1. row'[v].epoch = key[v]
        <5>1. \A g : Moved(v, g).epoch = key[v]
          BY <2>s DEF Moved, RowType
        <5>2. \E g, x : row' = [row EXCEPT ![u] = x, ![v] = Moved(v, g)] \/ row' = [row EXCEPT ![v] = Moved(v, g)]
          BY <3>2, <3>6 DEF ApproveWrites
        <5> HIDE DEF u, v
        <5> QED BY <2>s, <5>1, <5>2
      <4> QED BY <2>s, <4>1
    <3> QED BY <3>4, <3>5, <3>6
  <2> QED BY <2>2, <2>3, <2>4, <2>5, <2>6
<1>2. IInv /\ [Next]_vars => [A]_vars
  BY <1>1
<1> QED BY <1>2, SpecIInv, PTL DEF Spec, ApprovedIsTrue

-----------------------------------------------------------------------------
(* The pins, when no account has two tabs open.                             *)

OneTabEach == \A s, t \in Tab : Owner[s] = Owner[t] => s = t

\* What a pass read of the pins of those it has not come to is still so.
PinInv ==
  \A t \in Tab : tab[t].pc \in {"check", "send"} =>
    \A v \in tab[t].todo : pins[Owner[t]][v] = tab[t].saved[v]

LEMMA NextPinInv ==
  ASSUME OneTabEach, IInv, PinInv, [Next]_vars
  PROVE  PinInv'
<1>s. TypeOK /\ pins \in [User -> [User -> Int]] /\ tab = [t \in Tab |-> tab[t]]
      /\ \A t \in Tab : IsJob(tab[t]) /\ Owner[t] \in User
  BY JobAssumption DEF IInv, TypeOK
<1>1. CASE Others \/ UNCHANGED vars
  <2>1. tab' = tab /\ pins' = pins
    BY <1>1 DEF Others, Invite, Leave, ChangeKeys, Relist, SpoilRecord, vars
  <2> QED BY <2>1 DEF PinInv
<1>2. ASSUME NEW s \in Tab, Steps(s), NEW t \in Tab, tab'[t].pc \in {"check", "send"}, NEW v \in tab'[t].todo
      PROVE  pins'[Owner[t]][v] = tab'[t].saved[v]
  <2>1. CASE s # t
    <3>1. Owner[s] # Owner[t] /\ Owner[s] \in User /\ Owner[t] \in User
      BY <2>1, <1>s DEF OneTabEach
    <3>2. tab'[t] = tab[t]
      BY <1>2, <1>s, <2>1, StepsTouch DEF OnlyTab
    <3>3. pins'[Owner[t]] = pins[Owner[t]]
      <4>1. CASE pins' = pins
        BY <4>1
      <4>2. CASE ChecksChunk(s)
        BY <1>s, <3>1, <4>2 DEF ChecksChunk, CheckPins
      <4>3. CASE PinsOne(s)
        BY <1>s, <3>1, <4>3 DEF PinsOne
      <4> QED BY <1>2, <1>s, <4>1, <4>2, <4>3, PinSteps
    <3> QED BY <1>2, <3>2, <3>3 DEF PinInv
  <2>2. CASE s = t
    <3>1. CASE pins' = pins
      <4>1. Moves(t)
        BY <1>s, NextMoves
      <4> DEFINE j == tab[t]  n == tab'[t]
      <4>2. n = j \/ Passes(t, j, n) \/ Checks(t, j, n) \/ GoesOn(j, n)
        BY <1>2, <4>1 DEF Moves, Move, Ends, TakesOver, Lists, Removes, Approves, Readmits
      <4>3. CASE Passes(t, j, n)
        BY <3>1, <4>3 DEF Passes
      <4>4. CASE n = j \/ Checks(t, j, n) \/ GoesOn(j, n)
        <5>1. j.pc \in {"check", "send"} /\ n.saved = j.saved /\ v \in j.todo
          BY <1>2, <4>4 DEF Checks, GoesOn
        <5> QED BY <3>1, <5>1 DEF PinInv
      <4> QED BY <4>2, <4>3, <4>4
    <3>2. CASE tab[t].pc = "check" /\ ChecksChunk(t)
      <4>1. PICK chunk, ctx, c :
              /\ chunk \in SUBSET tab[t].todo
              /\ Chunked(t, chunk, c, ctx, tab'[t]) /\ CheckPins(t, chunk, c)
        BY <3>2 DEF ChecksChunk
      <4>2. v \in tab[t].todo \ chunk /\ tab'[t].saved = tab[t].saved /\ v \in User
        BY <1>2, <1>s, <4>1 DEF Chunked, IsJob
      <4>3. pins'[Owner[t]][v] = pins[Owner[t]][v]
        BY <1>s, <4>1, <4>2 DEF CheckPins
      <4> QED BY <3>2, <4>2, <4>3 DEF PinInv
    <3>3. CASE PinsOne(t)
      BY <1>2, <3>3 DEF PinsOne
    <3> QED BY <1>2, <1>s, <2>2, <3>1, <3>2, <3>3, PinSteps
  <2> QED BY <2>1, <2>2
<1> QED BY <1>1, <1>2 DEF PinInv, Next, Steps

\* A saved key gives way only to one that was shown and accepted.
THEOREM PinsStay == OneTabEach => (Spec => PinsKept)
<1> SUFFICES ASSUME OneTabEach PROVE Spec => PinsKept
  OBVIOUS
<1> DEFINE A == \A u, v \in User : pins[u][v] \notin {None, pins'[u][v]} =>
                  \E t \in Tab : Owner[t] = u /\ screen[t].prompt = [kind |-> "accept", who |-> v,
                                                                     print |-> pins'[u][v]]
<1>1. ASSUME IInv, PinInv, [Next]_vars PROVE A
  <2> SUFFICES ASSUME NEW u \in User, NEW v \in User, pins[u][v] # None, pins'[u][v] # pins[u][v]
               PROVE  \E t \in Tab : Owner[t] = u /\ screen[t].prompt = [kind |-> "accept", who |-> v,
                                                                          print |-> pins'[u][v]]
    OBVIOUS
  <2>s. TypeOK /\ pins \in [User -> [User -> Int]]
    BY <1>1 DEF IInv, TypeOK
  <2>1. ~Others /\ ~UNCHANGED vars
    BY DEF Others, Invite, Leave, ChangeKeys, Relist, SpoilRecord, vars
  <2>2. PICK t \in Tab : Steps(t)
    BY <1>1, <2>1 DEF Next, Steps
  <2>o. Owner[t] \in User
    BY JobAssumption
  <2>3. CASE tab[t].pc = "check" /\ ChecksChunk(t)
    <3>1. PICK chunk, c : chunk \in SUBSET tab[t].todo /\ CheckPins(t, chunk, c)
      BY <2>3 DEF ChecksChunk
    <3>2. u = Owner[t] /\ v \in tab[t].todo /\ tab[t].saved[v] = None
      BY <2>s, <2>o, <3>1 DEF CheckPins
    <3> QED BY <1>1, <2>3, <3>2 DEF PinInv
  <2>4. CASE PinsOne(t)
    <3>1. PICK w \in User : /\ pins' = [pins EXCEPT ![Owner[t]][w] = key[w]]
                            /\ pins[Owner[t]][w] = None \/ Accepts(t, w)
      BY <2>4 DEF PinsOne
    <3>2. u = Owner[t] /\ v = w /\ pins'[u][v] = key[v]
      BY <2>s, <2>o, <3>1
    <3>3. Accepts(t, v)
      BY <3>1, <3>2
    <3> QED BY <3>2, <3>3 DEF Accepts
  <2> QED BY <2>s, <2>2, <2>3, <2>4, PinSteps
<1>2. Init => PinInv
  BY NoJobTyped DEF Init, PinInv
<1>3. IInv /\ PinInv /\ [Next]_vars => PinInv'
  BY NextPinInv
<1>4. IInv /\ PinInv /\ [Next]_vars => [A]_vars
  BY <1>1
<1> QED BY <1>2, <1>3, <1>4, SpecIInv, PTL DEF Spec, PinsKept
=============================================================================

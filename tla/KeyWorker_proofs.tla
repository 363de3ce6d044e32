---------------------------- MODULE KeyWorker_proofs ----------------------------
(* Whoever logs in and whatever fails meanwhile, a call of the worker is given *)
(* the answer to its own request under its own account's keys; and keys live   *)
(* only in the instance the next logout's clearing goes to. For any accounts,  *)
(* and any number of calls, instances and failures.                            *)
EXTENDS KeyWorker, SequenceTheorems, TLAPS

-----------------------------------------------------------------------------
(* The invariant.                                                          *)

\* A pair of keys, or none.
Held == [user : User, key : Nat] \cup {None}

Request  == [id : Call, kind : Exported, user : User]
Clearing == [id : {0}, kind : {"clearLiveKeys"}, user : User]
Task     == [message : Request, by : Held]
Reply    == [id : Call, kind : Exported, answer : {"done", "error", "progress"}, by : Held]

\* A request, a running handler and an answer that a call was made for, with
\* the keys of that call's account.
Made(i, kind) == call[i].state # "free" /\ call[i].kind = kind

Genuine       == Clearing \cup {m \in Request : Made(m.id, m.kind) /\ m.user = call[m.id].user}
GenuineTask   == {t \in Task : /\ t.message \in Genuine
                               /\ t.message.kind \in KeyKinds => t.by.user = t.message.user}
GenuineReply  == {r \in Reply : /\ Made(r.id, r.kind)
                                /\ r.answer = "done" /\ r.kind \in KeyKinds
                                     => r.by.user = call[r.id].user}

CallRecord ==
  [kind : Exported \cup {"none"}, user : User \cup {None}, of : Instance \cup {0},
   state : {"free", "waiting", "done", "failed", "used"}, answer : Reply \cup {None}]

InstanceRecord ==
  [life : {"none", "running", "ended"}, keys : [live : Held, pending : Held],
   inbox : Seq(Genuine), tasks : SUBSET GenuineTask, outbox : Seq(GenuineReply)]

WellTyped ==
  /\ worker \in Instance \cup {0}
  /\ inst \in [Instance -> InstanceRecord]
  /\ call \in [Call -> CallRecord]
  /\ falling \subseteq Call
  /\ session \in User \cup {None}
  /\ minted \in Nat /\ breaks \in Nat

\* An answer that was handed over is the one asked for.
Delivered ==
  \A i \in Call : call[i].state \in {"done", "used"} =>
    call[i].answer \in GenuineReply /\ call[i].answer.id = i /\ call[i].answer.answer = "done"

AnswerInv == WellTyped /\ Delivered

-----------------------------------------------------------------------------
LEMMA CallFacts == 0 \notin Call \cup Instance /\ Call \subseteq Nat /\ Instance \subseteq Nat
BY WorkerBounds DEF Call, Instance

LEMMA AppendInSeq ==
  ASSUME NEW S, NEW s \in Seq(S), NEW e \in S
  PROVE  Append(s, e) \in Seq(S)
OBVIOUS

\* How the kinds of requests the guards tell apart lie to one another.
LEMMA KindFacts ==
  /\ "clearLiveKeys" \notin IdleKinds \cup KeyKinds \cup PairKinds \cup Exported
  /\ IdleKinds \cup PairKinds \subseteq KeyKinds
  /\ {"completeLogin", "commitKeyRotation"} \cap KeyKinds = {}
  /\ "none" \notin Exported
  /\ Exported \ PasswordCalls \subseteq
       KeyKinds \cup {"commitKeyRotation", "discardKeyRotation", "hasLiveKeys"}
  /\ {"commitKeyRotation", "discardKeyRotation", "hasLiveKeys"} \subseteq SyncKinds
BY DEF IdleKinds, KeyKinds, PairKinds, Exported, PasswordCalls, PasswordKinds, SignCalls,
       GrantKinds, PinCalls, PinKinds, InviteCalls, InviteKinds, WorkerCalls, GroupKeyKinds,
       TextCalls, TextKinds, SealCalls, SealKinds, OpenCalls, OpenKinds, ReactionCalls,
       OwnCalls, OwnKinds, RotationCalls, SyncKinds

\* What was made for a call stays so while calls only move on.
LEMMA CallsMoveOn ==
  ASSUME WellTyped,
         \A i \in Call : call[i].state # "free" =>
           /\ call'[i].state # "free"
           /\ call'[i].kind = call[i].kind /\ call'[i].user = call[i].user
  PROVE  /\ Genuine \subseteq Genuine' /\ GenuineTask \subseteq GenuineTask'
         /\ GenuineReply \subseteq GenuineReply'
         /\ InstanceRecord \subseteq InstanceRecord'
<1>1. Genuine \subseteq Genuine'
  BY DEF Genuine, Made, Request
<1>2. GenuineTask \subseteq GenuineTask'
  BY <1>1 DEF GenuineTask
<1>3. GenuineReply \subseteq GenuineReply'
  BY DEF GenuineReply, Made, Reply
<1>4. Seq(Genuine) \subseteq Seq(Genuine') /\ Seq(GenuineReply) \subseteq Seq(GenuineReply')
  BY <1>1, <1>3, SeqMonotonic
<1>5. InstanceRecord \subseteq InstanceRecord'
  BY <1>2, <1>4 DEF InstanceRecord
<1> QED BY <1>1, <1>2, <1>3, <1>5

-----------------------------------------------------------------------------
(* Who is given which answer.                                              *)

LEMMA AnswerInit == Init => AnswerInv
<1> SUFFICES ASSUME Init PROVE AnswerInv
  OBVIOUS
<1>1. NoCall \in CallRecord
  BY DEF NoCall, CallRecord
<1>2. <<>> \in Seq(Genuine) /\ <<>> \in Seq(GenuineReply)
  OBVIOUS
<1>3. NoInstance \in InstanceRecord
  BY <1>2 DEF NoInstance, InstanceRecord, Cold, Held
<1>4. WellTyped
  BY <1>1, <1>3 DEF Init, WellTyped
<1>5. Delivered
  BY DEF Init, Delivered, NoCall
<1> QED BY <1>4, <1>5 DEF AnswerInv

\* A message for an instance that exists, or for a new one.
LEMMA PostTyped ==
  ASSUME WellTyped, NEW w \in Instance, NEW m \in Genuine, Post(w, m)
  PROVE  worker' \in Instance /\ inst' \in [Instance -> InstanceRecord]
<1> DEFINE old == IF worker = 0 THEN Fresh ELSE inst[w]
<1>1. old \in InstanceRecord
  <2>1. <<>> \in Seq(Genuine) /\ <<>> \in Seq(GenuineReply)
    OBVIOUS
  <2>2. Fresh \in InstanceRecord
    BY <2>1 DEF Fresh, NoInstance, InstanceRecord, Cold, Held
  <2> QED BY <2>2 DEF WellTyped
<1>2. Append(old.inbox, m) \in Seq(Genuine)
  BY <1>1, AppendInSeq DEF InstanceRecord
<1>3. [old EXCEPT !.inbox = Append(@, m)] \in InstanceRecord
  BY <1>1, <1>2 DEF InstanceRecord
<1> QED BY <1>3 DEF Post, WellTyped

LEMMA AskAnswers ==
  ASSUME AnswerInv, NEW i \in Call, NEW kind \in Kinds, NEW u \in User, Ask(i, kind, u)
  PROVE  AnswerInv'
<1> USE DEF AnswerInv
<1> DEFINE m == [id |-> i, kind |-> kind, user |-> u]
<1>k. kind \in Exported
  BY KindsExported
<1>1. Target \in Instance /\ Post(Target, m) /\ call[i].state = "free"
  BY DEF Ask
<1>2. call' = [call EXCEPT ![i] = [kind |-> kind, user |-> u, of |-> Target,
                                   state |-> "waiting", answer |-> None]]
  BY DEF Ask
<1>3. call' \in [Call -> CallRecord]
  BY <1>1, <1>2, <1>k DEF WellTyped, CallRecord
<1>4. /\ Genuine \subseteq Genuine' /\ GenuineReply \subseteq GenuineReply'
      /\ InstanceRecord \subseteq InstanceRecord'
  BY <1>1, <1>2, CallsMoveOn DEF WellTyped
<1>5. m \in Genuine'
  BY <1>k, <1>2 DEF Genuine, Request, Made, WellTyped
<1>6. inst' \in [Instance -> InstanceRecord']
  <2> DEFINE old == IF worker = 0 THEN Fresh ELSE inst[Target]
  <2>1. <<>> \in Seq(Genuine) /\ <<>> \in Seq(GenuineReply)
    OBVIOUS
  <2>2. Fresh \in InstanceRecord
    BY <2>1 DEF Fresh, NoInstance, InstanceRecord, Cold, Held
  <2>3. old \in InstanceRecord'
    BY <1>1, <1>4, <2>2 DEF WellTyped
  <2>4. Append(old.inbox, m) \in Seq(Genuine')
    BY <1>5, <2>3, AppendInSeq DEF InstanceRecord
  <2>5. [old EXCEPT !.inbox = Append(@, m)] \in InstanceRecord'
    BY <2>3, <2>4 DEF InstanceRecord
  <2>6. inst' = [inst EXCEPT ![Target] = [old EXCEPT !.inbox = Append(@, m)]]
    BY <1>1 DEF Post
  <2> QED BY <1>1, <1>4, <2>5, <2>6 DEF WellTyped
<1>7. WellTyped'
  BY <1>1, <1>3, <1>6 DEF WellTyped, Ask, Post
<1>8. Delivered'
  BY <1>2, <1>4, <1>1 DEF Delivered, WellTyped
<1> QED BY <1>7, <1>8

LEMMA LogoutAnswers == AnswerInv /\ Logout => AnswerInv'
<1> SUFFICES ASSUME AnswerInv, Logout PROVE AnswerInv'
  OBVIOUS
<1> USE DEF AnswerInv
<1> DEFINE m == [id |-> 0, kind |-> "clearLiveKeys", user |-> session]
<1>1. m \in Genuine
  BY DEF Logout, Genuine, Clearing, WellTyped
<1>2. Target \in Instance /\ Post(Target, m)
  BY DEF Logout
<1>3. worker' \in Instance /\ inst' \in [Instance -> InstanceRecord]
  BY <1>1, <1>2, PostTyped
<1>4. call' = call
  BY DEF Logout
<1>5. Genuine' = Genuine /\ GenuineReply' = GenuineReply /\ GenuineTask' = GenuineTask
  BY <1>4 DEF Genuine, GenuineReply, GenuineTask, Made
<1>6. InstanceRecord' = InstanceRecord
  BY <1>5 DEF InstanceRecord
<1> QED BY <1>3, <1>4, <1>5, <1>6 DEF Logout, WellTyped, Delivered

LEMMA SessionLoginAnswers ==
  ASSUME AnswerInv, NEW i \in Call, SessionLogin(i)
  PROVE  AnswerInv'
<1> USE DEF AnswerInv
<1>1. call' = [call EXCEPT ![i].state = "used"] /\ call[i].state = "done"
  BY DEF SessionLogin
<1>2. call' \in [Call -> CallRecord]
  BY <1>1 DEF WellTyped, CallRecord
<1>3. GenuineReply \subseteq GenuineReply' /\ InstanceRecord \subseteq InstanceRecord'
  BY <1>1, CallsMoveOn DEF WellTyped
<1>4. WellTyped'
  BY <1>1, <1>2, <1>3 DEF WellTyped, SessionLogin, CallRecord
<1>5. Delivered'
  BY <1>1, <1>3 DEF Delivered, WellTyped
<1> QED BY <1>4, <1>5

\* A step that leaves the calls alone keeps the invariant when what it puts in
\* an instance is genuine.
LEMMA InstanceMoves ==
  ASSUME AnswerInv, call' = call, NEW w \in Instance, NEW x \in InstanceRecord,
         inst' = [inst EXCEPT ![w] = x],
         worker' = worker, session' = session, falling' \subseteq Call,
         minted' \in Nat, breaks' \in Nat
  PROVE  AnswerInv'
<1> USE DEF AnswerInv
<1>1. Genuine' = Genuine /\ GenuineReply' = GenuineReply /\ GenuineTask' = GenuineTask
  BY DEF Genuine, GenuineReply, GenuineTask, Made
<1>2. InstanceRecord' = InstanceRecord
  BY <1>1 DEF InstanceRecord
<1> QED BY <1>1, <1>2 DEF WellTyped, Delivered

LEMMA ReceiveAnswers ==
  ASSUME AnswerInv, NEW w \in Instance, Receive(w)
  PROVE  AnswerInv'
<1> USE DEF AnswerInv
<1> DEFINE m == Head(inst[w].outbox)
           settled == IF m.answer = "error" THEN "failed" ELSE "done"
<1>1. inst[w].outbox \in Seq(GenuineReply) /\ inst[w].outbox # <<>>
  BY DEF Receive, WellTyped, InstanceRecord
<1>2. m \in GenuineReply /\ Tail(inst[w].outbox) \in Seq(GenuineReply)
  BY <1>1
<1>3. [inst[w] EXCEPT !.outbox = Tail(@)] \in InstanceRecord
  BY <1>2 DEF WellTyped, InstanceRecord
<1>4. inst' \in [Instance -> InstanceRecord]
  BY <1>3 DEF Receive, WellTyped
<1>5. CASE m.answer = "progress" \/ m.id \notin Waiting(w)
  <2> DEFINE x == [inst[w] EXCEPT !.outbox = Tail(@)]
  <2>1. call' = call
    BY <1>5 DEF Receive
  <2>2. inst' = [inst EXCEPT ![w] = x]
    BY DEF Receive
  <2> HIDE DEF x
  <2> QED BY <1>3, <2>1, <2>2, InstanceMoves DEF x, Receive, WellTyped
<1>6. CASE ~(m.answer = "progress" \/ m.id \notin Waiting(w))
  <2>1. call' = [call EXCEPT ![m.id].state = settled, ![m.id].answer = m]
    BY <1>6 DEF Receive
  <2>2. m.id \in Call /\ call[m.id].state = "waiting" /\ m \in Reply
    BY <1>2, <1>6 DEF Waiting, GenuineReply
  <2>3. call' \in [Call -> CallRecord]
    BY <2>1, <2>2 DEF WellTyped, CallRecord
  <2>4. GenuineReply \subseteq GenuineReply' /\ InstanceRecord \subseteq InstanceRecord'
    BY <2>1, <2>2, CallsMoveOn DEF WellTyped, CallRecord
  <2>5. WellTyped'
    BY <1>4, <2>3, <2>4 DEF WellTyped, Receive
  <2>6. m.answer = "done" \/ settled = "failed"
    BY <1>6, <2>2 DEF Reply
  <2>7. Delivered'
    BY <1>2, <2>1, <2>2, <2>4, <2>6 DEF Delivered, WellTyped, CallRecord
  <2> QED BY <2>5, <2>7
<1> QED BY <1>5, <1>6

\* What a handler answers is genuine: an error, or made with the keys of the
\* account the request was for.
LEMMA AnswerGenuine ==
  ASSUME NEW m \in Genuine, m \in Request, NEW a \in {"done", "error", "progress"},
         NEW by \in Held, a = "done" /\ m.kind \in KeyKinds => by.user = m.user
  PROVE  Answer(m, a, by) \in GenuineReply
<1>1. m.id \in Call /\ m.kind \in Exported /\ m \notin Clearing
  BY CallFacts DEF Request, Clearing
<1>2. Made(m.id, m.kind) /\ m.user = call[m.id].user
  BY <1>1 DEF Genuine
<1> QED BY <1>1, <1>2 DEF Answer, GenuineReply, Reply

LEMMA HandleAnswers ==
  ASSUME AnswerInv, NEW w \in Instance, Handle(w)
  PROVE  AnswerInv'
<1> USE DEF AnswerInv
<1> DEFINE s == inst[w].keys
           m == Head(inst[w].inbox)
           taken == [inst[w] EXCEPT !.inbox = Tail(@)]
           fresh == minted + 1
<1>1. inst[w] \in InstanceRecord /\ inst[w].inbox # <<>> /\ minted \in Nat
  BY DEF Handle, WellTyped
<1>2. m \in Genuine /\ Tail(inst[w].inbox) \in Seq(Genuine)
  BY <1>1 DEF InstanceRecord
<1>3. taken \in InstanceRecord
  BY <1>1, <1>2 DEF InstanceRecord
<1>4. s \in [live : Held, pending : Held] /\ s.live \in Held /\ s.pending \in Held
  BY <1>1 DEF InstanceRecord
<1>5. m.kind \in KeyKinds /\ ~Refused(s, m.kind, m.user) => s.live.user = m.user
  BY DEF Refused, Warm
<1>6. m.kind = "clearLiveKeys" \/ m \in Request
  BY <1>2 DEF Genuine, Clearing
<1>7. minted' \in Nat
  BY <1>1 DEF Handle
<1>8. None \in Held
  BY DEF Held
<1>9. CASE Refused(s, m.kind, m.user)
  <2>1. m \in Request
    BY <1>6, <1>9, KindFacts DEF Refused
  <2>2. Answer(m, "error", None) \in GenuineReply
    BY <1>2, <1>8, <2>1, AnswerGenuine
  <2>3. Append(taken.outbox, Answer(m, "error", None)) \in Seq(GenuineReply)
    BY <1>3, <2>2, AppendInSeq DEF InstanceRecord
  <2> DEFINE x == [taken EXCEPT !.outbox = Append(@, Answer(m, "error", None))]
  <2>4. x \in InstanceRecord
    BY <1>3, <2>3 DEF InstanceRecord
  <2>5. inst' = [inst EXCEPT ![w] = x]
    BY <1>9 DEF Handle
  <2> HIDE DEF x
  <2> QED BY <1>7, <2>4, <2>5, InstanceMoves DEF Handle, WellTyped
<1>10. CASE ~Refused(s, m.kind, m.user) /\ m.kind \in SyncKinds
  <2>1. After(s, m.kind, m.user, fresh) \in [live : Held, pending : Held]
    <3>1. m.user \in User
      BY <1>2 DEF Genuine, Clearing, Request
    <3>2. Pair(m.user, fresh) \in Held
      BY <1>1, <3>1 DEF Pair, Held
    <3> QED BY <1>4, <1>8, <3>2 DEF After, Begin, Commit, Discard, Clear, Cold
  <2>2. CASE m.kind = "clearLiveKeys"
    <3> DEFINE x == [taken EXCEPT !.keys = After(s, m.kind, m.user, fresh)]
    <3>1. x \in InstanceRecord
      BY <1>3, <2>1 DEF InstanceRecord
    <3>2. inst' = [inst EXCEPT ![w] = x]
      BY <1>10, <2>2 DEF Handle
    <3> HIDE DEF x
    <3> QED BY <1>7, <3>1, <3>2, InstanceMoves DEF Handle, WellTyped
  <2>3. CASE m.kind # "clearLiveKeys"
    <3>1. Answer(m, "done", s.live) \in GenuineReply
      BY <1>2, <1>4, <1>5, <1>6, <1>10, <2>3, AnswerGenuine
    <3>2. Append(taken.outbox, Answer(m, "done", s.live)) \in Seq(GenuineReply)
      BY <1>3, <3>1, AppendInSeq DEF InstanceRecord
    <3> DEFINE x == [taken EXCEPT !.keys = After(s, m.kind, m.user, fresh),
                                  !.outbox = Append(@, Answer(m, "done", s.live))]
    <3>3. x \in InstanceRecord
      BY <1>3, <2>1, <3>2 DEF InstanceRecord
    <3>4. inst' = [inst EXCEPT ![w] = x]
      BY <1>10, <2>3 DEF Handle
    <3> HIDE DEF x
    <3> QED BY <1>7, <3>3, <3>4, InstanceMoves DEF Handle, WellTyped
  <2> QED BY <2>2, <2>3
<1>11. CASE ~Refused(s, m.kind, m.user) /\ m.kind \notin SyncKinds
  <2> DEFINE t == [message |-> m, by |-> s.live]
             x == [taken EXCEPT !.tasks = @ \cup {t}]
  <2>1. m \in Request /\ m.kind # "clearLiveKeys"
    BY <1>6, <1>11 DEF SyncKinds
  <2>2. t \in GenuineTask
    BY <1>2, <1>4, <1>5, <1>11, <2>1 DEF GenuineTask, Task
  <2>3. x \in InstanceRecord
    BY <1>3, <2>2 DEF InstanceRecord
  <2>4. inst' = [inst EXCEPT ![w] = x]
    BY <1>11, <2>1 DEF Handle
  <2> HIDE DEF x
  <2> QED BY <1>7, <2>3, <2>4, InstanceMoves DEF Handle, WellTyped
<1> QED BY <1>9, <1>10, <1>11

LEMMA FinishAnswers ==
  ASSUME AnswerInv, NEW w \in Instance, NEW task \in inst[w].tasks, Finish(w, task)
  PROVE  AnswerInv'
<1> USE DEF AnswerInv
<1> DEFINE m == task.message
           ended == [inst[w] EXCEPT !.tasks = @ \ {task}]
<1>1. inst[w] \in InstanceRecord /\ task \in GenuineTask
  BY DEF WellTyped, InstanceRecord
<1>2. m \in Genuine /\ m \in Request /\ task.by \in Held /\ m.user \in User
  BY <1>1 DEF GenuineTask, Task, Request
<1>3. ended \in InstanceRecord
  BY <1>1 DEF InstanceRecord
<1>4. None \in Held /\ Pair(m.user, Own) \in Held /\ Pair(m.user, Own).user = m.user
  BY <1>2 DEF Held, Pair, Own
<1>5. ASSUME NEW r \in GenuineReply PROVE Append(ended.outbox, r) \in Seq(GenuineReply)
  BY <1>3, AppendInSeq DEF InstanceRecord
<1>6. ASSUME NEW x \in InstanceRecord, inst' = [inst EXCEPT ![w] = x] PROVE AnswerInv'
  BY <1>6, InstanceMoves DEF Finish, WellTyped
<1> HIDE DEF ended
<1>7. CASE inst' = [inst EXCEPT ![w] = [ended EXCEPT !.outbox = Append(@, Answer(m, "error", None))]]
  <2>1. Answer(m, "error", None) \in GenuineReply
    BY <1>2, <1>4, AnswerGenuine
  <2>2. [ended EXCEPT !.outbox = Append(@, Answer(m, "error", None))] \in InstanceRecord
    BY <1>3, <1>5, <2>1 DEF InstanceRecord
  <2> QED BY <1>6, <1>7, <2>2
<1>8. CASE /\ m.kind = "completeLogin"
           /\ inst' = [inst EXCEPT ![w] = [ended EXCEPT !.keys = Login(@, m.user, Own),
                          !.outbox = Append(@, Answer(m, "done", Pair(m.user, Own)))]]
  <2> DEFINE a == Answer(m, "done", Pair(m.user, Own))
  <2>1. Append(ended.outbox, a) \in Seq(GenuineReply)
    BY <1>2, <1>4, <1>5, AnswerGenuine
  <2>2. Login(ended.keys, m.user, Own) \in [live : Held, pending : Held]
    BY <1>3, <1>4 DEF Login, InstanceRecord
  <2> HIDE DEF a
  <2>3. [ended EXCEPT !.keys = Login(@, m.user, Own), !.outbox = Append(@, a)] \in InstanceRecord
    BY <1>3, <2>1, <2>2 DEF InstanceRecord
  <2> QED BY <1>6, <1>8, <2>3 DEF a
<1>9. CASE /\ m.kind # "completeLogin"
           /\ inst' = [inst EXCEPT ![w] = [ended EXCEPT !.outbox = Append(@, Answer(m, "done", task.by))]]
  <2> DEFINE a == Answer(m, "done", task.by)
  <2>1. m.kind \in KeyKinds => task.by.user = m.user
    BY <1>1 DEF GenuineTask
  <2>2. Append(ended.outbox, a) \in Seq(GenuineReply)
    BY <1>2, <1>5, <2>1, AnswerGenuine
  <2> HIDE DEF a
  <2>3. [ended EXCEPT !.outbox = Append(@, a)] \in InstanceRecord
    BY <1>3, <2>2 DEF InstanceRecord
  <2> QED BY <1>6, <1>9, <2>3 DEF a
<1> QED BY <1>7, <1>8, <1>9 DEF Finish, ended

LEMMA ProgressAnswers ==
  ASSUME AnswerInv, NEW w \in Instance, NEW task \in inst[w].tasks, Progress(w, task)
  PROVE  AnswerInv'
<1> USE DEF AnswerInv
<1> DEFINE a == Answer(task.message, "progress", None)
           x == [inst[w] EXCEPT !.outbox = Append(@, a)]
<1>1. inst[w] \in InstanceRecord /\ task \in GenuineTask
  BY DEF WellTyped, InstanceRecord
<1>2. a \in GenuineReply
  BY <1>1, AnswerGenuine DEF GenuineTask, Task, Held
<1>3. Append(inst[w].outbox, a) \in Seq(GenuineReply)
  BY <1>1, <1>2, AppendInSeq DEF InstanceRecord
<1> HIDE DEF a
<1>4. x \in InstanceRecord
  BY <1>1, <1>3 DEF InstanceRecord
<1>5. inst' = [inst EXCEPT ![w] = x]
  BY DEF Progress, a
<1> HIDE DEF x
<1> QED BY <1>4, <1>5, InstanceMoves DEF Progress, WellTyped

LEMMA BreakAnswers ==
  ASSUME AnswerInv, NEW w \in Instance, NEW task \in inst[w].tasks, Break(w, task)
  PROVE  AnswerInv'
<1> USE DEF AnswerInv
<1> DEFINE x == [inst[w] EXCEPT !.tasks = @ \ {task}]
<1>1. x \in InstanceRecord
  BY DEF WellTyped, InstanceRecord
<1>2. inst' = [inst EXCEPT ![w] = x]
  BY DEF Break
<1> HIDE DEF x
<1>3. /\ call' = call /\ worker' = worker /\ session' = session
      /\ falling' \subseteq Call /\ minted' \in Nat /\ breaks' \in Nat
  BY DEF Break, WellTyped, Waiting
<1> QED BY <1>1, <1>2, <1>3, InstanceMoves

LEMMA FailAnswers ==
  ASSUME AnswerInv, NEW i \in falling, Fail(i)
  PROVE  AnswerInv'
<1> USE DEF AnswerInv
<1>1. call' = [call EXCEPT ![i].state = "failed"] /\ i \in Call
  BY DEF Fail, WellTyped
<1>2. call' \in [Call -> CallRecord]
  BY <1>1 DEF WellTyped, CallRecord
<1>3. InstanceRecord \subseteq InstanceRecord' /\ GenuineReply \subseteq GenuineReply'
  BY <1>1, CallsMoveOn DEF WellTyped
<1>4. Ended \in InstanceRecord
  <2>1. <<>> \in Seq(Genuine) /\ <<>> \in Seq(GenuineReply)
    OBVIOUS
  <2> QED BY <2>1 DEF Ended, NoInstance, InstanceRecord, Cold, Held
<1>5. inst' \in [Instance -> InstanceRecord]
  BY <1>4 DEF Fail, WellTyped
<1>6. WellTyped'
  BY <1>1, <1>2, <1>3, <1>5 DEF WellTyped, Fail
<1>7. Delivered'
  BY <1>1, <1>3 DEF Delivered, WellTyped, CallRecord
<1> QED BY <1>6, <1>7

LEMMA AnswerStep == AnswerInv /\ [Next]_vars => AnswerInv'
<1> SUFFICES ASSUME AnswerInv, [Next]_vars PROVE AnswerInv'
  OBVIOUS
<1>1. CASE Next
  <2>1. ASSUME NEW i \in Call, NEW kind \in Kinds, NEW u \in User, Ask(i, kind, u)
        PROVE  AnswerInv'
    BY <2>1, AskAnswers
  <2>2. ASSUME NEW i \in Call, SessionLogin(i) PROVE AnswerInv'
    BY <2>2, SessionLoginAnswers
  <2>3. CASE Logout
    BY <2>3, LogoutAnswers
  <2>4. ASSUME NEW w \in Instance, Receive(w) PROVE AnswerInv'
    BY <2>4, ReceiveAnswers
  <2>5. ASSUME NEW w \in Instance, Handle(w) PROVE AnswerInv'
    BY <2>5, HandleAnswers
  <2>6. ASSUME NEW w \in Instance, NEW task \in inst[w].tasks,
               Finish(w, task) \/ Progress(w, task) \/ Break(w, task)
        PROVE  AnswerInv'
    BY <2>6, FinishAnswers, ProgressAnswers, BreakAnswers
  <2>7. ASSUME NEW i \in falling, Fail(i) PROVE AnswerInv'
    BY <2>7, FailAnswers
  <2> QED BY <1>1, <2>1, <2>2, <2>3, <2>4, <2>5, <2>6, <2>7 DEF Next
<1>2. CASE UNCHANGED vars
  <2>1. call' = call
    BY <1>2 DEF vars
  <2>2. Genuine' = Genuine /\ GenuineReply' = GenuineReply /\ GenuineTask' = GenuineTask
    BY <2>1 DEF Genuine, GenuineReply, GenuineTask, Made
  <2>3. InstanceRecord' = InstanceRecord
    BY <2>2 DEF InstanceRecord
  <2> QED BY <1>2, <2>2, <2>3 DEF AnswerInv, WellTyped, Delivered, vars
<1> QED BY <1>1, <1>2

\* Whatever else is going on in the tab, a call that was answered got the
\* answer to its own request, made under the keys of its own account
\* (worker-client.ts, worker.ts: requireLiveKeys).
THEOREM AnswersRight == Spec => []AnsweredForItsCaller
<1>1. AnswerInv => AnsweredForItsCaller
  BY DEF AnswerInv, Delivered, GenuineReply, Made, AnsweredForItsCaller
<1> QED BY <1>1, AnswerInit, AnswerStep, PTL DEF Spec

-----------------------------------------------------------------------------
(* Where keys live.                                                        *)

\* An instance that has no keys and can get none: no login is under way in it
\* and none is on its way to it.
Quiet(w) ==
  /\ inst[w].keys = Cold /\ inst[w].tasks = {}
  /\ \A n \in DOMAIN inst[w].inbox : inst[w].inbox[n].kind \notin PasswordCalls

\* The calls being told of a failure listen to one instance, which is the cached
\* one until the first is told; one cached since then has been asked for no login.
OneFalling ==
  /\ \A i, j \in falling : call[i].of = call[j].of
  /\ \A i \in falling : /\ call[i].state # "free" /\ call[i].of \in Instance
                        /\ worker \notin {0, call[i].of} => Quiet(worker)

HolderInv ==
  /\ \A w \in Instance : inst[w].life # "running" => inst[w].tasks = {}
  /\ \A w \in Instance \ {worker} : inst[w].life = "running" => Quiet(w)
  /\ OneFalling

\* What a quiet instance is asked leaves it without keys, and never takes long.
LEMMA ColdStays ==
  ASSUME NEW kind \in (Exported \ PasswordCalls) \cup {"clearLiveKeys"}, NEW u, NEW fresh,
         NEW s, s = Cold, ~Refused(s, kind, u)
  PROVE  kind \in SyncKinds /\ After(s, kind, u, fresh) = Cold
<1>1. kind \notin KeyKinds /\ kind # "commitKeyRotation"
  BY DEF Refused, Warm, Begun, Cold
<1>2. kind \in {"discardKeyRotation", "hasLiveKeys", "clearLiveKeys"}
  BY <1>1, KindFacts
<1> QED BY <1>2 DEF SyncKinds, After, Discard, Clear, Cold

LEMMA HolderInit == Init => HolderInv
BY DEF Init, HolderInv, OneFalling, NoInstance

\* A message that asks for no login leaves a quiet instance quiet, and a new one
\* it is the first message for.
LEMMA PostQuiet ==
  ASSUME WellTyped, NEW w \in Instance, NEW m, Post(w, m), m.kind \notin PasswordCalls,
         worker # 0 => Quiet(w)
  PROVE  Quiet(w)'
<1> DEFINE old == IF worker = 0 THEN Fresh ELSE inst[w]
<1>1. old.keys = Cold /\ old.tasks = {} /\ old.inbox \in Seq(Genuine)
  <2>1. <<>> \in Seq(Genuine)
    OBVIOUS
  <2> QED BY <2>1 DEF Fresh, NoInstance, Quiet, WellTyped, InstanceRecord
<1>2. \A n \in DOMAIN old.inbox : old.inbox[n].kind \notin PasswordCalls
  BY DEF Fresh, NoInstance, Quiet
<1>3. inst'[w] = [old EXCEPT !.inbox = Append(@, m)]
  BY DEF Post, WellTyped
<1>4. inst'[w].keys = Cold /\ inst'[w].tasks = {} /\ inst'[w].inbox = Append(old.inbox, m)
  <2>1. old \in [life : {"none", "running", "ended"}, keys : [live : Held, pending : Held],
                 inbox : Seq(Genuine), tasks : SUBSET GenuineTask, outbox : Seq(GenuineReply)]
    <3>1. <<>> \in Seq(Genuine) /\ <<>> \in Seq(GenuineReply)
      OBVIOUS
    <3> QED BY <3>1 DEF Fresh, NoInstance, Cold, Held, WellTyped, InstanceRecord
  <2> QED BY <1>1, <1>3, <2>1
<1>5. \A n \in DOMAIN Append(old.inbox, m) : Append(old.inbox, m)[n].kind \notin PasswordCalls
  BY <1>1, <1>2
<1> QED BY <1>4, <1>5 DEF Quiet

\* A step that leaves one instance's message, keys and tasks alone, and the
\* calls being told, keeps what is said of them.
LEMMA QuietKept ==
  ASSUME NEW w, Quiet(w), inst'[w].keys = inst[w].keys, inst'[w].tasks = inst[w].tasks,
         inst'[w].inbox = inst[w].inbox
  PROVE  Quiet(w)'
BY DEF Quiet

LEMMA PostHolder ==
  ASSUME WellTyped, HolderInv, NEW m, NEW t \in Instance, t = Target, Post(t, m), falling' = falling,
         \A j \in falling : /\ m.kind \notin PasswordCalls /\ worker # call[j].of
                            /\ call'[j] = call[j]
  PROVE  HolderInv'
<1>1. worker' = t /\ (worker # 0 => t = worker)
  BY DEF Post, Target
<1>2. \A w \in Instance \ {t} : inst'[w] = inst[w]
  BY DEF Post, WellTyped
<1>3. \A w \in Instance \ {worker'} : inst'[w].life = "running" => Quiet(w)'
  <2>1. ASSUME NEW w \in Instance \ {t} PROVE w # worker /\ inst'[w] = inst[w]
    BY <1>1, <1>2, <2>1, CallFacts
  <2> QED BY <1>1, <2>1, QuietKept DEF HolderInv
<1>4. inst'[t].life # "running" => inst'[t].tasks = {}
  <2> DEFINE old == IF worker = 0 THEN Fresh ELSE inst[t]
  <2>1. old.life # "running" => old.tasks = {}
    BY DEF HolderInv, Fresh, NoInstance
  <2>2. <<>> \in Seq(Genuine) /\ <<>> \in Seq(GenuineReply)
    OBVIOUS
  <2>3. old \in InstanceRecord
    BY <2>2 DEF Fresh, NoInstance, Cold, Held, WellTyped, InstanceRecord
  <2>4. inst'[t] = [old EXCEPT !.inbox = Append(@, m)]
    BY DEF Post, WellTyped
  <2> HIDE DEF old
  <2>5. inst'[t].life = old.life /\ inst'[t].tasks = old.tasks
    BY <2>3, <2>4 DEF InstanceRecord
  <2> QED BY <2>1, <2>5
<1>5. ASSUME NEW j \in falling
      PROVE  call'[j].state # "free" /\ call'[j].of \in Instance /\ Quiet(t)'
  <2>1. worker # 0 => Quiet(t)
    BY <1>1 DEF HolderInv, OneFalling
  <2>2. Quiet(t)'
    BY <2>1, PostQuiet
  <2> QED BY <2>2 DEF HolderInv, OneFalling
<1>6. OneFalling'
  BY <1>1, <1>5 DEF OneFalling, HolderInv
<1> QED BY <1>2, <1>3, <1>4, <1>6 DEF HolderInv

\* A step within one instance, that does not give a quiet one anything to do.
LEMMA InstanceHolder ==
  ASSUME WellTyped, HolderInv, NEW w \in Instance, NEW x, inst' = [inst EXCEPT ![w] = x],
         x.life = inst[w].life, x.life # "running" => x.tasks = {},
         Quiet(w) => x.keys = Cold /\ x.tasks = {}
                     /\ \A n \in DOMAIN x.inbox : x.inbox[n].kind \notin PasswordCalls,
         worker' = worker, falling' = falling, \A j \in falling : call'[j] = call[j]
  PROVE  HolderInv'
<1>1. inst'[w] = x /\ \A v \in Instance \ {w} : inst'[v] = inst[v]
  BY DEF WellTyped
<1>2. ASSUME NEW v \in Instance, Quiet(v) PROVE Quiet(v)'
  BY <1>1, <1>2 DEF Quiet
<1>3. \A v \in Instance \ {worker'} : inst'[v].life = "running" => Quiet(v)'
  BY <1>1, <1>2 DEF HolderInv
<1>4. \A v \in Instance : inst'[v].life # "running" => inst'[v].tasks = {}
  BY <1>1 DEF HolderInv
<1>5. worker \in Instance /\ Quiet(worker) => Quiet(worker)'
  <2>1. ASSUME NEW v \in Instance, v = worker PROVE Quiet(worker) => Quiet(worker)'
    BY <1>2, <2>1 DEF Quiet
  <2> QED BY <2>1
<1>6. OneFalling'
  BY <1>5 DEF HolderInv, OneFalling, WellTyped
<1> QED BY <1>3, <1>4, <1>6 DEF HolderInv

LEMMA HandleHolder ==
  ASSUME WellTyped, HolderInv, NEW w \in Instance, Handle(w)
  PROVE  HolderInv'
<1> DEFINE s == inst[w].keys
           m == Head(inst[w].inbox)
           taken == [inst[w] EXCEPT !.inbox = Tail(@)]
           x == inst'[w]
<1>1. inst[w] \in InstanceRecord /\ inst[w].inbox \in Seq(Genuine) /\ inst[w].inbox # <<>>
  BY DEF Handle, WellTyped, InstanceRecord
<1>2. inst' = [inst EXCEPT ![w] = x] /\ x \in {x} /\ inst[w].life = "running"
  BY DEF Handle, WellTyped
<1>3. x.life = inst[w].life /\ x.inbox = Tail(inst[w].inbox)
  BY <1>1 DEF Handle, WellTyped, InstanceRecord
<1>4. ASSUME Quiet(w)
      PROVE  /\ x.keys = Cold /\ x.tasks = {}
             /\ \A n \in DOMAIN x.inbox : x.inbox[n].kind \notin PasswordCalls
  <2>1. \A n \in DOMAIN inst[w].inbox : inst[w].inbox[n].kind \notin PasswordCalls
    BY <1>4 DEF Quiet
  <2>2. m \in Genuine /\ m = inst[w].inbox[1] /\ 1 \in DOMAIN inst[w].inbox
    BY <1>1
  <2>3. m.kind \in (Exported \ PasswordCalls) \cup {"clearLiveKeys"}
    BY <2>1, <2>2 DEF Genuine, Clearing, Request
  <2>4. s = Cold /\ inst[w].tasks = {}
    BY <1>4 DEF Quiet
  <2>5. x.keys = Cold /\ x.tasks = {}
    <3>1. CASE Refused(s, m.kind, m.user)
      BY <1>1, <2>4, <3>1 DEF Handle, WellTyped, InstanceRecord
    <3>2. CASE ~Refused(s, m.kind, m.user)
      <4>1. m.kind \in SyncKinds /\ After(s, m.kind, m.user, minted + 1) = Cold
        BY <2>3, <2>4, <3>2, ColdStays
      <4> QED BY <1>1, <2>4, <3>2, <4>1 DEF Handle, WellTyped, InstanceRecord
    <3> QED BY <3>1, <3>2
  <2>6. \A n \in DOMAIN Tail(inst[w].inbox) : Tail(inst[w].inbox)[n].kind \notin PasswordCalls
    BY <1>1, <2>1
  <2> QED BY <1>3, <2>5, <2>6
<1>5. worker' = worker /\ falling' = falling /\ call' = call
  BY DEF Handle
<1>6. x.life = "running"
  BY <1>2, <1>3
<1> QED BY <1>2, <1>3, <1>4, <1>5, <1>6, InstanceHolder

LEMMA TaskHolder ==
  ASSUME WellTyped, HolderInv, NEW w \in Instance, NEW task \in inst[w].tasks,
         Finish(w, task) \/ Progress(w, task)
  PROVE  HolderInv'
<1> DEFINE x == inst'[w]
<1>1. inst[w] \in InstanceRecord /\ ~Quiet(w) /\ inst[w].life = "running"
  BY DEF HolderInv, Quiet, WellTyped
<1>2. inst' = [inst EXCEPT ![w] = x]
  <2>1. CASE Finish(w, task)
    <3>1. PICK y : inst' = [inst EXCEPT ![w] = y]
      BY <2>1 DEF Finish
    <3> QED BY <3>1 DEF WellTyped
  <2>2. CASE Progress(w, task)
    BY <2>2 DEF Progress, WellTyped
  <2> QED BY <2>1, <2>2
<1>3. x.life = inst[w].life
  <2>1. CASE Finish(w, task)
    <3> DEFINE ended == [inst[w] EXCEPT !.tasks = @ \ {task}]
               m == task.message
    <3>1. ended \in InstanceRecord /\ ended.life = inst[w].life
      BY <1>1 DEF InstanceRecord
    <3> HIDE DEF ended
    <3>2. CASE inst' = [inst EXCEPT ![w] = [ended EXCEPT !.outbox = Append(@, Answer(m, "error", None))]]
      BY <3>1, <3>2 DEF WellTyped, InstanceRecord
    <3>3. CASE inst' = [inst EXCEPT ![w] = [ended EXCEPT !.keys = Login(@, m.user, Own),
                                      !.outbox = Append(@, Answer(m, "done", Pair(m.user, Own)))]]
      BY <3>1, <3>3 DEF WellTyped, InstanceRecord
    <3>4. CASE inst' = [inst EXCEPT ![w] = [ended EXCEPT !.outbox = Append(@, Answer(m, "done", task.by))]]
      BY <3>1, <3>4 DEF WellTyped, InstanceRecord
    <3> QED BY <2>1, <3>2, <3>3, <3>4 DEF Finish, ended
  <2>2. CASE Progress(w, task)
    BY <1>1, <2>2 DEF Progress, WellTyped, InstanceRecord
  <2> QED BY <2>1, <2>2
<1>4. worker' = worker /\ falling' = falling /\ call' = call
  BY DEF Finish, Progress
<1> QED BY <1>1, <1>2, <1>3, <1>4, InstanceHolder

LEMMA ReceiveHolder ==
  ASSUME WellTyped, HolderInv, NEW w \in Instance, Receive(w)
  PROVE  HolderInv'
<1> DEFINE x == [inst[w] EXCEPT !.outbox = Tail(@)]
<1>1. inst[w] \in InstanceRecord /\ inst' = [inst EXCEPT ![w] = x]
  BY DEF Receive, WellTyped
<1>2. x.life = inst[w].life /\ x.tasks = inst[w].tasks /\ x.keys = inst[w].keys
      /\ x.inbox = inst[w].inbox
  BY <1>1 DEF InstanceRecord
<1>3. x.life # "running" => x.tasks = {}
  BY <1>2 DEF HolderInv
<1>4. Quiet(w) => x.keys = Cold /\ x.tasks = {}
                  /\ \A n \in DOMAIN x.inbox : x.inbox[n].kind \notin PasswordCalls
  BY <1>2 DEF Quiet
<1>5. worker' = worker /\ falling' = falling /\ falling = {}
  BY DEF Receive
<1> HIDE DEF x
<1> QED BY <1>1, <1>2, <1>3, <1>4, <1>5, InstanceHolder

\* Only the cached instance has handlers running, so the calls an error event
\* goes to listen to the cached instance.
LEMMA BreakHolder ==
  ASSUME WellTyped, HolderInv, NEW w \in Instance, NEW task \in inst[w].tasks, Break(w, task)
  PROVE  HolderInv'
<1>1. inst[w] \in InstanceRecord /\ ~Quiet(w) /\ inst[w].life = "running"
  BY DEF HolderInv, Quiet, WellTyped
<1>2. worker = w
  BY <1>1 DEF HolderInv
<1>3. inst' = [inst EXCEPT ![w] = [inst[w] EXCEPT !.tasks = @ \ {task}]]
  BY DEF Break
<1>4. inst'[w].life = "running" /\ \A v \in Instance \ {w} : inst'[v] = inst[v]
  BY <1>1, <1>3 DEF WellTyped, InstanceRecord
<1>5. worker' = worker /\ falling' = Waiting(w) /\ call' = call
  BY DEF Break
<1>6. OneFalling'
  BY <1>2, <1>5 DEF OneFalling, Waiting
<1>7. \A v \in Instance \ {worker'} : inst'[v].life = "running" => Quiet(v)'
  BY <1>2, <1>4, <1>5, QuietKept DEF HolderInv
<1> QED BY <1>4, <1>6, <1>7 DEF HolderInv

LEMMA FailHolder ==
  ASSUME WellTyped, HolderInv, NEW i \in falling, Fail(i)
  PROVE  HolderInv'
<1>1. i \in Call /\ call[i].of \in Instance
  BY DEF WellTyped, HolderInv, OneFalling
<1>2. /\ worker' = 0 /\ falling' \subseteq falling
      /\ call' = [call EXCEPT ![i].state = "failed"]
      /\ inst' = [inst EXCEPT ![call[i].of] = Ended]
  BY DEF Fail
<1>3. inst'[call[i].of] = Ended /\ \A v \in Instance \ {call[i].of} : inst'[v] = inst[v]
  BY <1>1, <1>2 DEF WellTyped
<1>4. Ended.life = "ended" /\ Ended.tasks = {}
  BY DEF Ended, NoInstance
<1>5. ASSUME NEW v \in Instance, inst'[v].life = "running" PROVE Quiet(v)'
  <2>1. v # call[i].of /\ inst'[v] = inst[v]
    BY <1>3, <1>4, <1>5
  <2>2. Quiet(v)
    BY <1>5, <2>1, CallFacts DEF HolderInv, OneFalling
  <2> QED BY <2>1, <2>2, QuietKept
<1>6. \A v \in Instance : inst'[v].life # "running" => inst'[v].tasks = {}
  BY <1>3, <1>4 DEF HolderInv
<1>7. OneFalling'
  BY <1>1, <1>2 DEF HolderInv, OneFalling, WellTyped, CallRecord
<1> QED BY <1>5, <1>6, <1>7 DEF HolderInv

LEMMA HolderStep == AnswerInv /\ HolderInv /\ [Next]_vars => HolderInv'
<1> SUFFICES ASSUME WellTyped, HolderInv, [Next]_vars PROVE HolderInv'
  BY DEF AnswerInv
<1>1. CASE Next
  <2>1. ASSUME NEW i \in Call, NEW kind \in Kinds, NEW u \in User, Ask(i, kind, u)
        PROVE  HolderInv'
    <3> DEFINE m == [id |-> i, kind |-> kind, user |-> u]
    <3>1. PICK t \in Instance : t = Target
      BY <2>1 DEF Ask
    <3>2. Post(t, m) /\ falling' = falling /\ call[i].state = "free"
      BY <2>1, <3>1 DEF Ask
    <3>3. \A j \in falling : m.kind \notin PasswordCalls /\ worker # call[j].of
      BY <2>1 DEF Ask
    <3>4. \A j \in falling : j # i /\ call'[j] = call[j]
      BY <2>1, <3>2 DEF Ask, HolderInv, OneFalling, WellTyped
    <3> HIDE DEF m
    <3> QED BY <3>1, <3>2, <3>3, <3>4, PostHolder
  <2>2. ASSUME NEW i \in Call, SessionLogin(i) PROVE HolderInv'
    BY <2>2 DEF SessionLogin, HolderInv, OneFalling, Quiet
  <2>3. CASE Logout
    <3> DEFINE m == [id |-> 0, kind |-> "clearLiveKeys", user |-> session]
    <3>1. PICK t \in Instance : t = Target
      BY <2>3 DEF Logout
    <3>2. Post(t, m) /\ falling' = falling /\ falling = {}
      BY <2>3, <3>1 DEF Logout
    <3> HIDE DEF m
    <3> QED BY <3>1, <3>2, PostHolder
  <2>4. ASSUME NEW w \in Instance, Receive(w) PROVE HolderInv'
    BY <2>4, ReceiveHolder
  <2>5. ASSUME NEW w \in Instance, Handle(w) PROVE HolderInv'
    BY <2>5, HandleHolder
  <2>6. ASSUME NEW w \in Instance, NEW task \in inst[w].tasks,
               Finish(w, task) \/ Progress(w, task) \/ Break(w, task)
        PROVE  HolderInv'
    BY <2>6, TaskHolder, BreakHolder
  <2>7. ASSUME NEW i \in falling, Fail(i) PROVE HolderInv'
    BY <2>7, FailHolder
  <2> QED BY <1>1, <2>1, <2>2, <2>3, <2>4, <2>5, <2>6, <2>7 DEF Next
<1>2. CASE UNCHANGED vars
  BY <1>2 DEF vars, HolderInv, OneFalling, Quiet
<1> QED BY <1>1, <1>2

\* Whatever fails, and whatever is asked while callers are being told of it, the
\* only instance that runs with keys in it is the cached one, which the next
\* logout's clearing goes to (worker-client.ts: getWorker, attachFailureHandlers).
THEOREM KeysInOneHolder == Spec => []OneHolder
<1>1. HolderInv => OneHolder
  BY DEF HolderInv, Quiet, OneHolder
<1> QED BY <1>1, AnswerInit, AnswerStep, HolderInit, HolderStep, PTL DEF Spec
=============================================================================

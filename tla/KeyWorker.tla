------------------------------- MODULE KeyWorker -------------------------------
(* A tab's crypto worker and its callers                                       *)
(* (src/web/src/lib/crypto/worker-client.ts, worker.ts, worker-protocol.ts,    *)
(* src/web/src/lib/session).                                                   *)
(*                                                                             *)
(* The main thread posts requests to one cached worker instance and awaits an  *)
(* answer with the request's id. The worker takes its messages in order, but a *)
(* handler that awaits may end after the ones behind it. An instance may throw *)
(* outside a handler: the calls waiting for it are then failed one by one, and *)
(* the code awaiting each runs before the next is told.                        *)
EXTENDS WorkerKeys, Sequences, FiniteSets, FiniteSetsExt

CONSTANTS
  Kinds,       \* the requests explored
  MaxCall,     \* bound on the calls made
  MaxWorker,   \* bound on the instances created
  MaxBreak     \* bound on failures of an instance

-----------------------------------------------------------------------------
(* The functions worker-client.ts exports, as the requests they send.      *)

\* The password screens: each call shows its progress until it ends.
PasswordCalls == PasswordKinds \cup {"completeLogin"}

\* Signatures about roles, successors and memberships.
SignCalls == GrantKinds

\* Records of keys seen, confirmed and wrapped for.
PinCalls == PinKinds

InviteCalls == InviteKinds

\* The calls made with workerCall: a group's rotation.
WorkerCalls == GroupKeyKinds

\* What lists and threads show, and what they write.
TextCalls == TextKinds

SealCalls == SealKinds \ {"sealReaction"}

OpenCalls == OpenKinds \ {"openReactions"}

ReactionCalls == {"sealReaction", "openReactions"}

OwnCalls == OwnKinds \cup {"hasLiveKeys"}

\* The calls made with rotationCall: the account's own key rotation.
RotationCalls == PairKinds \cup {"beginKeyRotation", "commitKeyRotation", "discardKeyRotation"}

Exported == PasswordCalls \cup SignCalls \cup PinCalls \cup InviteCalls \cup WorkerCalls
            \cup TextCalls \cup SealCalls \cup OpenCalls \cup ReactionCalls \cup OwnCalls
            \cup RotationCalls

ASSUME KindsExported == Kinds \subseteq Exported
ASSUME WorkerBounds == {MaxCall, MaxWorker, MaxBreak} \subseteq Nat

-----------------------------------------------------------------------------
Call == 1..MaxCall
Instance == 1..MaxWorker

VARIABLES
  worker,    \* the cached instance, 0 when there is none
  inst,      \* the instances
  call,      \* the calls made so far, with the instance each listens to
  falling,   \* the calls still to be told of the error event being dispatched
  session,   \* the account the tab believes it is logged in as, or None
  minted,    \* key pairs minted so far
  breaks     \* failures so far

vars == <<worker, inst, call, falling, session, minted, breaks>>

\* The key an account's password opens. Minted pairs are 1, 2, ...
Own == 0

NoCall == [kind |-> "none", user |-> None, of |-> 0, state |-> "free", answer |-> None]

NoInstance == [life |-> "none", keys |-> Cold, inbox |-> <<>>, tasks |-> {}, outbox |-> <<>>]

Fresh == [NoInstance EXCEPT !.life = "running"]

\* terminate: nothing is left of it, not even what it had posted.
Ended == [NoInstance EXCEPT !.life = "ended"]

Waiting(w) == {i \in Call : call[i].state = "waiting" /\ call[i].of = w}

\* getWorker: the cached instance, or a new one.
Target == IF worker # 0 THEN worker ELSE Cardinality({w \in Instance : inst[w].life # "none"}) + 1

\* postMessage to it.
Post(w, message) ==
  LET old == IF worker = 0 THEN Fresh ELSE inst[w]
  IN  /\ worker' = w
      /\ inst' = [inst EXCEPT ![w] = [old EXCEPT !.inbox = Append(@, message)]]

-----------------------------------------------------------------------------
(* The main thread.                                                        *)

\* A screen asks as the account of the tab's session; a flow that outlives its
\* session goes on asking as the account it was started for.
Asking(kind, u) ==
  \/ session = u
  \/ \E i \in Call : call[i].user = u /\ kind # "completeLogin"
  \/ kind = "completeLogin" /\ session = None

\* While an error event is dispatched only code awaiting a call that has been
\* told runs: it may call again at once, but no form is submitted.
Ask(i, kind, u) ==
  /\ call[i].state = "free" /\ (i > 1 => call[i - 1].state # "free")
  /\ Target \in Instance /\ Asking(kind, u)
  /\ \A j \in falling : kind \notin PasswordCalls /\ worker # call[j].of
  /\ call' = [call EXCEPT ![i] = [kind |-> kind, user |-> u, of |-> Target,
                                  state |-> "waiting", answer |-> None]]
  /\ Post(Target, [id |-> i, kind |-> kind, user |-> u])
  /\ UNCHANGED <<falling, session, minted, breaks>>

\* LoginScreen: the server accepted the signature.
SessionLogin(i) ==
  /\ falling = {} /\ session = None
  /\ call[i].kind = "completeLogin" /\ call[i].state = "done"
  /\ session' = call[i].user
  /\ call' = [call EXCEPT ![i].state = "used"]
  /\ UNCHANGED <<worker, inst, falling, minted, breaks>>

\* A logout, or a 401 noticed by the session watcher. The clearing is posted to
\* whatever instance is cached, and a new one is made when there is none.
Logout ==
  /\ falling = {} /\ session # None /\ Target \in Instance
  /\ session' = None
  /\ Post(Target, [id |-> 0, kind |-> "clearLiveKeys", user |-> session])
  /\ UNCHANGED <<call, falling, minted, breaks>>

\* The listener of the call a message names settles it; the others ignore it,
\* and a progress event settles nothing.
Receive_AnyId(w) ==       \* faulty: the id of the answer is not looked at
  /\ falling = {} /\ inst[w].outbox # <<>>
  /\ LET m == Head(inst[w].outbox)
     IN call' = IF m.answer = "progress" \/ Waiting(w) = {} THEN call
                ELSE [call EXCEPT ![Min(Waiting(w))].state = IF m.answer = "error" THEN "failed" ELSE "done",
                                  ![Min(Waiting(w))].answer = m]
  /\ inst' = [inst EXCEPT ![w].outbox = Tail(@)]
  /\ UNCHANGED <<worker, falling, session, minted, breaks>>

Receive(w) ==
  /\ falling = {} /\ inst[w].outbox # <<>>
  /\ LET m == Head(inst[w].outbox)
     IN call' = IF m.answer = "progress" \/ m.id \notin Waiting(w) THEN call
                ELSE [call EXCEPT ![m.id].state = IF m.answer = "error" THEN "failed" ELSE "done",
                                  ![m.id].answer = m]
  /\ inst' = [inst EXCEPT ![w].outbox = Tail(@)]
  /\ UNCHANGED <<worker, falling, session, minted, breaks>>

-----------------------------------------------------------------------------
(* The worker.                                                             *)

\* An answer names the pair that made it: the one live when its handler began.
Answer(m, answer, by) == [id |-> m.id, kind |-> m.kind, answer |-> answer, by |-> by]

\* The next message: refused, handled at once, or begun.
Handle(w) ==
  LET s == inst[w].keys
      m == Head(inst[w].inbox)
      taken == [inst[w] EXCEPT !.inbox = Tail(@)]
      fresh == minted + 1
  IN  /\ inst[w].life = "running" /\ inst[w].inbox # <<>>
      /\ inst' = [inst EXCEPT ![w] =
           CASE Refused(s, m.kind, m.user) ->
                  [taken EXCEPT !.outbox = Append(@, Answer(m, "error", None))]
             [] ~Refused(s, m.kind, m.user) /\ m.kind = "clearLiveKeys" ->
                  [taken EXCEPT !.keys = After(s, m.kind, m.user, fresh)]
             [] ~Refused(s, m.kind, m.user) /\ m.kind \in SyncKinds \ {"clearLiveKeys"} ->
                  [taken EXCEPT !.keys = After(s, m.kind, m.user, fresh),
                                !.outbox = Append(@, Answer(m, "done", s.live))]
             [] OTHER -> [taken EXCEPT !.tasks = @ \cup {[message |-> m, by |-> s.live]}]]
      /\ minted' = IF m.kind = "beginKeyRotation" /\ ~Refused(s, m.kind, m.user)
                   THEN fresh ELSE minted
      /\ UNCHANGED <<worker, call, falling, session, breaks>>

\* A handler that awaited ends: with its answer, or with an error (a wrong
\* password, material that does not open). A login caches the keys it opened.
Finish(w, task) ==
  LET m == task.message
      ended == [inst[w] EXCEPT !.tasks = @ \ {task}]
  IN  /\ task \in inst[w].tasks
      /\ \/ inst' = [inst EXCEPT ![w] = [ended EXCEPT !.outbox = Append(@, Answer(m, "error", None))]]
         \/ /\ m.kind = "completeLogin"
            /\ inst' = [inst EXCEPT ![w] =
                 [ended EXCEPT !.keys = Login(@, m.user, Own),
                               !.outbox = Append(@, Answer(m, "done", Pair(m.user, Own)))]]
         \/ /\ m.kind # "completeLogin"
            /\ inst' = [inst EXCEPT ![w] = [ended EXCEPT !.outbox = Append(@, Answer(m, "done", task.by))]]
      /\ UNCHANGED <<worker, call, falling, session, minted, breaks>>

\* A step of Argon2id done, posted under the request's id.
Progress(w, task) ==
  /\ task \in inst[w].tasks /\ task.message.kind \in ProgressKinds
  /\ inst[w].outbox = <<>>
  /\ inst' = [inst EXCEPT ![w].outbox = Append(@, Answer(task.message, "progress", None))]
  /\ UNCHANGED <<worker, call, falling, session, minted, breaks>>

-----------------------------------------------------------------------------
(* Failures.                                                               *)

\* Something throws outside the handler (an allocation of Argon2id, say): the
\* request is lost, and the error event goes to every call listening.
Break_NoListener(w, task) ==     \* faulty: only {kind: 'error'} answers are awaited
  /\ falling = {} /\ breaks < MaxBreak /\ task \in inst[w].tasks
  /\ breaks' = breaks + 1
  /\ inst' = [inst EXCEPT ![w].tasks = @ \ {task}]
  /\ UNCHANGED <<worker, call, falling, session, minted>>

Break(w, task) ==
  /\ falling = {} /\ breaks < MaxBreak /\ task \in inst[w].tasks
  /\ breaks' = breaks + 1
  /\ inst' = [inst EXCEPT ![w].tasks = @ \ {task}]
  /\ falling' = Waiting(w)
  /\ UNCHANGED <<worker, call, session, minted>>

\* One listener: it stops listening, ends the instance it listens to, forgets
\* whatever instance is cached, and rejects.
Fail_LeftRunning(i) ==      \* faulty: the instance is not terminated
  /\ i = Min(falling)
  /\ falling' = falling \ {i}
  /\ worker' = 0
  /\ call' = [call EXCEPT ![i].state = "failed"]
  /\ UNCHANGED <<inst, session, minted, breaks>>

Fail(i) ==
  /\ i = Min(falling)
  /\ falling' = falling \ {i}
  /\ inst' = [inst EXCEPT ![call[i].of] = Ended]
  /\ worker' = 0
  /\ call' = [call EXCEPT ![i].state = "failed"]
  /\ UNCHANGED <<session, minted, breaks>>

-----------------------------------------------------------------------------
\* A reload leaves the cookie's session and no worker.
Init ==
  /\ worker = 0 /\ inst = [w \in Instance |-> NoInstance]
  /\ call = [i \in Call |-> NoCall] /\ falling = {}
  /\ session \in User \cup {None}
  /\ minted = 0 /\ breaks = 0

Next ==
  \/ \E i \in Call, kind \in Kinds, u \in User : Ask(i, kind, u)
  \/ \E i \in Call : SessionLogin(i)
  \/ Logout
  \/ \E w \in Instance : Receive(w) \/ Handle(w)
  \/ \E w \in Instance : \E task \in inst[w].tasks :
       Finish(w, task) \/ Progress(w, task) \/ Break(w, task)
  \/ \E i \in falling : Fail(i)

\* The browser runs the event loops; a handler ends.
Fairness ==
  \A w \in Instance :
    /\ WF_vars(Receive(w)) /\ WF_vars(Handle(w))
    /\ WF_vars(\E task \in inst[w].tasks : Finish(w, task))
    /\ WF_vars(\E i \in falling : Fail(i))

Spec == Init /\ [][Next]_vars /\ Fairness

-----------------------------------------------------------------------------
\* Whatever is asked at once, in whichever order it ends, and whoever logs in
\* meanwhile, a call is given the answer to its own request, made with the keys
\* of the account it was made for.
AnsweredForItsCaller ==
  \A i \in Call : call[i].state \in {"done", "used"} =>
    /\ call[i].answer.id = i /\ call[i].answer.kind = call[i].kind
    /\ call[i].kind \in KeyKinds => call[i].answer.by.user = call[i].user

\* Keys live only in the instance the next logout's clearing goes to: an
\* instance that failed, or that nobody can reach, holds none.
OneHolder ==
  \A w \in Instance : inst[w].life = "running" /\ inst[w].keys # Cold => w = worker

\* No caller waits for ever, though handlers throw and instances fail.
CallsSettle == \A i \in Call : call[i].state = "waiting" ~> call[i].state # "waiting"
=============================================================================

----------------------------- MODULE AccountFlows -----------------------------
(* Sign-up, login, recovery, password change and key rotation, as the tabs run *)
(* them against the account routes (src/web/src/routes/runSignup.ts,           *)
(* runRecovery.ts, runChangePassword.ts, runKeyRotation.ts and their screens;  *)
(* src/web/src/lib/api/auth.ts, keyRotation.ts).                               *)
(*                                                                             *)
(* One username and its account. Each tab is a device with a cookie and a      *)
(* crypto worker of its own and runs one flow at a time. An answer may be lost *)
(* with its request still under way, to be served later or never.              *)
(*                                                                             *)
(* Material is what one wrapping of the keys produced: the password it opens   *)
(* with, the pair inside and a recovery code, which is identified with its id. *)
(* Every write of the credentials ends every session, so a session is          *)
(* identified with the credential version it was issued under.                 *)
EXTENDS WorkerKeys, FiniteSets

CONSTANTS
  Tab, Password,
  Uses,        \* the flows each tab's user starts
  MaxMinted,   \* bound on keypairs and materials made
  MaxLosses,   \* bound on answers lost
  MaxRounds,   \* MAX_ROUNDS of runKeyRotation.ts
  Throttles    \* whether the firewall may answer any request with a 403

Flow == {"signup", "login", "reauth", "recovery", "change", "rotate"}

ASSUME RoundsBounded == MaxRounds \in Nat \ {0} /\ MaxMinted \in Nat /\ MaxLosses \in Nat
ASSUME UsesFlows == Uses \in [Tab -> SUBSET Flow]

VARIABLES
  acct,     \* the account's row, None before it is registered
  device,   \* each tab's session state, cookie and worker
  screen,   \* each tab's flow
  wire,     \* requests nobody waits for any more that may still be served
  minted,
  code,     \* what became of each recovery code
  losses,
  \* what has happened, for the properties
  denied,   \* materials the client took for definitely not committed
  forsaken  \* key pairs that were sent and given up on, their outcome unknown

flows == <<acct, device, screen, wire, minted, code, denied, losses>>
vars  == <<flows, forsaken>>

Id == 1..MaxMinted

\* A wrapping of keys, the account's row, and a pair in a worker.
Materials == [id : Id, user : Nat, pw : Password, key : Nat]
Rows      == [m : Materials, version : Nat \ {0}, token : Id \cup {0}]
Pairs     == [user : Nat, key : Nat]

ASSUME NoneIsApart ==
  None \notin Tab /\ None \notin Materials /\ None \notin Rows /\ None \notin Pairs

Material(id, user, pw, key) == [id |-> id, user |-> user, pw |-> pw, key |-> key]

LoggedOut == [session |-> FALSE, cookie |-> 0, worker |-> Cold]

Closed == [flow |-> "none", at |-> "form", typed |-> None, m |-> None, served |-> None,
           exp |-> 0, resume |-> None, begun |-> FALSE, ambiguous |-> FALSE, round |-> 0,
           open |-> TRUE]

\* requireSession, for a cookie.
Honoured(cookie) == acct # None /\ cookie = acct.version

Fresh == minted + 1

-----------------------------------------------------------------------------
(* The account routes.                                                     *)

Request(t) ==
  LET s == screen[t]
  IN  [by |-> t, kind |-> s.flow, m |-> s.m, exp |-> s.exp, cookie |-> device[t].cookie,
       presented |-> IF s.flow = "recovery" THEN s.served.id ELSE 0]

\* IsOwnRewrap: the reset's own earlier write, by its version and its token.
OwnRewrap(r) == acct.version = r.exp + 1 /\ acct.token = r.m.id

\* Registering again with the same identity and material is confirmed.
RegisterAnswer(r) == IF acct = None \/ acct.m = r.m THEN {"ok"} ELSE {"taken"}

ResetAnswer(r) ==
  IF (acct.m.id = r.presented /\ acct.version = r.exp) \/ OwnRewrap(r)
  THEN {"ok"} ELSE {"unauthorized"}

ChangeAnswer(r) ==
  IF ~Honoured(r.cookie) THEN {"unauthorized"}
  ELSE IF acct.version = r.exp THEN {"ok"} ELSE {"conflict"}

\* The session comes first, then the signed day, the handoff rows, and the
\* cooldown; "refused" is any other answer below 500.
RotateAnswer(r) ==
  IF ~Honoured(r.cookie) THEN {"unauthorized"}
  ELSE {"expired", "handoff", "refused"}
       \cup (IF acct.version = r.exp THEN {"ok"} ELSE {"conflict"})

Answers(r) ==
  (CASE r.kind = "signup"   -> RegisterAnswer(r)
     [] r.kind = "recovery" -> ResetAnswer(r)
     [] r.kind = "change"   -> ChangeAnswer(r)
     [] r.kind = "rotate"   -> RotateAnswer(r))
  \cup (IF Throttles THEN {"refused"} ELSE {})

\* The row after "ok"; a confirmed resend writes nothing.
Written(r) ==
  IF acct = None THEN [m |-> r.m, version |-> 1, token |-> 0]
  ELSE IF acct.m = r.m THEN acct
  ELSE [m |-> r.m, version |-> acct.version + 1,
        token |-> IF r.kind = "recovery" THEN r.m.id ELSE 0]

-----------------------------------------------------------------------------
(* What the flows share.                                                   *)

Show(t, s) ==          \* the recovery code step, if the screen is still there
  /\ screen' = [screen EXCEPT ![t] = IF s.open THEN [Closed EXCEPT !.flow = s.flow, !.at = "code"]
                                     ELSE Closed]
  /\ code' = [code EXCEPT ![s.m.id] = IF s.open THEN "shown" ELSE IF @ = "unseen" THEN "left" ELSE @]

\* The user is told that the code may have changed and how to get a new one.
Warned(id) == [code EXCEPT ![id] = IF @ = "unseen" THEN "warned" ELSE @]

Deny(m) == denied' = denied \cup {m.id}

Go(t, s) == screen' = [screen EXCEPT ![t] = s]

\* A 401 of a protected route: the session watcher drops the session and the
\* keys, and the guarded screen is gone while its run carries on.
Dropped(t) == device' = [device EXCEPT ![t] = LoggedOut]

-----------------------------------------------------------------------------
(* Sign-up: runSignup and SignupScreen.                                    *)

\* The exact request of an unanswered attempt is sent again only for the
\* password it was made with; any other submission mints anew.
SignupSubmit(t, pw) ==
  LET s == screen[t]
      resuming == s.resume # None /\ s.resume.pw = pw
  IN  /\ "signup" \in Uses[t] /\ ~device[t].session
      /\ s.flow \in {"none", "signup"} /\ s.at = "form"
      /\ resuming \/ Fresh \in Id
      /\ minted' = IF resuming THEN minted ELSE Fresh
      /\ Go(t, [s EXCEPT !.flow = "signup", !.at = "sent",
                         !.m = IF resuming THEN s.resume ELSE Material(Fresh, Fresh, pw, Fresh)])
      /\ UNCHANGED <<acct, device, wire, code, denied, losses>>

\* username_taken for a submission that was not the resend itself: the earlier
\* attempt must have landed, and it is kept (issue 134).
Resumable_Dropped(s, answer) == None      \* faulty: every definite refusal drops it
Resumable(s, answer) ==
  IF answer = "taken" /\ s.resume # None /\ s.resume # s.m THEN s.resume ELSE None

\* An attempt dropped for a later one of another password.
Overlaid(s, answer) ==
  IF s.resume # None /\ s.resume # s.m /\ answer \in {"lost", "refused"}
  THEN [code EXCEPT ![s.resume.id] = IF @ = "unseen" THEN "overlaid" ELSE @] ELSE code

SignupReceive(t, answer) ==
  LET s == screen[t]
  IN  /\ UNCHANGED device
      /\ CASE answer = "ok" -> /\ Go(t, [s EXCEPT !.at = "registered", !.resume = None])
                               /\ UNCHANGED <<code, denied>>
           [] answer = "lost" -> /\ Go(t, [s EXCEPT !.at = "form", !.resume = s.m, !.m = None])
                                 /\ code' = Overlaid(s, answer) /\ UNCHANGED denied
           [] OTHER -> /\ Go(t, [s EXCEPT !.at = "form", !.resume = Resumable(s, answer), !.m = None])
                       /\ Deny(s.m) /\ code' = Overlaid(s, answer)

LeaveSignup(t) ==
  LET s == screen[t]
  IN  /\ s.flow = "signup" /\ s.at = "form"
      /\ Go(t, Closed)
      /\ code' = IF s.resume = None THEN code
                 ELSE [code EXCEPT ![s.resume.id] = IF @ = "unseen" THEN "left" ELSE @]
      /\ UNCHANGED <<acct, device, wire, minted, denied, losses>>

-----------------------------------------------------------------------------
(* Logging in: LoginScreen, ReauthenticateStep, and the end of a sign-up.  *)

LoginSubmit(t, pw) ==
  /\ "login" \in Uses[t] /\ screen[t] = Closed /\ ~device[t].session /\ acct # None
  /\ Go(t, [Closed EXCEPT !.flow = "login", !.at = "served", !.typed = pw, !.served = acct.m])
  /\ UNCHANGED <<acct, device, wire, minted, code, denied, losses>>

\* A tab that was reloaded asks for the password before it signs anything.
ReauthSubmit(t, pw) ==
  /\ "reauth" \in Uses[t] /\ screen[t] = Closed /\ device[t].session /\ device[t].worker.live = None /\ acct # None
  /\ Go(t, [Closed EXCEPT !.flow = "reauth", !.at = "served", !.typed = pw, !.served = acct.m])
  /\ UNCHANGED <<acct, device, wire, minted, code, denied, losses>>

SignupChallenge(t) ==
  /\ screen[t].at = "registered"
  /\ Go(t, [screen[t] EXCEPT !.at = "served", !.typed = screen[t].m.pw, !.served = acct.m])
  /\ UNCHANGED <<acct, device, wire, minted, code, denied, losses>>

\* completeLogin opens the served wrap and caches its keys; verify accepts the
\* signature of the pair the account has by then. Whatever fails, a sign-up
\* goes on to its recovery code.
CompleteLogin(t, verified) ==
  LET s == screen[t]
      opens == s.served.pw = s.typed
      w == IF opens THEN Login(device[t].worker, s.served.user, s.served.key) ELSE device[t].worker
  IN  /\ s.at = "served"
      /\ verified \/ losses < MaxLosses
      /\ losses' = IF verified THEN losses ELSE losses + 1
      /\ device' = [device EXCEPT ![t] =
           IF s.flow # "reauth" /\ opens /\ verified /\ acct.m.key = s.served.key
           THEN [session |-> TRUE, cookie |-> acct.version, worker |-> w]
           ELSE [@ EXCEPT !.worker = w]]
      /\ IF s.flow = "signup" THEN Show(t, s) ELSE Go(t, Closed) /\ UNCHANGED code
      /\ UNCHANGED <<acct, wire, minted, denied>>

-----------------------------------------------------------------------------
(* Recovery: runRecovery and RecoveryScreen.                               *)

\* release checks the code and serves the wrap and its version.
RecoverySubmit(t, pw) ==
  /\ "recovery" \in Uses[t] /\ screen[t] = Closed /\ acct # None /\ code[acct.m.id] = "shown"
  /\ pw # acct.m.pw
  /\ Go(t, [Closed EXCEPT !.flow = "recovery", !.at = "read", !.typed = pw,
                          !.served = acct.m, !.exp = acct.version])
  /\ UNCHANGED <<acct, device, wire, minted, code, denied, losses>>

RecoveryReceive(t, answer) ==
  LET s == screen[t]
  IN  /\ UNCHANGED device
      /\ CASE answer = "ok" -> Show(t, s) /\ UNCHANGED denied
           [] answer = "lost" -> /\ Go(t, [s EXCEPT !.at = "lost"])
                                 /\ code' = Warned(s.m.id) /\ UNCHANGED denied
           [] OTHER -> Go(t, Closed) /\ Deny(s.m) /\ UNCHANGED code

\* RecoveryRetryStep: the same request again, or starting over.
RetryReset(t) ==
  /\ screen[t].at = "lost"
  /\ Go(t, [screen[t] EXCEPT !.at = "sent"])
  /\ UNCHANGED <<acct, device, wire, minted, code, denied, losses>>

GiveUpReset(t) ==
  /\ screen[t].at = "lost"
  /\ Go(t, Closed)
  /\ UNCHANGED <<acct, device, wire, minted, code, denied, losses>>

-----------------------------------------------------------------------------
(* Changing the password: runChangePassword and ChangePasswordScreen.      *)

ChangeSubmit(t, pw) ==
  /\ "change" \in Uses[t] /\ screen[t] = Closed /\ device[t].session /\ Honoured(device[t].cookie)
  /\ pw # acct.m.pw
  /\ Go(t, [Closed EXCEPT !.flow = "change", !.at = "read", !.typed = pw,
                          !.served = acct.m, !.exp = acct.version])
  /\ UNCHANGED <<acct, device, wire, minted, code, denied, losses>>

ChangeReceive(t, answer) ==
  LET s == screen[t]
  IN  CASE answer = "ok" ->
             /\ device' = [device EXCEPT ![t].cookie = acct'.version]
             /\ Show(t, s) /\ UNCHANGED denied
        [] answer = "lost" ->
             /\ Go(t, Closed) /\ UNCHANGED <<device, denied>>
             /\ code' = IF s.open THEN Warned(s.m.id) ELSE [code EXCEPT ![s.m.id] = "left"]
        [] answer = "unauthorized" -> Dropped(t) /\ Go(t, Closed) /\ Deny(s.m) /\ UNCHANGED code
        [] OTHER -> Go(t, Closed) /\ Deny(s.m) /\ UNCHANGED <<device, code>>

\* completeRecovery and completeChangePassword re-wrap the pair that was
\* served, with a new recovery code.
SendRewrap(t) ==
  LET s == screen[t]
  IN  /\ s.at = "read" /\ Fresh \in Id
      /\ minted' = Fresh
      /\ Go(t, [s EXCEPT !.at = "sent", !.typed = None,
                         !.m = Material(Fresh, s.served.user, s.typed, s.served.key)])
      /\ UNCHANGED <<acct, device, wire, code, denied, losses>>

\* The worker could not (the bound on materials stands for its failures).
RewrapFails(t) ==
  /\ screen[t].at = "read"
  /\ Go(t, Closed)
  /\ UNCHANGED <<acct, device, wire, minted, code, denied, losses>>

-----------------------------------------------------------------------------
(* Rotating the account's keys: runKeyRotation and RotateKeysScreen.       *)

Preflight(t) ==
  /\ "rotate" \in Uses[t] /\ screen[t] = Closed /\ device[t].session /\ Honoured(device[t].cookie)
  /\ Go(t, [Closed EXCEPT !.flow = "rotate", !.at = "review", !.served = acct.m, !.exp = acct.version])
  /\ UNCHANGED <<acct, device, wire, minted, code, denied, losses>>

\* The worker drops the new pair.
Discarded(t) == device' = [device EXCEPT ![t].worker = Discard(@)]

\* A tab without live keys is sent to log in; otherwise the new pair is minted,
\* once per attempt.
StartRotation(t, pw) ==
  LET s == screen[t]
      w == device[t].worker
  IN  /\ s.at = "review" /\ pw # s.served.pw
      /\ \/ /\ ~Warm(w, s.served.user)
            /\ Discarded(t) /\ Go(t, Closed) /\ UNCHANGED minted
         \/ /\ Warm(w, s.served.user) /\ s.begun
            /\ Go(t, [s EXCEPT !.at = "begun", !.typed = pw]) /\ UNCHANGED <<device, minted>>
         \/ /\ Warm(w, s.served.user) /\ ~s.begun /\ Fresh + 1 \in Id
            /\ minted' = Fresh
            /\ device' = [device EXCEPT ![t].worker = Begin(w, s.served.user, Fresh)]
            /\ Go(t, [s EXCEPT !.at = "begun", !.begun = TRUE, !.typed = pw])
      /\ UNCHANGED <<acct, wire, code, denied, losses>>

\* The screen after an attempt that did not go through: an unreachable server
\* leaves the new pair for the next try, anything else drops it.
BackToReview(t, s, unreachable) ==
  /\ IF unreachable /\ s.open THEN UNCHANGED device ELSE Discarded(t)
  /\ Go(t, IF s.open THEN [Closed EXCEPT !.flow = "rotate", !.at = "review", !.served = s.served,
                                         !.exp = s.exp, !.begun = unreachable]
           ELSE Closed)

\* An invite, a handoff row or the signing fails before anything was sent.
PrepareFails(t, unreachable) ==
  /\ screen[t].at = "begun"
  /\ BackToReview(t, screen[t], unreachable)
  /\ UNCHANGED <<acct, wire, minted, code, denied, losses>>

\* signKeyRotation wraps the pending pair under the new password.
SendRotation(t) ==
  LET s == screen[t]
      w == device[t].worker
  IN  /\ s.at = "begun" /\ Warm(w, s.served.user) /\ Begun(w, s.served.user) /\ Fresh \in Id
      /\ minted' = Fresh
      /\ Go(t, [s EXCEPT !.at = "sent", !.round = 1, !.typed = None,
                         !.m = Material(Fresh, s.served.user, s.typed, w.pending.key)])
      /\ UNCHANGED <<acct, device, wire, code, denied, losses>>

\* halt: final only if no earlier send is unaccounted for.
Halt_AnswerIsFinal(t, s, unreachable) ==      \* faulty: settles nothing
  BackToReview(t, s, unreachable) /\ Deny(s.m)
Halt(t, s, unreachable) ==
  \/ s.ambiguous /\ Go(t, [s EXCEPT !.at = "settling"]) /\ UNCHANGED <<device, denied>>
  \/ ~s.ambiguous /\ BackToReview(t, s, unreachable) /\ Deny(s.m)

\* The server accepted: the worker switches to the new keys.
Switched_Discards(w, u) == Discard(w)      \* faulty: drops the pair it registered
Switched(w, u) == IF Begun(w, u) THEN Commit(w) ELSE w

Rounds_NotCounted(n) == n          \* faulty: answers the server's 409s for ever
Rounds(n) == n + 1

\* The 409s about handoff rows are answered by writing them, which may fail,
\* and sending again while there are rounds left.
AnswerHandoffs(t) ==
  LET s == screen[t]
  IN  /\ s.at = "handoffs"
      /\ \/ s.round < MaxRounds /\ Go(t, [s EXCEPT !.at = "sent", !.round = Rounds(@)])
            /\ UNCHANGED <<device, denied>>
         \/ s.round = MaxRounds /\ Halt(t, s, FALSE)
         \/ Halt(t, s, TRUE)
      /\ UNCHANGED <<acct, wire, minted, code, losses>>

RotateReceive(t, answer) ==
  LET s == screen[t]
  IN  CASE answer = "ok" ->
             /\ device' = [device EXCEPT ![t].cookie = acct'.version,
                                         ![t].worker = Switched(@, s.served.user)]
             /\ Show(t, s) /\ UNCHANGED denied
        [] answer = "handoff" -> Go(t, [s EXCEPT !.at = "handoffs"]) /\ UNCHANGED <<device, code, denied>>
        [] answer = "lost" ->
             /\ Go(t, [s EXCEPT !.at = "settling", !.ambiguous = TRUE])
             /\ UNCHANGED <<device, code, denied>>
        [] answer = "expired" /\ s.ambiguous ->
             Go(t, [s EXCEPT !.at = "waiting"]) /\ UNCHANGED <<device, code, denied>>
        [] answer = "unauthorized" /\ s.ambiguous ->
             /\ Dropped(t) /\ Go(t, [s EXCEPT !.at = "settling", !.open = FALSE])
             /\ UNCHANGED <<code, denied>>
        [] answer = "unauthorized" /\ ~s.ambiguous ->
             Dropped(t) /\ Go(t, Closed) /\ Deny(s.m) /\ UNCHANGED code
        [] OTHER -> Halt(t, s, FALSE) /\ UNCHANGED code

\* landed: the keys are switched and the code is shown; the tab logs in again.
Landed(t, s) ==
  /\ device' = [device EXCEPT ![t].worker = Switched(@, s.served.user)]
  /\ Show(t, s)

\* settle: the login challenge serves this request's wraps if it landed;
\* otherwise, and when the challenge fails, the code is shown and all is kept.
SettleOutcome(t) ==
  LET s == screen[t]
  IN  /\ s.at = "settling"
      /\ \/ acct.m = s.m /\ Landed(t, s) /\ UNCHANGED losses
         \/ /\ IF acct.m = s.m THEN losses < MaxLosses /\ losses' = losses + 1 ELSE UNCHANGED losses
            /\ Go(t, IF s.open THEN [s EXCEPT !.at = "retry"] ELSE Closed)
            /\ code' = [code EXCEPT ![s.m.id] = IF s.open THEN "shown"
                                                ELSE IF @ = "unseen" THEN "left" ELSE @]
            /\ UNCHANGED device
      /\ UNCHANGED <<acct, wire, minted, denied>>

\* stateAfterWait: no send is under way any more. A read as the account tells
\* whether the credentials are still those the flow started from.
StateAfterWait(t) ==
  LET s == screen[t]
  IN  /\ s.at = "waiting" /\ \A r \in wire : r.m # s.m
      /\ \/ ~Honoured(device[t].cookie) /\ Dropped(t)
            /\ Go(t, [s EXCEPT !.at = "settling", !.open = FALSE]) /\ UNCHANGED <<code, denied>>
         \/ Honoured(device[t].cookie) /\ acct.m = s.m /\ Landed(t, s) /\ UNCHANGED denied
         \/ /\ Honoured(device[t].cookie) /\ acct.m # s.m /\ acct.version = s.exp
            /\ Halt(t, [s EXCEPT !.ambiguous = FALSE], FALSE) /\ UNCHANGED code
         \/ /\ Honoured(device[t].cookie) /\ acct.m # s.m /\ acct.version # s.exp
            /\ Go(t, [s EXCEPT !.at = "settling"]) /\ UNCHANGED <<device, code, denied>>
      /\ UNCHANGED <<acct, wire, minted, losses>>

\* A retry of an unconfirmed attempt looks again before it sends again.
RetryRotation(t) ==
  LET s == screen[t]
  IN  /\ s.at = "retry"
      /\ \/ ~Warm(device[t].worker, s.served.user) /\ Discarded(t) /\ Go(t, Closed)
            /\ UNCHANGED <<code, losses>>
         \/ Warm(device[t].worker, s.served.user) /\ acct.m = s.m /\ Landed(t, s) /\ UNCHANGED losses
         \/ /\ Warm(device[t].worker, s.served.user)
            /\ IF acct.m = s.m THEN losses < MaxLosses /\ losses' = losses + 1 ELSE UNCHANGED losses
            /\ Go(t, [s EXCEPT !.at = "sent", !.round = 1]) /\ UNCHANGED <<device, code>>
      /\ UNCHANGED <<acct, wire, minted, denied>>

\* Leaving the screen drops a pair that was not sent; a run carries on, and an
\* attempt of unknown outcome keeps its pair.
LeaveRotation(t) ==
  LET s == screen[t]
  IN  /\ s.flow = "rotate" /\ s.open
      /\ \/ s.at = "review" /\ s.begun /\ Discarded(t) /\ Go(t, Closed)
         \/ s.at \in {"review", "retry"} /\ ~(s.at = "review" /\ s.begun)
            /\ Go(t, Closed) /\ UNCHANGED device
         \/ s.at \notin {"review", "retry", "code"} /\ Go(t, [s EXCEPT !.open = FALSE]) /\ UNCHANGED device
      /\ UNCHANGED <<acct, wire, minted, code, denied, losses>>

-----------------------------------------------------------------------------
(* The network and the tab.                                                *)

Receive(t, answer) ==
  \/ screen[t].flow = "signup" /\ SignupReceive(t, answer)
  \/ screen[t].flow = "recovery" /\ RecoveryReceive(t, answer)
  \/ screen[t].flow = "change" /\ ChangeReceive(t, answer)
  \/ screen[t].flow = "rotate" /\ RotateReceive(t, answer)

Answered(t) ==
  /\ screen[t].at = "sent"
  /\ \E answer \in Answers(Request(t)) :
       /\ acct' = IF answer = "ok" THEN Written(Request(t)) ELSE acct
       /\ Receive(t, answer)
  /\ UNCHANGED <<wire, minted, losses>>

Lost(t) ==
  /\ screen[t].at = "sent" /\ losses < MaxLosses
  /\ losses' = losses + 1
  /\ wire' = wire \cup {Request(t)}
  /\ Receive(t, "lost")
  /\ UNCHANGED <<acct, minted>>

\* A request its sender gave up on reaches the server, or never does. The
\* browser may still keep the fresh cookie of an answer nobody read.
Late ==
  \E r \in wire :
    /\ wire' = wire \ {r}
    /\ \/ UNCHANGED <<acct, device>>
       \/ /\ "ok" \in Answers(r)
          /\ acct' = Written(r)
          /\ \/ UNCHANGED device
             \/ /\ r.by # None /\ r.kind \in {"change", "rotate"}
                /\ device' = [device EXCEPT ![r.by].cookie = acct'.version]
    /\ UNCHANGED <<screen, minted, code, denied, losses>>

Acknowledge(t) ==
  /\ screen[t].at = "code"
  /\ Go(t, Closed)
  /\ UNCHANGED <<acct, device, wire, minted, code, denied, losses>>

\* Something else in the tab is answered 401.
Watch(t) ==
  LET s == screen[t]
  IN  /\ device[t].session /\ ~Honoured(device[t].cookie)
      /\ Dropped(t)
      /\ Go(t, CASE s.flow \in {"change", "rotate"} /\ s.at \in {"review", "retry", "code"} -> Closed
                 [] s.flow \in {"change", "rotate"} /\ s.at \notin {"review", "retry", "code"} ->
                      [s EXCEPT !.open = FALSE]
                 [] OTHER -> s)
      /\ UNCHANGED <<acct, wire, minted, code, denied, losses>>

\* A reload ends the tab's worker and its connections; the bootstrap asks the
\* server whether the cookie still counts.
Reload(t) ==
  /\ screen[t] = Closed /\ device[t].worker # Cold
  /\ device' = [device EXCEPT ![t].worker = Cold, ![t].session = Honoured(device[t].cookie)]
  /\ wire' = {[r EXCEPT !.by = IF @ = t THEN None ELSE @] : r \in wire}
  /\ UNCHANGED <<acct, screen, minted, code, denied, losses>>

-----------------------------------------------------------------------------
Init ==
  /\ acct = None /\ wire = {} /\ minted = 0 /\ denied = {} /\ forsaken = {} /\ losses = 0
  /\ device = [t \in Tab |-> LoggedOut] /\ screen = [t \in Tab |-> Closed]
  /\ code = [i \in Id |-> "unseen"]

\* What a tab does without its user.
Proceed(t) ==
  \/ SignupChallenge(t) \/ CompleteLogin(t, TRUE) \/ SendRewrap(t) \/ RewrapFails(t)
  \/ SendRotation(t) \/ \E unreachable \in BOOLEAN : PrepareFails(t, unreachable)
  \/ Answered(t) \/ AnswerHandoffs(t) \/ SettleOutcome(t) \/ StateAfterWait(t)

Step ==
  \/ \E t \in Tab, pw \in Password :
       \/ SignupSubmit(t, pw) \/ LoginSubmit(t, pw) \/ ReauthSubmit(t, pw)
       \/ RecoverySubmit(t, pw) \/ ChangeSubmit(t, pw) \/ StartRotation(t, pw)
  \/ \E t \in Tab :
       \/ Proceed(t) \/ CompleteLogin(t, FALSE) \/ Lost(t)
       \/ LeaveSignup(t) \/ RetryReset(t) \/ GiveUpReset(t) \/ Preflight(t)
       \/ RetryRotation(t) \/ LeaveRotation(t) \/ Acknowledge(t) \/ Watch(t) \/ Reload(t)
  \/ Late

\* A tab is done with a pair it sent, without having switched to it or ruled it out.
Forsakes(t) ==
  LET s == screen[t]
  IN  /\ s.at \in {"retry", "settling"} /\ screen'[t].at \notin {"retry", "settling", "sent"}
      /\ device'[t].worker.live # Pair(s.m.user, s.m.key)

Next ==
  /\ Step
  /\ forsaken' = forsaken \cup {screen[t].m.key : t \in {u \in Tab : Forsakes(u)}}

\* Requests are answered or time out, and none is under way for ever.
Spec == Init /\ [][Next]_vars /\ WF_flows(Late) /\ \A t \in Tab : WF_flows(Proceed(t))

-----------------------------------------------------------------------------
\* What a flow reports as definitely refused, so that its material is dropped
\* and the user starts over, is never what the account ends up with.
DefiniteMeansNotLanded == acct # None => acct.m.id \notin denied

\* The account's recovery code is on a screen, or was, or the user was told to
\* get a new one, or a tab still holds it -- unless the user left the flow, or
\* two sign-ups of different passwords both went unanswered.
Held(id) ==
  \E t \in Tab : \/ screen[t].m # None /\ screen[t].m.id = id
                 \/ screen[t].resume # None /\ screen[t].resume.id = id

CodeNotLost ==
  acct # None => code[acct.m.id] # "unseen" \/ Held(acct.m.id)

\* A tab whose session counts and that is in the middle of nothing signs with
\* the key the account has registered, unless that is a pair which the tab, or
\* another one, sent and gave up on without knowing the outcome.
LiveKeysRegistered ==
  \A t \in Tab :
    device[t].session /\ Honoured(device[t].cookie) /\ screen[t] = Closed
      /\ device[t].worker.live # None /\ acct.m.key \notin forsaken
    => device[t].worker.live = Pair(acct.m.user, acct.m.key)

\* Every run ends: with a result, or with a question to the user.
Asks == {"form", "lost", "code", "review", "retry"}
AttemptsEnd == \A t \in Tab : screen[t].at \notin Asks ~> screen[t].at \in Asks
=============================================================================

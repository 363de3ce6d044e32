-------------------------- MODULE AccountFlows_proofs --------------------------
(* What a flow reports as refused never lands, the account's recovery code is  *)
(* never lost, and a tab signs with the registered key: for any tabs, any      *)
(* passwords, any number of keypairs, materials, losses and rounds.            *)
(*                                                                             *)
(* A step of a tab is summed up in what it does to the row, the wire and its   *)
(* own screen (Moves), to what it denies and to the codes (FateMoves), and to  *)
(* its keys (KeyMoves); each part of the invariant is kept by any such step.   *)
EXTENDS AccountFlows, TLAPS

-----------------------------------------------------------------------------
(* Types.                                                                  *)

Sending == {"signup", "recovery", "change", "rotate"}
Started == {"recovery", "change", "rotate"}      \* from what the account had

\* The stages of a rotation that was sent at least once.
Underway == {"handoffs", "settling", "waiting", "retry"}
Stage == {"form", "sent", "registered", "served", "read", "lost", "code", "review", "begun"}
         \cup Underway

Screens ==
  [flow : Flow \cup {"none"}, at : Stage, typed : Password \cup {None},
   m : Materials \cup {None}, served : Materials \cup {None}, exp : Nat,
   resume : Materials \cup {None}, begun : BOOLEAN, ambiguous : BOOLEAN, round : Nat,
   open : BOOLEAN]

Workers  == [live : Pairs \cup {None}, pending : Pairs \cup {None}]
Devices  == [session : BOOLEAN, cookie : Nat, worker : Workers]
Requests == [by : Tab \cup {None}, kind : Sending, m : Materials, exp : Nat, cookie : Nat,
             presented : Nat]
Fates    == {"unseen", "shown", "warned", "left", "overlaid"}

TypeOK ==
  /\ acct \in Rows \cup {None}
  /\ device \in [Tab -> Devices] /\ screen \in [Tab -> Screens]
  /\ wire \subseteq Requests /\ minted \in Nat /\ losses \in Nat
  /\ code \in [Id -> Fates] /\ denied \subseteq Id /\ forsaken \subseteq Nat

\* What a screen holds at each stage of its flow.
HasMaterial(s) ==
  s.at \in {"sent", "registered", "lost"} \cup Underway \/ (s.at = "served" /\ s.flow = "signup")
HasServed(s) ==
  s.at \in {"served", "read", "lost", "review", "begun"} \cup Underway
    \/ (s.at = "sent" /\ s.flow # "signup")

Shape(s) ==
  /\ s.flow = "none" => s = Closed
  /\ s.at = "form" => s.flow \in {"none", "signup"}
  /\ s.at = "sent" => s.flow \in Sending
  /\ s.at = "registered" => s.flow = "signup"
  /\ s.at = "served" => s.flow \in {"signup", "login", "reauth"}
  /\ s.at = "read" => s.flow \in {"recovery", "change"}
  /\ s.at = "lost" => s.flow = "recovery"
  /\ s.at \in {"review", "begun"} \cup Underway => s.flow = "rotate"
  /\ HasMaterial(s) <=> s.m # None
  /\ HasServed(s) => s.served # None
  /\ s.at \in {"served", "read", "begun"} => s.typed \in Password
  /\ s.resume # None => s.flow = "signup" /\ s.at \in {"form", "sent"}
  /\ s.flow = "signup" => s.exp = 0
  /\ s.ambiguous => s.flow = "rotate"
  /\ s.at = "begun" => s.begun

\* Before the account exists there are only sign-ups.
Fits(s, d) ==
  /\ Shape(s)
  /\ acct = None => s.flow \in {"none", "signup"} /\ s.at \in {"form", "sent"} /\ d.cookie = 0
  /\ d.session => d.cookie # 0
  /\ s.flow = "signup" /\ s.at # "code" => ~d.session

TypeInv ==
  /\ TypeOK
  /\ \A t \in Tab : Fits(screen[t], device[t])
  /\ acct = None => \A r \in wire : r.kind = "signup"

-----------------------------------------------------------------------------
LEMMA ClosedFits == Closed \in Screens /\ Shape(Closed)
BY DEF Closed, Screens, Stage, Underway, Shape, HasMaterial, HasServed, Sending, Flow

LEMMA LoggedOutIsDevice == LoggedOut \in Devices
BY DEF LoggedOut, Devices, Workers, Cold

\* Materials and rows are not None.
LEMMA Typed ==
  ASSUME TypeInv, NEW t \in Tab
  PROVE  /\ screen[t] \in Screens /\ device[t] \in Devices /\ Fits(screen[t], device[t])
         /\ acct # None => acct \in Rows /\ acct.m \in Materials /\ acct.m # None
                           /\ acct.version \in Nat \ {0}
                           /\ acct.token \in Id \cup {0}
         /\ screen[t].m # None => screen[t].m \in Materials /\ screen[t].m.id \in Id
         /\ screen[t].resume # None => screen[t].resume \in Materials /\ screen[t].resume.id \in Id
         /\ screen[t].served # None => screen[t].served \in Materials /\ screen[t].served.id \in Id
BY NoneIsApart DEF TypeInv, TypeOK, Screens, Rows, Materials

LEMMA FreshMaterial ==
  ASSUME TypeInv, Fresh \in Id, NEW user \in Nat, NEW pw \in Password, NEW key \in Nat
  PROVE  Material(Fresh, user, pw, key) \in Materials /\ Material(Fresh, user, pw, key) # None
BY NoneIsApart DEF Material, Materials, TypeInv, TypeOK

\* A request on the wire, and the row a write leaves.
LEMMA RequestTyped ==
  ASSUME TypeInv, NEW t \in Tab, screen[t].at = "sent"
  PROVE  Request(t) \in Requests /\ (acct = None => Request(t).kind = "signup")
<1>1. screen[t] \in Screens /\ device[t] \in Devices /\ Fits(screen[t], device[t])
  BY Typed
<1>2. screen[t].m \in Materials /\ screen[t].flow \in Sending
  BY <1>1, Typed DEF Fits, Shape, HasMaterial
<1>3. screen[t].flow = "recovery" => screen[t].served.id \in Nat
  BY <1>1, Typed DEF Fits, Shape, HasServed, Id
<1>4. screen[t].exp \in Nat /\ device[t].cookie \in Nat
  BY <1>1 DEF Screens, Devices
<1>5. Request(t) \in Requests /\ Request(t).kind = screen[t].flow
  BY <1>2, <1>3, <1>4 DEF Request, Requests
<1>6. acct = None => screen[t].flow = "signup"
  BY <1>1, <1>2 DEF Fits, Sending
<1>7. QED
  BY <1>5, <1>6

LEMMA WrittenRow ==
  ASSUME TypeInv, NEW r \in Requests
  PROVE  LET a == Written(r)
         IN  /\ a \in Rows /\ a # None
             /\ acct = None => a.m = r.m /\ a.version = 1 /\ a.token = 0
             /\ acct # None /\ acct.m = r.m => a = acct
             /\ acct # None /\ acct.m # r.m =>
                  /\ a.m = r.m /\ a.version = acct.version + 1
                  /\ a.token = IF r.kind = "recovery" THEN r.m.id ELSE 0
<1>1. \A a \in Rows : a # None
  BY NoneIsApart
<1>2. r.m \in Materials /\ r.m.id \in Id
  BY DEF Requests, Materials
<1>3. CASE acct = None
  <2>1. Written(r) = [m |-> r.m, version |-> 1, token |-> 0]
    BY <1>3 DEF Written
  <2>2. QED
    BY <1>1, <1>2, <1>3, <2>1 DEF Rows
<1>4. CASE acct # None /\ acct.m = r.m
  <2>1. Written(r) = acct
    BY <1>4 DEF Written
  <2>2. QED
    BY <1>4, <2>1 DEF TypeInv, TypeOK
<1>5. CASE acct # None /\ acct.m # r.m
  <2>1. Written(r) = [m |-> r.m, version |-> acct.version + 1,
                      token |-> IF r.kind = "recovery" THEN r.m.id ELSE 0]
    BY <1>5 DEF Written
  <2>2. acct.version \in Nat \ {0}
    BY <1>5 DEF TypeInv, TypeOK, Rows
  <2>3. QED
    BY <1>1, <1>2, <1>5, <2>1, <2>2 DEF Rows
<1>6. QED
  BY <1>3, <1>4, <1>5

-----------------------------------------------------------------------------
(* What a step of a tab's flow does, whichever it is.                      *)

\* A step that leaves the other tabs alone.
Alone(t) == \A u \in Tab \ {t} : screen'[u] = screen[u] /\ device'[u] = device[u]

\* The row is left as it is, or the tab's request was accepted.
AcctMoves(t) ==
  \/ acct' = acct
  \/ /\ screen[t].at = "sent" /\ "ok" \in Answers(Request(t))
     /\ acct' = Written(Request(t))

\* The request may be left on the wire.
WireMoves(t) ==
  \/ wire' = wire
  \/ screen[t].at = "sent" /\ wire' = wire \cup {Request(t)} /\ acct' = acct

\* The cookie is kept, dropped with the session, or the one just issued.
CookieMoves(t) ==
  LET d == device'[t]
  IN  \/ d.cookie = device[t].cookie /\ (d.session => device[t].session)
      \/ ~d.session /\ d.cookie = 0
      \/ acct' # None /\ d.cookie = acct'.version

\* What was sent stays with its flow; a new material is fresh.
MaterialMoves(s, q) ==
  /\ \/ q.m = None
     \/ /\ q.m = s.m /\ q.flow = s.flow /\ q.exp = s.exp
        /\ s.flow # "signup" => q.served = s.served
        /\ s.flow \in {"change", "rotate"} /\ ~q.ambiguous =>
             ~s.ambiguous /\ wire' = wire /\ acct' = acct
     \/ q.m = s.resume /\ q.flow = "signup" /\ q.resume = s.resume
     \/ q.m.id = Fresh /\ minted' = Fresh /\ q.resume = s.resume /\ wire' = wire /\ acct' = acct
  /\ \/ q.resume \in {None, s.resume}
     \/ q.resume = s.m /\ q.m = None /\ s.flow = "signup"

\* A flow starts from the account as it is, and remembers that.
StartMoves(s, q) ==
  q.flow \in Started /\ q.at # "code" =>
    \/ s.flow = q.flow /\ s.at # "code" /\ q.exp = s.exp /\ q.served = s.served
    \/ q.m = None /\ acct # None /\ q.exp = acct.version /\ q.served = acct.m /\ acct' = acct

Moves(t) ==
  /\ screen' \in [Tab -> Screens] /\ device' \in [Tab -> Devices]
  /\ code' \in [Id -> Fates] /\ denied' \subseteq Id /\ losses' \in Nat
  /\ minted' \in {minted, Fresh}
  /\ Fits(screen[t], device[t])'
  /\ Alone(t) /\ AcctMoves(t) /\ WireMoves(t) /\ CookieMoves(t)
  /\ MaterialMoves(screen[t], screen'[t]) /\ StartMoves(screen[t], screen'[t])

LEMMA TypeMoves ==
  ASSUME TypeInv, NEW t \in Tab, Moves(t), forsaken' \subseteq Nat
  PROVE  TypeInv'
<1>1. acct' \in Rows \cup {None} /\ (acct # None => acct' # None)
  BY RequestTyped, WrittenRow DEF Moves, AcctMoves, TypeInv, TypeOK
<1>2. wire' \subseteq Requests /\ (acct' = None => \A r \in wire' : r.kind = "signup")
  BY <1>1, RequestTyped DEF Moves, WireMoves, TypeInv, TypeOK
<1>3. ASSUME NEW u \in Tab \ {t} PROVE Fits(screen[u], device[u])'
  BY <1>1, <1>3 DEF Moves, Alone, Fits, TypeInv
<1>4. minted' \in Nat
  BY DEF Moves, Fresh, TypeInv, TypeOK
<1>5. QED
  BY <1>1, <1>2, <1>3, <1>4 DEF Moves, TypeInv, TypeOK

\* Where a screen goes.
LEMMA Going ==
  ASSUME TypeInv, NEW t \in Tab, NEW s \in Screens, Go(t, s)
  PROVE  /\ screen' \in [Tab -> Screens] /\ screen'[t] = s
         /\ \A u \in Tab \ {t} : screen'[u] = screen[u]
BY DEF Go, TypeInv, TypeOK

LEMMA Showing ==
  ASSUME TypeInv, NEW t \in Tab, NEW s \in Screens, s.m # None, s.flow # "none", Show(t, s)
  PROVE  LET c == screen'[t]
         IN  /\ screen' \in [Tab -> Screens] /\ Shape(c)
             /\ \A u \in Tab \ {t} : screen'[u] = screen[u]
             /\ code' \in [Id -> Fates]
             /\ c = Closed \/ (c.flow = s.flow /\ c.at = "code" /\ s.open)
             /\ c.m = None /\ c.resume = None /\ c.served = None /\ ~c.ambiguous /\ c.exp = 0
             /\ ~s.open => c = Closed
             /\ code'[s.m.id] # "unseen"
             /\ \A i \in Id : code[i] # "unseen" => code'[i] # "unseen"
<1> DEFINE c == [Closed EXCEPT !.flow = s.flow, !.at = "code"]
<1>1. c \in Screens /\ Shape(c) /\ c.flow = s.flow /\ c.at = "code"
      /\ c.m = None /\ c.resume = None /\ c.served = None /\ ~c.ambiguous /\ c.exp = 0
  BY DEF Closed, Screens, Stage, Underway, Shape, HasMaterial, HasServed, Sending
<1>2. Closed.m = None /\ Closed.resume = None /\ Closed.served = None /\ ~Closed.ambiguous /\ Closed.exp = 0
  BY DEF Closed
<1>3. screen' = [screen EXCEPT ![t] = IF s.open THEN c ELSE Closed]
  BY DEF Show
<1>4. /\ screen' \in [Tab -> Screens] /\ screen'[t] = IF s.open THEN c ELSE Closed
      /\ \A u \in Tab \ {t} : screen'[u] = screen[u]
  BY <1>1, <1>3, ClosedFits DEF TypeInv, TypeOK
<1>5. s.m.id \in Id
  BY DEF Screens, Materials
<1>6. code' \in [Id -> Fates] /\ code'[s.m.id] # "unseen"
      /\ \A i \in Id : code[i] # "unseen" => code'[i] # "unseen"
  BY <1>5 DEF Show, TypeInv, TypeOK, Fates
<1> HIDE DEF c
<1>7. QED
  BY <1>1, <1>2, <1>4, <1>6, ClosedFits

LEMMA TypeInit == Init => TypeInv
<1> SUFFICES ASSUME Init PROVE TypeInv
  OBVIOUS
<1>1. \A t \in Tab : Fits(screen[t], device[t])
  BY ClosedFits DEF Init, Fits, Closed, LoggedOut
<1>2. TypeOK
  BY ClosedFits, LoggedOutIsDevice DEF Init, TypeOK, Fates
<1>3. QED
  BY <1>1, <1>2 DEF TypeInv, Init

\* A screen that starts from what the account has.
Served(flow, typed, m) ==
  [Closed EXCEPT !.flow = flow, !.at = "served", !.typed = typed, !.served = m]
Read(flow, typed, m, exp) ==
  [Closed EXCEPT !.flow = flow, !.at = "read", !.typed = typed, !.served = m, !.exp = exp]
Review(m, exp, begun) ==
  [Closed EXCEPT !.flow = "rotate", !.at = "review", !.served = m, !.exp = exp, !.begun = begun]

LEMMA ServedFits ==
  ASSUME NEW typed \in Password, NEW m \in Materials, m # None, NEW flow \in {"login", "reauth"}
  PROVE  LET q == Served(flow, typed, m)
         IN  /\ q \in Screens /\ Shape(q) /\ q.flow = flow
             /\ q.m = None /\ q.resume = None
BY DEF Served, Closed, Screens, Stage, Flow, Shape, HasMaterial, HasServed, Underway, Sending

LEMMA ReadFits ==
  ASSUME NEW typed \in Password, NEW m \in Materials, m # None, NEW flow \in {"recovery", "change"},
         NEW exp \in Nat
  PROVE  LET q == Read(flow, typed, m, exp)
         IN  /\ q \in Screens /\ Shape(q) /\ q.flow = flow
             /\ q.m = None /\ q.resume = None /\ q.exp = exp /\ q.served = m
BY DEF Read, Closed, Screens, Stage, Flow, Shape, HasMaterial, HasServed, Underway, Sending

LEMMA ReviewFits ==
  ASSUME NEW m \in Materials, m # None, NEW exp \in Nat, NEW begun \in BOOLEAN
  PROVE  LET q == Review(m, exp, begun)
         IN  /\ q \in Screens /\ Shape(q) /\ q.flow = "rotate"
             /\ q.m = None /\ q.resume = None /\ q.exp = exp /\ q.served = m /\ q.begun = begun
             /\ q.at = "review" /\ q.open
BY DEF Review, Closed, Screens, Stage, Flow, Shape, HasMaterial, HasServed, Underway, Sending

\* A step that only moves its own screen, and perhaps mints.
LEMMA Quiet ==
  ASSUME TypeInv, NEW t \in Tab, NEW q \in Screens, Go(t, q), Shape(q),
         MaterialMoves(screen[t], q), StartMoves(screen[t], q),
         acct = None => q.flow \in {"none", "signup"} /\ q.at \in {"form", "sent"},
         q.flow = "signup" /\ q.at # "code" => ~device[t].session,
         code' \in [Id -> Fates], minted' \in {minted, Fresh}, losses' \in Nat,
         UNCHANGED <<acct, device, wire, denied>>
  PROVE  Moves(t)
<1>1. screen' \in [Tab -> Screens] /\ screen'[t] = q /\ \A u \in Tab \ {t} : screen'[u] = screen[u]
  BY Going
<1>2. Fits(screen[t], device[t])'
  BY <1>1, Typed DEF Fits
<1>3. AcctMoves(t) /\ WireMoves(t) /\ CookieMoves(t) /\ Alone(t)
  BY <1>1 DEF AcctMoves, WireMoves, CookieMoves, Alone
<1>4. QED
  BY <1>1, <1>2, <1>3 DEF Moves, TypeInv, TypeOK

LEMMA ClosedMoves ==
  ASSUME NEW s
  PROVE  MaterialMoves(s, Closed) /\ StartMoves(s, Closed)
BY DEF MaterialMoves, StartMoves, Closed, Started

LEMMA SignupMoves ==
  ASSUME TypeInv, NEW t \in Tab,
         (\E pw \in Password : SignupSubmit(t, pw)) \/ LeaveSignup(t) \/ SignupChallenge(t)
  PROVE  Moves(t)
<1> DEFINE s == screen[t]
<1>0. s \in Screens /\ device[t] \in Devices /\ Fits(s, device[t])
  BY Typed
<1>1. ASSUME NEW pw \in Password, SignupSubmit(t, pw) PROVE Moves(t)
  <2> DEFINE resuming == s.resume # None /\ s.resume.pw = pw
             m == IF resuming THEN s.resume ELSE Material(Fresh, Fresh, pw, Fresh)
             q == [s EXCEPT !.flow = "signup", !.at = "sent", !.m = m]
  <2>1. m \in Materials /\ m # None
    <3>1. Fresh \in Nat
      BY DEF Fresh, TypeInv, TypeOK
    <3>2. CASE resuming
      BY <3>2, Typed
    <3>3. CASE ~resuming
      BY <1>1, <3>1, <3>3, FreshMaterial DEF SignupSubmit
    <3>4. QED
      BY <3>2, <3>3
  <2>2. q \in Screens
    BY <1>0, <2>1 DEF Screens, Stage, Flow
  <2>3. Shape(q)
    <3>1. s.at = "form" /\ s.flow \in {"none", "signup"}
      BY <1>1 DEF SignupSubmit
    <3>2. s.flow = "none" => s.exp = 0 /\ s.resume = None /\ ~s.ambiguous
      BY <1>0 DEF Fits, Shape, Closed
    <3>3. QED
      BY <1>0, <2>1, <3>1, <3>2 DEF Fits, Shape, HasMaterial, HasServed, Underway, Sending, Screens
  <2>4. Go(t, q) /\ ~device[t].session /\ minted' \in {minted, Fresh}
        /\ UNCHANGED <<acct, device, wire, code, denied, losses>>
    BY <1>1 DEF SignupSubmit
  <2>5. StartMoves(s, q)
    BY <1>0 DEF StartMoves, Started, Screens
  <2>6. MaterialMoves(s, q)
    BY <1>0, <1>1 DEF SignupSubmit, MaterialMoves, Material, Screens
  <2>7. q.flow = "signup" /\ q.at = "sent"
    BY <1>0 DEF Screens
  <2> HIDE DEF q, m, resuming
  <2>8. QED
    BY <2>2, <2>3, <2>4, <2>5, <2>6, <2>7, Quiet DEF TypeInv, TypeOK
<1>2. CASE LeaveSignup(t)
  <2>1. code' \in [Id -> Fates]
    BY <1>2, Typed DEF LeaveSignup, TypeInv, TypeOK, Fates
  <2>2. Closed.flow = "none" /\ Closed.at = "form"
    BY DEF Closed
  <2>3. QED
    BY <1>2, <2>1, <2>2, ClosedFits, ClosedMoves, Quiet DEF LeaveSignup, TypeInv, TypeOK
<1>3. CASE SignupChallenge(t)
  <2> DEFINE q == [s EXCEPT !.at = "served", !.typed = s.m.pw, !.served = acct.m]
  <2>1. s.at = "registered" /\ s.flow = "signup" /\ s.m # None /\ s.m.pw \in Password
    BY <1>0, <1>3 DEF SignupChallenge, Fits, Shape, HasMaterial, Screens, Materials
  <2>2. acct # None /\ acct.m \in Materials /\ acct.m # None /\ ~device[t].session
    BY <1>0, <2>1, Typed DEF Fits
  <2>3. q \in Screens
    BY <1>0, <2>1, <2>2 DEF Screens, Stage
  <2>4. Shape(q) /\ q.flow = "signup"
    BY <1>0, <2>1, <2>2 DEF Fits, Shape, HasMaterial, HasServed, Underway, Screens
  <2>5. Go(t, q) /\ UNCHANGED <<acct, device, wire, minted, code, denied, losses>>
    BY <1>3 DEF SignupChallenge
  <2>6. MaterialMoves(s, q) /\ StartMoves(s, q)
    BY <1>0, <2>1 DEF MaterialMoves, StartMoves, Started, Screens
  <2> HIDE DEF q
  <2>7. QED
    BY <2>2, <2>3, <2>4, <2>5, <2>6, Quiet DEF TypeInv, TypeOK
<1>4. QED
  BY <1>1, <1>2, <1>3

LEMMA LoginMoves ==
  ASSUME TypeInv, NEW t \in Tab, NEW pw \in Password, LoginSubmit(t, pw) \/ ReauthSubmit(t, pw)
  PROVE  Moves(t)
<1>1. acct # None /\ acct.m \in Materials /\ acct.m # None
  BY Typed DEF LoginSubmit, ReauthSubmit
<1>2. Go(t, Served("login", pw, acct.m)) \/ Go(t, Served("reauth", pw, acct.m))
  BY DEF LoginSubmit, ReauthSubmit, Served
<1>3. PICK flow \in {"login", "reauth"} : Go(t, Served(flow, pw, acct.m))
  BY <1>2
<1> DEFINE q == Served(flow, pw, acct.m)
<1>4. q \in Screens /\ Shape(q) /\ q.flow = flow /\ q.m = None /\ q.resume = None
  BY <1>1, ServedFits
<1>5. UNCHANGED <<acct, device, wire, minted, code, denied, losses>>
  BY DEF LoginSubmit, ReauthSubmit
<1> HIDE DEF q
<1>6. MaterialMoves(screen[t], q) /\ StartMoves(screen[t], q)
  BY <1>4 DEF MaterialMoves, StartMoves, Started
<1>7. QED
  BY <1>1, <1>3, <1>4, <1>5, <1>6, Quiet DEF q, TypeInv, TypeOK

LEMMA CompleteLoginMoves ==
  ASSUME TypeInv, NEW t \in Tab, NEW verified \in BOOLEAN, CompleteLogin(t, verified)
  PROVE  Moves(t)
<1> DEFINE s == screen[t]
           opens == s.served.pw = s.typed
           w == IF opens THEN Login(device[t].worker, s.served.user, s.served.key) ELSE device[t].worker
           in == s.flow # "reauth" /\ opens /\ verified /\ acct.m.key = s.served.key
           d == IF in THEN [session |-> TRUE, cookie |-> acct.version, worker |-> w]
                ELSE [device[t] EXCEPT !.worker = w]
<1>1. s \in Screens /\ device[t] \in Devices /\ Fits(s, device[t])
  BY Typed
<1>2. s.at = "served" /\ s.served \in Materials /\ acct # None /\ acct.version \in Nat \ {0}
      /\ s.flow \in {"signup", "login", "reauth"}
  BY <1>1, Typed DEF CompleteLogin, Fits, Shape, HasServed
<1>3. w \in Workers
  BY <1>1, <1>2 DEF Login, Pair, Pairs, Workers, Devices, Materials
<1>4. d \in Devices
  BY <1>1, <1>2, <1>3 DEF Devices
<1>5. d.session => d.cookie # 0
  BY <1>1, <1>2 DEF Devices, Fits
<1>6. \/ d.cookie = device[t].cookie /\ (d.session => device[t].session)
      \/ d.cookie = acct.version
  BY <1>1 DEF Devices
<1>7. device' = [device EXCEPT ![t] = d]
  BY DEF CompleteLogin
<1>8. /\ device' \in [Tab -> Devices] /\ device'[t] = d
      /\ \A u \in Tab \ {t} : device'[u] = device[u]
  BY <1>4, <1>7 DEF TypeInv, TypeOK
<1>9. /\ UNCHANGED <<acct, wire, minted, denied>> /\ losses' \in Nat
      /\ IF s.flow = "signup" THEN Show(t, s) ELSE Go(t, Closed) /\ UNCHANGED code
  BY DEF CompleteLogin, TypeInv, TypeOK
<1>10. /\ screen' \in [Tab -> Screens] /\ Shape(screen'[t]) /\ code' \in [Id -> Fates]
       /\ \A u \in Tab \ {t} : screen'[u] = screen[u]
       /\ screen'[t] = Closed \/ (screen'[t].at = "code" /\ screen'[t].flow = s.flow)
       /\ screen'[t].m = None /\ screen'[t].resume = None
  <2>1. CASE s.flow = "signup"
    <3>1. s.m # None /\ s.flow # "none"
      BY <1>1, <1>2, <2>1 DEF Fits, Shape, HasMaterial
    <3>2. QED
      BY <1>1, <1>9, <2>1, <3>1, Showing
  <2>2. CASE s.flow # "signup"
    BY <1>9, <2>2, Going, ClosedFits DEF Closed, TypeInv, TypeOK
  <2>3. QED
    BY <2>1, <2>2
<1> HIDE DEF d, w, in, opens
<1>11. Closed.flow = "none"
  BY DEF Closed
<1>12. Fits(screen[t], device[t])'
  BY <1>2, <1>5, <1>8, <1>9, <1>10, <1>11 DEF Fits
<1>13. MaterialMoves(s, screen'[t]) /\ StartMoves(s, screen'[t])
  BY <1>2, <1>10, <1>11 DEF MaterialMoves, StartMoves, Started
<1>14. AcctMoves(t) /\ WireMoves(t) /\ CookieMoves(t) /\ Alone(t)
  BY <1>2, <1>6, <1>8, <1>9, <1>10 DEF AcctMoves, WireMoves, CookieMoves, Alone
<1>15. QED
  BY <1>8, <1>9, <1>10, <1>12, <1>13, <1>14 DEF Moves, TypeInv, TypeOK

LEMMA RecoveryMoves ==
  ASSUME TypeInv, NEW t \in Tab, NEW pw \in Password,
         RecoverySubmit(t, pw) \/ ChangeSubmit(t, pw)
  PROVE  Moves(t)
<1>1. acct # None /\ acct.m \in Materials /\ acct.m # None /\ acct.version \in Nat
  BY Typed DEF RecoverySubmit, ChangeSubmit, Honoured
<1>2. \/ Go(t, Read("recovery", pw, acct.m, acct.version))
      \/ Go(t, Read("change", pw, acct.m, acct.version))
  BY DEF RecoverySubmit, ChangeSubmit, Read
<1>3. PICK flow \in {"recovery", "change"} : Go(t, Read(flow, pw, acct.m, acct.version))
  BY <1>2
<1> DEFINE q == Read(flow, pw, acct.m, acct.version)
<1>4. /\ q \in Screens /\ Shape(q) /\ q.flow = flow /\ q.m = None /\ q.resume = None
      /\ q.exp = acct.version /\ q.served = acct.m
  BY <1>1, ReadFits
<1>5. UNCHANGED <<acct, device, wire, minted, code, denied, losses>>
  BY DEF RecoverySubmit, ChangeSubmit
<1> HIDE DEF q
<1>6. MaterialMoves(screen[t], q) /\ StartMoves(screen[t], q)
  BY <1>1, <1>4, <1>5 DEF MaterialMoves, StartMoves, Started
<1>7. QED
  BY <1>1, <1>3, <1>4, <1>5, <1>6, Quiet DEF q, TypeInv, TypeOK

LEMMA ResetMoves ==
  ASSUME TypeInv, NEW t \in Tab,
         RetryReset(t) \/ GiveUpReset(t) \/ SendRewrap(t) \/ RewrapFails(t) \/ Acknowledge(t)
  PROVE  Moves(t)
<1> DEFINE s == screen[t]
<1>0. s \in Screens /\ device[t] \in Devices /\ Fits(s, device[t])
  BY Typed
<1>1. CASE RetryReset(t)
  <2> DEFINE q == [s EXCEPT !.at = "sent"]
  <2>1. s.at = "lost" /\ s.flow = "recovery" /\ acct # None
    BY <1>0, <1>1 DEF RetryReset, Fits, Shape
  <2>2. q \in Screens /\ q.flow = "recovery" /\ q.m = s.m /\ q.exp = s.exp /\ q.served = s.served
        /\ q.resume = s.resume /\ q.at = "sent"
    BY <1>0, <2>1 DEF Screens, Stage
  <2>3. Shape(q)
    BY <1>0, <2>1 DEF Fits, Shape, HasMaterial, HasServed, Underway, Screens, Sending
  <2>4. Go(t, q) /\ UNCHANGED <<acct, device, wire, minted, code, denied, losses>>
    BY <1>1 DEF RetryReset
  <2> HIDE DEF q
  <2>5. MaterialMoves(s, q) /\ StartMoves(s, q)
    BY <2>1, <2>2 DEF MaterialMoves, StartMoves
  <2>6. QED
    BY <2>1, <2>2, <2>3, <2>4, <2>5, Quiet DEF TypeInv, TypeOK
<1>2. CASE GiveUpReset(t) \/ RewrapFails(t) \/ Acknowledge(t)
  <2>1. Closed.flow = "none" /\ Closed.at = "form"
    BY DEF Closed
  <2>2. Go(t, Closed) /\ UNCHANGED <<acct, device, wire, minted, code, denied, losses>>
    BY <1>2 DEF GiveUpReset, RewrapFails, Acknowledge
  <2>3. QED
    BY <2>1, <2>2, ClosedFits, ClosedMoves, Quiet DEF TypeInv, TypeOK
<1>3. CASE SendRewrap(t)
  <2> DEFINE m == Material(Fresh, s.served.user, s.typed, s.served.key)
             q == [s EXCEPT !.at = "sent", !.typed = None, !.m = m]
  <2>1. s.at = "read" /\ s.flow \in {"recovery", "change"} /\ acct # None /\ s.served \in Materials
        /\ s.typed \in Password /\ s.served # None /\ s.resume = None
    BY <1>0, <1>3, Typed DEF SendRewrap, Fits, Shape, HasServed
  <2>2. m \in Materials /\ m # None /\ m.id = Fresh
    BY <1>3, <2>1, FreshMaterial DEF SendRewrap, Materials, Material
  <2>3. /\ q \in Screens /\ q.flow = s.flow /\ q.m = m /\ q.exp = s.exp /\ q.served = s.served
        /\ q.resume = s.resume /\ q.at = "sent" /\ q.begun = s.begun /\ q.ambiguous = s.ambiguous
    BY <1>0, <2>2 DEF Screens, Stage
  <2>4. Go(t, q) /\ UNCHANGED <<acct, device, wire, code, denied, losses>> /\ minted' = Fresh
    BY <1>3 DEF SendRewrap
  <2> HIDE DEF q, m
  <2>5. Shape(q)
    BY <1>0, <2>1, <2>2, <2>3 DEF Fits, Shape, HasMaterial, HasServed, Underway, Sending
  <2>6. MaterialMoves(s, q) /\ StartMoves(s, q)
    BY <2>1, <2>2, <2>3, <2>4 DEF MaterialMoves, StartMoves
  <2>7. QED
    BY <2>1, <2>3, <2>4, <2>5, <2>6, Quiet DEF TypeInv, TypeOK
<1>4. QED
  BY <1>1, <1>2, <1>3

\* A request is answered, or its answer is lost.
Event(t, answer) ==
  /\ screen[t].at = "sent" /\ Receive(t, answer) /\ minted' = minted
  /\ \/ /\ answer = "lost" /\ acct' = acct
        /\ wire' = wire \cup {Request(t)} /\ losses' = losses + 1
     \/ /\ answer # "lost" /\ answer \in Answers(Request(t)) /\ wire' = wire /\ losses' = losses
        /\ acct' = IF answer = "ok" THEN Written(Request(t)) ELSE acct

LEMMA EventFacts ==
  ASSUME TypeInv, NEW t \in Tab, NEW answer, Event(t, answer)
  PROVE  LET s == screen[t]
         IN  /\ s \in Screens /\ device[t] \in Devices /\ Fits(s, device[t])
             /\ s.at = "sent" /\ s.flow \in Sending /\ s.m \in Materials /\ s.m # None /\ s.m.id \in Id
             /\ s.flow # "signup" => s.served \in Materials /\ s.served # None /\ acct # None
             /\ AcctMoves(t) /\ WireMoves(t) /\ losses' \in Nat /\ minted' \in {minted, Fresh}
             /\ acct # None => acct' # None
             /\ answer = "ok" => acct' # None /\ wire' = wire
             /\ answer # "ok" => acct' = acct
             /\ answer # "lost" => wire' = wire
             /\ acct' # None => acct' \in Rows /\ acct'.version \in Nat \ {0}
<1> DEFINE s == screen[t]
<1>1. s \in Screens /\ device[t] \in Devices /\ Fits(s, device[t]) /\ s.at = "sent"
  BY Typed DEF Event
<1>2. s.flow \in Sending /\ s.m \in Materials /\ s.m # None /\ s.m.id \in Id
  BY <1>1, Typed DEF Fits, Shape, HasMaterial
<1>3. s.flow # "signup" => s.served \in Materials /\ s.served # None /\ acct # None
  BY <1>1, <1>2, Typed DEF Fits, Shape, HasServed, Sending
<1>4. Written(Request(t)) \in Rows /\ Written(Request(t)) # None
  BY <1>1, RequestTyped, WrittenRow
<1>5. acct' \in {acct, Written(Request(t))} /\ (answer = "ok" => acct' = Written(Request(t)))
      /\ (answer # "ok" => acct' = acct) /\ (answer # "lost" => wire' = wire)
  BY DEF Event
<1>6. (acct' # None => acct' \in Rows /\ acct'.version \in Nat \ {0}) /\ (acct # None => acct' # None)
  BY <1>4, <1>5 DEF TypeInv, TypeOK, Rows
<1>7. AcctMoves(t) /\ WireMoves(t)
  BY DEF Event, AcctMoves, WireMoves
<1>8. losses' \in Nat /\ minted' \in {minted, Fresh}
  BY DEF Event, TypeInv, TypeOK
<1>9. QED
  BY <1>1, <1>2, <1>3, <1>4, <1>5, <1>6, <1>7, <1>8

LEMMA SignupReceiveMoves ==
  ASSUME TypeInv, NEW t \in Tab, NEW answer, Event(t, answer), SignupReceive(t, answer),
         screen[t].flow = "signup"
  PROVE  Moves(t)
<1> DEFINE s == screen[t]
<1>1. /\ s \in Screens /\ device[t] \in Devices /\ Fits(s, device[t]) /\ s.at = "sent"
      /\ s.m \in Materials /\ s.m # None /\ s.m.id \in Id /\ AcctMoves(t) /\ WireMoves(t)
      /\ losses' \in Nat /\ minted' \in {minted, Fresh}
      /\ acct # None => acct' # None
      /\ answer = "ok" => acct' # None
  BY EventFacts
<1>2. device' = device /\ ~device[t].session /\ (acct' = None => acct = None)
  BY <1>1 DEF SignupReceive, Fits
<1>3. PICK q \in Screens :
        /\ Go(t, q) /\ Shape(q) /\ q.flow = "signup" /\ q.exp = s.exp
        /\ q.m = None \/ (q.m = s.m /\ answer = "ok")
        /\ q.resume \in {None, s.resume} \/ (q.resume = s.m /\ q.m = None)
        /\ answer = "ok" \/ q.at = "form"
  <2>1. CASE answer = "ok"
    <3> DEFINE q == [s EXCEPT !.at = "registered", !.resume = None]
    <3>1. q \in Screens /\ q.flow = "signup" /\ q.m = s.m /\ q.resume = None /\ q.exp = s.exp
      BY <1>1 DEF Screens, Stage
    <3>2. Shape(q)
      BY <1>1 DEF Fits, Shape, HasMaterial, HasServed, Underway, Screens
    <3>3. Go(t, q)
      BY <2>1 DEF SignupReceive
    <3> HIDE DEF q
    <3>4. QED
      BY <2>1, <3>1, <3>2, <3>3
  <2>2. CASE answer # "ok"
    <3> DEFINE resume == IF answer = "lost" THEN s.m ELSE Resumable(s, answer)
               q == [s EXCEPT !.at = "form", !.resume = resume, !.m = None]
    <3>1. resume \in {None, s.resume, s.m} /\ resume \in Materials \cup {None}
      BY <1>1 DEF Resumable, Screens
    <3>2. q \in Screens /\ q.flow = "signup" /\ q.m = None /\ q.resume = resume /\ q.at = "form"
          /\ q.exp = s.exp
      BY <1>1, <3>1 DEF Screens, Stage
    <3>3. Shape(q)
      BY <1>1, <3>1 DEF Fits, Shape, HasMaterial, HasServed, Underway, Screens
    <3>4. Go(t, q)
      BY <2>2 DEF SignupReceive
    <3> HIDE DEF q, resume
    <3>5. QED
      BY <2>2, <3>1, <3>2, <3>3, <3>4
  <2>3. QED
    BY <2>1, <2>2
<1>4. screen' \in [Tab -> Screens] /\ screen'[t] = q /\ \A u \in Tab \ {t} : screen'[u] = screen[u]
  BY <1>3, Going
<1>5. code' \in [Id -> Fates] /\ denied' \subseteq Id
  BY <1>1, Typed DEF SignupReceive, Overlaid, Deny, Fates, TypeInv, TypeOK
<1>6. Fits(screen[t], device[t])'
  BY <1>1, <1>2, <1>3, <1>4 DEF Fits
<1>7. MaterialMoves(s, q) /\ StartMoves(s, q)
  BY <1>3 DEF MaterialMoves, StartMoves, Started
<1>8. CookieMoves(t) /\ Alone(t)
  BY <1>2, <1>4 DEF CookieMoves, Alone
<1>9. QED
  BY <1>1, <1>2, <1>4, <1>5, <1>6, <1>7, <1>8 DEF Moves, TypeInv, TypeOK

\* A run that is over: nothing of it is left on the screen, except perhaps a code.
Over(s, q) ==
  /\ q \in Screens /\ Shape(q)
  /\ q = Closed \/ (q.flow = s.flow /\ q.at = "code")
  /\ q.m = None /\ q.resume = None

LEMMA OverMoves ==
  ASSUME TypeInv, NEW t \in Tab, screen[t].flow # "signup", acct # None, Over(screen[t], screen'[t]),
         screen' \in [Tab -> Screens], \A u \in Tab \ {t} : screen'[u] = screen[u],
         device' \in [Tab -> Devices], \A u \in Tab \ {t} : device'[u] = device[u],
         CookieMoves(t), AcctMoves(t), WireMoves(t), minted' \in {minted, Fresh}, losses' \in Nat,
         code' \in [Id -> Fates], denied' \subseteq Id
  PROVE  Moves(t)
<1>1. acct' # None /\ (acct' # acct => acct'.version # 0)
  BY RequestTyped, WrittenRow DEF AcctMoves, Rows
<1>2. Closed.flow = "none"
  BY DEF Closed
<1>3. acct'.version # 0
  BY <1>1, Typed
<1>4. device'[t].session => device'[t].cookie # 0
  BY <1>3, Typed DEF CookieMoves, Fits
<1>5. Fits(screen[t], device[t])'
  BY <1>1, <1>2, <1>4 DEF Over, Fits
<1>6. MaterialMoves(screen[t], screen'[t]) /\ StartMoves(screen[t], screen'[t])
  BY <1>2 DEF Over, MaterialMoves, StartMoves, Started
<1>7. Alone(t)
  BY DEF Alone
<1>8. QED
  BY <1>5, <1>6, <1>7 DEF Moves

LEMMA ClosedOver ==
  ASSUME NEW s
  PROVE  Over(s, Closed)
BY ClosedFits DEF Over, Closed

LEMMA ResetReceiveMoves ==
  ASSUME TypeInv, NEW t \in Tab, NEW answer, Event(t, answer), RecoveryReceive(t, answer),
         screen[t].flow = "recovery"
  PROVE  Moves(t)
<1> DEFINE s == screen[t]
<1>1. /\ s \in Screens /\ device[t] \in Devices /\ Fits(s, device[t]) /\ s.at = "sent"
      /\ s.m \in Materials /\ s.m # None /\ s.m.id \in Id /\ AcctMoves(t) /\ WireMoves(t)
      /\ losses' \in Nat /\ minted' \in {minted, Fresh} /\ acct # None /\ acct' # None
  BY EventFacts
<1>2. device' = device /\ CookieMoves(t) /\ device' \in [Tab -> Devices]
  BY DEF RecoveryReceive, CookieMoves, TypeInv, TypeOK
<1>3. denied' \subseteq Id
  BY <1>1 DEF RecoveryReceive, Deny, TypeInv, TypeOK
<1>4. CASE answer = "ok"
  <2>1. Show(t, s)
    BY <1>4 DEF RecoveryReceive
  <2>2. /\ screen' \in [Tab -> Screens] /\ code' \in [Id -> Fates]
        /\ \A u \in Tab \ {t} : screen'[u] = screen[u]
        /\ Over(s, screen'[t])
    BY <1>1, <2>1, Showing DEF Over
  <2>3. QED
    BY <1>1, <1>2, <1>3, <2>2, OverMoves
<1>5. CASE answer = "lost"
  <2> DEFINE q == [s EXCEPT !.at = "lost"]
  <2>1. /\ q \in Screens /\ q.flow = "recovery" /\ q.m = s.m /\ q.exp = s.exp /\ q.served = s.served
        /\ q.resume = s.resume
    BY <1>1 DEF Screens, Stage
  <2>2. Shape(q)
    BY <1>1 DEF Fits, Shape, HasMaterial, HasServed, Underway, Screens
  <2>3. Go(t, q) /\ code' = Warned(s.m.id)
    BY <1>5 DEF RecoveryReceive
  <2> HIDE DEF q
  <2>4. screen' \in [Tab -> Screens] /\ screen'[t] = q /\ \A u \in Tab \ {t} : screen'[u] = screen[u]
    BY <2>1, <2>3, Going
  <2>5. code' \in [Id -> Fates]
    BY <1>1, <2>3 DEF Warned, Fates, TypeInv, TypeOK
  <2>6. Fits(screen[t], device[t])'
    BY <1>1, <1>2, <2>1, <2>2, <2>4 DEF Fits
  <2>7. MaterialMoves(s, q) /\ StartMoves(s, q)
    BY <1>1, <2>1 DEF MaterialMoves, StartMoves
  <2>8. Alone(t)
    BY <1>2, <2>4 DEF Alone
  <2>9. QED
    BY <1>1, <1>2, <1>3, <2>4, <2>5, <2>6, <2>7, <2>8 DEF Moves
<1>6. CASE answer \notin {"ok", "lost"}
  <2>1. Go(t, Closed) /\ UNCHANGED code
    BY <1>6 DEF RecoveryReceive
  <2>2. /\ screen' \in [Tab -> Screens] /\ Over(s, screen'[t])
        /\ \A u \in Tab \ {t} : screen'[u] = screen[u]
    BY <2>1, Going, ClosedFits, ClosedOver
  <2>3. QED
    BY <1>1, <1>2, <1>3, <2>1, <2>2, OverMoves DEF TypeInv, TypeOK
<1>7. QED
  BY <1>4, <1>5, <1>6

\* The device of a session that was dropped.
LEMMA Logout ==
  ASSUME TypeInv, NEW t \in Tab, Dropped(t)
  PROVE  /\ device' \in [Tab -> Devices] /\ device'[t] = LoggedOut /\ CookieMoves(t)
         /\ \A u \in Tab \ {t} : device'[u] = device[u]
<1>1. /\ device' \in [Tab -> Devices] /\ device'[t] = LoggedOut
      /\ \A u \in Tab \ {t} : device'[u] = device[u]
  BY LoggedOutIsDevice DEF Dropped, TypeInv, TypeOK
<1>2. ~LoggedOut.session /\ LoggedOut.cookie = 0
  BY DEF LoggedOut
<1>3. QED
  BY <1>1, <1>2 DEF CookieMoves

LEMMA ChangeReceiveMoves ==
  ASSUME TypeInv, NEW t \in Tab, NEW answer, Event(t, answer), ChangeReceive(t, answer),
         screen[t].flow = "change"
  PROVE  Moves(t)
<1> DEFINE s == screen[t]
<1>1. /\ s \in Screens /\ device[t] \in Devices /\ Fits(s, device[t]) /\ s.at = "sent"
      /\ s.m \in Materials /\ s.m # None /\ s.m.id \in Id /\ AcctMoves(t) /\ WireMoves(t)
      /\ losses' \in Nat /\ minted' \in {minted, Fresh} /\ acct # None /\ acct' # None
      /\ acct'.version \in Nat \ {0}
  BY EventFacts
<1>2. denied' \subseteq Id
  BY <1>1 DEF ChangeReceive, Deny, TypeInv, TypeOK
<1>3. /\ device' \in [Tab -> Devices] /\ CookieMoves(t)
      /\ \A u \in Tab \ {t} : device'[u] = device[u]
  <2>1. CASE answer = "ok"
    <3>1. device' = [device EXCEPT ![t] = [device[t] EXCEPT !.cookie = acct'.version]]
      BY <1>1, <2>1 DEF ChangeReceive, TypeInv, TypeOK
    <3>2. [device[t] EXCEPT !.cookie = acct'.version] \in Devices
      BY <1>1 DEF Devices
    <3>3. [device[t] EXCEPT !.cookie = acct'.version].cookie = acct'.version
      BY <1>1 DEF Devices
    <3>4. /\ device' \in [Tab -> Devices] /\ device'[t].cookie = acct'.version
          /\ \A u \in Tab \ {t} : device'[u] = device[u]
      BY <3>1, <3>2, <3>3 DEF TypeInv, TypeOK
    <3>5. QED
      BY <1>1, <3>4 DEF CookieMoves
  <2>2. CASE answer = "unauthorized"
    BY <2>2, Logout DEF ChangeReceive
  <2>3. CASE answer \notin {"ok", "unauthorized"}
    BY <2>3 DEF ChangeReceive, CookieMoves, TypeInv, TypeOK
  <2>4. QED
    BY <2>1, <2>2, <2>3
<1>4. /\ screen' \in [Tab -> Screens] /\ code' \in [Id -> Fates] /\ Over(s, screen'[t])
      /\ \A u \in Tab \ {t} : screen'[u] = screen[u]
  <2>1. CASE answer = "ok"
    <3>1. Show(t, s)
      BY <2>1 DEF ChangeReceive
    <3>2. QED
      BY <1>1, <3>1, Showing DEF Over
  <2>2. CASE answer # "ok"
    <3>1. Go(t, Closed)
      BY <2>2 DEF ChangeReceive
    <3>2. code' \in [Id -> Fates]
      BY <1>1, <2>2 DEF ChangeReceive, Warned, Fates, TypeInv, TypeOK
    <3>3. QED
      BY <3>1, <3>2, Going, ClosedFits, ClosedOver
  <2>3. QED
    BY <2>1, <2>2
<1>5. QED
  BY <1>1, <1>2, <1>3, <1>4, OverMoves

-----------------------------------------------------------------------------
(* The steps of a rotation.                                                *)

LEMMA WorkerTyped ==
  ASSUME TypeInv, NEW t \in Tab
  PROVE  LET w == device[t].worker
         IN  /\ w \in Workers /\ Discard(w) \in Workers
             /\ \A u \in Nat, k \in Nat : Begin(w, u, k) \in Workers
             /\ \A u \in Nat : Switched(w, u) \in Workers
BY Typed DEF Devices, Workers, Discard, Begin, Switched, Commit, Pair, Pairs

\* The device when only its worker changes.
LEMMA Reworked ==
  ASSUME TypeInv, NEW t \in Tab, NEW w \in Workers, device' = [device EXCEPT ![t].worker = w]
  PROVE  /\ device' \in [Tab -> Devices] /\ \A u \in Tab \ {t} : device'[u] = device[u]
         /\ device'[t].worker = w /\ device'[t].cookie = device[t].cookie
         /\ device'[t].session = device[t].session
<1>1. device' = [device EXCEPT ![t] = [device[t] EXCEPT !.worker = w]]
  BY DEF TypeInv, TypeOK
<1>2. /\ [device[t] EXCEPT !.worker = w] \in Devices
      /\ [device[t] EXCEPT !.worker = w].worker = w
      /\ [device[t] EXCEPT !.worker = w].cookie = device[t].cookie
      /\ [device[t] EXCEPT !.worker = w].session = device[t].session
  BY Typed DEF Devices
<1>3. QED
  BY <1>1, <1>2 DEF TypeInv, TypeOK

LEMMA Back ==
  ASSUME TypeInv, NEW t \in Tab, NEW s \in Screens, s.served # None, NEW unreachable \in BOOLEAN,
         BackToReview(t, s, unreachable)
  PROVE  LET q == screen'[t]
             w == device[t].worker
         IN  /\ screen' \in [Tab -> Screens] /\ \A u \in Tab \ {t} : screen'[u] = screen[u]
             /\ q \in Screens /\ Shape(q) /\ q.m = None /\ q.resume = None
             /\ \/ q = Closed
                \/ /\ q.flow = "rotate" /\ q.at = "review" /\ q.exp = s.exp /\ q.served = s.served
                   /\ s.open /\ q.open /\ q.begun = unreachable
             /\ device' \in [Tab -> Devices] /\ \A u \in Tab \ {t} : device'[u] = device[u]
             /\ device'[t].cookie = device[t].cookie /\ device'[t].session = device[t].session
             /\ device'[t].worker = Discard(w) \/ (device'[t].worker = w /\ q.begun)
<1> DEFINE r == Review(s.served, s.exp, unreachable)
<1>1. /\ r \in Screens /\ Shape(r) /\ r.flow = "rotate" /\ r.m = None /\ r.resume = None
      /\ r.exp = s.exp /\ r.served = s.served /\ r.begun = unreachable /\ r.at = "review" /\ r.open
  BY ReviewFits DEF Screens
<1>2. Go(t, IF s.open THEN r ELSE Closed)
  BY DEF BackToReview, Review
<1> HIDE DEF r
<1>5. /\ screen' \in [Tab -> Screens] /\ \A u \in Tab \ {t} : screen'[u] = screen[u]
      /\ screen'[t] = IF s.open THEN r ELSE Closed
  BY <1>1, <1>2, Going, ClosedFits
<1>6. Closed.m = None /\ Closed.resume = None
  BY DEF Closed
<1>7. CASE unreachable /\ s.open
  <2>1. device' = device
    BY <1>7 DEF BackToReview
  <2>2. QED
    BY <1>1, <1>5, <1>7, <2>1 DEF TypeInv, TypeOK
<1>8. CASE ~(unreachable /\ s.open)
  <2>1. device' = [device EXCEPT ![t].worker = Discard(device[t].worker)]
    BY <1>8 DEF BackToReview, Discarded, TypeInv, TypeOK
  <2>2. QED
    BY <1>1, <1>5, <1>6, <2>1, WorkerTyped, Reworked, ClosedFits
<1>9. QED
  BY <1>7, <1>8

\* A rotation's own step: it goes on, goes back to the review, or is over.
LEMMA RunMoves ==
  ASSUME TypeInv, NEW t \in Tab, screen[t].flow = "rotate", screen[t].at # "code", acct # None,
         screen' \in [Tab -> Screens], \A u \in Tab \ {t} : screen'[u] = screen[u],
         device' \in [Tab -> Devices], \A u \in Tab \ {t} : device'[u] = device[u],
         CookieMoves(t), AcctMoves(t), WireMoves(t), minted' \in {minted, Fresh}, losses' \in Nat,
         code' \in [Id -> Fates], denied' \subseteq Id,
         LET s == screen[t]
             q == screen'[t]
         IN  /\ q.flow = "rotate" /\ q.exp = s.exp /\ q.served = s.served /\ q.resume = None
             /\ Shape(q)
             /\ \/ q.m = None
                \/ q.m = s.m /\ (~q.ambiguous => ~s.ambiguous /\ wire' = wire /\ acct' = acct)
  PROVE  Moves(t)
<1>1. acct' # None /\ (acct' # acct => acct'.version # 0)
  BY RequestTyped, WrittenRow DEF AcctMoves, Rows
<1>2. acct'.version # 0
  BY <1>1, Typed
<1>3. device'[t].session => device'[t].cookie # 0
  BY <1>2, Typed DEF CookieMoves, Fits
<1>4. Fits(screen[t], device[t])'
  BY <1>1, <1>3 DEF Fits
<1>5. MaterialMoves(screen[t], screen'[t]) /\ StartMoves(screen[t], screen'[t])
  BY DEF MaterialMoves, StartMoves, Started
<1>6. Alone(t)
  BY DEF Alone
<1>7. QED
  BY <1>4, <1>5, <1>6 DEF Moves

\* A rotation that was sent goes on, with what it sent.
Onward(s, q) ==
  /\ q \in Screens /\ Shape(q) /\ q.at \in Underway \cup {"sent"} /\ q.flow = "rotate"
  /\ q.m = s.m /\ q.exp = s.exp /\ q.served = s.served /\ q.resume = s.resume /\ q.begun = s.begun
  /\ q.open => s.open

LEMMA OnwardFits ==
  ASSUME NEW s \in Screens, Shape(s), s.flow = "rotate", s.m # None,
         NEW at \in Underway \cup {"sent"}
  PROVE  /\ LET q == [s EXCEPT !.at = at] IN Onward(s, q) /\ q.at = at /\ q.ambiguous = s.ambiguous
         /\ LET q == [s EXCEPT !.at = at, !.ambiguous = TRUE]
            IN  Onward(s, q) /\ q.at = at /\ q.ambiguous
         /\ LET q == [s EXCEPT !.at = at, !.open = FALSE]
            IN  Onward(s, q) /\ q.at = at /\ q.ambiguous = s.ambiguous
<1>1. s.at \in Underway \cup {"sent"} /\ s.served # None /\ s.resume = None
  BY DEF Shape, HasMaterial, HasServed, Underway
<1>2. LET q == [s EXCEPT !.at = at] IN Onward(s, q) /\ q.at = at /\ q.ambiguous = s.ambiguous
  BY <1>1 DEF Onward, Screens, Stage, Shape, HasMaterial, HasServed, Underway, Sending
<1>3. LET q == [s EXCEPT !.at = at, !.ambiguous = TRUE]
      IN  Onward(s, q) /\ q.at = at /\ q.ambiguous
  BY <1>1 DEF Onward, Screens, Stage, Shape, HasMaterial, HasServed, Underway, Sending
<1>4. LET q == [s EXCEPT !.at = at, !.open = FALSE]
      IN  Onward(s, q) /\ q.at = at /\ q.ambiguous = s.ambiguous
  BY <1>1 DEF Onward, Screens, Stage, Shape, HasMaterial, HasServed, Underway, Sending
<1>5. QED
  BY <1>2, <1>3, <1>4

LEMMA ResendFits ==
  ASSUME NEW s \in Screens, Shape(s), s.flow = "rotate", s.m # None, NEW round \in Nat
  PROVE  LET q == [s EXCEPT !.at = "sent", !.round = round]
         IN  Onward(s, q) /\ q.at = "sent" /\ q.ambiguous = s.ambiguous
<1>1. s.at \in Underway \cup {"sent"} /\ s.served # None /\ s.resume = None
  BY DEF Shape, HasMaterial, HasServed, Underway
<1>2. QED
  BY <1>1 DEF Onward, Screens, Stage, Shape, HasMaterial, HasServed, Underway, Sending

LEMMA OnwardMoves ==
  ASSUME TypeInv, NEW t \in Tab, NEW q, Go(t, q), Onward(screen[t], q),
         screen[t].flow = "rotate", screen[t].m # None,
         ~q.ambiguous => ~screen[t].ambiguous /\ wire' = wire,
         device' \in [Tab -> Devices], \A u \in Tab \ {t} : device'[u] = device[u],
         acct' = acct, CookieMoves(t), WireMoves(t), minted' \in {minted, Fresh}, losses' \in Nat,
         code' \in [Id -> Fates], denied' \subseteq Id
  PROVE  Moves(t)
<1>1. screen' \in [Tab -> Screens] /\ screen'[t] = q /\ \A u \in Tab \ {t} : screen'[u] = screen[u]
  BY Going DEF Onward
<1>2. screen[t].resume = None /\ acct # None /\ screen[t].at # "code"
  BY Typed DEF Fits, Shape, HasMaterial, Underway
<1>3. AcctMoves(t)
  BY DEF AcctMoves
<1>4. QED
  BY <1>1, <1>2, <1>3, RunMoves DEF Onward

\* Every outcome of halt.
LEMMA HaltMoves ==
  ASSUME TypeInv, NEW t \in Tab, NEW unreachable \in BOOLEAN,
         screen[t].flow = "rotate", screen[t].m # None,
         NEW s \in {screen[t], [screen[t] EXCEPT !.ambiguous = FALSE]}, Halt(t, s, unreachable),
         UNCHANGED <<acct, wire, minted, losses, code>>
  PROVE  Moves(t)
<1>1. /\ screen[t] \in Screens /\ device[t] \in Devices /\ Fits(screen[t], device[t])
      /\ screen[t].m.id \in Id
  BY Typed
<1>2. /\ s \in Screens /\ s.m = screen[t].m /\ s.served = screen[t].served /\ s.served # None
      /\ s.exp = screen[t].exp /\ acct # None /\ screen[t].at # "code"
      /\ s.ambiguous => s = screen[t]
  BY <1>1 DEF Screens, Fits, Shape, HasMaterial, HasServed, Underway
<1>3. WireMoves(t) /\ AcctMoves(t)
  BY DEF WireMoves, AcctMoves
<1>4. CASE s.ambiguous
  <2> DEFINE q == [s EXCEPT !.at = "settling"]
  <2>0. s = screen[t] /\ Shape(s) /\ s.flow = "rotate" /\ s.m # None /\ "settling" \in Underway
    BY <1>1, <1>2, <1>4 DEF Fits, Underway
  <2>1. Onward(s, q) /\ q.ambiguous
    BY <1>2, <1>4, <2>0, OnwardFits
  <2>2. Go(t, q) /\ UNCHANGED <<device, denied>>
    BY <1>4 DEF Halt
  <2> HIDE DEF q
  <2>3. CookieMoves(t)
    BY <2>2 DEF CookieMoves
  <2>4. QED
    BY <1>2, <1>3, <1>4, <2>1, <2>2, <2>3, OnwardMoves DEF TypeInv, TypeOK
<1>5. CASE ~s.ambiguous
  <2>1. BackToReview(t, s, unreachable) /\ denied' \subseteq Id
    BY <1>1, <1>2, <1>5 DEF Halt, Deny, TypeInv, TypeOK
  <2> DEFINE q == screen'[t]
  <2>2. /\ screen' \in [Tab -> Screens] /\ \A u \in Tab \ {t} : screen'[u] = screen[u]
        /\ q \in Screens /\ Shape(q) /\ q.m = None /\ q.resume = None
        /\ q = Closed \/ (q.flow = "rotate" /\ q.at = "review" /\ q.exp = s.exp /\ q.served = s.served)
        /\ device' \in [Tab -> Devices] /\ \A u \in Tab \ {t} : device'[u] = device[u]
        /\ device'[t].cookie = device[t].cookie /\ device'[t].session = device[t].session
    BY <1>2, <2>1, Back
  <2>3. CookieMoves(t)
    BY <2>2 DEF CookieMoves
  <2>4. CASE q = Closed
    <3>1. Over(screen[t], q)
      BY <2>4, ClosedOver
    <3>2. QED
      BY <1>2, <1>3, <2>1, <2>2, <2>3, <3>1, OverMoves DEF TypeInv, TypeOK
  <2>5. CASE q # Closed
    BY <1>2, <1>3, <2>1, <2>2, <2>3, <2>5, RunMoves DEF TypeInv, TypeOK
  <2>6. QED
    BY <2>4, <2>5
<1>6. QED
  BY <1>4, <1>5

LEMMA StartRotationMoves ==
  ASSUME TypeInv, NEW t \in Tab,
         Preflight(t) \/ \E pw \in Password : StartRotation(t, pw)
  PROVE  Moves(t)
<1> DEFINE s == screen[t]
           w == device[t].worker
<1>0. s \in Screens /\ device[t] \in Devices /\ Fits(s, device[t])
  BY Typed
<1>1. CASE Preflight(t)
  <2>1. acct # None /\ acct.m \in Materials /\ acct.m # None /\ acct.version \in Nat
    BY <1>1, Typed DEF Preflight, Honoured
  <2> DEFINE q == [Closed EXCEPT !.flow = "rotate", !.at = "review", !.served = acct.m,
                                 !.exp = acct.version]
  <2>2. /\ q \in Screens /\ Shape(q) /\ q.flow = "rotate" /\ q.m = None /\ q.resume = None
        /\ q.exp = acct.version /\ q.served = acct.m /\ q.at = "review"
    BY <2>1 DEF Closed, Screens, Stage, Flow, Shape, HasMaterial, HasServed, Underway, Sending
  <2>3. Go(t, q) /\ UNCHANGED <<acct, device, wire, minted, code, denied, losses>>
    BY <1>1 DEF Preflight
  <2> HIDE DEF q
  <2>4. MaterialMoves(s, q) /\ StartMoves(s, q)
    BY <2>1, <2>2, <2>3 DEF MaterialMoves, StartMoves
  <2>5. QED
    BY <2>1, <2>2, <2>3, <2>4, Quiet DEF TypeInv, TypeOK
<1>2. ASSUME NEW pw \in Password, StartRotation(t, pw) PROVE Moves(t)
  <2>1. /\ s.at = "review" /\ s.flow = "rotate" /\ s.served \in Materials /\ s.served # None
        /\ s.m = None /\ s.resume = None /\ acct # None
    BY <1>0, <1>2, Typed DEF StartRotation, Fits, Shape, HasServed, HasMaterial, Underway
  <2>2. UNCHANGED <<acct, wire, code, denied, losses>>
    BY <1>2 DEF StartRotation
  <2>3. AcctMoves(t) /\ WireMoves(t) /\ code' \in [Id -> Fates] /\ denied' \subseteq Id /\ losses' \in Nat
    BY <2>2 DEF AcctMoves, WireMoves, TypeInv, TypeOK
  <2>4. CASE ~Warm(w, s.served.user)
    <3>1. Go(t, Closed) /\ UNCHANGED minted /\ device' = [device EXCEPT ![t].worker = Discard(w)]
      BY <1>2, <2>4 DEF StartRotation, Discarded, TypeInv, TypeOK
    <3>2. /\ device' \in [Tab -> Devices] /\ \A u \in Tab \ {t} : device'[u] = device[u]
          /\ CookieMoves(t)
      BY <3>1, WorkerTyped, Reworked DEF CookieMoves
    <3>3. QED
      BY <2>1, <2>3, <3>1, <3>2, Going, ClosedFits, ClosedOver, OverMoves
  <2>5. CASE Warm(w, s.served.user)
    <3>1. PICK begun \in BOOLEAN :
            /\ Go(t, [s EXCEPT !.at = "begun", !.begun = begun, !.typed = pw]) /\ begun
            /\ \/ UNCHANGED <<device, minted>>
               \/ minted' = Fresh /\ device' = [device EXCEPT ![t].worker = Begin(w, s.served.user, Fresh)]
      <4>1. CASE s.begun
        <5>1. [s EXCEPT !.at = "begun", !.begun = TRUE, !.typed = pw] = [s EXCEPT !.at = "begun", !.typed = pw]
          BY <1>0, <4>1 DEF Screens
        <5>2. QED
          BY <1>2, <2>5, <4>1, <5>1 DEF StartRotation
      <4>2. CASE ~s.begun
        BY <1>2, <2>5, <4>2 DEF StartRotation
      <4>3. QED
        BY <4>1, <4>2
    <3> DEFINE q == [s EXCEPT !.at = "begun", !.begun = begun, !.typed = pw]
    <3>2. /\ q \in Screens /\ q.flow = s.flow /\ q.m = None /\ q.exp = s.exp /\ q.served = s.served
          /\ q.resume = None
      BY <1>0, <2>1 DEF Screens, Stage
    <3>3. Shape(q)
      BY <1>0, <2>1, <3>1 DEF Fits, Shape, HasMaterial, HasServed, Underway, Screens
    <3>4. Go(t, q)
      BY <3>1
    <3> HIDE DEF q
    <3>5. screen' \in [Tab -> Screens] /\ screen'[t] = q /\ \A u \in Tab \ {t} : screen'[u] = screen[u]
      BY <3>2, <3>4, Going
    <3>6. /\ device' \in [Tab -> Devices] /\ \A u \in Tab \ {t} : device'[u] = device[u]
          /\ CookieMoves(t) /\ minted' \in {minted, Fresh}
      <4>1. CASE UNCHANGED <<device, minted>>
        BY <4>1 DEF CookieMoves, TypeInv, TypeOK
      <4>2. CASE minted' = Fresh /\ device' = [device EXCEPT ![t].worker = Begin(w, s.served.user, Fresh)]
        <5>1. Begin(w, s.served.user, Fresh) \in Workers
          BY <2>1, WorkerTyped DEF Materials, Fresh, TypeInv, TypeOK
        <5>2. QED
          BY <4>2, <5>1, Reworked DEF CookieMoves
      <4>3. QED
        BY <3>1, <4>1, <4>2
    <3>7. QED
      BY <2>1, <2>3, <3>2, <3>3, <3>5, <3>6, RunMoves
  <2>6. QED
    BY <2>4, <2>5
<1>3. QED
  BY <1>1, <1>2

LEMMA SendRotationMoves ==
  ASSUME TypeInv, NEW t \in Tab,
         SendRotation(t) \/ \E unreachable \in BOOLEAN : PrepareFails(t, unreachable)
  PROVE  Moves(t)
<1> DEFINE s == screen[t]
           w == device[t].worker
<1>0. s \in Screens /\ device[t] \in Devices /\ Fits(s, device[t])
  BY Typed
<1>1. s.at = "begun"
  BY DEF SendRotation, PrepareFails
<1>2. /\ s.flow = "rotate" /\ s.served \in Materials /\ s.served # None /\ s.typed \in Password
      /\ s.m = None /\ s.resume = None /\ acct # None /\ s.begun
  BY <1>0, <1>1, Typed DEF Fits, Shape, HasServed, HasMaterial, Underway
<1>3. CASE SendRotation(t)
  <2> DEFINE m == Material(Fresh, s.served.user, s.typed, w.pending.key)
             q == [s EXCEPT !.at = "sent", !.round = 1, !.typed = None, !.m = m]
  <2>1. w.pending \in Pairs
    BY <1>0, <1>3 DEF SendRotation, Begun, Devices, Workers
  <2>2. m \in Materials /\ m # None /\ m.id = Fresh
    BY <1>2, <1>3, <2>1, FreshMaterial DEF SendRotation, Materials, Material, Pairs
  <2>3. /\ q \in Screens /\ q.flow = s.flow /\ q.m = m /\ q.exp = s.exp /\ q.served = s.served
        /\ q.resume = s.resume /\ q.at = "sent" /\ q.begun = s.begun /\ q.ambiguous = s.ambiguous
    BY <1>0, <2>2 DEF Screens, Stage
  <2>4. Go(t, q) /\ UNCHANGED <<acct, device, wire, code, denied, losses>> /\ minted' = Fresh
    BY <1>3 DEF SendRotation
  <2> HIDE DEF q, m
  <2>5. Shape(q)
    BY <1>0, <1>2, <2>2, <2>3 DEF Fits, Shape, HasMaterial, HasServed, Underway, Sending
  <2>6. MaterialMoves(s, q) /\ StartMoves(s, q)
    BY <1>1, <1>2, <2>2, <2>3, <2>4 DEF MaterialMoves, StartMoves
  <2>7. QED
    BY <1>2, <2>3, <2>4, <2>5, <2>6, Quiet DEF TypeInv, TypeOK
<1>4. ASSUME NEW unreachable \in BOOLEAN, PrepareFails(t, unreachable)
      PROVE  Moves(t)
  <2>1. BackToReview(t, s, unreachable) /\ UNCHANGED <<acct, wire, minted, code, denied, losses>>
    BY <1>4 DEF PrepareFails
  <2> DEFINE q == screen'[t]
  <2>2. /\ screen' \in [Tab -> Screens] /\ \A u \in Tab \ {t} : screen'[u] = screen[u]
        /\ q \in Screens /\ Shape(q) /\ q.m = None /\ q.resume = None
        /\ q = Closed \/ (q.flow = "rotate" /\ q.at = "review" /\ q.exp = s.exp /\ q.served = s.served)
        /\ device' \in [Tab -> Devices] /\ \A u \in Tab \ {t} : device'[u] = device[u]
        /\ device'[t].cookie = device[t].cookie /\ device'[t].session = device[t].session
    BY <1>0, <1>2, <2>1, Back
  <2>3. CookieMoves(t) /\ AcctMoves(t) /\ WireMoves(t)
    BY <2>1, <2>2 DEF CookieMoves, AcctMoves, WireMoves
  <2>4. CASE q = Closed
    <3>1. Over(s, q)
      BY <2>4, ClosedOver
    <3>2. QED
      BY <1>2, <2>1, <2>2, <2>3, <3>1, OverMoves DEF TypeInv, TypeOK
  <2>5. CASE q # Closed
    BY <1>1, <1>2, <2>1, <2>2, <2>3, <2>5, RunMoves DEF TypeInv, TypeOK
  <2>6. QED
    BY <2>4, <2>5
<1>5. QED
  BY <1>3, <1>4

LEMMA AnswerHandoffsMoves ==
  ASSUME TypeInv, NEW t \in Tab, AnswerHandoffs(t)
  PROVE  Moves(t)
<1> DEFINE s == screen[t]
<1>0. s \in Screens /\ device[t] \in Devices /\ Fits(s, device[t])
  BY Typed
<1>1. s.at = "handoffs" /\ s.flow = "rotate" /\ s.m # None /\ UNCHANGED <<acct, wire, minted, code, losses>>
  BY <1>0 DEF AnswerHandoffs, Fits, Shape, HasMaterial, Underway
<1>2. CASE Halt(t, s, TRUE) \/ Halt(t, s, FALSE)
  BY <1>1, <1>2, HaltMoves
<1>3. CASE ~(Halt(t, s, TRUE) \/ Halt(t, s, FALSE))
  <2> DEFINE q == [s EXCEPT !.at = "sent", !.round = Rounds(@)]
  <2> DEFINE n == Rounds(s.round)
  <2>1. n \in Nat /\ q = [s EXCEPT !.at = "sent", !.round = n]
    BY <1>0 DEF Rounds, Screens
  <2> HIDE DEF n
  <2>2. Onward(s, q) /\ q.ambiguous = s.ambiguous
    BY <1>0, <1>1, <2>1, ResendFits DEF Fits
  <2>3. Go(t, q) /\ UNCHANGED <<device, denied>>
    BY <1>3 DEF AnswerHandoffs
  <2> HIDE DEF q
  <2>4. CookieMoves(t) /\ WireMoves(t)
    BY <1>1, <2>3 DEF CookieMoves, WireMoves
  <2>5. QED
    BY <1>1, <2>2, <2>3, <2>4, OnwardMoves DEF TypeInv, TypeOK
<1>4. QED
  BY <1>2, <1>3

\* The answer "ok", and a request found to have landed.
LEMMA LandedMoves ==
  ASSUME TypeInv, NEW t \in Tab, screen[t].flow = "rotate", screen[t].m # None,
         device' = [device EXCEPT ![t].worker = Switched(@, screen[t].served.user)]
           \/ (/\ device' = [device EXCEPT ![t].cookie = acct'.version,
                                           ![t].worker = Switched(@, screen[t].served.user)]
               /\ acct' # None /\ acct'.version \in Nat),
         Show(t, screen[t]), AcctMoves(t), WireMoves(t), minted' = minted, losses' \in Nat,
         UNCHANGED denied
  PROVE  Moves(t)
<1> DEFINE s == screen[t]
           w == Switched(device[t].worker, s.served.user)
<1>1. s \in Screens /\ device[t] \in Devices /\ Fits(s, device[t]) /\ acct # None
  BY Typed DEF Fits, Shape, HasMaterial
<1>2. w \in Workers
  BY <1>1, Typed, WorkerTyped DEF Fits, Shape, HasMaterial, HasServed, Underway, Materials
<1>3. /\ device' \in [Tab -> Devices] /\ \A u \in Tab \ {t} : device'[u] = device[u]
      /\ CookieMoves(t)
  <2>1. CASE device' = [device EXCEPT ![t].worker = w]
    BY <1>2, <2>1, Reworked DEF CookieMoves
  <2>2. CASE /\ device' = [device EXCEPT ![t].cookie = acct'.version, ![t].worker = w]
             /\ acct' # None /\ acct'.version \in Nat
    <3> DEFINE d == [device[t] EXCEPT !.cookie = acct'.version, !.worker = w]
    <3>1. device' = [device EXCEPT ![t] = d]
      BY <2>2 DEF TypeInv, TypeOK
    <3>2. d \in Devices /\ d.cookie = acct'.version
      BY <1>1, <1>2, <2>2 DEF Devices
    <3> HIDE DEF d
    <3>3. /\ device' \in [Tab -> Devices] /\ device'[t].cookie = acct'.version
          /\ \A u \in Tab \ {t} : device'[u] = device[u]
      BY <3>1, <3>2 DEF TypeInv, TypeOK
    <3>4. QED
      BY <2>2, <3>3 DEF CookieMoves
  <2> HIDE DEF w
  <2>3. QED
    BY <2>1, <2>2 DEF w
<1>4. /\ screen' \in [Tab -> Screens] /\ code' \in [Id -> Fates] /\ Over(s, screen'[t])
      /\ \A u \in Tab \ {t} : screen'[u] = screen[u]
  BY <1>1, Showing DEF Over
<1>5. QED
  BY <1>1, <1>3, <1>4, OverMoves DEF TypeInv, TypeOK

LEMMA RotateReceiveMoves ==
  ASSUME TypeInv, NEW t \in Tab, NEW answer, Event(t, answer), RotateReceive(t, answer),
         screen[t].flow = "rotate"
  PROVE  Moves(t)
<1> DEFINE s == screen[t]
<1>1. /\ s \in Screens /\ device[t] \in Devices /\ Fits(s, device[t]) /\ s.at = "sent"
      /\ s.m \in Materials /\ s.m # None /\ s.m.id \in Id /\ AcctMoves(t) /\ WireMoves(t)
      /\ losses' \in Nat /\ acct # None /\ acct' # None
      /\ acct'.version \in Nat \ {0}
      /\ answer # "ok" => acct' = acct
      /\ answer # "lost" => wire' = wire
  BY EventFacts
<1>2. minted' = minted /\ (answer \notin {"ok", "lost"} => UNCHANGED <<acct, wire, minted, losses>>)
  BY DEF Event
<1>3. CASE answer = "ok"
  BY <1>1, <1>2, <1>3, LandedMoves DEF RotateReceive
<1>4. CASE answer = "handoff"
  <2> DEFINE q == [s EXCEPT !.at = "handoffs"]
  <2>1. Onward(s, q) /\ q.ambiguous = s.ambiguous
    BY <1>1, OnwardFits DEF Fits, Underway
  <2>2. Go(t, q) /\ UNCHANGED <<device, code, denied>>
    BY <1>4 DEF RotateReceive
  <2> HIDE DEF q
  <2>3. CookieMoves(t)
    BY <2>2 DEF CookieMoves
  <2>4. QED
    BY <1>1, <1>2, <1>4, <2>1, <2>2, <2>3, OnwardMoves DEF TypeInv, TypeOK
<1>5. CASE answer = "lost"
  <2> DEFINE q == [s EXCEPT !.at = "settling", !.ambiguous = TRUE]
  <2>1. Onward(s, q) /\ q.ambiguous
    BY <1>1, OnwardFits DEF Fits, Underway
  <2>2. Go(t, q) /\ UNCHANGED <<device, code, denied>>
    BY <1>5 DEF RotateReceive
  <2> HIDE DEF q
  <2>3. CookieMoves(t)
    BY <2>2 DEF CookieMoves
  <2>4. QED
    BY <1>1, <1>2, <1>5, <2>1, <2>2, <2>3, OnwardMoves DEF TypeInv, TypeOK
<1>6. CASE answer = "expired" /\ s.ambiguous
  <2> DEFINE q == [s EXCEPT !.at = "waiting"]
  <2>1. Onward(s, q) /\ q.ambiguous = s.ambiguous
    BY <1>1, OnwardFits DEF Fits, Underway
  <2>2. Go(t, q) /\ UNCHANGED <<device, code, denied>>
    BY <1>6 DEF RotateReceive
  <2> HIDE DEF q
  <2>3. CookieMoves(t)
    BY <2>2 DEF CookieMoves
  <2>4. QED
    BY <1>1, <1>2, <1>6, <2>1, <2>2, <2>3, OnwardMoves DEF TypeInv, TypeOK
<1>7. CASE answer = "unauthorized" /\ s.ambiguous
  <2> DEFINE q == [s EXCEPT !.at = "settling", !.open = FALSE]
  <2>1. Onward(s, q) /\ q.ambiguous = s.ambiguous
    BY <1>1, OnwardFits DEF Fits, Underway
  <2>2. Go(t, q) /\ Dropped(t) /\ UNCHANGED <<code, denied>>
    BY <1>7 DEF RotateReceive
  <2> HIDE DEF q
  <2>3. QED
    BY <1>1, <1>2, <1>7, <2>1, <2>2, Logout, OnwardMoves DEF TypeInv, TypeOK
<1>8. CASE answer = "unauthorized" /\ ~s.ambiguous
  <2>1. Go(t, Closed) /\ Dropped(t) /\ UNCHANGED code /\ denied' \subseteq Id
    BY <1>1, <1>8 DEF RotateReceive, Deny, TypeInv, TypeOK
  <2>2. QED
    BY <1>1, <1>2, <2>1, Going, ClosedFits, ClosedOver, Logout, OverMoves DEF TypeInv, TypeOK
<1>9. CASE answer \notin {"ok", "handoff", "lost", "unauthorized"} /\ ~(answer = "expired" /\ s.ambiguous)
  <2>1. Halt(t, s, FALSE) /\ UNCHANGED code
    BY <1>9 DEF RotateReceive
  <2>2. QED
    BY <1>1, <1>2, <1>9, <2>1, HaltMoves
<1>10. QED
  BY <1>3, <1>4, <1>5, <1>6, <1>7, <1>8, <1>9

LEMMA SettleMoves ==
  ASSUME TypeInv, NEW t \in Tab, SettleOutcome(t) \/ StateAfterWait(t) \/ RetryRotation(t)
  PROVE  Moves(t)
<1> DEFINE s == screen[t]
           w == device[t].worker
<1>0. s \in Screens /\ device[t] \in Devices /\ Fits(s, device[t])
  BY Typed
<1>1. s.at \in {"settling", "waiting", "retry"} /\ UNCHANGED <<acct, wire, minted>> /\ losses' \in Nat
  <2>1. CASE SettleOutcome(t)
    BY <2>1 DEF SettleOutcome, TypeInv, TypeOK
  <2>2. CASE StateAfterWait(t)
    BY <2>2 DEF StateAfterWait, TypeInv, TypeOK
  <2>3. CASE RetryRotation(t)
    BY <2>3 DEF RetryRotation, TypeInv, TypeOK
  <2>4. QED
    BY <2>1, <2>2, <2>3
<1>2. s.flow = "rotate" /\ s.m # None /\ s.m.id \in Id /\ acct # None
  <2>1. s.at \in {"settling", "waiting", "retry"}
    BY <1>1
  <2>2. s.flow = "rotate" /\ s.m # None /\ acct # None
    BY <1>0, <2>1 DEF Fits, Shape, HasMaterial, Underway
  <2>3. QED
    BY <2>2, Typed
<1>3. AcctMoves(t) /\ WireMoves(t)
  BY <1>1 DEF AcctMoves, WireMoves
<1>4. CASE Landed(t, s) /\ UNCHANGED denied
  BY <1>1, <1>2, <1>3, <1>4, LandedMoves DEF Landed
<1>5. CASE SettleOutcome(t) /\ ~Landed(t, s)
  <2>1. UNCHANGED <<device, denied>> /\ code' \in [Id -> Fates] /\ denied' \subseteq Id
    BY <1>2, <1>5 DEF SettleOutcome, Fates, TypeInv, TypeOK
  <2>2. CookieMoves(t) /\ device' \in [Tab -> Devices]
    BY <2>1 DEF CookieMoves, TypeInv, TypeOK
  <2>3. CASE s.open
    <3> DEFINE q == [s EXCEPT !.at = "retry"]
    <3>1. Onward(s, q) /\ q.ambiguous = s.ambiguous
      BY <1>0, <1>2, OnwardFits DEF Fits, Underway
    <3>2. Go(t, q)
      BY <1>5, <2>3 DEF SettleOutcome
    <3> HIDE DEF q
    <3>3. QED
      BY <1>1, <1>2, <1>3, <2>1, <2>2, <3>1, <3>2, OnwardMoves
  <2>4. CASE ~s.open
    <3>1. Go(t, Closed)
      BY <1>5, <2>4 DEF SettleOutcome
    <3>2. QED
      BY <1>1, <1>2, <1>3, <2>1, <2>2, <3>1, Going, ClosedFits, ClosedOver, OverMoves
  <2>5. QED
    BY <2>3, <2>4
<1>6. CASE StateAfterWait(t)
  <2>1. CASE Dropped(t) /\ Go(t, [s EXCEPT !.at = "settling", !.open = FALSE]) /\ UNCHANGED <<code, denied>>
    <3> DEFINE q == [s EXCEPT !.at = "settling", !.open = FALSE]
    <3>1. Onward(s, q) /\ q.ambiguous = s.ambiguous
      BY <1>0, <1>2, OnwardFits DEF Fits, Underway
    <3>2. Go(t, q)
      BY <2>1
    <3> HIDE DEF q
    <3>3. QED
      BY <1>1, <1>2, <1>3, <2>1, <3>1, <3>2, Logout, OnwardMoves DEF TypeInv, TypeOK
  <2>2. CASE Halt(t, [s EXCEPT !.ambiguous = FALSE], FALSE) /\ UNCHANGED code
    BY <1>1, <1>2, <1>6, <2>2, HaltMoves DEF StateAfterWait
  <2>3. CASE Go(t, [s EXCEPT !.at = "settling"]) /\ UNCHANGED <<device, code, denied>>
    <3> DEFINE q == [s EXCEPT !.at = "settling"]
    <3>1. Onward(s, q) /\ q.ambiguous = s.ambiguous
      BY <1>0, <1>2, OnwardFits DEF Fits, Underway
    <3>2. Go(t, q)
      BY <2>3
    <3> HIDE DEF q
    <3>3. CookieMoves(t)
      BY <2>3 DEF CookieMoves
    <3>4. QED
      BY <1>1, <1>2, <1>3, <2>3, <3>1, <3>2, <3>3, OnwardMoves DEF TypeInv, TypeOK
  <2>4. QED
    BY <1>4, <1>6, <2>1, <2>2, <2>3 DEF StateAfterWait
<1>7. CASE RetryRotation(t) /\ ~Landed(t, s)
  <2>0. UNCHANGED denied
    BY <1>7 DEF RetryRotation
  <2>1. CASE Discarded(t) /\ Go(t, Closed) /\ UNCHANGED code
    <3>1. device' = [device EXCEPT ![t].worker = Discard(w)]
      BY <2>1 DEF Discarded, TypeInv, TypeOK
    <3>2. /\ device' \in [Tab -> Devices] /\ \A u \in Tab \ {t} : device'[u] = device[u]
          /\ CookieMoves(t)
      BY <3>1, WorkerTyped, Reworked DEF CookieMoves
    <3>3. QED
      BY <1>1, <1>2, <1>3, <2>0, <2>1, <3>2, Going, ClosedFits, ClosedOver, OverMoves DEF TypeInv, TypeOK
  <2>2. CASE Go(t, [s EXCEPT !.at = "sent", !.round = 1]) /\ UNCHANGED <<device, code>>
    <3> DEFINE q == [s EXCEPT !.at = "sent", !.round = 1]
    <3>1. Onward(s, q) /\ q.ambiguous = s.ambiguous
      BY <1>0, <1>2, ResendFits DEF Fits
    <3>2. Go(t, q)
      BY <2>2
    <3> HIDE DEF q
    <3>3. CookieMoves(t)
      BY <2>2 DEF CookieMoves
    <3>4. QED
      BY <1>1, <1>2, <1>3, <2>0, <2>2, <3>1, <3>2, <3>3, OnwardMoves DEF TypeInv, TypeOK
  <2>3. QED
    BY <1>7, <2>1, <2>2 DEF RetryRotation
<1>8. SettleOutcome(t) \/ RetryRotation(t) => UNCHANGED denied
  BY DEF SettleOutcome, RetryRotation
<1>9. QED
  BY <1>4, <1>5, <1>6, <1>7, <1>8

LEMMA LeaveMoves ==
  ASSUME TypeInv, NEW t \in Tab, LeaveRotation(t) \/ Watch(t)
  PROVE  Moves(t)
<1> DEFINE s == screen[t]
           w == device[t].worker
           gone == [s EXCEPT !.open = FALSE]
<1>0. s \in Screens /\ device[t] \in Devices /\ Fits(s, device[t])
  BY Typed
<1>1. UNCHANGED <<acct, wire, minted, code, denied, losses>>
  BY DEF LeaveRotation, Watch
<1>2. AcctMoves(t) /\ WireMoves(t) /\ minted' = minted /\ losses' \in Nat /\ code' \in [Id -> Fates]
      /\ denied' \subseteq Id
  BY <1>1 DEF AcctMoves, WireMoves, TypeInv, TypeOK
<1>3. /\ device' \in [Tab -> Devices] /\ \A u \in Tab \ {t} : device'[u] = device[u]
      /\ CookieMoves(t)
      /\ device'[t].session => device[t].session /\ device'[t].cookie = device[t].cookie
      /\ device'[t].cookie \in {device[t].cookie, 0}
  <2>1. CASE UNCHANGED device
    BY <2>1 DEF CookieMoves, TypeInv, TypeOK
  <2>2. CASE Discarded(t)
    <3>1. device' = [device EXCEPT ![t].worker = Discard(w)]
      BY <2>2 DEF Discarded, TypeInv, TypeOK
    <3>2. QED
      BY <3>1, WorkerTyped, Reworked DEF CookieMoves
  <2>3. CASE Dropped(t)
    <3>1. ~LoggedOut.session /\ LoggedOut.cookie = 0
      BY DEF LoggedOut
    <3>2. QED
      BY <2>3, <3>1, Logout
  <2>4. QED
    BY <2>1, <2>2, <2>3 DEF LeaveRotation, Watch
<1>4. gone \in Screens /\ gone.flow = s.flow /\ gone.m = s.m /\ gone.exp = s.exp /\ gone.at = s.at
      /\ gone.served = s.served /\ gone.resume = s.resume /\ gone.ambiguous = s.ambiguous
      /\ gone.begun = s.begun /\ gone.typed = s.typed
  BY <1>0 DEF Screens
<1>5. s.flow # "none" => Shape(gone)
  <2> HIDE DEF gone
  <2>1. QED
    BY <1>0, <1>4 DEF Fits, Shape, HasMaterial, HasServed
<1>6. PICK q \in {s, gone, Closed} :
        /\ Go(t, q) /\ (q # s => s.flow \in {"change", "rotate"})
        /\ q = Closed \/ q = s \/ s.at # "code"
  <2> HIDE DEF gone
  <2>1. CASE LeaveRotation(t)
    <3>1. s.flow = "rotate" /\ (Go(t, Closed) \/ (Go(t, gone) /\ s.at # "code"))
      BY <2>1 DEF LeaveRotation, gone
    <3>2. QED
      BY <3>1
  <2>2. CASE Watch(t)
    <3>1. \/ s.flow \in {"change", "rotate"} /\ Go(t, Closed)
          \/ s.flow \in {"change", "rotate"} /\ s.at # "code" /\ Go(t, gone)
          \/ s.flow \notin {"change", "rotate"} /\ Go(t, s)
      BY <2>2 DEF Watch, gone
    <3>2. QED
      BY <3>1
  <2>3. QED
    BY <2>1, <2>2
<1>7. screen' \in [Tab -> Screens] /\ screen'[t] = q /\ \A u \in Tab \ {t} : screen'[u] = screen[u]
  BY <1>0, <1>4, <1>6, Going, ClosedFits
<1>8. s.flow \in {"change", "rotate"} => acct # None
  BY <1>0 DEF Fits
<1> HIDE DEF gone
<1>9. Closed.flow = "none" /\ Closed.at = "form" /\ Closed.m = None /\ Closed.resume = None
  BY DEF Closed
<1>10. Fits(q, device'[t])
  <2>1. CASE q = s
    BY <1>0, <1>3, <2>1 DEF Fits
  <2>2. CASE q = gone /\ gone # s
    BY <1>0, <1>3, <1>4, <1>5, <1>6, <2>2 DEF Fits
  <2>3. CASE q = Closed
    BY <1>0, <1>3, <1>6, <1>8, <1>9, <2>3, ClosedFits DEF Fits
  <2>4. QED
    BY <2>1, <2>2, <2>3
<1>11. Fits(screen[t], device[t])'
  BY <1>1, <1>7, <1>10 DEF Fits
<1>12. MaterialMoves(s, q) /\ StartMoves(s, q)
  <2>1. CASE q = s \/ q = gone
    BY <1>1, <1>4, <1>6, <2>1 DEF MaterialMoves, StartMoves
  <2>2. CASE q = Closed
    BY <2>2, ClosedMoves
  <2>3. QED
    BY <2>1, <2>2
<1>13. Alone(t)
  BY <1>3, <1>7 DEF Alone
<1>14. QED
  BY <1>2, <1>3, <1>7, <1>11, <1>12, <1>13 DEF Moves

-----------------------------------------------------------------------------
(* Every step.                                                             *)

LEMMA AnswerMoves ==
  ASSUME TypeInv, NEW t \in Tab, NEW answer, Event(t, answer)
  PROVE  Moves(t)
BY SignupReceiveMoves, ResetReceiveMoves, ChangeReceiveMoves, RotateReceiveMoves DEF Event, Receive

\* An answer that is not "lost".
LEMMA AnswersFinite ==
  ASSUME NEW r \in Requests, NEW answer \in Answers(r)
  PROVE  answer # "lost"
<1>1. r.kind \in Sending
  BY DEF Requests
<1>2. QED
  BY <1>1 DEF Answers, RegisterAnswer, ResetAnswer, ChangeAnswer, RotateAnswer, Sending

LEMMA ServedEvent ==
  ASSUME TypeInv, NEW t \in Tab
  PROVE  /\ Answered(t) => \E answer : Event(t, answer) /\ answer # "lost"
         /\ Lost(t) => Event(t, "lost")
<1>1. ASSUME Answered(t) PROVE \E answer : Event(t, answer) /\ answer # "lost"
  <2>1. PICK answer \in Answers(Request(t)) :
          acct' = (IF answer = "ok" THEN Written(Request(t)) ELSE acct) /\ Receive(t, answer)
    BY <1>1 DEF Answered
  <2>2. screen[t].at = "sent" /\ UNCHANGED <<wire, minted, losses>>
    BY <1>1 DEF Answered
  <2>3. answer # "lost"
    BY <2>2, RequestTyped, AnswersFinite
  <2>4. Event(t, answer)
    BY <2>1, <2>2, <2>3 DEF Event
  <2>5. QED
    BY <2>3, <2>4
<1>2. Lost(t) => Event(t, "lost")
  BY DEF Lost, Event
<1>3. QED
  BY <1>1, <1>2

\* What one tab does, but for its reload.
TabStep(t) ==
  \/ \E pw \in Password : \/ SignupSubmit(t, pw) \/ LoginSubmit(t, pw) \/ ReauthSubmit(t, pw)
                          \/ RecoverySubmit(t, pw) \/ ChangeSubmit(t, pw) \/ StartRotation(t, pw)
  \/ Proceed(t) \/ CompleteLogin(t, FALSE) \/ Lost(t)
  \/ LeaveSignup(t) \/ RetryReset(t) \/ GiveUpReset(t) \/ Preflight(t)
  \/ RetryRotation(t) \/ LeaveRotation(t) \/ Acknowledge(t) \/ Watch(t)

LEMMA StepCases == Step <=> (\E t \in Tab : TabStep(t) \/ Reload(t)) \/ Late
BY DEF Step, TabStep

LEMMA TabMoves ==
  ASSUME TypeInv, NEW t \in Tab, TabStep(t)
  PROVE  Moves(t)
<1>1. CASE \E pw \in Password : \/ SignupSubmit(t, pw) \/ LoginSubmit(t, pw) \/ ReauthSubmit(t, pw)
                                \/ RecoverySubmit(t, pw) \/ ChangeSubmit(t, pw) \/ StartRotation(t, pw)
  BY <1>1, SignupMoves, LoginMoves, RecoveryMoves, StartRotationMoves
<1>2. CASE Proceed(t)
  <2>1. CASE SignupChallenge(t) \/ CompleteLogin(t, TRUE) \/ SendRewrap(t) \/ RewrapFails(t)
    BY <2>1, SignupMoves, CompleteLoginMoves, ResetMoves
  <2>2. CASE SendRotation(t) \/ \E unreachable \in BOOLEAN : PrepareFails(t, unreachable)
    BY <2>2, SendRotationMoves
  <2>3. CASE Answered(t)
    BY <2>3, ServedEvent, AnswerMoves
  <2>4. CASE AnswerHandoffs(t) \/ SettleOutcome(t) \/ StateAfterWait(t)
    BY <2>4, AnswerHandoffsMoves, SettleMoves
  <2>5. QED
    BY <1>2, <2>1, <2>2, <2>3, <2>4 DEF Proceed
<1>3. CASE CompleteLogin(t, FALSE) \/ Lost(t)
  BY <1>3, CompleteLoginMoves, ServedEvent, AnswerMoves
<1>4. CASE LeaveSignup(t) \/ RetryReset(t) \/ GiveUpReset(t) \/ Preflight(t)
             \/ RetryRotation(t) \/ LeaveRotation(t) \/ Acknowledge(t) \/ Watch(t)
  BY <1>4, SignupMoves, ResetMoves, StartRotationMoves, SettleMoves, LeaveMoves
<1>5. QED
  BY <1>1, <1>2, <1>3, <1>4 DEF TabStep

\* The two steps that are no flow's: a late request, and a reload.
LEMMA LateFacts ==
  ASSUME TypeInv, Late
  PROVE  \E r \in wire :
           /\ wire' = wire \ {r} /\ UNCHANGED <<screen, minted, code, denied, losses>>
           /\ device' \in [Tab -> Devices]
           /\ \A t \in Tab : /\ device'[t].session = device[t].session
                             /\ device'[t].worker = device[t].worker
                             /\ \/ device'[t] = device[t]
                                \/ device'[t].cookie = acct'.version /\ acct' # None
           /\ \/ acct' = acct /\ device' = device
              \/ "ok" \in Answers(r) /\ acct' = Written(r)
           /\ acct' \in Rows \cup {None} /\ (acct # None => acct' # None)
<1>1. PICK r \in wire :
        /\ wire' = wire \ {r} /\ UNCHANGED <<screen, minted, code, denied, losses>>
        /\ \/ UNCHANGED <<acct, device>>
           \/ /\ "ok" \in Answers(r)
              /\ acct' = Written(r)
              /\ \/ UNCHANGED device
                 \/ /\ r.by # None /\ r.kind \in {"change", "rotate"}
                    /\ device' = [device EXCEPT ![r.by].cookie = acct'.version]
  BY DEF Late
<1>2. r \in Requests
  BY DEF TypeInv, TypeOK
<1>3. Written(r) \in Rows /\ Written(r) # None /\ (acct' = Written(r) => acct'.version \in Nat)
  BY <1>2, WrittenRow DEF Rows
<1>4. acct' \in Rows \cup {None} /\ (acct # None => acct' # None)
  BY <1>1, <1>3 DEF TypeInv, TypeOK
<1>5. CASE UNCHANGED device
  BY <1>1, <1>4, <1>5 DEF TypeInv, TypeOK
<1>6. CASE /\ r.by # None /\ acct' = Written(r)
           /\ device' = [device EXCEPT ![r.by].cookie = acct'.version]
  <2> DEFINE d == [device[r.by] EXCEPT !.cookie = acct'.version]
  <2>1. r.by \in Tab
    BY <1>2, <1>6 DEF Requests
  <2>2. device[r.by] \in Devices
    BY <2>1, Typed
  <2>3. d \in Devices /\ d.cookie = acct'.version /\ d.session = device[r.by].session
        /\ d.worker = device[r.by].worker
    BY <1>3, <1>6, <2>2 DEF Devices
  <2>4. device' = [device EXCEPT ![r.by] = d]
    BY <1>6 DEF TypeInv, TypeOK
  <2> HIDE DEF d
  <2>5. /\ device' \in [Tab -> Devices] /\ device'[r.by] = d
        /\ \A t \in Tab \ {r.by} : device'[t] = device[t]
    BY <2>1, <2>3, <2>4 DEF TypeInv, TypeOK
  <2>6. QED
    BY <1>1, <1>3, <1>4, <1>6, <2>3, <2>5
<1>7. QED
  BY <1>1, <1>5, <1>6

LEMMA ReloadFacts ==
  ASSUME TypeInv, NEW t \in Tab, Reload(t)
  PROVE  /\ screen[t] = Closed /\ UNCHANGED <<acct, screen, minted, code, denied, losses>>
         /\ device' \in [Tab -> Devices] /\ \A u \in Tab \ {t} : device'[u] = device[u]
         /\ device'[t].cookie = device[t].cookie /\ device'[t].worker = Cold
         /\ device'[t].session <=> Honoured(device[t].cookie)
         /\ wire' \subseteq Requests
         /\ \A r \in wire' : \E p \in wire :
              /\ r.kind = p.kind /\ r.m = p.m /\ r.exp = p.exp /\ r.cookie = p.cookie
              /\ r.presented = p.presented /\ r.by \in {p.by, None}
              /\ r.by # t
<1> DEFINE d == [device[t] EXCEPT !.worker = Cold, !.session = Honoured(device[t].cookie)]
<1>1. screen[t] = Closed /\ UNCHANGED <<acct, screen, minted, code, denied, losses>>
  BY DEF Reload
<1>2. device' = [device EXCEPT ![t] = d]
  BY DEF Reload, TypeInv, TypeOK
<1>3. /\ d \in Devices /\ d.cookie = device[t].cookie /\ d.worker = Cold
      /\ d.session <=> Honoured(device[t].cookie)
  BY Typed DEF Devices, Workers, Cold, Honoured
<1> HIDE DEF d
<1>4. device' \in [Tab -> Devices] /\ device'[t] = d /\ \A u \in Tab \ {t} : device'[u] = device[u]
  BY <1>2, <1>3 DEF TypeInv, TypeOK
<1>5. ASSUME NEW r \in wire'
      PROVE  \E p \in wire :
               /\ r \in Requests
               /\ r.kind = p.kind /\ r.m = p.m /\ r.exp = p.exp /\ r.cookie = p.cookie
               /\ r.presented = p.presented /\ r.by \in {p.by, None} /\ r.by # t
  <2>1. PICK p \in wire : r = [p EXCEPT !.by = IF @ = t THEN None ELSE @]
    BY <1>5 DEF Reload
  <2>2. p \in Requests
    BY DEF TypeInv, TypeOK
  <2>3. QED
    BY <2>1, <2>2, NoneIsApart DEF Requests
<1>6. QED
  BY <1>1, <1>3, <1>4, <1>5

LEMMA ForsakenTyped ==
  ASSUME TypeInv, Next
  PROVE  forsaken' \subseteq Nat
<1>1. \A t \in Tab : Forsakes(t) => screen[t].m \in Materials
  BY Typed DEF Forsakes, Fits, Shape, HasMaterial, Underway
<1>2. \A t \in Tab : Forsakes(t) => screen[t].m.key \in Nat
  BY <1>1 DEF Materials
<1>3. QED
  BY <1>2 DEF Next, TypeInv, TypeOK

LEMMA TypeLate ==
  ASSUME TypeInv, Late, forsaken' \subseteq Nat
  PROVE  TypeInv'
<1>1. PICK r \in wire :
        /\ wire' = wire \ {r} /\ UNCHANGED <<screen, minted, code, denied, losses>>
        /\ device' \in [Tab -> Devices]
        /\ \A t \in Tab : /\ device'[t].session = device[t].session
                          /\ \/ device'[t] = device[t]
                             \/ device'[t].cookie = acct'.version /\ acct' # None
        /\ acct' \in Rows \cup {None} /\ (acct # None => acct' # None)
  BY LateFacts
<1>2. ASSUME NEW t \in Tab PROVE Fits(screen[t], device[t])'
  <2>1. Fits(screen[t], device[t]) /\ screen'[t] = screen[t]
    BY <1>1 DEF TypeInv
  <2>2. acct' # None => acct'.version # 0
    BY <1>1 DEF Rows
  <2>3. QED
    BY <1>1, <2>1, <2>2 DEF Fits
<1>3. TypeOK'
  BY <1>1 DEF TypeInv, TypeOK
<1>4. acct' = None => \A q \in wire' : q.kind = "signup"
  BY <1>1 DEF TypeInv
<1>5. QED
  BY <1>2, <1>3, <1>4 DEF TypeInv

LEMMA TypeReload ==
  ASSUME TypeInv, NEW t \in Tab, Reload(t), forsaken' \subseteq Nat
  PROVE  TypeInv'
<1>1. /\ screen[t] = Closed /\ UNCHANGED <<acct, screen, minted, code, denied, losses>>
      /\ device' \in [Tab -> Devices] /\ \A u \in Tab \ {t} : device'[u] = device[u]
      /\ device'[t].cookie = device[t].cookie /\ (device'[t].session <=> Honoured(device[t].cookie))
      /\ wire' \subseteq Requests /\ \A r \in wire' : \E p \in wire : r.kind = p.kind
  BY ReloadFacts
<1>2. ASSUME NEW u \in Tab PROVE Fits(screen[u], device[u])'
  <2>1. Fits(screen[u], device[u]) /\ screen'[u] = screen[u]
    BY <1>1 DEF TypeInv
  <2>2. CASE u # t
    BY <1>1, <2>1, <2>2 DEF Fits
  <2>3. CASE u = t
    <3>1. Honoured(device[t].cookie) => device[t].cookie # 0 
      BY Typed DEF Honoured
    <3>2. Closed.flow = "none"
      BY DEF Closed
    <3>3. QED
      BY <1>1, <2>1, <2>3, <3>1, <3>2 DEF Fits
  <2>4. QED
    BY <2>2, <2>3
<1>3. TypeOK'
  BY <1>1 DEF TypeInv, TypeOK
<1>4. acct' = None => \A q \in wire' : q.kind = "signup"
  BY <1>1 DEF TypeInv
<1>5. QED
  BY <1>2, <1>3, <1>4 DEF TypeInv

LEMMA TypeNext == TypeInv /\ [Next]_vars => TypeInv'
<1> SUFFICES ASSUME TypeInv, [Next]_vars PROVE TypeInv'
  OBVIOUS
<1>1. CASE Next
  <2>1. forsaken' \subseteq Nat
    BY <1>1, ForsakenTyped
  <2>2. Step
    BY <1>1 DEF Next
  <2>3. QED
    BY <2>1, <2>2, StepCases, TabMoves, TypeMoves, TypeLate, TypeReload
<1>2. CASE UNCHANGED vars
  BY <1>2 DEF vars, flows, TypeInv, TypeOK, Fits
<1>3. QED
  BY <1>1, <1>2

-----------------------------------------------------------------------------
(* Materials.  A material is made once, by one tab, for one request; whatever  *)
(* shows up later under its id is that material, and every copy on the wire    *)
(* asks for the same thing.                                                *)

Known(m) ==
  \/ \E t \in Tab : m \in {screen[t].m, screen[t].resume}
  \/ \E r \in wire : m = r.m
  \/ acct # None /\ m = acct.m

Same(r, q)    == r.kind = q.kind /\ r.exp = q.exp /\ r.presented = q.presented
Presented(s)  == IF s.flow = "recovery" THEN s.served.id ELSE 0
Matches(r, s) == r.kind = s.flow /\ r.exp = s.exp /\ r.presented = Presented(s)
Signs(r)      == r.kind = "signup" /\ r.exp = 0 /\ r.presented = 0

MaterialInv ==
  /\ \A m \in Materials : Known(m) => m.id <= minted
  /\ \A a, b \in Materials : Known(a) /\ Known(b) /\ a.id = b.id => a = b
  /\ \A t, u \in Tab : t # u =>
       /\ screen[t].m # None => screen[t].m \notin {screen[u].m, screen[u].resume}
       /\ screen[t].resume # None => screen[t].resume \notin {screen[u].m, screen[u].resume}
  /\ \A r, q \in wire : r.m = q.m => Same(r, q)
  /\ \A t \in Tab, r \in wire : /\ r.m = screen[t].m => Matches(r, screen[t])
                                /\ r.m = screen[t].resume => Signs(r)

LEMMA RequestFields ==
  ASSUME NEW t \in Tab
  PROVE  LET r == Request(t)
         IN  /\ Matches(r, screen[t]) /\ r.m = screen[t].m /\ r.by = t
             /\ r.cookie = device[t].cookie /\ r.kind = screen[t].flow /\ r.exp = screen[t].exp
BY DEF Request, Matches, Presented

\* The material of the row is the old one, or that of the request accepted.
LEMMA AcctMaterial ==
  ASSUME TypeInv, NEW r \in Requests, acct' = acct \/ acct' = Written(r), acct' # None
  PROVE  acct'.m = r.m \/ (acct # None /\ acct'.m = acct.m)
BY WrittenRow

LEMMA KnownMoves ==
  ASSUME TypeInv, NEW t \in Tab, Moves(t), NEW m \in Materials, Known(m)'
  PROVE  Known(m) \/ (minted' = Fresh /\ m = screen'[t].m /\ m.id = Fresh)
<1> DEFINE s == screen[t]
           q == screen'[t]
<1>0. m # None
  BY NoneIsApart
<1>1. ASSUME NEW u \in Tab, m \in {screen[u].m, screen[u].resume}' PROVE Known(m) \/ (minted' = Fresh /\ m = q.m /\ m.id = Fresh)
  <2>1. CASE u # t
    BY <1>1, <2>1 DEF Moves, Alone, Known
  <2>2. CASE u = t
    <3>1. q.m \in {None, s.m, s.resume} \/ (q.m.id = Fresh /\ minted' = Fresh)
      BY DEF Moves, MaterialMoves
    <3>2. q.resume \in {None, s.m, s.resume}
      BY DEF Moves, MaterialMoves
    <3>3. QED
      BY <1>0, <1>1, <2>2, <3>1, <3>2 DEF Known
  <2>3. QED
    BY <2>1, <2>2
<1>2. ASSUME NEW r \in wire', m = r.m PROVE Known(m)
  <2>1. r \in wire \/ r.m = s.m
    BY <1>2, RequestFields DEF Moves, WireMoves
  <2>2. QED
    BY <1>2, <2>1 DEF Known
<1>3. ASSUME acct' # None, m = acct'.m PROVE Known(m)
  <2>1. CASE acct' = acct
    BY <1>3, <2>1 DEF Known
  <2>2. CASE screen[t].at = "sent" /\ acct' = Written(Request(t))
    <3>1. acct'.m = s.m \/ (acct # None /\ acct'.m = acct.m)
      BY <1>3, <2>2, RequestTyped, RequestFields, AcctMaterial
    <3>2. QED
      BY <1>3, <3>1 DEF Known
  <2>3. QED
    BY <2>1, <2>2 DEF Moves, AcctMoves
<1>4. QED
  BY <1>1, <1>2, <1>3 DEF Known

LEMMA MaterialTab ==
  ASSUME TypeInv, TypeInv', MaterialInv, NEW t \in Tab, Moves(t)
  PROVE  MaterialInv'
<1> DEFINE s == screen[t]
           q == screen'[t]
           New(m) == minted' = Fresh /\ m = q.m /\ m.id = Fresh
<1>0. /\ minted \in Nat /\ minted <= minted' /\ Fresh > minted
      /\ s \in Screens /\ q \in Screens /\ Fits(s, device[t]) /\ Shape(q)
      /\ \A u \in Tab \ {t} : screen'[u] = screen[u]
  BY Typed DEF Moves, Alone, Fits, Fresh, TypeInv, TypeOK
<1>1. \A m \in Materials : Known(m)' => Known(m) \/ New(m)
  BY KnownMoves
<1>2. \A m \in Materials : m.id \in Nat
  BY DEF Materials, Id
<1>3. \A m \in Materials : Known(m) => m.id <= minted /\ m.id # Fresh
  BY <1>0, <1>2 DEF MaterialInv
<1>4. q.m \in {None, s.m, s.resume} \/ (q.m.id = Fresh /\ minted' = Fresh /\ q.resume = s.resume
                                        /\ wire' = wire)
  BY DEF Moves, MaterialMoves
<1>5. q.resume \in {None, s.resume} \/ (q.resume = s.m /\ q.m = None /\ s.flow = "signup")
  BY DEF Moves, MaterialMoves
<1>6. /\ s.m # None => s.m \in Materials /\ Known(s.m)
      /\ s.resume # None => s.resume \in Materials /\ Known(s.resume)
      /\ \A u \in Tab : /\ screen[u].m # None => screen[u].m \in Materials /\ Known(screen[u].m)
                        /\ screen[u].resume # None => screen[u].resume \in Materials /\ Known(screen[u].resume)
  BY Typed DEF Known
<1>7. \A m \in Materials : Known(m)' => m.id <= minted'
  <2>1. minted' \in Nat
    BY DEF TypeInv, TypeOK
  <2>2. SUFFICES ASSUME NEW m \in Materials, Known(m)' PROVE m.id <= minted'
    OBVIOUS
  <2>3. CASE Known(m)
    BY <1>0, <1>2, <1>3, <2>1, <2>3
  <2>4. CASE New(m)
    BY <1>2, <2>1, <2>4
  <2>5. QED
    BY <1>1, <2>2, <2>3, <2>4
<1>8. \A a, b \in Materials : Known(a)' /\ Known(b)' /\ a.id = b.id => a = b
  BY <1>0, <1>1, <1>3 DEF MaterialInv
<1>9. ASSUME NEW u \in Tab \ {t}
      PROVE  /\ q.m # None => q.m \notin {screen[u].m, screen[u].resume}
             /\ q.resume # None => q.resume \notin {screen[u].m, screen[u].resume}
             /\ screen[u].m # None => screen[u].m \notin {q.m, q.resume}
             /\ screen[u].resume # None => screen[u].resume \notin {q.m, q.resume}
  <2>1. /\ s.m # None => s.m \notin {screen[u].m, screen[u].resume}
        /\ s.resume # None => s.resume \notin {screen[u].m, screen[u].resume}
    BY <1>9 DEF MaterialInv
  <2>2. q.m.id = Fresh => q.m \notin {screen[u].m, screen[u].resume} \/ q.m = None
    BY <1>3, <1>6
  <2>3. QED
    BY <1>4, <1>5, <2>1, <2>2
<1>10. ASSUME NEW a \in Tab, NEW b \in Tab, a # b
       PROVE  /\ screen'[a].m # None => screen'[a].m \notin {screen'[b].m, screen'[b].resume}
              /\ screen'[a].resume # None => screen'[a].resume \notin {screen'[b].m, screen'[b].resume}
  <2>1. CASE a = t
    BY <1>0, <1>9, <1>10, <2>1
  <2>2. CASE b = t
    BY <1>0, <1>9, <1>10, <2>2
  <2>3. CASE a # t /\ b # t
    BY <1>0, <1>10, <2>3 DEF MaterialInv
  <2>4. QED
    BY <2>1, <2>2, <2>3
<1>11. ASSUME NEW r \in wire' PROVE r \in wire \/ (r = Request(t) /\ s.m # None /\ s.at = "sent")
  <2>1. s.at = "sent" => s.m # None
    BY <1>0 DEF Fits, Shape, HasMaterial
  <2>2. QED
    BY <1>11, <2>1 DEF Moves, WireMoves
<1>12. ASSUME NEW r \in wire', r.m = s.m PROVE Matches(r, s)
  BY <1>11, <1>12, RequestFields DEF MaterialInv
<1>13. \A a, b \in wire' : a.m = b.m => Same(a, b)
  <2>1. SUFFICES ASSUME NEW a \in wire', NEW b \in wire', a.m = b.m PROVE Same(a, b)
    OBVIOUS
  <2>2. CASE a \in wire /\ b \in wire
    BY <2>1, <2>2 DEF MaterialInv
  <2>3. CASE a.m = s.m
    BY <1>12, <2>1, <2>3 DEF Same, Matches
  <2>4. QED
    BY <1>11, <2>1, <2>2, <2>3, RequestFields
<1>14. \A r \in wire' : r.m \in Materials /\ r.m # None
  BY NoneIsApart DEF TypeInv, TypeOK, Requests
<1>15. ASSUME NEW r \in wire', r.m = s.resume PROVE Signs(r)
  <2>1. CASE r \in wire
    BY <1>15, <2>1 DEF MaterialInv
  <2>2. CASE r \notin wire
    <3>1. r = Request(t) /\ s.resume # None
      BY <1>11, <1>14, <1>15, <2>2
    <3>2. s.flow = "signup" /\ s.exp = 0
      BY <1>0, <3>1 DEF Fits, Shape
    <3>3. QED
      BY <3>1, <3>2, RequestFields DEF Matches, Presented, Signs
  <2>3. QED
    BY <2>1, <2>2
<1>16. ASSUME NEW r \in wire', r.m = q.m PROVE Matches(r, q)
  <2>1. CASE q.m = s.m
    <3>1. /\ q.flow = s.flow /\ q.exp = s.exp
          /\ s.flow # "signup" => q.served = s.served
      <4>1. \/ q.flow = s.flow /\ q.exp = s.exp /\ (s.flow # "signup" => q.served = s.served)
            \/ q.m = s.resume /\ q.flow = "signup"
            \/ q.m.id = Fresh
        BY <1>14, <1>16 DEF Moves, MaterialMoves
      <4>2. q.m.id # Fresh
        BY <1>3, <1>6, <1>14, <1>16, <2>1
      <4>3. CASE q.m = s.resume /\ q.flow = "signup"
        <5>1. s.flow = "signup" /\ s.exp = 0
          BY <1>0, <1>14, <1>16, <4>3 DEF Fits, Shape
        <5>2. q.exp = 0
          BY <1>0, <4>3 DEF Shape
        <5>3. QED
          BY <4>3, <5>1, <5>2
      <4>4. QED
        BY <4>1, <4>2, <4>3
    <3>2. Matches(r, s)
      BY <1>12, <1>16, <2>1
    <3>3. QED
      BY <3>1, <3>2 DEF Matches, Presented
  <2>2. CASE q.m = s.resume /\ q.m # s.m
    <3>1. q.flow = "signup"
      <4>1. q.m.id # Fresh
        BY <1>3, <1>6, <1>14, <1>16, <2>2
      <4>2. QED
        BY <1>14, <1>16, <2>2, <4>1 DEF Moves, MaterialMoves
    <3>2. q.exp = 0
      BY <1>0, <3>1 DEF Shape
    <3>3. Signs(r)
      BY <1>15, <1>16, <2>2
    <3>4. QED
      BY <3>1, <3>2, <3>3 DEF Matches, Signs, Presented
  <2>3. CASE q.m \notin {s.m, s.resume}
    <3>1. q.m.id = Fresh /\ wire' = wire
      BY <1>4, <1>14, <1>16, <2>3
    <3>2. Known(r.m)
      BY <3>1 DEF Known
    <3>3. QED
      BY <1>3, <1>14, <1>16, <3>1, <3>2
  <2>4. QED
    BY <2>1, <2>2, <2>3
<1>17. ASSUME NEW r \in wire', r.m = q.resume PROVE Signs(r)
  <2>1. CASE q.resume = s.resume
    BY <1>15, <1>17, <2>1
  <2>2. CASE q.resume = s.m /\ s.flow = "signup"
    <3>1. Matches(r, s) /\ s.exp = 0
      BY <1>0, <1>12, <1>17, <2>2 DEF Fits, Shape
    <3>2. QED
      BY <2>2, <3>1 DEF Matches, Signs, Presented
  <2>3. QED
    BY <1>5, <1>14, <1>17, <2>1, <2>2
<1>18. ASSUME NEW u \in Tab \ {t}, NEW r \in wire'
       PROVE  /\ r.m = screen'[u].m => Matches(r, screen'[u])
              /\ r.m = screen'[u].resume => Signs(r)
  <2>1. CASE r \in wire
    BY <1>0, <1>18, <2>1 DEF MaterialInv
  <2>2. CASE r \notin wire
    <3>1. r.m = s.m /\ s.m # None
      BY <1>11, <1>18, <2>2, RequestFields
    <3>2. s.m \notin {screen[u].m, screen[u].resume}
      BY <1>18, <3>1 DEF MaterialInv
    <3>3. QED
      BY <1>0, <1>18, <3>1, <3>2
  <2>3. QED
    BY <2>1, <2>2
<1>19. ASSUME NEW u \in Tab, NEW r \in wire'
       PROVE  /\ r.m = screen'[u].m => Matches(r, screen'[u])
              /\ r.m = screen'[u].resume => Signs(r)
  BY <1>16, <1>17, <1>18, <1>19
<1>20. QED
  <2> HIDE DEF s, q, New
  <2>1. QED
    BY <1>7, <1>8, <1>10, <1>13, <1>19 DEF MaterialInv, Same, Matches, Presented, Signs

\* A step that moves no screen, and adds nothing to what is known.
LEMMA MaterialStill ==
  ASSUME MaterialInv, UNCHANGED <<screen, minted>>,
         \A r \in wire' : \E p \in wire : r.m = p.m /\ Same(r, p),
         acct' # None => Known(acct'.m)
  PROVE  MaterialInv'
<1>1. \A m \in Materials : Known(m)' => Known(m)
  BY DEF Known
<1>2. \A a, b \in wire' : a.m = b.m => Same(a, b)
  BY DEF MaterialInv, Same
<1>3. \A t \in Tab, r \in wire' : /\ r.m = screen[t].m => Matches(r, screen[t])
                                 /\ r.m = screen[t].resume => Signs(r)
  BY DEF MaterialInv, Same, Matches, Signs
<1>4. QED
  BY <1>1, <1>2, <1>3 DEF MaterialInv, Same, Matches, Signs, Presented

LEMMA MaterialNext ==
  ASSUME TypeInv, TypeInv', MaterialInv, [Next]_vars
  PROVE  MaterialInv'
<1>1. CASE Late
  <2>1. PICK r \in wire : /\ wire' = wire \ {r} /\ UNCHANGED <<screen, minted>>
                          /\ acct' = acct \/ acct' = Written(r)
    BY <1>1, LateFacts
  <2>2. acct' # None => Known(acct'.m)
    <3>1. r \in Requests
      BY DEF TypeInv, TypeOK
    <3>2. acct' # None => acct'.m = r.m \/ (acct # None /\ acct'.m = acct.m)
      BY <2>1, <3>1, AcctMaterial
    <3>3. QED
      BY <3>2 DEF Known
  <2>3. QED
    BY <2>1, <2>2, MaterialStill DEF Same
<1>2. ASSUME NEW t \in Tab, Reload(t) PROVE MaterialInv'
  <2>1. /\ UNCHANGED <<acct, screen, minted>>
        /\ \A r \in wire' : \E p \in wire : r.m = p.m /\ Same(r, p)
    BY <1>2, ReloadFacts DEF Same
  <2>2. acct' # None => Known(acct'.m)
    BY <2>1 DEF Known
  <2>3. QED
    BY <2>1, <2>2, MaterialStill
<1>3. ASSUME NEW t \in Tab, TabStep(t) PROVE MaterialInv'
  BY <1>3, TabMoves, MaterialTab
<1>4. CASE UNCHANGED vars
  BY <1>4 DEF vars, flows, MaterialInv, Known, Same, Matches, Presented, Signs
<1>5. QED
  BY <1>1, <1>2, <1>3, <1>4, StepCases DEF Next

-----------------------------------------------------------------------------
(* Versions.  A flow knows the account as of a version no newer than the       *)
(* row's, and as of the row's own version it knows the row; and a cookie is    *)
(* never newer than the row.                                               *)

\* A reset that landed left its mark, until something else is written.
ResetMark(s) ==
  s.flow = "recovery" /\ s.m # None /\ s.m = acct.m
    => acct.version = s.exp + 1 /\ acct.token = acct.m.id

VersionInv ==
  /\ acct # None => acct.token \in {0, acct.m.id}
  /\ \A t \in Tab :
       LET s == screen[t]
       IN  /\ acct # None => device[t].cookie <= acct.version
           /\ s.flow \in Started /\ s.at # "code" =>
                s.exp <= acct.version /\ (s.exp = acct.version => acct.m = s.served)
           /\ ResetMark(s)
  /\ \A r \in wire :
       /\ r.by # None /\ device[r.by].session => r.cookie <= device[r.by].cookie
       /\ acct # None => r.cookie <= acct.version
       /\ acct = None => r.cookie = 0
       /\ r.kind \in Started => r.exp <= acct.version

\* A change, or a rotation whose every send was answered, is nowhere but on its screen.
Unsent(t) ==
  LET s == screen[t]
  IN  s.m # None /\ (s.flow = "change" \/ (s.flow = "rotate" /\ ~s.ambiguous))
        => acct.m # s.m /\ \A r \in wire : r.m # s.m

SentInv == \A t \in Tab : Unsent(t)

\* How a write changes the row.
LEMMA RowMoves ==
  ASSUME TypeInv, NEW r \in Requests, acct' = acct \/ ("ok" \in Answers(r) /\ acct' = Written(r))
  PROVE  /\ acct # None => acct' # None /\ acct.version <= acct'.version
                           /\ (acct'.m = acct.m \/ acct'.version # acct.version)
         /\ acct # None /\ acct' # acct =>
              /\ acct'.version = acct.version + 1 /\ acct'.m = r.m /\ acct.m # r.m
              /\ acct'.token = IF r.kind = "recovery" THEN r.m.id ELSE 0
         /\ acct = None /\ acct' # None => acct'.m = r.m /\ acct'.token = 0 /\ acct'.version = 1
<1>1. acct # None => acct.version \in Nat
  BY DEF TypeInv, TypeOK, Rows
<1>2. QED
  BY <1>1, WrittenRow

LEMMA ResetWrites ==
  ASSUME TypeInv, MaterialInv, VersionInv, NEW r \in Requests, Known(r.m), r.kind = "recovery",
         acct # None, acct' # acct, "ok" \in Answers(r), acct' = Written(r)
  PROVE  acct'.version = r.exp + 1 /\ acct'.token = acct'.m.id
<1>1. acct'.version = acct.version + 1 /\ acct'.m = r.m /\ acct.m # r.m /\ acct'.token = r.m.id
  BY RowMoves
<1>2. acct.m \in Materials /\ Known(acct.m) /\ r.m \in Materials /\ r.m.id \in Id /\ acct.version \in Nat
  BY DEF Known, Requests, Materials, Rows, TypeInv, TypeOK
<1>3. r.m.id # 0
  BY <1>2 DEF Id
<1>4. ~OwnRewrap(r)
  BY <1>1, <1>2, <1>3 DEF OwnRewrap, VersionInv, MaterialInv
<1>5. "ok" \in ResetAnswer(r)
  BY DEF Answers
<1>6. acct.version = r.exp
  BY <1>4, <1>5 DEF ResetAnswer
<1>7. QED
  BY <1>1, <1>6

\* The row is left alone, or a request is accepted that agrees with its copies.
Accepts(r) ==
  /\ "ok" \in Answers(r) /\ acct' = Written(r) /\ Known(r.m)
  /\ acct = None => r.kind = "signup"
  /\ \A t \in Tab : screen[t].m = r.m => Matches(r, screen[t])
  /\ \A q \in wire : q.m = r.m => Same(q, r)

RowStep == acct' = acct \/ \E r \in Requests : Accepts(r)

LEMMA RowStepTab ==
  ASSUME TypeInv, MaterialInv, NEW t \in Tab, Moves(t)
  PROVE  RowStep
<1>1. CASE acct' = acct
  BY <1>1 DEF RowStep
<1>2. CASE acct' # acct
  <2> DEFINE r == Request(t)
  <2>1. screen[t].at = "sent" /\ "ok" \in Answers(r) /\ acct' = Written(r)
    BY <1>2 DEF Moves, AcctMoves
  <2>2. r \in Requests /\ (acct = None => r.kind = "signup") /\ screen[t].m # None
    BY <2>1, RequestTyped, Typed DEF Fits, Shape, HasMaterial
  <2>3. Matches(r, screen[t]) /\ r.m = screen[t].m
    BY RequestFields
  <2> HIDE DEF r
  <2>4. Known(r.m)
    BY <2>3 DEF Known
  <2>5. \A u \in Tab : screen[u].m = r.m => Matches(r, screen[u])
    BY <2>2, <2>3 DEF MaterialInv
  <2>6. \A q \in wire : q.m = r.m => Same(q, r)
    BY <2>3 DEF MaterialInv, Matches, Same
  <2>7. Accepts(r)
    BY <2>1, <2>2, <2>4, <2>5, <2>6 DEF Accepts, r
  <2>8. QED
    BY <2>2, <2>7 DEF RowStep
<1>3. QED
  BY <1>1, <1>2

LEMMA RowStepLate ==
  ASSUME TypeInv, MaterialInv, Late
  PROVE  RowStep
<1>1. PICK r \in wire : acct' = acct \/ ("ok" \in Answers(r) /\ acct' = Written(r))
  BY LateFacts
<1>2. r \in Requests /\ Known(r.m) /\ (acct = None => r.kind = "signup")
  BY DEF TypeInv, TypeOK, Known
<1>3. QED
  BY <1>1, <1>2 DEF RowStep, Accepts, MaterialInv, Same

LEMMA RowStepMoves ==
  ASSUME TypeInv, RowStep
  PROVE  /\ acct # None => acct' # None /\ acct.version <= acct'.version
                           /\ acct.version \in Nat
         /\ acct' # None => acct'.version \in Nat
         /\ acct # None /\ acct' # acct => acct'.version = acct.version + 1
         /\ acct = None /\ acct' # None => acct'.version = 1
<1>1. acct # None => acct.version \in Nat
  BY DEF TypeInv, TypeOK, Rows
<1>2. CASE acct' = acct
  BY <1>1, <1>2
<1>3. ASSUME NEW r \in Requests, Accepts(r)
      PROVE  /\ acct # None => acct' # None /\ acct.version <= acct'.version
                               /\ acct.version \in Nat
             /\ acct' # None => acct'.version \in Nat
             /\ acct # None /\ acct' # acct => acct'.version = acct.version + 1
             /\ acct = None /\ acct' # None => acct'.version = 1
  BY <1>1, <1>3, RowMoves DEF Accepts
<1>4. QED
  BY <1>2, <1>3 DEF RowStep

\* What holds of the flows and requests that a step leaves alone.
LEMMA VersionStill ==
  ASSUME TypeInv, MaterialInv, VersionInv, RowStep
  PROVE  /\ acct' # None => acct'.token \in {0, acct'.m.id}
         /\ \A t \in Tab :
              LET s == screen[t]
              IN  /\ acct' # None => device[t].cookie <= acct'.version
                  /\ s.flow \in Started /\ s.at # "code" =>
                       s.exp <= acct'.version /\ (s.exp = acct'.version => acct'.m = s.served)
                  /\ s.flow = "recovery" /\ s.m # None /\ s.m = acct'.m
                       => acct'.version = s.exp + 1 /\ acct'.token = acct'.m.id
         /\ \A q \in wire :
              /\ acct' # None => q.cookie <= acct'.version
              /\ q.kind \in Started => q.exp <= acct'.version
<1>1. /\ acct # None => acct' # None /\ acct.version <= acct'.version
      /\ acct # None /\ acct' # acct => acct'.version = acct.version + 1
      /\ acct # None => acct.version \in Nat
      /\ acct' # None => acct'.version \in Nat
  BY RowStepMoves
<1>3. acct' # None => acct'.token \in {0, acct'.m.id}
  <2>1. CASE acct' = acct
    BY <2>1 DEF VersionInv
  <2>2. ASSUME NEW r \in Requests, Accepts(r), acct' # None PROVE acct'.token \in {0, acct'.m.id}
    BY <2>2, RowMoves DEF Accepts, VersionInv
  <2>3. QED
    BY <2>1, <2>2 DEF RowStep
<1>4. ASSUME NEW t \in Tab
      PROVE  LET s == screen[t]
             IN  /\ acct' # None => device[t].cookie <= acct'.version
                 /\ s.flow \in Started /\ s.at # "code" =>
                      s.exp <= acct'.version /\ (s.exp = acct'.version => acct'.m = s.served)
  <2> DEFINE s == screen[t]
  <2>1. s.exp \in Nat /\ device[t].cookie \in Nat /\ Fits(s, device[t])
    BY Typed DEF Screens, Devices
  <2>2. CASE acct = None
    <3>1. s.flow \notin Started /\ device[t].cookie = 0
      BY <2>1, <2>2 DEF Fits, Started
    <3>2. QED
      BY <1>1, <2>2, <3>1
  <2>3. CASE acct # None
    BY <1>1, <2>1, <2>3 DEF VersionInv
  <2>4. QED
    BY <2>2, <2>3
<1>5. ASSUME NEW t \in Tab,
             screen[t].flow = "recovery", screen[t].m # None, screen[t].m = acct'.m
      PROVE  acct'.version = screen[t].exp + 1 /\ acct'.token = acct'.m.id
  <2>1. acct # None
    BY <1>5, Typed DEF Fits
  <2>2. CASE acct' = acct
    BY <1>5, <2>2 DEF VersionInv, ResetMark
  <2>3. CASE acct' # acct
    <3>1. PICK r \in Requests : Accepts(r)
      BY <2>3 DEF RowStep
    <3>2. acct'.m = r.m
      BY <2>1, <2>3, <3>1, RowMoves DEF Accepts
    <3>3. r.kind = "recovery" /\ r.exp = screen[t].exp
      BY <1>5, <3>1, <3>2 DEF Accepts, Matches
    <3>4. QED
      BY <2>1, <2>3, <3>1, <3>3, ResetWrites DEF Accepts
  <2>4. QED
    BY <2>2, <2>3
<1>6. ASSUME NEW q \in wire
      PROVE  /\ acct' # None => q.cookie <= acct'.version
             /\ q.kind \in Started => q.exp <= acct'.version
  <2>1. q.exp \in Nat /\ q.cookie \in Nat
    BY DEF TypeInv, TypeOK, Requests
  <2>2. CASE acct = None
    <3>1. q.kind \notin Started /\ q.cookie = 0
      BY <2>2 DEF TypeInv, VersionInv, Started
    <3>2. QED
      BY <1>1, <3>1
  <2>3. CASE acct # None
    BY <1>1, <2>1, <2>3 DEF VersionInv
  <2>4. QED
    BY <2>2, <2>3
<1>7. QED
  BY <1>3, <1>4, <1>5, <1>6


LEMMA VersionTab ==
  ASSUME TypeInv, TypeInv', MaterialInv, VersionInv, NEW t \in Tab, Moves(t)
  PROVE  VersionInv'
<1> DEFINE s == screen[t]
           q == screen'[t]
           d == device'[t]
<1>1. /\ s \in Screens /\ device[t] \in Devices /\ d \in Devices /\ Fits(s, device[t]) /\ minted \in Nat
      /\ \A u \in Tab \ {t} : screen'[u] = screen[u] /\ device'[u] = device[u]
  BY Typed DEF Moves, Alone, TypeInv, TypeOK
<1>2. RowStep
  BY RowStepTab
<1>3. /\ acct # None => acct' # None /\ acct.version <= acct'.version /\ acct.version \in Nat
      /\ acct' # None => acct'.version \in Nat
  BY <1>2, RowStepMoves
<1>4. acct' # None => d.cookie <= acct'.version
  BY <1>1, <1>2, <1>3, VersionStill DEF Moves, CookieMoves, Devices
<1>5. q.flow \in Started /\ q.at # "code" =>
        q.exp <= acct'.version /\ (q.exp = acct'.version => acct'.m = q.served)
  <2>1. SUFFICES ASSUME q.flow \in Started, q.at # "code"
                 PROVE  q.exp <= acct'.version /\ (q.exp = acct'.version => acct'.m = q.served)
    OBVIOUS
  <2>2. CASE s.flow = q.flow /\ s.at # "code" /\ q.exp = s.exp /\ q.served = s.served
    BY <1>2, <2>1, <2>2, VersionStill
  <2>3. CASE acct # None /\ q.exp = acct.version /\ q.served = acct.m /\ acct' = acct
    BY <1>3, <2>3
  <2>4. QED
    BY <2>1, <2>2, <2>3 DEF Moves, StartMoves
<1>6. ASSUME q.flow = "recovery", q.m # None, q.m = acct'.m
      PROVE  acct'.version = q.exp + 1 /\ acct'.token = acct'.m.id
  <2>1. CASE q.m = s.m /\ q.flow = s.flow /\ q.exp = s.exp
    BY <1>2, <1>6, <2>1, VersionStill
  <2>2. CASE q.m.id = Fresh /\ minted' = Fresh /\ acct' = acct
    <3>1. acct # None
      BY <1>6, <2>2, Typed DEF Fits, Moves
    <3>2. acct.m \in Materials /\ acct.m.id <= minted /\ acct.m.id \in Nat
      BY <3>1, Typed DEF MaterialInv, Known, Materials, Id
    <3>3. QED
      BY <1>1, <1>6, <2>2, <3>2 DEF Fresh
  <2>3. CASE q.m = s.resume /\ q.flow = "signup"
    BY <1>6, <2>3
  <2>4. QED
    BY <1>6, <2>1, <2>2, <2>3 DEF Moves, MaterialMoves
<1>7. ASSUME NEW r \in wire'
      PROVE  /\ r.by # None /\ device'[r.by].session => r.cookie <= device'[r.by].cookie
             /\ acct' # None => r.cookie <= acct'.version
             /\ acct' = None => r.cookie = 0
             /\ r.kind \in Started => r.exp <= acct'.version
  <2>1. CASE r \in wire
    <3>1. r \in Requests /\ r.cookie \in Nat
      BY <2>1 DEF TypeInv, TypeOK, Requests
    <3>2. /\ acct' # None => r.cookie <= acct'.version
          /\ r.kind \in Started => r.exp <= acct'.version
      BY <1>2, <2>1, VersionStill
    <3>3. acct' = None => r.cookie = 0
      BY <1>3, <2>1 DEF VersionInv
    <3>4. r.by # None /\ device[r.by].session => r.cookie <= device[r.by].cookie
      BY <2>1 DEF VersionInv
    <3>5. r.by # None /\ device'[r.by].session => r.cookie <= device'[r.by].cookie
      <4>1. CASE r.by = t
        BY <3>2, <3>4, <4>1 DEF Moves, CookieMoves
      <4>2. CASE r.by # t
        BY <1>1, <3>1, <3>4, <4>2 DEF Requests
      <4>3. QED
        BY <4>1, <4>2
    <3>6. QED
      BY <3>2, <3>3, <3>5
  <2>2. CASE r \notin wire
    <3>1. r = Request(t) /\ s.at = "sent" /\ acct' = acct
      BY <1>7, <2>2 DEF Moves, WireMoves
    <3>2. r.by = t /\ r.cookie = device[t].cookie /\ r.kind = s.flow /\ r.exp = s.exp
      BY <3>1, RequestFields
    <3>3. device[t].cookie \in Nat /\ (acct = None => device[t].cookie = 0)
      BY <1>1 DEF Devices, Fits
    <3>4. acct # None => device[t].cookie <= acct.version
      BY DEF VersionInv
    <3>5. d.session => r.cookie <= d.cookie
      BY <1>3, <3>1, <3>2, <3>3, <3>4 DEF Moves, CookieMoves
    <3>6. s.flow \in Started => s.exp <= acct.version
      BY <3>1 DEF VersionInv
    <3>7. QED
      BY <3>1, <3>2, <3>3, <3>4, <3>5, <3>6
  <2>3. QED
    BY <2>1, <2>2
<1>8. acct' # None => acct'.token \in {0, acct'.m.id}
  BY <1>2, VersionStill
<1>9. ASSUME NEW u \in Tab
      PROVE  LET c == screen'[u]
             IN  /\ acct' # None => device'[u].cookie <= acct'.version
                 /\ c.flow \in Started /\ c.at # "code" =>
                      c.exp <= acct'.version /\ (c.exp = acct'.version => acct'.m = c.served)
                 /\ c.flow = "recovery" /\ c.m # None /\ c.m = acct'.m
                      => acct'.version = c.exp + 1 /\ acct'.token = acct'.m.id
  <2>1. CASE u = t
    BY <1>4, <1>5, <1>6, <2>1
  <2>2. CASE u # t
    BY <1>1, <1>2, <2>2, VersionStill
  <2>3. QED
    BY <2>1, <2>2
<1>10. QED
  <2> HIDE DEF s, q, d
  <2>1. QED
    BY <1>7, <1>8, <1>9 DEF VersionInv, ResetMark

LEMMA VersionNext ==
  ASSUME TypeInv, TypeInv', MaterialInv, VersionInv, [Next]_vars
  PROVE  VersionInv'
<1>1. CASE Late
  <2>1. PICK r \in wire :
          /\ wire' = wire \ {r} /\ screen' = screen
          /\ \A t \in Tab : /\ device'[t].session = device[t].session
                            /\ \/ device'[t] = device[t]
                               \/ device'[t].cookie = acct'.version /\ acct' # None
    BY <1>1, LateFacts
  <2>2. RowStep
    BY <1>1, RowStepLate
  <2>3. /\ acct # None => acct' # None
        /\ acct' # None => acct'.version \in Nat
    BY <2>2, RowStepMoves
  <2>4. ASSUME NEW t \in Tab PROVE acct' # None => device'[t].cookie <= acct'.version
    BY <2>1, <2>2, <2>3, VersionStill
  <2>5. ASSUME NEW q \in wire'
        PROVE  /\ q.by # None /\ device'[q.by].session => q.cookie <= device'[q.by].cookie
               /\ acct' # None => q.cookie <= acct'.version
               /\ acct' = None => q.cookie = 0
               /\ q.kind \in Started => q.exp <= acct'.version
    <3>1. q \in wire /\ (q.by # None => q.by \in Tab)
      BY <2>1 DEF TypeInv, TypeOK, Requests
    <3>2. /\ acct' # None => q.cookie <= acct'.version
          /\ q.kind \in Started => q.exp <= acct'.version
      BY <2>2, <3>1, VersionStill
    <3>3. QED
      BY <2>1, <2>3, <3>1, <3>2 DEF VersionInv
  <2>6. QED
    BY <2>1, <2>2, <2>4, <2>5, VersionStill DEF VersionInv, ResetMark
<1>2. ASSUME NEW t \in Tab, Reload(t) PROVE VersionInv'
  <2>1. /\ UNCHANGED <<acct, screen>> /\ \A u \in Tab \ {t} : device'[u] = device[u]
        /\ device'[t].cookie = device[t].cookie
        /\ \A r \in wire' : \E p \in wire :
             /\ r.kind = p.kind /\ r.exp = p.exp /\ r.cookie = p.cookie
             /\ r.by \in {p.by, None} /\ r.by # t
    BY <1>2, ReloadFacts
  <2>2. \A u \in Tab : device'[u].cookie = device[u].cookie
    BY <2>1
  <2>3. ASSUME NEW r \in wire'
        PROVE  /\ r.by # None /\ device'[r.by].session => r.cookie <= device'[r.by].cookie
               /\ acct # None => r.cookie <= acct.version
               /\ acct = None => r.cookie = 0
               /\ r.kind \in Started => r.exp <= acct.version
    <3>1. PICK p \in wire : /\ r.kind = p.kind /\ r.exp = p.exp /\ r.cookie = p.cookie
                            /\ r.by \in {p.by, None} /\ r.by # t
      BY <2>1
    <3>2. p.by # None => p.by \in Tab
      BY DEF TypeInv, TypeOK, Requests
    <3>3. QED
      BY <2>1, <3>1, <3>2 DEF VersionInv
  <2>4. QED
    BY <2>1, <2>2, <2>3 DEF VersionInv, ResetMark
<1>3. ASSUME NEW t \in Tab, TabStep(t) PROVE VersionInv'
  BY <1>3, TabMoves, VersionTab
<1>4. CASE UNCHANGED vars
  BY <1>4 DEF vars, flows, VersionInv, ResetMark
<1>5. QED
  BY <1>1, <1>2, <1>3, <1>4, StepCases DEF Next

LEMMA SentNext ==
  ASSUME TypeInv, MaterialInv, SentInv, [Next]_vars
  PROVE  SentInv'
<1>0. ASSUME NEW u \in Tab, screen'[u] = screen[u],
             \A r \in wire' : r.m = screen[u].m => \E p \in wire : p.m = r.m,
             acct' = acct \/ acct'.m = acct.m \/ acct'.m # screen[u].m
      PROVE  Unsent(u)'
  BY <1>0 DEF SentInv, Unsent
<1>1. CASE Late
  <2>1. PICK r \in wire : /\ wire' = wire \ {r} /\ screen' = screen
                          /\ acct' = acct \/ acct' = Written(r)
                          /\ acct # None => acct' # None
    BY <1>1, LateFacts
  <2>2. r \in Requests
    BY DEF TypeInv, TypeOK
  <2>3. ASSUME NEW u \in Tab PROVE Unsent(u)'
    <3>1. CASE acct = None
      <4>1. screen[u].flow \notin {"change", "rotate"}
        BY <3>1, Typed DEF Fits
      <4>2. QED
        BY <2>1, <4>1 DEF Unsent
    <3>2. CASE acct # None /\ acct'.m = r.m
      <4>1. Unsent(u)
        BY DEF SentInv
      <4>2. QED
        BY <2>1, <3>2, <4>1 DEF Unsent
    <3>3. CASE acct # None /\ acct'.m = acct.m
      BY <1>0, <2>1, <3>3
    <3>4. QED
      BY <2>1, <2>2, <3>1, <3>2, <3>3, AcctMaterial
  <2>4. QED
    BY <2>3 DEF SentInv
<1>2. ASSUME NEW t \in Tab, Reload(t) PROVE SentInv'
  <2>1. UNCHANGED <<acct, screen>> /\ \A r \in wire' : \E p \in wire : r.m = p.m
    BY <1>2, ReloadFacts
  <2>2. QED
    BY <1>0, <2>1 DEF SentInv
<1>3. ASSUME NEW t \in Tab, TabStep(t) PROVE SentInv'
  <2> DEFINE s == screen[t]
             q == screen'[t]
  <2>1. Moves(t) /\ Fits(s, device[t]) /\ minted \in Nat
    BY <1>3, TabMoves, Typed DEF TypeInv, TypeOK
  <2>2. \A r \in wire' : r \in wire \/ (r.m = s.m /\ s.m # None)
    BY <2>1, RequestFields DEF Moves, WireMoves, Fits, Shape, HasMaterial
  <2>3. acct' = acct \/ acct'.m = acct.m \/ (acct'.m = s.m /\ s.m # None)
    <3>1. CASE acct' = acct
      BY <3>1
    <3>2. CASE s.at = "sent" /\ acct' = Written(Request(t))
      <4>1. Request(t) \in Requests /\ Request(t).m = s.m /\ s.m # None
        BY <2>1, <3>2, RequestTyped, RequestFields DEF Fits, Shape, HasMaterial
      <4>2. Written(Request(t)) # None
        BY <4>1, WrittenRow
      <4>3. QED
        BY <3>2, <4>1, <4>2, AcctMaterial
    <3>3. QED
      BY <2>1, <3>1, <3>2 DEF Moves, AcctMoves
  <2>4. ASSUME NEW u \in Tab \ {t} PROVE Unsent(u)'
    <3>1. s.m # None => s.m # screen[u].m
      BY <2>4 DEF MaterialInv
    <3>2. screen'[u] = screen[u]
      BY <2>1, <2>4 DEF Moves, Alone
    <3>3. QED
      BY <1>0, <2>2, <2>3, <3>1, <3>2
  <2>5. Unsent(t)'
    <3>1. SUFFICES ASSUME q.m # None, q.flow = "change" \/ (q.flow = "rotate" /\ ~q.ambiguous)
                   PROVE  acct'.m # q.m /\ \A r \in wire' : r.m # q.m
      BY DEF Unsent
    <3>2. ~q.ambiguous /\ q.m \in Materials /\ q.m.id \in Id
      <4>1. Shape(q) /\ q \in Screens
        BY <2>1 DEF Moves, Fits
      <4>2. QED
        BY <3>1, <4>1 DEF Shape, Screens, Materials
    <3>3. CASE /\ q.m = s.m /\ q.flow = s.flow /\ ~s.ambiguous /\ wire' = wire /\ acct' = acct
      BY <3>1, <3>3 DEF SentInv, Unsent
    <3>4. CASE q.m.id = Fresh /\ wire' = wire /\ acct' = acct
      <4>1. ~Known(q.m)
        BY <2>1, <3>2, <3>4 DEF MaterialInv, Fresh, Id
      <4>2. acct # None
        BY <2>1, <3>1, <3>4 DEF Moves, Fits
      <4>3. QED
        BY <3>4, <4>1, <4>2 DEF Known
    <3>5. QED
      BY <2>1, <3>1, <3>2, <3>3, <3>4 DEF Moves, MaterialMoves
  <2>6. QED
    BY <2>4, <2>5 DEF SentInv
<1>4. CASE UNCHANGED vars
  BY <1>4 DEF vars, flows, SentInv, Unsent
<1>5. QED
  BY <1>1, <1>2, <1>3, <1>4, StepCases DEF Next

-----------------------------------------------------------------------------
(* Requests that can no longer be accepted.                                *)

Dead(r) ==
  /\ acct # None
  /\ r.kind = "signup" => acct.m # r.m
  /\ r.kind = "recovery" => acct.version > r.exp /\ acct.token # r.m.id
  /\ r.kind \in {"change", "rotate"} => acct.version > r.exp \/ acct.version > r.cookie

\* Only an earlier write of the same reset is confirmed once the version has moved on.
LEMMA DeadRefused ==
  ASSUME TypeInv, VersionInv, MaterialInv, NEW r \in Requests, Dead(r), Known(r.m)
  PROVE  "ok" \notin Answers(r)
<1>1. r.kind \in Sending /\ r.exp \in Nat /\ r.cookie \in Nat /\ acct.version \in Nat
  BY DEF Requests, Dead, TypeInv, TypeOK, Rows
<1>2. CASE r.kind = "signup"
  BY <1>2 DEF Answers, RegisterAnswer, Dead
<1>3. CASE r.kind = "recovery"
  BY <1>1, <1>3 DEF Answers, ResetAnswer, OwnRewrap, Dead
<1>4. CASE r.kind = "change"
  BY <1>1, <1>4 DEF Answers, ChangeAnswer, Honoured, Dead
<1>5. CASE r.kind = "rotate"
  BY <1>1, <1>5 DEF Answers, RotateAnswer, Honoured, Dead
<1>6. QED
  BY <1>1, <1>2, <1>3, <1>4, <1>5 DEF Sending

LEMMA DeadStays ==
  ASSUME TypeInv, VersionInv, MaterialInv, RowStep, NEW r \in wire, Dead(r)
  PROVE  Dead(r)'
<1>1. /\ r \in Requests /\ r.m \in Materials /\ r.m.id \in Id /\ r.m.id # 0 /\ Known(r.m)
      /\ acct # None /\ acct.version \in Nat /\ r.exp \in Nat /\ r.cookie \in Nat
  BY DEF TypeInv, TypeOK, Requests, Materials, Dead, Rows, Known, Id
<1>2. CASE acct' = acct
  BY <1>2 DEF Dead
<1>3. CASE acct' # acct
  <2>1. PICK p \in Requests : Accepts(p)
    BY <1>3 DEF RowStep
  <2>2. /\ acct' # None /\ acct'.version = acct.version + 1 /\ acct'.m = p.m
        /\ acct'.token = IF p.kind = "recovery" THEN p.m.id ELSE 0
    BY <1>1, <1>3, <2>1, RowMoves DEF Accepts
  <2>3. Known(p.m) /\ p.m \in Materials /\ "ok" \in Answers(p)
    BY <2>1 DEF Accepts, Requests
  <2>4. r.kind \in {"signup", "recovery"} => p.m # r.m
    <3>1. SUFFICES ASSUME p.m = r.m, r.kind \in {"signup", "recovery"} PROVE FALSE
      OBVIOUS
    <3>2. p.kind = r.kind /\ p.exp = r.exp
      BY <2>1, <3>1 DEF Accepts, Same
    <3>3. CASE r.kind = "signup"
      BY <2>3, <3>1, <3>2, <3>3 DEF Answers, RegisterAnswer, Dead
    <3>4. CASE r.kind = "recovery"
      BY <1>1, <2>3, <3>1, <3>2, <3>4 DEF Answers, ResetAnswer, OwnRewrap, Dead
    <3>5. QED
      BY <3>1, <3>3, <3>4
  <2>5. r.kind = "recovery" => p.m.id # r.m.id
    BY <1>1, <2>3, <2>4 DEF MaterialInv
  <2>6. QED
    BY <1>1, <2>2, <2>4, <2>5 DEF Dead
<1>4. QED
  BY <1>2, <1>3

-----------------------------------------------------------------------------
(* What a flow may conclude.  Only without the firewall's 403s is a refusal    *)
(* an answer of the account's own.                                         *)

\* The material of the tab's request is not the account's, and will not be.
Refuted(t) ==
  /\ acct # None /\ acct.m # screen[t].m /\ screen[t].m # None
  /\ \A r \in wire : r.m = screen[t].m => Dead(r)

DeniedMoves(t) ==
  \/ denied' = denied
  \/ /\ denied' = denied \cup {screen[t].m.id} /\ Refuted(t) /\ UNCHANGED <<acct, wire>>
     /\ screen'[t].m = None /\ screen'[t].resume # screen[t].m

Lasting(id) == code[id] # "unseen" => code'[id] # "unseen"

\* What a tab drops, its user has seen or left, or it was denied, or it was an
\* earlier attempt of the sign-up that got the name.
CodeMoves(t) ==
  LET s == screen[t]
      q == screen'[t]
  IN  /\ \A id \in Id : Lasting(id)
      /\ s.m # None /\ s.m \notin {q.m, q.resume} =>
           code'[s.m.id] # "unseen" \/ s.m.id \in denied'
      /\ s.resume # None /\ s.resume \notin {q.m, q.resume} =>
           \/ code'[s.resume.id] # "unseen" \/ s.resume.id \in denied'
           \/ acct' # None /\ acct'.m = s.m /\ s.resume # s.m
      /\ q.at \in {"lost", "retry"} => code'[q.m.id] # "unseen"

\* A question about an attempt is put together with its code, or with a warning.
AskedInv == \A t \in Tab : screen[t].at \in {"lost", "retry"} => code[screen[t].m.id] # "unseen"

FateMoves(t) == DeniedMoves(t) /\ CodeMoves(t)

\* A step that drops nothing.
LEMMA FateQuiet ==
  ASSUME TypeInv, NEW t \in Tab, UNCHANGED <<code, denied>>,
         LET s == screen[t]
             q == screen'[t]
         IN  /\ s.m # None => s.m = q.m
             /\ s.resume # None => s.resume = q.resume
             /\ q.at \in {"lost", "retry"} => code[q.m.id] # "unseen"
  PROVE  FateMoves(t)
BY DEF FateMoves, DeniedMoves, CodeMoves, Lasting

LEMMA FateSignup ==
  ASSUME TypeInv, NEW t \in Tab,
         (\E pw \in Password : SignupSubmit(t, pw)) \/ LeaveSignup(t) \/ SignupChallenge(t)
  PROVE  FateMoves(t)
<1> DEFINE s == screen[t]
           q == screen'[t]
<1>0. s \in Screens /\ Fits(s, device[t])
  BY Typed
<1>1. ASSUME NEW pw \in Password, SignupSubmit(t, pw) PROVE FateMoves(t)
  <2>1. s.at = "form" /\ q.at = "sent" /\ q.resume = s.resume /\ UNCHANGED <<code, denied>>
    BY <1>0, <1>1 DEF SignupSubmit, Go, TypeInv, TypeOK, Screens
  <2>2. s.m = None
    BY <1>0, <2>1 DEF Fits, Shape, HasMaterial, Underway
  <2>3. QED
    BY <2>1, <2>2, FateQuiet
<1>2. CASE LeaveSignup(t)
  <2>1. s.m = None
    BY <1>0, <1>2 DEF LeaveSignup, Fits, Shape, HasMaterial, Underway
  <2>2. q = Closed /\ UNCHANGED denied
    BY <1>2, Going, ClosedFits DEF LeaveSignup
  <2>3. /\ \A id \in Id : Lasting(id)
        /\ s.resume # None => code'[s.resume.id] # "unseen"
    BY <1>2, Typed DEF LeaveSignup, Lasting, TypeInv, TypeOK, Fates
  <2>4. Closed.at = "form"
    BY DEF Closed
  <2>5. QED
    BY <2>1, <2>2, <2>3, <2>4 DEF FateMoves, DeniedMoves, CodeMoves
<1>3. CASE SignupChallenge(t)
  <2>1. /\ q.m = s.m /\ q.resume = s.resume /\ q.at = "served" /\ UNCHANGED <<code, denied>>
    BY <1>0, <1>3 DEF SignupChallenge, Go, TypeInv, TypeOK, Screens
  <2>2. QED
    BY <2>1, FateQuiet
<1>4. QED
  BY <1>1, <1>2, <1>3

\* A tab that held nothing starts, or goes on to, what holds nothing that was asked about.
LEMMA FateOpen ==
  ASSUME TypeInv, NEW t \in Tab, UNCHANGED <<code, denied>>,
         screen[t] = Closed \/ screen[t].at \in {"read", "review", "begun", "code"}
           \/ (screen[t].at = "served" /\ screen[t].flow # "signup"),
         screen'[t].at \notin {"lost", "retry"}
  PROVE  FateMoves(t)
<1>1. screen[t].m = None /\ screen[t].resume = None
  BY Typed, ClosedFits DEF Fits, Shape, HasMaterial, Underway, Closed
<1>2. QED
  BY <1>1, FateQuiet

LEMMA FateStart ==
  ASSUME TypeInv, NEW t \in Tab,
         \/ \E pw \in Password : LoginSubmit(t, pw) \/ ReauthSubmit(t, pw) \/ RecoverySubmit(t, pw)
                                 \/ ChangeSubmit(t, pw)
         \/ Preflight(t)
  PROVE  FateMoves(t)
<1>1. screen[t] = Closed /\ UNCHANGED <<code, denied>>
  BY DEF LoginSubmit, ReauthSubmit, RecoverySubmit, ChangeSubmit, Preflight
<1>2. screen'[t].at \in {"served", "read", "review"}
  <2>1. ASSUME NEW pw \in Password, LoginSubmit(t, pw) PROVE screen'[t].at = "served"
    BY <2>1 DEF LoginSubmit, Go, Closed, TypeInv, TypeOK
  <2>2. ASSUME NEW pw \in Password, ReauthSubmit(t, pw) PROVE screen'[t].at = "served"
    BY <2>2 DEF ReauthSubmit, Go, Closed, TypeInv, TypeOK
  <2>3. ASSUME NEW pw \in Password, RecoverySubmit(t, pw) PROVE screen'[t].at = "read"
    BY <2>3 DEF RecoverySubmit, Go, Closed, TypeInv, TypeOK
  <2>4. ASSUME NEW pw \in Password, ChangeSubmit(t, pw) PROVE screen'[t].at = "read"
    BY <2>4 DEF ChangeSubmit, Go, Closed, TypeInv, TypeOK
  <2>5. ASSUME Preflight(t) PROVE screen'[t].at = "review"
    BY <2>5 DEF Preflight, Go, Closed, TypeInv, TypeOK
  <2>6. QED
    BY <2>1, <2>2, <2>3, <2>4, <2>5
<1>3. QED
  BY <1>1, <1>2, FateOpen

LEMMA FateReset ==
  ASSUME TypeInv, NEW t \in Tab, AskedInv,
         RetryReset(t) \/ GiveUpReset(t) \/ SendRewrap(t) \/ RewrapFails(t) \/ Acknowledge(t)
  PROVE  FateMoves(t)
<1> DEFINE s == screen[t]
           q == screen'[t]
<1>0. s \in Screens /\ Fits(s, device[t]) /\ Closed.at = "form"
  BY Typed DEF Closed
<1>1. UNCHANGED <<code, denied>>
  BY DEF RetryReset, GiveUpReset, SendRewrap, RewrapFails, Acknowledge
<1>2. CASE RetryReset(t)
  <2>1. /\ q.m = s.m /\ q.resume = s.resume /\ q.at = "sent"
    BY <1>0, <1>2 DEF RetryReset, Go, TypeInv, TypeOK, Screens
  <2>2. QED
    BY <1>1, <2>1, FateQuiet
<1>3. CASE GiveUpReset(t)
  <2>1. s.at = "lost" /\ q = Closed
    BY <1>3, Going, ClosedFits DEF GiveUpReset
  <2>2. code[s.m.id] # "unseen" /\ s.resume = None
    BY <1>0, <2>1 DEF AskedInv, Fits, Shape
  <2>3. QED
    BY <1>0, <1>1, <2>1, <2>2 DEF FateMoves, DeniedMoves, CodeMoves, Lasting
<1>4. CASE SendRewrap(t)
  <2>1. s.at = "read" /\ q.at = "sent"
    BY <1>0, <1>4 DEF SendRewrap, Go, TypeInv, TypeOK, Screens
  <2>2. QED
    BY <1>1, <2>1, FateOpen
<1>5. CASE RewrapFails(t) \/ Acknowledge(t)
  <2>1. s.at \in {"read", "code"} /\ q = Closed
    BY <1>5, Going, ClosedFits DEF RewrapFails, Acknowledge
  <2>2. QED
    BY <1>0, <1>1, <2>1, FateOpen
<1>6. QED
  BY <1>2, <1>3, <1>4, <1>5

LEMMA FateLogin ==
  ASSUME TypeInv, NEW t \in Tab, NEW verified \in BOOLEAN, CompleteLogin(t, verified)
  PROVE  FateMoves(t)
<1> DEFINE s == screen[t]
           q == screen'[t]
<1>0. s \in Screens /\ Fits(s, device[t]) /\ Closed.at = "form" /\ Closed.m = None /\ Closed.resume = None
  BY Typed DEF Closed
<1>1. s.at = "served" /\ UNCHANGED denied
  BY DEF CompleteLogin
<1>2. CASE s.flow = "signup"
  <2>1. Show(t, s)
    BY <1>2 DEF CompleteLogin
  <2>2. s.m # None /\ s.resume = None
    BY <1>0, <1>1, <1>2 DEF Fits, Shape, HasMaterial
  <2>3. /\ code'[s.m.id] # "unseen" /\ \A id \in Id : Lasting(id)
        /\ q.m = None /\ q.at \in {"form", "code"}
    BY <1>0, <1>2, <2>1, <2>2, Showing DEF Lasting
  <2>4. QED
    BY <1>1, <2>2, <2>3 DEF FateMoves, DeniedMoves, CodeMoves
<1>3. CASE s.flow # "signup"
  <2>1. Go(t, Closed) /\ UNCHANGED code
    BY <1>3 DEF CompleteLogin
  <2>2. q = Closed
    BY <2>1, Going, ClosedFits
  <2>3. QED
    BY <1>0, <1>1, <1>3, <2>1, <2>2, FateOpen
<1>4. QED
  BY <1>2, <1>3

\* What every definite refusal needs.
LEMMA DenyMoves ==
  ASSUME TypeInv, NEW t \in Tab, Deny(screen[t].m), Refuted(t), UNCHANGED <<acct, wire, code>>,
         screen'[t].m = None, screen'[t].at \notin {"lost", "retry"}, 
         screen[t].resume \in {None, screen[t].m}, screen'[t].resume = None
  PROVE  FateMoves(t)
<1>1. denied' = denied \cup {screen[t].m.id}
  BY DEF Deny
<1>2. DeniedMoves(t)
  BY <1>1 DEF DeniedMoves, Refuted
<1>3. CodeMoves(t)
  BY <1>1 DEF CodeMoves, Lasting, Refuted
<1>4. QED
  BY <1>2, <1>3 DEF FateMoves

\* What every run needs that ends with its code on the screen.
LEMMA ShowMoves ==
  ASSUME TypeInv, NEW t \in Tab, screen[t].m # None, screen[t].flow # "none",
         screen[t].resume = None, Show(t, screen[t]), UNCHANGED denied
  PROVE  FateMoves(t)
<1>1. screen[t] \in Screens
  BY Typed
<1>2. /\ code'[screen[t].m.id] # "unseen" /\ \A id \in Id : Lasting(id)
      /\ screen'[t].at \in {"form", "code"}
  BY <1>1, Showing DEF Lasting, Closed
<1>3. QED
  BY <1>2 DEF FateMoves, DeniedMoves, CodeMoves

LEMMA FateSignupReceive ==
  ASSUME TypeInv, ~Throttles, NEW t \in Tab, NEW answer, Event(t, answer),
         SignupReceive(t, answer), screen[t].flow = "signup", MaterialInv
  PROVE  FateMoves(t)
<1> DEFINE s == screen[t]
           q == screen'[t]
           r == Request(t)
<1>1. /\ s \in Screens /\ Fits(s, device[t]) /\ s.m \in Materials /\ s.m # None /\ s.m.id \in Id
      /\ s.resume # None => s.resume.id \in Id
  BY EventFacts, Typed
<1>2. r \in Requests /\ r.m = s.m /\ r.kind = "signup" /\ s.at = "sent"
  BY RequestFields, RequestTyped DEF Event
<1>3. CASE answer = "ok"
  <2>1. q.m = s.m /\ q.at = "registered" /\ UNCHANGED <<code, denied>>
    BY <1>1, <1>3 DEF SignupReceive, Go, TypeInv, TypeOK, Screens
  <2>2. acct' = Written(r)
    BY <1>3 DEF Event
  <2>3. acct' # None /\ acct'.m = s.m
    BY <1>2, <2>2, WrittenRow
  <2>4. QED
    BY <2>1, <2>3 DEF FateMoves, DeniedMoves, CodeMoves, Lasting
<1>4. CASE answer = "lost"
  <2>1. /\ q.m = None /\ q.resume = s.m /\ q.at = "form" /\ UNCHANGED denied
        /\ code' = Overlaid(s, answer)
    BY <1>1, <1>4 DEF SignupReceive, Go, TypeInv, TypeOK, Screens
  <2>2. /\ \A id \in Id : Lasting(id)
        /\ s.resume # None /\ s.resume # s.m => code'[s.resume.id] # "unseen"
    BY <1>1, <1>4, <2>1 DEF Overlaid, Lasting, TypeInv, TypeOK
  <2>3. s.m \in {q.m, q.resume} /\ q.at \notin {"lost", "retry"}
        /\ (s.resume # None /\ s.resume \notin {q.m, q.resume} => s.resume # s.m)
    BY <2>1
  <2>4. CodeMoves(t)
    BY <2>2, <2>3 DEF CodeMoves
  <2>5. QED
    BY <2>1, <2>4 DEF FateMoves, DeniedMoves
<1>5. CASE answer = "taken"
  <2>1. /\ q.m = None /\ q.resume = Resumable(s, answer) /\ q.at = "form"
        /\ denied' = denied \cup {s.m.id} /\ code' = Overlaid(s, answer) /\ UNCHANGED <<acct, wire>>
    <3>1. Go(t, [s EXCEPT !.at = "form", !.resume = Resumable(s, answer), !.m = None])
          /\ denied' = denied \cup {s.m.id} /\ code' = Overlaid(s, answer)
      BY <1>5 DEF SignupReceive, Deny
    <3>2. q.m = None /\ q.resume = Resumable(s, answer) /\ q.at = "form"
      BY <1>1, <3>1 DEF Go, TypeInv, TypeOK, Screens
    <3>3. UNCHANGED <<acct, wire>>
      BY <1>5 DEF Event
    <3>4. QED
      BY <3>1, <3>2, <3>3
  <2>2. code' = code
    BY <1>5, <2>1 DEF Overlaid
  <2>3. acct # None /\ acct.m # s.m
    <3>1. answer \in RegisterAnswer(r)
      BY <1>2, <1>5 DEF Event, Answers
    <3>2. QED
      BY <1>2, <1>5, <3>1 DEF RegisterAnswer
  <2>4. Refuted(t)
    <3>1. ASSUME NEW p \in wire, p.m = s.m PROVE Dead(p)
      <4>1. p.kind = "signup"
        BY <3>1 DEF MaterialInv, Matches
      <4>2. QED
        BY <2>3, <3>1, <4>1 DEF Dead
    <3>2. QED
      BY <1>1, <2>3, <3>1 DEF Refuted
  <2>5. /\ q.resume # s.m
        /\ s.resume # None /\ s.resume # q.resume => s.resume = s.m
    BY <1>1, <1>5, <2>1 DEF Resumable
  <2>6. DeniedMoves(t)
    BY <2>1, <2>4, <2>5 DEF DeniedMoves
  <2>7. CodeMoves(t)
    BY <2>1, <2>2, <2>5 DEF CodeMoves, Lasting
  <2>8. QED
    BY <2>6, <2>7 DEF FateMoves
<1>6. answer \in {"ok", "lost", "taken"}
  <2>1. answer # "lost" => answer \in RegisterAnswer(r)
    BY <1>2 DEF Event, Answers
  <2>2. QED
    BY <2>1 DEF RegisterAnswer
<1>7. QED
  BY <1>3, <1>4, <1>5, <1>6

LEMMA FateRecoveryReceive ==
  ASSUME TypeInv, ~Throttles, NEW t \in Tab, NEW answer, Event(t, answer),
         RecoveryReceive(t, answer), screen[t].flow = "recovery", MaterialInv, VersionInv
  PROVE  FateMoves(t)
<1> DEFINE s == screen[t]
           q == screen'[t]
           r == Request(t)
<1>1. /\ s \in Screens /\ Fits(s, device[t]) /\ s.m \in Materials /\ s.m # None /\ s.m.id \in Id
      /\ acct # None /\ s.resume = None /\ s.at = "sent" /\ s.m.id # 0
  BY EventFacts DEF Fits, Shape, Id
<1>2. /\ r \in Requests /\ r.m = s.m /\ r.kind = "recovery" /\ r.exp = s.exp
      /\ r.presented = s.served.id
  BY <1>1, RequestFields, RequestTyped DEF Matches, Presented
<1>3. CASE answer = "ok"
  BY <1>1, <1>3, ShowMoves DEF RecoveryReceive
<1>4. CASE answer = "lost"
  <2>1. q.m = s.m /\ q.at = "lost" /\ code' = Warned(s.m.id) /\ UNCHANGED denied
    BY <1>1, <1>4 DEF RecoveryReceive, Go, TypeInv, TypeOK, Screens
  <2>2. code'[s.m.id] # "unseen" /\ \A id \in Id : Lasting(id)
    BY <1>1, <2>1 DEF Warned, Lasting, TypeInv, TypeOK
  <2>3. QED
    BY <1>1, <2>1, <2>2 DEF FateMoves, DeniedMoves, CodeMoves
<1>5. CASE answer = "unauthorized"
  <2>1. Go(t, Closed) /\ Deny(s.m) /\ UNCHANGED <<acct, wire, code>>
    BY <1>5 DEF RecoveryReceive, Event
  <2>2. q.m = None /\ q.resume = None /\ q.at = "form"
    BY <2>1, Going, ClosedFits DEF Closed
  <2>3. "unauthorized" \in ResetAnswer(r)
    BY <1>2, <1>5 DEF Event, Answers
  <2>4. ~(acct.m.id = r.presented /\ acct.version = r.exp) /\ ~OwnRewrap(r)
    BY <2>3 DEF ResetAnswer
  <2>5. acct.version > r.exp
    <3>1. s.exp <= acct.version /\ (s.exp = acct.version => acct.m = s.served)
      BY <1>1 DEF VersionInv, Started
    <3>2. acct.version \in Nat /\ s.exp \in Nat
      BY <1>1, Typed DEF Screens
    <3>3. QED
      BY <1>2, <2>4, <3>1, <3>2
  <2>6. acct.m # s.m
    BY <1>1, <1>2, <2>4 DEF VersionInv, ResetMark, OwnRewrap
  <2>7. acct.token # s.m.id
    <3>1. Known(acct.m) /\ Known(s.m) /\ acct.m \in Materials
      BY <1>1, Typed DEF Known
    <3>2. acct.m.id # s.m.id
      BY <1>1, <2>6, <3>1 DEF MaterialInv
    <3>3. QED
      BY <1>1, <3>2 DEF VersionInv
  <2>8. Refuted(t)
    <3>1. ASSUME NEW p \in wire, p.m = s.m PROVE Dead(p)
      <4>1. p.kind = "recovery" /\ p.exp = s.exp
        BY <3>1 DEF MaterialInv, Matches
      <4>2. QED
        BY <1>1, <1>2, <2>5, <2>7, <3>1, <4>1 DEF Dead
    <3>2. QED
      BY <1>1, <2>6, <3>1 DEF Refuted
  <2>9. QED
    BY <1>1, <2>1, <2>2, <2>8, DenyMoves
<1>6. answer \in {"ok", "lost", "unauthorized"}
  <2>1. answer # "lost" => answer \in ResetAnswer(r)
    BY <1>2 DEF Event, Answers
  <2>2. QED
    BY <2>1 DEF ResetAnswer
<1>7. QED
  BY <1>3, <1>4, <1>5, <1>6

\* A change, or a rotation all of whose sends were answered, has landed only if it was told.
LEMMA UnsentRefuted ==
  ASSUME TypeInv, SentInv, NEW t \in Tab, screen[t].m # None,
         screen[t].flow = "change" \/ (screen[t].flow = "rotate" /\ ~screen[t].ambiguous)
  PROVE  Refuted(t)
<1>1. acct # None
  BY Typed DEF Fits
<1>2. QED
  BY <1>1 DEF SentInv, Unsent, Refuted

LEMMA FateChangeReceive ==
  ASSUME TypeInv, NEW t \in Tab, NEW answer, Event(t, answer),
         ChangeReceive(t, answer), screen[t].flow = "change", SentInv
  PROVE  FateMoves(t)
<1> DEFINE s == screen[t]
           q == screen'[t]
<1>1. /\ s \in Screens /\ Fits(s, device[t]) /\ s.m \in Materials /\ s.m # None /\ s.m.id \in Id
      /\ acct # None /\ s.resume = None /\ s.at = "sent"
  BY EventFacts DEF Fits, Shape
<1>2. CASE answer = "ok"
  BY <1>1, <1>2, ShowMoves DEF ChangeReceive
<1>3. answer # "ok" => q.m = None /\ q.resume = None /\ q.at = "form"
  <2>1. answer # "ok" => Go(t, Closed)
    BY DEF ChangeReceive
  <2>2. QED
    BY <2>1, Going, ClosedFits DEF Closed
<1>4. CASE answer = "lost"
  <2>1. /\ UNCHANGED denied
        /\ code' = IF s.open THEN Warned(s.m.id) ELSE [code EXCEPT ![s.m.id] = "left"]
    BY <1>4 DEF ChangeReceive
  <2>2. code'[s.m.id] # "unseen" /\ \A id \in Id : Lasting(id)
    BY <1>1, <2>1 DEF Warned, Lasting, TypeInv, TypeOK
  <2>3. QED
    BY <1>1, <1>3, <1>4, <2>1, <2>2 DEF FateMoves, DeniedMoves, CodeMoves
<1>5. CASE answer \notin {"ok", "lost"}
  <2>1. Deny(s.m) /\ UNCHANGED <<acct, wire, code>>
    BY <1>5 DEF ChangeReceive, Event
  <2>2. QED
    BY <1>1, <1>3, <1>5, <2>1, UnsentRefuted, DenyMoves
<1>6. QED
  BY <1>2, <1>4, <1>5

\* Going on with what was sent.
LEMMA FateOnward ==
  ASSUME TypeInv, NEW t \in Tab, NEW q, Go(t, q), Onward(screen[t], q), UNCHANGED denied,
         \A id \in Id : Lasting(id),
         q.at = "retry" => code'[q.m.id] # "unseen"
  PROVE  FateMoves(t)
<1>1. screen'[t] = q /\ q.m = screen[t].m /\ q.resume = screen[t].resume /\ q.at # "lost"
  BY Going DEF Onward, Underway
<1>2. DeniedMoves(t)
  BY DEF DeniedMoves
<1>3. CodeMoves(t)
  BY <1>1 DEF CodeMoves
<1>4. QED
  BY <1>2, <1>3 DEF FateMoves

LEMMA FateStartRotation ==
  ASSUME TypeInv, NEW t \in Tab,
         (\E pw \in Password : StartRotation(t, pw)) \/ SendRotation(t)
           \/ \E unreachable \in BOOLEAN : PrepareFails(t, unreachable)
  PROVE  FateMoves(t)
<1> DEFINE s == screen[t]
           q == screen'[t]
<1>0. s \in Screens /\ Fits(s, device[t]) /\ Closed.at = "form"
  BY Typed DEF Closed
<1>1. ASSUME NEW pw \in Password, StartRotation(t, pw) PROVE FateMoves(t)
  <2>1. s.at = "review" /\ UNCHANGED <<code, denied>>
    BY <1>1 DEF StartRotation
  <2>2. CASE Go(t, Closed)
    <3>1. q.at = "form"
      BY <1>0, <2>2, Going, ClosedFits
    <3>2. QED
      BY <2>1, <3>1, FateOpen
  <2>3. CASE \/ Go(t, [s EXCEPT !.at = "begun", !.typed = pw])
             \/ Go(t, [s EXCEPT !.at = "begun", !.begun = TRUE, !.typed = pw])
    <3>1. q.at = "begun"
      BY <1>0, <2>3 DEF Go, TypeInv, TypeOK, Screens
    <3>2. QED
      BY <2>1, <3>1, FateOpen
  <2>4. QED
    BY <1>1, <2>2, <2>3 DEF StartRotation
<1>2. CASE SendRotation(t)
  <2>1. s.at = "begun" /\ q.at = "sent" /\ UNCHANGED <<code, denied>>
    BY <1>0, <1>2 DEF SendRotation, Go, TypeInv, TypeOK, Screens
  <2>2. QED
    BY <2>1, FateOpen
<1>3. ASSUME NEW unreachable \in BOOLEAN, PrepareFails(t, unreachable) PROVE FateMoves(t)
  <2>1. s.at = "begun" /\ UNCHANGED <<code, denied>> /\ BackToReview(t, s, unreachable)
    BY <1>3 DEF PrepareFails
  <2>2. s.served # None
    BY <1>0, <2>1 DEF Fits, Shape, HasServed
  <2>3. q = Closed \/ q.at = "review"
    BY <1>0, <2>1, <2>2, Back
  <2>4. QED
    BY <1>0, <2>1, <2>3, FateOpen
<1>4. QED
  BY <1>1, <1>2, <1>3

LEMMA FateHalt ==
  ASSUME TypeInv, NEW t \in Tab, NEW unreachable \in BOOLEAN,
         screen[t].flow = "rotate", screen[t].m # None,
         NEW s \in {screen[t], [screen[t] EXCEPT !.ambiguous = FALSE]}, Halt(t, s, unreachable),
         UNCHANGED <<acct, wire, code>>,
         ~s.ambiguous => Refuted(t)
  PROVE  FateMoves(t)
<1>1. screen[t] \in Screens /\ Fits(screen[t], device[t])
  BY Typed
<1>2. /\ s \in Screens /\ s.m = screen[t].m /\ s.served # None /\ screen[t].resume = None
      /\ s.ambiguous => s = screen[t]
  BY <1>1 DEF Screens, Fits, Shape, HasMaterial, HasServed, Underway
<1>3. CASE s.ambiguous
  <2> DEFINE q == [s EXCEPT !.at = "settling"]
  <2>1. Onward(s, q) /\ q.at = "settling"
    BY <1>1, <1>2, <1>3, OnwardFits DEF Fits, Underway
  <2>2. Go(t, q) /\ UNCHANGED denied
    BY <1>3 DEF Halt
  <2> HIDE DEF q
  <2>3. QED
    BY <1>2, <1>3, <2>1, <2>2, FateOnward DEF Lasting
<1>4. CASE ~s.ambiguous
  <2>1. BackToReview(t, s, unreachable) /\ Deny(screen[t].m) /\ Refuted(t)
    BY <1>2, <1>4 DEF Halt
  <2>2. screen'[t].m = None /\ screen'[t].resume = None /\ screen'[t].at \in {"form", "review"}
    BY <1>2, <2>1, Back DEF Closed
  <2>3. QED
    BY <1>2, <2>1, <2>2, DenyMoves
<1>5. QED
  BY <1>3, <1>4

LEMMA FateHandoffs ==
  ASSUME TypeInv, SentInv, NEW t \in Tab, AnswerHandoffs(t)
  PROVE  FateMoves(t)
<1> DEFINE s == screen[t]
<1>0. s \in Screens /\ Fits(s, device[t])
  BY Typed
<1>1. s.at = "handoffs" /\ s.flow = "rotate" /\ s.m # None /\ UNCHANGED <<acct, wire, code>>
  BY <1>0 DEF AnswerHandoffs, Fits, Shape, HasMaterial, Underway
<1>2. CASE Halt(t, s, TRUE) \/ Halt(t, s, FALSE)
  BY <1>1, <1>2, FateHalt, UnsentRefuted
<1>3. CASE ~(Halt(t, s, TRUE) \/ Halt(t, s, FALSE))
  <2> DEFINE n == Rounds(s.round)
             q == [s EXCEPT !.at = "sent", !.round = n]
  <2>1. n \in Nat
    BY <1>0 DEF Rounds, Screens
  <2>2. Go(t, q) /\ UNCHANGED denied
    BY <1>3 DEF AnswerHandoffs
  <2> HIDE DEF n
  <2>3. Onward(s, q) /\ q.at = "sent"
    BY <1>0, <1>1, <2>1, ResendFits DEF Fits
  <2> HIDE DEF q
  <2>4. QED
    BY <1>1, <2>2, <2>3, FateOnward DEF Lasting
<1>4. QED
  BY <1>2, <1>3

LEMMA FateRotateReceive ==
  ASSUME TypeInv, SentInv, NEW t \in Tab, NEW answer, Event(t, answer), RotateReceive(t, answer),
         screen[t].flow = "rotate"
  PROVE  FateMoves(t)
<1> DEFINE s == screen[t]
<1>1. /\ s \in Screens /\ Fits(s, device[t]) /\ s.m \in Materials /\ s.m # None /\ s.m.id \in Id
      /\ acct # None /\ s.resume = None /\ s.at = "sent" /\ Shape(s)
  BY EventFacts DEF Fits, Shape
<1>2. answer \notin {"ok", "lost"} => UNCHANGED <<acct, wire>>
  BY DEF Event
<1>3. CASE answer = "ok"
  BY <1>1, <1>3, ShowMoves DEF RotateReceive
<1>4. CASE answer = "handoff"
  <2> DEFINE q == [s EXCEPT !.at = "handoffs"]
  <2>1. Onward(s, q) /\ q.at = "handoffs"
    BY <1>1, OnwardFits DEF Underway
  <2>2. Go(t, q) /\ UNCHANGED <<code, denied>>
    BY <1>4 DEF RotateReceive
  <2> HIDE DEF q
  <2>3. QED
    BY <2>1, <2>2, FateOnward DEF Lasting
<1>5. CASE answer = "lost"
  <2> DEFINE q == [s EXCEPT !.at = "settling", !.ambiguous = TRUE]
  <2>1. Onward(s, q) /\ q.at = "settling"
    BY <1>1, OnwardFits DEF Underway
  <2>2. Go(t, q) /\ UNCHANGED <<code, denied>>
    BY <1>5 DEF RotateReceive
  <2> HIDE DEF q
  <2>3. QED
    BY <2>1, <2>2, FateOnward DEF Lasting
<1>6. CASE answer = "expired" /\ s.ambiguous
  <2> DEFINE q == [s EXCEPT !.at = "waiting"]
  <2>1. Onward(s, q) /\ q.at = "waiting"
    BY <1>1, OnwardFits DEF Underway
  <2>2. Go(t, q) /\ UNCHANGED <<code, denied>>
    BY <1>6 DEF RotateReceive
  <2> HIDE DEF q
  <2>3. QED
    BY <2>1, <2>2, FateOnward DEF Lasting
<1>7. CASE answer = "unauthorized" /\ s.ambiguous
  <2> DEFINE q == [s EXCEPT !.at = "settling", !.open = FALSE]
  <2>1. Onward(s, q) /\ q.at = "settling"
    BY <1>1, OnwardFits DEF Underway
  <2>2. Go(t, q) /\ UNCHANGED <<code, denied>>
    BY <1>7 DEF RotateReceive
  <2> HIDE DEF q
  <2>3. QED
    BY <2>1, <2>2, FateOnward DEF Lasting
<1>8. CASE answer = "unauthorized" /\ ~s.ambiguous
  <2>1. Go(t, Closed) /\ Deny(s.m) /\ UNCHANGED <<acct, wire, code>>
    BY <1>2, <1>8 DEF RotateReceive
  <2>2. screen'[t].m = None /\ screen'[t].resume = None /\ screen'[t].at = "form"
    BY <2>1, Going, ClosedFits DEF Closed
  <2>3. QED
    BY <1>1, <1>8, <2>1, <2>2, UnsentRefuted, DenyMoves
<1>9. CASE answer \notin {"ok", "handoff", "lost", "unauthorized"} /\ ~(answer = "expired" /\ s.ambiguous)
  <2>1. Halt(t, s, FALSE) /\ UNCHANGED <<acct, wire, code>>
    BY <1>2, <1>9 DEF RotateReceive
  <2>2. QED
    BY <1>1, <2>1, FateHalt, UnsentRefuted
<1>10. QED
  BY <1>3, <1>4, <1>5, <1>6, <1>7, <1>8, <1>9

LEMMA FateSettle ==
  ASSUME TypeInv, AskedInv, NEW t \in Tab,
         SettleOutcome(t) \/ StateAfterWait(t) \/ RetryRotation(t)
  PROVE  FateMoves(t)
<1> DEFINE s == screen[t]
<1>0. s \in Screens /\ Fits(s, device[t]) /\ Closed.at = "form" /\ Closed.m = None /\ Closed.resume = None
  BY Typed DEF Closed
<1>1. s.at \in {"settling", "waiting", "retry"}
  BY DEF SettleOutcome, StateAfterWait, RetryRotation
<1>2. /\ s.flow = "rotate" /\ s.m # None /\ s.m.id \in Id /\ s.resume = None /\ acct # None
      /\ Shape(s)
  BY <1>0, <1>1, Typed DEF Fits, Shape, HasMaterial, Underway
<1>3. CASE Landed(t, s) /\ UNCHANGED denied
  BY <1>2, <1>3, ShowMoves DEF Landed
<1>4. CASE SettleOutcome(t) /\ ~Landed(t, s)
  <2>1. /\ UNCHANGED denied
        /\ code' = [code EXCEPT ![s.m.id] = IF s.open THEN "shown" ELSE IF @ = "unseen" THEN "left" ELSE @]
        /\ Go(t, IF s.open THEN [s EXCEPT !.at = "retry"] ELSE Closed)
    BY <1>4 DEF SettleOutcome
  <2>2. code'[s.m.id] # "unseen" /\ \A id \in Id : Lasting(id)
    BY <1>2, <2>1 DEF Lasting, TypeInv, TypeOK
  <2>3. CASE s.open
    <3> DEFINE q == [s EXCEPT !.at = "retry"]
    <3>1. Onward(s, q)
      BY <1>0, <1>2, OnwardFits DEF Underway
    <3>2. Go(t, q)
      BY <2>1, <2>3
    <3>3. q.m = s.m
      BY <3>1 DEF Onward
    <3> HIDE DEF q
    <3>4. QED
      BY <2>1, <2>2, <3>1, <3>2, <3>3, FateOnward
  <2>4. CASE ~s.open
    <3>1. screen'[t] = Closed
      BY <2>1, <2>4, Going, ClosedFits
    <3>2. QED
      BY <1>0, <1>2, <2>1, <2>2, <3>1 DEF FateMoves, DeniedMoves, CodeMoves
  <2>5. QED
    BY <2>3, <2>4
<1>5. CASE StateAfterWait(t) /\ ~Landed(t, s)
  <2>1. UNCHANGED <<acct, wire>> /\ (\A r \in wire : r.m # s.m)
    BY <1>5 DEF StateAfterWait
  <2>2. CASE Go(t, [s EXCEPT !.at = "settling", !.open = FALSE]) /\ UNCHANGED <<code, denied>>
    <3> DEFINE q == [s EXCEPT !.at = "settling", !.open = FALSE]
    <3>1. Onward(s, q) /\ q.at = "settling"
      BY <1>0, <1>2, OnwardFits DEF Underway
    <3>2. Go(t, q)
      BY <2>2
    <3> HIDE DEF q
    <3>3. QED
      BY <2>2, <3>1, <3>2, FateOnward DEF Lasting
  <2>3. CASE Go(t, [s EXCEPT !.at = "settling"]) /\ UNCHANGED <<code, denied>>
    <3> DEFINE q == [s EXCEPT !.at = "settling"]
    <3>1. Onward(s, q) /\ q.at = "settling"
      BY <1>0, <1>2, OnwardFits DEF Underway
    <3>2. Go(t, q)
      BY <2>3
    <3> HIDE DEF q
    <3>3. QED
      BY <2>3, <3>1, <3>2, FateOnward DEF Lasting
  <2>4. CASE acct.m # s.m /\ Halt(t, [s EXCEPT !.ambiguous = FALSE], FALSE) /\ UNCHANGED code
    <3>1. Refuted(t)
      BY <1>2, <2>1, <2>4 DEF Refuted
    <3>2. QED
      BY <1>2, <2>1, <2>4, <3>1, FateHalt
  <2>5. QED
    BY <1>5, <2>2, <2>3, <2>4 DEF StateAfterWait, Landed
<1>6. CASE RetryRotation(t) /\ ~Landed(t, s)
  <2>1. s.at = "retry" /\ UNCHANGED <<denied, code>>
    BY <1>6 DEF RetryRotation
  <2>2. code[s.m.id] # "unseen"
    BY <2>1 DEF AskedInv
  <2>3. CASE Go(t, Closed)
    <3>1. screen'[t] = Closed
      BY <2>3, Going, ClosedFits
    <3>2. QED
      BY <1>0, <1>2, <2>1, <2>2, <3>1 DEF FateMoves, DeniedMoves, CodeMoves, Lasting
  <2>4. CASE Go(t, [s EXCEPT !.at = "sent", !.round = 1])
    <3> DEFINE q == [s EXCEPT !.at = "sent", !.round = 1]
    <3>1. Onward(s, q) /\ q.at = "sent"
      BY <1>0, <1>2, ResendFits
    <3>2. Go(t, q)
      BY <2>4
    <3> HIDE DEF q
    <3>3. QED
      BY <2>1, <3>1, <3>2, FateOnward DEF Lasting
  <2>5. QED
    BY <1>6, <2>3, <2>4 DEF RetryRotation
<1>7. SettleOutcome(t) \/ RetryRotation(t) => UNCHANGED denied
  BY DEF SettleOutcome, RetryRotation
<1>8. StateAfterWait(t) /\ Landed(t, s) => FateMoves(t)
  <2>1. SUFFICES ASSUME StateAfterWait(t), Landed(t, s) PROVE UNCHANGED denied \/ FateMoves(t)
    BY <1>3
  <2>2. CASE Halt(t, [s EXCEPT !.ambiguous = FALSE], FALSE) /\ acct.m # s.m
    <3>1. Refuted(t) /\ UNCHANGED <<acct, wire>>
      BY <1>2, <2>1, <2>2 DEF Refuted, StateAfterWait
    <3>2. QED
      BY <1>2, <2>1, <2>2, <3>1, FateHalt DEF StateAfterWait
  <2>3. QED
    BY <2>1, <2>2 DEF StateAfterWait
<1>9. QED
  BY <1>3, <1>4, <1>5, <1>6, <1>7, <1>8

LEMMA FateLeave ==
  ASSUME TypeInv, AskedInv, NEW t \in Tab, LeaveRotation(t) \/ Watch(t)
  PROVE  FateMoves(t)
<1> DEFINE s == screen[t]
           q == screen'[t]
           gone == [s EXCEPT !.open = FALSE]
<1>0. s \in Screens /\ Fits(s, device[t]) /\ Closed.at = "form" /\ Closed.m = None /\ Closed.resume = None
  BY Typed DEF Closed
<1>1. UNCHANGED <<code, denied>>
  BY DEF LeaveRotation, Watch
<1>2. /\ gone \in Screens /\ gone.m = s.m /\ gone.at = s.at /\ gone.resume = s.resume
  BY <1>0 DEF Screens
<1>3. \/ Go(t, gone) \/ Go(t, s)
      \/ Go(t, Closed) /\ s.flow \in {"change", "rotate"} /\ s.at \in {"review", "retry", "code"}
  <2> HIDE DEF gone
  <2>1. CASE LeaveRotation(t)
    BY <2>1 DEF LeaveRotation, gone
  <2>2. CASE Watch(t)
    BY <2>2 DEF Watch, gone
  <2>3. QED
    BY <2>1, <2>2
<1>4. CASE Go(t, gone) \/ Go(t, s)
  <2> HIDE DEF gone
  <2>1. q = gone \/ q = s
    BY <1>0, <1>2, <1>4, Going
  <2>2. q.m = s.m /\ q.at = s.at /\ q.resume = s.resume
    BY <1>2, <2>1
  <2>3. s.at \in {"lost", "retry"} => code[s.m.id] # "unseen"
    BY DEF AskedInv
  <2>4. QED
    BY <1>1, <2>2, <2>3, FateQuiet
<1>5. CASE Go(t, Closed) /\ s.flow \in {"change", "rotate"} /\ s.at \in {"review", "retry", "code"}
  <2>1. q = Closed
    BY <1>5, Going, ClosedFits
  <2>2. CASE s.at \in {"review", "code"}
    BY <1>0, <1>1, <2>1, <2>2, FateOpen
  <2>3. CASE s.at = "retry"
    <3>1. code[s.m.id] # "unseen" /\ s.resume = None
      BY <1>0, <2>3 DEF AskedInv, Fits, Shape
    <3>2. QED
      BY <1>0, <1>1, <2>1, <3>1 DEF FateMoves, DeniedMoves, CodeMoves, Lasting
  <2>4. QED
    BY <1>5, <2>2, <2>3
<1>6. QED
  BY <1>3, <1>4, <1>5

LEMMA FateTab ==
  ASSUME TypeInv, MaterialInv, VersionInv, SentInv, AskedInv, ~Throttles,
         NEW t \in Tab, TabStep(t)
  PROVE  FateMoves(t)
<1>1. ASSUME NEW answer, Event(t, answer) PROVE FateMoves(t)
  BY <1>1, FateSignupReceive, FateRecoveryReceive, FateChangeReceive, FateRotateReceive DEF Event, Receive
<1>2. CASE \E pw \in Password : \/ SignupSubmit(t, pw) \/ LoginSubmit(t, pw) \/ ReauthSubmit(t, pw)
                                \/ RecoverySubmit(t, pw) \/ ChangeSubmit(t, pw) \/ StartRotation(t, pw)
  BY <1>2, FateSignup, FateStart, FateStartRotation
<1>3. CASE Proceed(t)
  <2>1. CASE SignupChallenge(t) \/ CompleteLogin(t, TRUE) \/ SendRewrap(t) \/ RewrapFails(t)
    BY <2>1, FateSignup, FateLogin, FateReset
  <2>2. CASE SendRotation(t) \/ \E unreachable \in BOOLEAN : PrepareFails(t, unreachable)
    BY <2>2, FateStartRotation
  <2>3. CASE Answered(t)
    BY <1>1, <2>3, ServedEvent
  <2>4. CASE AnswerHandoffs(t) \/ SettleOutcome(t) \/ StateAfterWait(t)
    BY <2>4, FateHandoffs, FateSettle
  <2>5. QED
    BY <1>3, <2>1, <2>2, <2>3, <2>4 DEF Proceed
<1>4. CASE CompleteLogin(t, FALSE) \/ Lost(t)
  BY <1>1, <1>4, FateLogin, ServedEvent
<1>5. CASE LeaveSignup(t) \/ RetryReset(t) \/ GiveUpReset(t) \/ Preflight(t)
             \/ RetryRotation(t) \/ LeaveRotation(t) \/ Acknowledge(t) \/ Watch(t)
  BY <1>5, FateSignup, FateReset, FateStart, FateSettle, FateLeave
<1>6. QED
  BY <1>2, <1>3, <1>4, <1>5 DEF TabStep

-----------------------------------------------------------------------------
(* What was taken for refused is nowhere: not the account's, not on a screen,  *)
(* and on the wire only where the server will refuse it.                   *)

DeniedInv ==
  /\ acct # None => acct.m.id \notin denied
  /\ \A t \in Tab : /\ screen[t].m # None => screen[t].m.id \notin denied
                    /\ screen[t].resume # None => screen[t].resume.id \notin denied
  /\ \A r \in wire : r.m.id \in denied => Dead(r)
  /\ \A id \in denied : id <= minted

\* What is known, in the types of the materials.
LEMMA KnownParts ==
  ASSUME TypeInv
  PROVE  /\ acct # None => acct.m \in Materials /\ Known(acct.m) /\ acct.m.id \in Id
         /\ \A t \in Tab : /\ screen[t].m # None => screen[t].m \in Materials /\ Known(screen[t].m)
                                                    /\ screen[t].m.id \in Id
                           /\ screen[t].resume # None =>
                                screen[t].resume \in Materials /\ Known(screen[t].resume)
                                /\ screen[t].resume.id \in Id
         /\ \A r \in wire : r \in Requests /\ r.m \in Materials /\ Known(r.m) /\ r.m.id \in Id
<1>0. \A m \in Materials : m.id \in Id
  BY DEF Materials
<1>1. acct # None => acct.m \in Materials /\ Known(acct.m) /\ acct.m.id \in Id
  <2>1. acct # None => acct \in Rows
    BY DEF TypeInv, TypeOK
  <2>2. acct # None => acct.m \in Materials
    BY <2>1 DEF Rows
  <2>3. QED
    BY <1>0, <2>2 DEF Known
<1>2. ASSUME NEW t \in Tab
      PROVE  /\ screen[t].m # None => screen[t].m \in Materials /\ Known(screen[t].m)
                                      /\ screen[t].m.id \in Id
             /\ screen[t].resume # None =>
                  screen[t].resume \in Materials /\ Known(screen[t].resume)
                  /\ screen[t].resume.id \in Id
  BY Typed DEF Known
<1>3. ASSUME NEW r \in wire
      PROVE  r \in Requests /\ r.m \in Materials /\ Known(r.m) /\ r.m.id \in Id
  BY DEF Known, TypeInv, TypeOK, Requests, Materials
<1>4. QED
  BY <1>1, <1>2, <1>3

\* What a tab's step may make of the row.
LEMMA RowOfTab ==
  ASSUME TypeInv, NEW t \in Tab, Moves(t), acct' # None
  PROVE  \/ acct # None /\ acct'.m = acct.m
         \/ screen[t].m # None /\ acct'.m = screen[t].m
<1>1. CASE acct' = acct
  BY <1>1
<1>2. CASE screen[t].at = "sent" /\ acct' = Written(Request(t))
  <2>1. Request(t) \in Requests /\ Request(t).m = screen[t].m /\ screen[t].m # None
    BY <1>2, RequestTyped, RequestFields, Typed DEF Fits, Shape, HasMaterial
  <2>2. QED
    BY <1>2, <2>1, AcctMaterial
<1>3. QED
  BY <1>1, <1>2 DEF Moves, AcctMoves

\* A late request writes only what it may still write.
LEMMA LateWrites ==
  ASSUME TypeInv, MaterialInv, VersionInv, Late
  PROVE  /\ UNCHANGED <<screen, minted, code, denied>> /\ wire' \subseteq wire
         /\ acct' # None => \/ acct # None /\ acct'.m = acct.m
                            \/ \E r \in wire : acct'.m = r.m /\ ~Dead(r)
<1>1. PICK r \in wire : /\ wire' = wire \ {r} /\ UNCHANGED <<screen, minted, code, denied>>
                        /\ acct' = acct \/ ("ok" \in Answers(r) /\ acct' = Written(r))
  BY LateFacts
<1>2. r \in Requests /\ Known(r.m)
  BY KnownParts
<1>3. CASE acct' = acct
  BY <1>1, <1>3
<1>4. CASE "ok" \in Answers(r) /\ acct' = Written(r)
  <2>1. ~Dead(r)
    BY <1>2, <1>4, DeadRefused
  <2>2. QED
    BY <1>1, <1>2, <1>4, <2>1, AcctMaterial
<1>5. QED
  BY <1>1, <1>3, <1>4

LEMMA DeniedTab ==
  ASSUME TypeInv, MaterialInv, VersionInv, DeniedInv, NEW t \in Tab, Moves(t), FateMoves(t)
  PROVE  DeniedInv'
<1> DEFINE s == screen[t]
           q == screen'[t]
<1>1. /\ minted \in Nat /\ minted <= minted' /\ minted' \in Nat /\ RowStep
      /\ \A u \in Tab \ {t} : screen'[u] = screen[u]
      /\ \A id \in denied : id \in Nat /\ id <= minted
      /\ denied \subseteq Id
  BY RowStepTab DEF Moves, Alone, Fresh, TypeInv, TypeOK, DeniedInv, Id
<1>2. /\ q.m \in {None, s.m, s.resume} \/ (q.m.id = Fresh /\ minted' = Fresh)
      /\ q.resume \in {None, s.m, s.resume}
  BY DEF Moves, MaterialMoves
<1>3. Fresh \notin denied
  BY <1>1 DEF Fresh
<1>4. CASE denied' = denied
  <2>1. acct' # None => acct'.m.id \notin denied
    BY RowOfTab DEF DeniedInv
  <2>2. ASSUME NEW u \in Tab
        PROVE  /\ screen'[u].m # None => screen'[u].m.id \notin denied
               /\ screen'[u].resume # None => screen'[u].resume.id \notin denied
    <3>1. CASE u = t
      BY <1>2, <1>3, <3>1 DEF DeniedInv
    <3>2. CASE u # t
      BY <1>1, <3>2 DEF DeniedInv
    <3>3. QED
      BY <3>1, <3>2
  <2>3. ASSUME NEW r \in wire', r.m.id \in denied PROVE Dead(r)'
    <3>1. r \in wire \/ (r.m = s.m /\ s.m # None)
      BY RequestFields, Typed DEF Moves, WireMoves, Fits, Shape, HasMaterial
    <3>2. r \in wire /\ Dead(r)
      BY <2>3, <3>1 DEF DeniedInv
    <3>3. QED
      BY <1>1, <3>2, DeadStays
  <2>4. \A id \in denied' : id <= minted'
    BY <1>1, <1>4
  <2>5. QED
    BY <1>4, <2>1, <2>2, <2>3, <2>4 DEF DeniedInv
<1>5. CASE /\ denied' = denied \cup {s.m.id} /\ Refuted(t) /\ UNCHANGED <<acct, wire>>
           /\ q.m = None /\ q.resume # s.m
  <2>1. /\ s.m # None /\ acct # None /\ acct.m # s.m /\ s.m.id \in Id /\ s.m.id <= minted
        /\ \A m \in Materials : Known(m) /\ m # s.m => m.id # s.m.id
    BY <1>5, KnownParts DEF Refuted, MaterialInv
  <2>2. acct.m.id # s.m.id
    BY <2>1, KnownParts
  <2>3. ASSUME NEW u \in Tab
        PROVE  /\ screen'[u].m # None => screen'[u].m.id \notin denied'
               /\ screen'[u].resume # None => screen'[u].resume.id \notin denied'
    <3>1. CASE u = t
      <4>1. q.resume # None => q.resume = s.resume /\ s.resume # s.m
        BY <1>2, <1>5
      <4>2. s.resume # None /\ s.resume # s.m => s.resume.id # s.m.id
        BY <2>1, KnownParts
      <4>3. QED
        BY <1>5, <3>1, <4>1, <4>2 DEF DeniedInv
    <3>2. CASE u # t
      <4>1. s.m \notin {screen[u].m, screen[u].resume}
        BY <2>1, <3>2 DEF MaterialInv
      <4>2. /\ screen[u].m # None => screen[u].m.id # s.m.id
            /\ screen[u].resume # None => screen[u].resume.id # s.m.id
        BY <2>1, <4>1, KnownParts
      <4>3. QED
        BY <1>1, <1>5, <3>2, <4>2 DEF DeniedInv
    <3>3. QED
      BY <3>1, <3>2
  <2>4. ASSUME NEW r \in wire', r.m.id \in denied' PROVE Dead(r)'
    <3>1. r \in wire
      BY <1>5
    <3>2. r.m.id = s.m.id => r.m = s.m
      BY <2>1, <3>1, KnownParts
    <3>3. Dead(r)
      BY <1>5, <2>4, <3>1, <3>2 DEF DeniedInv, Refuted
    <3>4. QED
      BY <1>5, <3>3 DEF Dead
  <2>5. \A id \in denied' : id <= minted'
    BY <1>1, <1>5, <2>1 DEF Id
  <2>6. QED
    BY <1>5, <2>2, <2>3, <2>4, <2>5 DEF DeniedInv
<1>6. QED
  BY <1>4, <1>5 DEF FateMoves, DeniedMoves

LEMMA DeniedNext ==
  ASSUME TypeInv, MaterialInv, VersionInv, SentInv, AskedInv, DeniedInv, ~Throttles, [Next]_vars
  PROVE  DeniedInv'
<1>1. CASE Late
  <2>1. UNCHANGED <<screen, minted, denied>> /\ wire' \subseteq wire /\ RowStep
    BY <1>1, LateWrites, RowStepLate
  <2>2. acct' # None => acct'.m.id \notin denied
    BY <1>1, LateWrites DEF DeniedInv
  <2>3. \A r \in wire' : r.m.id \in denied => Dead(r)'
    BY <2>1, DeadStays DEF DeniedInv
  <2>4. QED
    BY <2>1, <2>2, <2>3 DEF DeniedInv
<1>2. ASSUME NEW t \in Tab, Reload(t) PROVE DeniedInv'
  <2>1. UNCHANGED <<acct, screen, minted, denied>>
    BY <1>2, ReloadFacts
  <2>2. ASSUME NEW r \in wire', r.m.id \in denied PROVE Dead(r)'
    <3>1. PICK p \in wire : r.kind = p.kind /\ r.m = p.m /\ r.exp = p.exp /\ r.cookie = p.cookie
      BY <1>2, ReloadFacts
    <3>2. Dead(p)
      BY <2>2, <3>1 DEF DeniedInv
    <3>3. QED
      BY <2>1, <3>1, <3>2 DEF Dead
  <2>3. QED
    BY <2>1, <2>2 DEF DeniedInv
<1>3. ASSUME NEW t \in Tab, TabStep(t) PROVE DeniedInv'
  BY <1>3, TabMoves, FateTab, DeniedTab
<1>4. CASE UNCHANGED vars
  BY <1>4 DEF vars, flows, DeniedInv, Dead
<1>5. QED
  BY <1>1, <1>2, <1>3, <1>4, StepCases DEF Next

-----------------------------------------------------------------------------
(* Recovery codes.  Whatever the account may still end up with has a code that *)
(* somebody holds, or has seen, or was warned of.                          *)

Accounted(id) == code[id] # "unseen" \/ Held(id)

CodeInv ==
  /\ CodeNotLost
  /\ \A r \in wire : Dead(r) \/ Accounted(r.m.id)

LEMMA AskedTab ==
  ASSUME TypeInv, AskedInv, NEW t \in Tab, Moves(t), FateMoves(t)
  PROVE  AskedInv'
<1>1. ASSUME NEW u \in Tab, screen'[u].at \in {"lost", "retry"} PROVE code'[screen'[u].m.id] # "unseen"
  <2>1. CASE u = t
    BY <1>1, <2>1 DEF FateMoves, CodeMoves
  <2>2. CASE u # t
    <3>1. screen'[u] = screen[u]
      BY <2>2 DEF Moves, Alone
    <3>2. screen[u].m # None
      BY <1>1, <3>1, Typed DEF Fits, Shape, HasMaterial, Underway
    <3>3. code[screen[u].m.id] # "unseen" /\ screen[u].m.id \in Id
      BY <1>1, <3>1, <3>2, KnownParts DEF AskedInv
    <3>4. QED
      BY <3>1, <3>3 DEF FateMoves, CodeMoves, Lasting
  <2>3. QED
    BY <2>1, <2>2
<1>2. QED
  BY <1>1 DEF AskedInv

\* What becomes of a material whose code is accounted for, in a tab's step.
LEMMA AccountedMoves ==
  ASSUME TypeInv, MaterialInv, NEW t \in Tab, Moves(t), FateMoves(t),
         NEW m \in Materials, Known(m), Accounted(m.id)
  PROVE  \/ Accounted(m.id)'
         \/ m.id \in denied'
         \/ m = screen[t].resume /\ acct' # None /\ acct'.m = screen[t].m /\ m # screen[t].m
<1> DEFINE s == screen[t]
           q == screen'[t]
<1>1. CASE code[m.id] # "unseen"
  <2>1. m.id \in Id
    BY DEF Materials
  <2>2. QED
    BY <1>1, <2>1 DEF FateMoves, CodeMoves, Lasting, Accounted
<1>2. ASSUME NEW u \in Tab, \/ screen[u].m # None /\ screen[u].m.id = m.id
                            \/ screen[u].resume # None /\ screen[u].resume.id = m.id
      PROVE  \/ Accounted(m.id)'
             \/ m.id \in denied'
             \/ m = screen[t].resume /\ acct' # None /\ acct'.m = screen[t].m /\ m # screen[t].m
  <2>1. \/ screen[u].m # None /\ screen[u].m = m
        \/ screen[u].resume # None /\ screen[u].resume = m
    BY <1>2, KnownParts DEF MaterialInv
  <2>2. CASE u # t
    <3>1. screen'[u] = screen[u]
      BY <2>2 DEF Moves, Alone
    <3>2. QED
      BY <2>1, <3>1 DEF Accounted, Held
  <2>3. CASE u = t /\ m \in {q.m, q.resume}
    <3>1. m # None
      BY NoneIsApart
    <3>2. QED
      BY <2>3, <3>1 DEF Accounted, Held
  <2>4. CASE u = t /\ m \notin {q.m, q.resume}
    BY <2>1, <2>4 DEF FateMoves, CodeMoves, Accounted
  <2>5. QED
    BY <2>2, <2>3, <2>4
<1>3. QED
  BY <1>1, <1>2 DEF Accounted, Held

LEMMA CodeTab ==
  ASSUME TypeInv, MaterialInv, VersionInv, DeniedInv', CodeInv, NEW t \in Tab, Moves(t), FateMoves(t)
  PROVE  CodeInv'
<1> DEFINE s == screen[t]
<1>1. ASSUME acct' # None PROVE CodeNotLost'
  <2>1. PICK m \in Materials : m = acct'.m /\ Known(m) /\ Accounted(m.id) /\ m.id \notin denied'
    <3>1. \/ acct # None /\ acct'.m = acct.m
          \/ s.m # None /\ acct'.m = s.m
      BY <1>1, RowOfTab
    <3>2. acct'.m.id \notin denied'
      BY <1>1 DEF DeniedInv
    <3>3. s.m # None => Accounted(s.m.id)
      BY DEF Accounted, Held
    <3>4. acct # None => Accounted(acct.m.id)
      BY DEF CodeInv, CodeNotLost, Accounted
    <3>5. QED
      BY <3>1, <3>2, <3>3, <3>4, KnownParts
  <2>2. Accounted(m.id)'
    BY <2>1, AccountedMoves
  <2>3. QED
    BY <2>1, <2>2 DEF CodeNotLost, Accounted, Held
<1>2. ASSUME NEW r \in wire' PROVE Dead(r)' \/ Accounted(r.m.id)'
  <2>1. r \in wire \/ (r.m = s.m /\ s.m # None)
    BY RequestFields, Typed DEF Moves, WireMoves, Fits, Shape, HasMaterial
  <2>2. CASE r \in wire /\ Dead(r)
    BY <2>2, RowStepTab, DeadStays
  <2>3. CASE (r \in wire /\ ~Dead(r)) \/ (r.m = s.m /\ s.m # None)
    <3>1. r.m \in Materials /\ Known(r.m) /\ Accounted(r.m.id)
      BY <2>3, KnownParts DEF CodeInv, Accounted, Held
    <3>2. r.m.id \in denied' => Dead(r)'
      BY DEF DeniedInv
    <3>3. CASE r.m = s.resume /\ acct' # None /\ acct'.m = s.m /\ r.m # s.m
      <4>1. r \in wire
        BY <2>1, <3>3
      <4>2. r.kind = "signup"
        BY <3>3, <4>1 DEF MaterialInv, Signs
      <4>3. QED
        BY <3>3, <4>2 DEF Dead
    <3>4. QED
      BY <3>1, <3>2, <3>3, AccountedMoves
  <2>4. QED
    BY <2>1, <2>2, <2>3
<1>3. QED
  BY <1>1, <1>2 DEF CodeInv, CodeNotLost, Accounted, Held

LEMMA CodeNext ==
  ASSUME TypeInv, MaterialInv, VersionInv, SentInv, AskedInv, DeniedInv', CodeInv, ~Throttles,
         [Next]_vars
  PROVE  AskedInv' /\ CodeInv'
<1>1. CASE Late
  <2>1. UNCHANGED <<screen, code>> /\ wire' \subseteq wire /\ RowStep
    BY <1>1, LateWrites, RowStepLate
  <2>2. AskedInv'
    BY <2>1 DEF AskedInv
  <2>3. \A id : Accounted(id) => Accounted(id)'
    BY <2>1 DEF Accounted, Held
  <2>4. acct' # None => Accounted(acct'.m.id)
    BY <1>1, LateWrites DEF CodeInv, CodeNotLost, Accounted
  <2>5. \A r \in wire' : Dead(r)' \/ Accounted(r.m.id)
    BY <2>1, DeadStays DEF CodeInv
  <2>6. QED
    BY <2>2, <2>3, <2>4, <2>5 DEF CodeInv, CodeNotLost, Accounted, Held
<1>2. ASSUME NEW t \in Tab, Reload(t) PROVE AskedInv' /\ CodeInv'
  <2>1. UNCHANGED <<acct, screen, code>>
    BY <1>2, ReloadFacts
  <2>2. ASSUME NEW r \in wire' PROVE Dead(r)' \/ Accounted(r.m.id)
    <3>1. PICK p \in wire : r.kind = p.kind /\ r.m = p.m /\ r.exp = p.exp /\ r.cookie = p.cookie
      BY <1>2, ReloadFacts
    <3>2. Dead(p) \/ Accounted(p.m.id)
      BY DEF CodeInv
    <3>3. QED
      BY <2>1, <3>1, <3>2 DEF Dead
  <2>3. QED
    BY <2>1, <2>2 DEF AskedInv, CodeInv, CodeNotLost, Accounted, Held
<1>3. ASSUME NEW t \in Tab, TabStep(t) PROVE AskedInv' /\ CodeInv'
  BY <1>3, TabMoves, FateTab, AskedTab, CodeTab
<1>4. CASE UNCHANGED vars
  BY <1>4 DEF vars, flows, AskedInv, CodeInv, CodeNotLost, Accounted, Held, Dead
<1>5. QED
  BY <1>1, <1>2, <1>3, <1>4, StepCases DEF Next

\* What holds whatever the network answers.
Agreed == TypeInv /\ MaterialInv /\ VersionInv /\ SentInv

-----------------------------------------------------------------------------
(* Keys.  A rotation's new pair is known to its tab alone until it is sent,    *)
(* and again once every send was refused; and what a tab signs with is what    *)
(* the account has, but for a pair of its own under way, or one given up on.   *)

Sent(t) == screen[t].flow = "rotate" /\ screen[t].m # None

Private(k, t) ==
  /\ k \notin forsaken
  /\ acct # None => acct.m.key # k
  /\ \A r \in wire : r.m.key # k
  /\ \A u \in Tab \ {t} :
       /\ screen[u].m # None => screen[u].m.key # k
       /\ screen[u].served # None => screen[u].served.key # k
       /\ screen[u].resume # None => screen[u].resume.key # k
       /\ device[u].worker.pending # None => device[u].worker.pending.key # k
  /\ screen[t].served # None => screen[t].served.key # k

\* One account, one user.
UserInv ==
  /\ \A t \in Tab :
       LET s == screen[t]
       IN  /\ s.served # None => acct # None /\ s.served.user = acct.m.user
           /\ s.m # None /\ s.flow \in Started => s.m.user = acct.m.user
  /\ \A r \in wire : r.kind \in Started => r.m.user = acct.m.user

\* Keys are minted, and only a rotation changes them.
KeyInv ==
  /\ \A m \in Materials : Known(m) => m.key <= minted
  /\ \A k \in forsaken : k <= minted
  /\ \A t \in Tab :
       LET s == screen[t]
           w == device[t].worker
       IN  /\ s.served # None => s.served.key <= minted
           /\ w.live # None => w.live.key <= minted
           /\ w.pending # None => w.pending.key <= minted
           /\ s.m # None /\ s.flow \in {"recovery", "change"} => s.m.key = s.served.key
           /\ Sent(t) => s.m.key # s.served.key
  /\ \A r \in wire : r.kind \in {"recovery", "change"} /\ r.exp = acct.version =>
       r.m.key = acct.m.key

\* What a tab holds of a pair to come.
Holds(t) ==
  LET s == screen[t]
      w == device[t].worker
  IN  /\ w.pending # None => w.live # None /\ w.live.key # w.pending.key /\ device[t].session
      /\ s.at = "review" => s.open
      /\ s.flow = "rotate" /\ s.at # "code" /\ s.open => device[t].session
      /\ s.flow = "reauth" => w.live = None
      /\ s.flow = "login" => ~device[t].session
      /\ Sent(t) => w.live = None \/ w.pending = Pair(s.m.user, s.m.key)
      /\ Sent(t) /\ ~s.ambiguous => Private(s.m.key, t)
      /\ s.flow = "rotate" /\ s.begun /\ ~Sent(t) /\ w.pending # None => Private(w.pending.key, t)

HoldInv == \A t \in Tab : Holds(t)

\* What a tab signs with, while its session counts.
Signing(t) ==
  LET s == screen[t]
      w == device[t].worker
  IN  device[t].session /\ Honoured(device[t].cookie) =>
        /\ w.live # None /\ acct.m.key \notin forsaken /\ ~(Sent(t) /\ acct.m.key = s.m.key)
             => w.live = Pair(acct.m.user, acct.m.key)
        /\ s.flow = "reauth" => s.served.key = acct.m.key \/ acct.m.key \in forsaken

\* A rotation on the wire is still its tab's, or given up on, or of no consequence.
Followed(r) ==
  \/ Dead(r)
  \/ r.m.key \in forsaken
  \/ \E t \in Tab : r.by \in {t, None} /\ Sent(t) /\ screen[t].m = r.m

RegInv ==
  /\ \A t \in Tab : Signing(t)
  /\ \A r \in wire : r.kind = "rotate" => Followed(r)

LiveInv == UserInv /\ KeyInv /\ HoldInv /\ RegInv

\* A new material's keys.
FreshKey(t) ==
  LET s == screen[t]
      q == screen'[t]
  IN  /\ minted' = Fresh
      /\ \/ q.flow = "signup" /\ q.m.key = Fresh
         \/ /\ q.flow = s.flow /\ q.served = s.served /\ s.served # None /\ q.m.user = s.served.user
            /\ \/ q.flow \in {"recovery", "change"} /\ q.m.key = s.served.key
               \/ /\ q.flow = "rotate" /\ ~Sent(t) /\ s.begun
                  /\ device'[t].worker = device[t].worker
                  /\ device[t].worker.pending = Pair(q.m.user, q.m.key)

\* A pair that is minted, kept, or taken back to the review.
PendingMoves(t) ==
  LET s == screen[t]
      q == screen'[t]
      w == device[t].worker
      v == device'[t].worker
  IN  v.pending # None =>
        /\ v.live = w.live /\ w.live # None /\ device'[t].session
        /\ \/ minted' = Fresh /\ v.pending.key = Fresh /\ UNCHANGED <<acct, wire>>
              /\ ~Sent(t) /\ q.served = s.served
           \/ /\ v.pending = w.pending
              /\ q.flow = "rotate" /\ q.begun /\ q.m = None =>
                   /\ s.flow = "rotate" /\ q.served = s.served /\ UNCHANGED <<acct, wire>> /\ ~Forsakes(t)
                   /\ (s.begun /\ s.m = None) \/ (s.m # None /\ ~s.ambiguous)

\* What a rotation lets go of has landed, or is ruled out, or is given up on.
Releases(t) ==
  Sent(t) => \/ Sent(t)' /\ screen'[t].m = screen[t].m
             \/ screen[t].m.key \in forsaken'
             \/ \A r \in wire' : r.m = screen[t].m => Dead(r)'

KeyMoves(t) ==
  LET s == screen[t]
      q == screen'[t]
      w == device[t].worker
      v == device'[t].worker
  IN  /\ q.served # None => q.served = s.served \/ (acct # None /\ q.served = acct.m)
      /\ q.m # None /\ q.m \notin {s.m, s.resume} => FreshKey(t)
      /\ v.live # None => v.live \in {w.live, w.pending}
                          \/ (s.served # None /\ v.live.key = s.served.key)
      /\ PendingMoves(t)
      /\ q.at = "review" => q.open
      /\ q.flow = "rotate" /\ q.at # "code" /\ q.open => device'[t].session
      /\ q.flow = "reauth" => v.live = None
      /\ q.flow = "login" => ~device'[t].session
      /\ Sent(t)' /\ q.m = s.m => v \in {w, Cold} /\ ~Forsakes(t)
      /\ Releases(t)
      /\ Signing(t)'

\* What a write needs and does.
LEMMA Writes ==
  ASSUME TypeInv, MaterialInv, VersionInv, NEW r \in Requests, Known(r.m), "ok" \in Answers(r),
         acct' = Written(r), acct # None, acct' # acct
  PROVE  /\ r.kind \in Started /\ r.exp = acct.version /\ ~Dead(r)
         /\ acct'.m = r.m /\ acct.m # r.m /\ acct'.version = acct.version + 1
         /\ r.kind \in {"change", "rotate"} => r.cookie = acct.version
<1>1. /\ acct'.m = r.m /\ acct.m # r.m /\ acct'.version = acct.version + 1
  BY RowMoves
<1>2. ~Dead(r)
  BY DeadRefused
<1>3. r.kind \in Sending /\ r.exp \in Nat /\ acct.version \in Nat
  BY DEF Requests, TypeInv, TypeOK, Rows
<1>4. r.kind # "signup"
  BY <1>1 DEF Answers, RegisterAnswer
<1>5. CASE r.kind = "recovery"
  <2>1. acct'.version = r.exp + 1
    BY <1>5, ResetWrites
  <2>2. QED
    BY <1>1, <1>2, <1>3, <1>5, <2>1 DEF Started
<1>6. CASE r.kind = "change"
  <2>1. "ok" \in ChangeAnswer(r)
    BY <1>6 DEF Answers
  <2>2. QED
    BY <1>1, <1>2, <1>6, <2>1 DEF ChangeAnswer, Honoured, Started
<1>7. CASE r.kind = "rotate"
  <2>1. "ok" \in RotateAnswer(r)
    BY <1>7 DEF Answers
  <2>2. QED
    BY <1>1, <1>2, <1>7, <2>1 DEF RotateAnswer, Honoured, Started
<1>8. QED
  BY <1>3, <1>4, <1>5, <1>6, <1>7 DEF Sending

\* A write of the account that exists is a tab's, of what its screen holds.
LEMMA TabWrites ==
  ASSUME TypeInv, MaterialInv, VersionInv, NEW t \in Tab, Moves(t), acct # None, acct' # acct
  PROVE  LET s == screen[t]
         IN  /\ s.at = "sent" /\ s.flow \in Started /\ s.m # None /\ s.served # None
             /\ s.exp = acct.version /\ acct.m = s.served
             /\ acct'.m = s.m /\ acct.m # s.m /\ acct'.version = acct.version + 1
             /\ s.flow \in {"change", "rotate"} => device[t].cookie = acct.version
<1> DEFINE r == Request(t)
<1>1. screen[t].at = "sent" /\ "ok" \in Answers(r) /\ acct' = Written(r)
  BY DEF Moves, AcctMoves
<1>2. r \in Requests /\ r.m = screen[t].m /\ screen[t].m # None /\ Known(r.m)
  BY <1>1, RequestTyped, RequestFields, KnownParts, Typed DEF Fits, Shape, HasMaterial
<1>3. /\ r.kind = screen[t].flow /\ r.exp = screen[t].exp /\ r.cookie = device[t].cookie
  BY RequestFields
<1> HIDE DEF r
<1>4. /\ r.kind \in Started /\ r.exp = acct.version
      /\ acct'.m = r.m /\ acct.m # r.m /\ acct'.version = acct.version + 1
      /\ r.kind \in {"change", "rotate"} => r.cookie = acct.version
  BY <1>1, <1>2, Writes
<1>5. acct.m = screen[t].served
  BY <1>1, <1>3, <1>4 DEF VersionInv
<1>6. acct.m # None
  BY Typed
<1>7. QED
  BY <1>1, <1>2, <1>3, <1>4, <1>5, <1>6

\* Only the tab that takes a step may give up on a pair.
LEMMA ForsakenMoves ==
  ASSUME TypeInv, NEW t \in Tab, Next, Moves(t)
  PROVE  /\ forsaken \subseteq forsaken'
         /\ forsaken' = forsaken \/ (Sent(t) /\ forsaken' = forsaken \cup {screen[t].m.key})
         /\ Forsakes(t) => screen[t].m.key \in forsaken'
         /\ ~Forsakes(t) => forsaken' = forsaken
<1>1. \A u \in Tab : Forsakes(u) => u = t
  BY DEF Forsakes, Moves, Alone
<1>2. Forsakes(t) => Sent(t)
  BY Typed DEF Forsakes, Sent, Fits, Shape, HasMaterial, Underway
<1> DEFINE K == {screen[u].m.key : u \in {x \in Tab : Forsakes(x)}}
<1>3. forsaken' = forsaken \cup K
  BY DEF Next
<1>4. Forsakes(t) => K = {screen[t].m.key}
  BY <1>1
<1>5. ~Forsakes(t) => K = {}
  BY <1>1
<1> HIDE DEF K
<1>6. QED
  BY <1>2, <1>3, <1>4, <1>5

LEMMA ForsakenStill ==
  ASSUME Next, UNCHANGED screen
  PROVE  forsaken' = forsaken
<1>1. \A u \in Tab : ~Forsakes(u)
  BY DEF Forsakes
<1>2. {screen[u].m.key : u \in {x \in Tab : Forsakes(x)}} = {}
  BY <1>1
<1>3. QED
  BY <1>2 DEF Next

LEMMA UserTab ==
  ASSUME TypeInv, MaterialInv, VersionInv, UserInv, NEW t \in Tab, Moves(t), KeyMoves(t)
  PROVE  UserInv' /\ (acct # None => acct'.m.user = acct.m.user)
<1> DEFINE s == screen[t]
           q == screen'[t]
<1>1. acct # None => acct' # None /\ acct'.m.user = acct.m.user
  <2>1. acct # None => acct' # None
    BY RowStepTab, RowStepMoves
  <2>2. acct # None /\ acct' # acct => acct'.m = s.m /\ s.m # None /\ s.flow \in Started
    BY TabWrites
  <2>3. QED
    BY <2>1, <2>2 DEF UserInv
<1>2. ASSUME NEW u \in Tab
      PROVE  /\ screen'[u].served # None => acct' # None /\ screen'[u].served.user = acct'.m.user
             /\ screen'[u].m # None /\ screen'[u].flow \in Started => screen'[u].m.user = acct'.m.user
  <2>1. /\ screen[u].flow \in Started => acct # None
        /\ screen'[t].flow \in Started => acct' # None
    BY Typed DEF Started, Fits, Moves
  <2>2. CASE u # t
    <3>1. screen'[u] = screen[u]
      BY <2>2 DEF Moves, Alone
    <3>2. QED
      BY <1>1, <2>1, <3>1 DEF UserInv
  <2>3. CASE u = t
    <3>1. q.served # None => acct' # None /\ q.served.user = acct'.m.user
      BY <1>1 DEF KeyMoves, UserInv
    <3>2. ASSUME q.m # None, q.flow \in Started PROVE q.m.user = acct'.m.user
      <4>1. q.flow # "signup"
        BY <3>2 DEF Started
      <4>2. CASE q.m \notin {s.m, s.resume}
        <5>1. FreshKey(t)
          BY <3>2, <4>2 DEF KeyMoves
        <5>2. s.served # None /\ q.m.user = s.served.user
          BY <4>1, <5>1 DEF FreshKey
        <5>3. QED
          BY <1>1, <5>2 DEF UserInv
      <4>3. CASE q.m \in {s.m, s.resume}
        <5>1. minted \in Nat /\ q.m.id # Fresh
          BY <3>2, <4>3, KnownParts DEF MaterialInv, Fresh, TypeInv, TypeOK, Id
        <5>2. q.m = s.m /\ q.flow = s.flow
          BY <3>2, <4>1, <5>1 DEF Moves, MaterialMoves
        <5>3. acct # None
          BY <3>2, <5>2, Typed DEF Started, Fits
        <5>4. QED
          BY <1>1, <3>2, <5>2, <5>3 DEF UserInv
      <4>4. QED
        BY <4>2, <4>3
    <3>3. QED
      BY <2>3, <3>1, <3>2
  <2>4. QED
    BY <2>2, <2>3
<1>3. ASSUME NEW r \in wire', r.kind \in Started PROVE r.m.user = acct'.m.user
  <2>1. CASE r \in wire
    <3>1. acct # None
      BY <1>3, <2>1 DEF TypeInv, Started
    <3>2. QED
      BY <1>1, <1>3, <2>1, <3>1 DEF UserInv
  <2>2. CASE s.at = "sent" /\ r = Request(t)
    <3>1. r.m = s.m /\ r.kind = s.flow /\ s.m # None
      BY <2>2, RequestFields, Typed DEF Fits, Shape, HasMaterial
    <3>2. acct # None
      BY <1>3, <3>1, Typed DEF Started, Fits
    <3>3. QED
      BY <1>1, <1>3, <3>1, <3>2 DEF UserInv
  <2>3. QED
    BY <2>1, <2>2 DEF Moves, WireMoves
<1>4. QED
  <2> HIDE DEF s, q
  <2>1. QED
    BY <1>1, <1>2, <1>3 DEF UserInv

\* Every key is a number, and known ones have been minted.
LEMMA KeyTypes ==
  ASSUME TypeInv
  PROVE  /\ \A m \in Materials : m.key \in Nat /\ m.user \in Nat /\ m # None
         /\ \A t \in Tab :
              LET w == device[t].worker
              IN  /\ w \in Workers
                  /\ w.live # None => w.live \in Pairs /\ w.live.key \in Nat
                  /\ w.pending # None => w.pending \in Pairs /\ w.pending.key \in Nat
         /\ \A u, k \in Nat : Pair(u, k) # None /\ Pair(u, k).key = k /\ Pair(u, k).user = u
         /\ minted \in Nat /\ Fresh \in Nat /\ Fresh > minted
<1>1. \A m \in Materials : m.key \in Nat /\ m.user \in Nat /\ m # None
  BY NoneIsApart DEF Materials
<1>2. ASSUME NEW t \in Tab
      PROVE  LET w == device[t].worker
             IN  /\ w \in Workers
                 /\ w.live # None => w.live \in Pairs /\ w.live.key \in Nat
                 /\ w.pending # None => w.pending \in Pairs /\ w.pending.key \in Nat
  BY Typed DEF Devices, Workers, Pairs
<1>3. \A u, k \in Nat : Pair(u, k) # None /\ Pair(u, k).key = k /\ Pair(u, k).user = u
  BY NoneIsApart DEF Pair, Pairs
<1>4. minted \in Nat /\ Fresh \in Nat /\ Fresh > minted
  BY DEF Fresh, TypeInv, TypeOK
<1>5. QED
  BY <1>1, <1>2, <1>3, <1>4

\* Where the material of a tab's next screen comes from.
LEMMA NextMaterial ==
  ASSUME TypeInv, MaterialInv, NEW t \in Tab, Moves(t), KeyMoves(t), screen'[t].m # None
  PROVE  LET s == screen[t]
             q == screen'[t]
         IN  \/ /\ q.m = s.m /\ q.flow = s.flow /\ q.exp = s.exp
                /\ s.flow # "signup" => q.served = s.served
                /\ s.flow \in {"change", "rotate"} /\ ~q.ambiguous =>
                     ~s.ambiguous /\ wire' = wire /\ acct' = acct
             \/ q.m = s.resume /\ q.flow = "signup"
             \/ FreshKey(t) /\ wire' = wire /\ acct' = acct
<1> DEFINE s == screen[t]
           q == screen'[t]
<1>1. CASE q.m \in {s.m, s.resume}
  <2>1. q.m.id # Fresh
    BY <1>1, KnownParts DEF MaterialInv, Fresh, TypeInv, TypeOK, Id
  <2>2. QED
    BY <1>1, <2>1 DEF Moves, MaterialMoves
<1>2. CASE q.m \notin {s.m, s.resume}
  <2>1. FreshKey(t)
    BY <1>2 DEF KeyMoves
  <2>2. wire' = wire /\ acct' = acct
    BY <1>2 DEF Moves, MaterialMoves
  <2>3. QED
    BY <2>1, <2>2
<1>3. QED
  BY <1>1, <1>2

LEMMA KeyTab ==
  ASSUME TypeInv, MaterialInv, VersionInv, KeyInv, HoldInv, Next,
         NEW t \in Tab, Moves(t), KeyMoves(t)
  PROVE  KeyInv'
<1> DEFINE s == screen[t]
           q == screen'[t]
           w == device[t].worker
           v == device'[t].worker
<1>0. /\ minted \in Nat /\ minted <= minted' /\ minted' \in Nat
      /\ \A k \in Nat : k <= minted => k <= minted'
      /\ minted' = Fresh => Fresh <= minted'
  BY KeyTypes DEF Moves
<1>1. /\ s.served # None => s.served.key \in Nat /\ s.served.key <= minted'
      /\ w.live # None => w.live.key \in Nat /\ w.live.key <= minted'
      /\ w.pending # None => w.pending.key \in Nat /\ w.pending.key <= minted'
  BY <1>0, KeyTypes, Typed DEF KeyInv
<1>2. \A m \in Materials : Known(m) => m.key <= minted'
  BY <1>0, KeyTypes DEF KeyInv
<1>3. q.m # None => q.m \in Materials
  BY DEF Moves, Screens
<1>4. ASSUME FreshKey(t), q.m # None
      PROVE  /\ q.m.key <= minted'
             /\ q.flow \in {"recovery", "change"} => q.m.key = q.served.key
             /\ q.flow = "rotate" => q.m.key # q.served.key
  <2>1. CASE q.flow = "signup"
    BY <1>0, <1>4, <2>1 DEF FreshKey
  <2>2. CASE q.flow \in {"recovery", "change"}
    BY <1>1, <1>4, <2>2 DEF FreshKey
  <2>3. CASE q.flow = "rotate"
    <3>1. /\ s.flow = "rotate" /\ s.begun /\ ~Sent(t) /\ w.pending = Pair(q.m.user, q.m.key)
          /\ q.served = s.served /\ s.served # None
      BY <1>4, <2>3 DEF FreshKey
    <3>2. w.pending # None /\ w.pending.key = q.m.key
      BY <1>3, <1>4, <3>1, KeyTypes
    <3>3. Private(w.pending.key, t)
      BY <3>1, <3>2 DEF HoldInv, Holds
    <3>4. QED
      BY <1>1, <2>3, <3>1, <3>2, <3>3 DEF Private
  <2>4. QED
    BY <1>4, <2>1, <2>2, <2>3 DEF FreshKey
<1>5. ASSUME NEW m \in Materials, Known(m)' PROVE m.key <= minted'
  <2>1. CASE Known(m)
    BY <1>2, <2>1
  <2>2. CASE minted' = Fresh /\ m = q.m /\ m.id = Fresh
    <3>1. q.m # None
      BY <2>2, KeyTypes
    <3>2. q.m \notin {s.m, s.resume}
      BY <2>2, <3>1, KnownParts DEF MaterialInv, Fresh, TypeInv, TypeOK, Id
    <3>3. QED
      BY <1>4, <2>2, <3>1, <3>2 DEF KeyMoves
  <2>3. QED
    BY <1>5, <2>1, <2>2, KnownMoves
<1>6. ASSUME NEW k \in forsaken' PROVE k <= minted'
  <2>1. CASE k \in forsaken
    BY <1>0, <2>1 DEF KeyInv, TypeInv, TypeOK
  <2>2. CASE Sent(t) /\ k = s.m.key
    BY <1>2, <2>2, KnownParts DEF Sent
  <2>3. QED
    BY <2>1, <2>2, ForsakenMoves
<1>7. ASSUME NEW u \in Tab
      PROVE  /\ screen'[u].served # None => screen'[u].served.key <= minted'
             /\ device'[u].worker.live # None => device'[u].worker.live.key <= minted'
             /\ device'[u].worker.pending # None => device'[u].worker.pending.key <= minted'
             /\ screen'[u].m # None /\ screen'[u].flow \in {"recovery", "change"} =>
                  screen'[u].m.key = screen'[u].served.key
             /\ Sent(u)' => screen'[u].m.key # screen'[u].served.key
  <2>1. CASE u # t
    <3>1. screen'[u] = screen[u] /\ device'[u] = device[u]
      BY <2>1 DEF Moves, Alone
    <3>2. /\ screen[u].served # None => screen[u].served.key <= minted'
          /\ device[u].worker.live # None => device[u].worker.live.key <= minted'
          /\ device[u].worker.pending # None => device[u].worker.pending.key <= minted'
      BY <1>0, KeyTypes, Typed DEF KeyInv
    <3>3. QED
      BY <3>1, <3>2 DEF KeyInv, Sent
  <2>2. CASE u = t
    <3>1. q.served # None => q.served.key <= minted'
      BY <1>1, <1>2, KnownParts DEF KeyMoves
    <3>2. v.live # None => v.live.key <= minted'
      BY <1>1 DEF KeyMoves
    <3>3. v.pending # None => v.pending.key <= minted'
      BY <1>0, <1>1 DEF KeyMoves, PendingMoves
    <3>4. q.m # None /\ q.flow \in {"recovery", "change"} => q.m.key = q.served.key
      BY <1>4, NextMaterial DEF KeyInv
    <3>5. Sent(t)' => q.m.key # q.served.key
      BY <1>4, NextMaterial DEF KeyInv, Sent
    <3>6. QED
      BY <2>2, <3>1, <3>2, <3>3, <3>4, <3>5
  <2>3. QED
    BY <2>1, <2>2
<1>8. ASSUME NEW r \in wire', r.kind \in {"recovery", "change"}, r.exp = acct'.version
      PROVE  r.m.key = acct'.m.key
  <2>1. CASE acct' = acct /\ r \in wire
    BY <1>8, <2>1 DEF KeyInv
  <2>2. CASE acct' = acct /\ s.at = "sent" /\ r = Request(t)
    <3>1. r.m = s.m /\ r.kind = s.flow /\ r.exp = s.exp /\ s.m # None
      BY <2>2, RequestFields, Typed DEF Fits, Shape, HasMaterial
    <3>2. acct.m = s.served
      BY <1>8, <2>2, <3>1 DEF VersionInv, Started
    <3>3. QED
      BY <1>8, <2>2, <3>1, <3>2 DEF KeyInv
  <2>3. CASE acct' # acct
    <3>1. r \in wire
      BY <2>3 DEF Moves, WireMoves
    <3>2. acct # None
      BY <1>8, <3>1 DEF TypeInv
    <3>3. r.exp <= acct.version /\ r.exp \in Nat /\ acct.version \in Nat
      BY <1>8, <3>1, <3>2 DEF VersionInv, Started, TypeInv, TypeOK, Requests, Rows
    <3>4. acct'.version = acct.version + 1
      BY <2>3, <3>2, TabWrites
    <3>5. QED
      BY <1>8, <3>3, <3>4
  <2>4. QED
    BY <2>1, <2>2, <2>3 DEF Moves, WireMoves
<1>9. QED
  <2> HIDE DEF s, q, w, v
  <2>1. QED
    BY <1>5, <1>6, <1>7, <1>8 DEF KeyInv

\* Nobody else's step gives away a pair that is a tab's own.
LEMMA PrivateTab ==
  ASSUME TypeInv, MaterialInv, Next, NEW t \in Tab, Moves(t), KeyMoves(t),
         NEW u \in Tab \ {t}, NEW k \in Nat, k <= minted, Private(k, u)
  PROVE  Private(k, u)'
<1> DEFINE s == screen[t]
           q == screen'[t]
           w == device[t].worker
           v == device'[t].worker
<1>0. /\ s.m # None => s.m.key # k
      /\ s.served # None => s.served.key # k
      /\ s.resume # None => s.resume.key # k
      /\ w.pending # None => w.pending.key # k
      /\ acct # None => acct.m.key # k
      /\ k # Fresh
  BY KeyTypes DEF Private
<1>1. k \notin forsaken'
  BY <1>0, ForsakenMoves DEF Private, Sent
<1>2. acct' # None => acct'.m.key # k
  BY <1>0, RowOfTab
<1>3. ASSUME NEW r \in wire' PROVE r.m.key # k
  <2>1. CASE r \in wire
    BY <2>1 DEF Private
  <2>2. CASE s.at = "sent" /\ r = Request(t)
    <3>1. r.m = s.m /\ s.m # None
      BY <2>2, RequestFields, Typed DEF Fits, Shape, HasMaterial
    <3>2. QED
      BY <1>0, <3>1
  <2>3. QED
    BY <2>1, <2>2 DEF Moves, WireMoves
<1>4. q.served # None => q.served.key # k
  BY <1>0 DEF KeyMoves
<1>5. q.resume # None => q.resume.key # k
  BY <1>0 DEF Moves, MaterialMoves
<1>6. v.pending # None => v.pending.key # k
  BY <1>0 DEF KeyMoves, PendingMoves
<1>7. q.m # None => q.m.key # k
  <2>1. SUFFICES ASSUME q.m # None PROVE q.m.key # k
    OBVIOUS
  <2>2. CASE q.m \in {s.m, s.resume}
    BY <1>0, <2>1, <2>2
  <2>3. CASE FreshKey(t)
    <3>1. q.m \in Materials
      BY <2>1 DEF Moves, Screens
    <3>2. CASE q.m.key = Fresh
      BY <1>0, <3>2
    <3>3. CASE s.served # None /\ q.m.key = s.served.key
      BY <1>0, <3>3
    <3>4. CASE w.pending = Pair(q.m.user, q.m.key)
      BY <1>0, <3>1, <3>4, KeyTypes
    <3>5. QED
      BY <2>3, <3>2, <3>3, <3>4, <1>4 DEF FreshKey
  <2>4. QED
    BY <2>1, <2>2, <2>3 DEF KeyMoves
<1>8. ASSUME NEW x \in Tab \ {u}
      PROVE  /\ screen'[x].m # None => screen'[x].m.key # k
             /\ screen'[x].served # None => screen'[x].served.key # k
             /\ screen'[x].resume # None => screen'[x].resume.key # k
             /\ device'[x].worker.pending # None => device'[x].worker.pending.key # k
  <2>1. CASE x = t
    BY <1>4, <1>5, <1>6, <1>7, <2>1
  <2>2. CASE x # t
    BY <2>2 DEF Moves, Alone, Private
  <2>3. QED
    BY <2>1, <2>2
<1>9. screen'[u].served # None => screen'[u].served.key # k
  BY DEF Moves, Alone, Private
<1>10. QED
  <2> HIDE DEF s, q, w, v
  <2>1. QED
    BY <1>1, <1>2, <1>3, <1>8, <1>9 DEF Private

\* A step by which its own tab learns and tells nothing of keys.
LEMMA PrivateOwn ==
  ASSUME NEW t \in Tab, Moves(t), UNCHANGED <<acct, wire, forsaken>>,
         screen'[t].served = screen[t].served, NEW k \in Nat, Private(k, t)
  PROVE  Private(k, t)'
<1>1. \A u \in Tab \ {t} : screen'[u] = screen[u] /\ device'[u] = device[u]
  BY DEF Moves, Alone
<1>2. QED
  BY <1>1 DEF Private

\* The next key is nobody's.
LEMMA FreshPrivate ==
  ASSUME TypeInv, MaterialInv, KeyInv, NEW t \in Tab
  PROVE  Private(Fresh, t)
<1>1. \A k \in Nat : k <= minted => k # Fresh
  BY KeyTypes
<1>2. \A m \in Materials : Known(m) => m.key # Fresh
  BY <1>1, KeyTypes DEF KeyInv
<1>3. Fresh \notin forsaken
  BY <1>1, KeyTypes DEF KeyInv
<1>4. ASSUME NEW u \in Tab
      PROVE  /\ screen[u].m # None => screen[u].m.key # Fresh
             /\ screen[u].served # None => screen[u].served.key # Fresh
             /\ screen[u].resume # None => screen[u].resume.key # Fresh
             /\ device[u].worker.pending # None => device[u].worker.pending.key # Fresh
  <2>1. screen[u].served # None => screen[u].served.key \in Nat
    BY Typed, KeyTypes
  <2>2. device[u].worker.pending # None => device[u].worker.pending.key \in Nat
    BY KeyTypes
  <2>3. QED
    BY <1>1, <1>2, <2>1, <2>2, KnownParts DEF KeyInv
<1>5. QED
  BY <1>2, <1>3, <1>4, KnownParts DEF Private

LEMMA HoldTab ==
  ASSUME TypeInv, MaterialInv, KeyInv, HoldInv, Next, NEW t \in Tab, Moves(t), KeyMoves(t)
  PROVE  HoldInv'
<1> DEFINE s == screen[t]
           q == screen'[t]
           w == device[t].worker
           v == device'[t].worker
<1>0. /\ \A u \in Tab : screen[u].m # None => screen[u].m.key \in Nat /\ screen[u].m.key <= minted
      /\ \A u \in Tab : LET p == device[u].worker.pending
                        IN  p # None => p.key \in Nat /\ p.key <= minted
      /\ w.live # None => w.live.key \in Nat /\ w.live.key <= minted
      /\ Fresh > minted /\ minted \in Nat /\ Fresh \in Nat
      /\ q.m # None => q.m \in Materials
  BY KeyTypes, KnownParts DEF KeyInv, Moves, Screens
<1>1. Holds(t)
  BY DEF HoldInv
<1>2. ~Forsakes(t) => forsaken' = forsaken
  BY ForsakenMoves
<1>3. ASSUME NEW u \in Tab \ {t} PROVE Holds(u)'
  <2>1. screen'[u] = screen[u] /\ device'[u] = device[u] /\ Holds(u)
    BY DEF Moves, Alone, HoldInv
  <2>2. Sent(u) /\ ~screen[u].ambiguous => Private(screen[u].m.key, u)'
    <3>1. SUFFICES ASSUME Sent(u), ~screen[u].ambiguous PROVE Private(screen[u].m.key, u)'
      OBVIOUS
    <3>2. PICK k \in Nat : k = screen[u].m.key /\ k <= minted
      BY <1>0, <3>1 DEF Sent
    <3>3. Private(k, u)
      BY <2>1, <3>1, <3>2 DEF Holds
    <3>4. Private(k, u)'
      BY <3>2, <3>3, PrivateTab
    <3>5. QED
      BY <2>1, <3>2, <3>4
  <2>3. ASSUME screen[u].flow = "rotate", screen[u].begun, ~Sent(u), device[u].worker.pending # None
        PROVE  Private(device[u].worker.pending.key, u)'
    <3>2. PICK k \in Nat : k = device[u].worker.pending.key /\ k <= minted
      BY <1>0, <2>3
    <3>3. Private(k, u)
      BY <2>1, <2>3, <3>2 DEF Holds
    <3>4. Private(k, u)'
      BY <3>2, <3>3, PrivateTab
    <3>5. QED
      BY <2>1, <3>2, <3>4
  <2>4. QED
    BY <2>1, <2>2, <2>3 DEF Holds, Sent
<1>4. v.pending # None => v.live # None /\ v.live.key # v.pending.key /\ device'[t].session
  BY <1>0, <1>1 DEF KeyMoves, PendingMoves, Holds
<1>5. ASSUME Sent(t)', q.m # s.m \/ s.m = None
      PROVE  /\ v = w /\ w.pending = Pair(q.m.user, q.m.key) /\ w.pending # None
             /\ w.pending.key = q.m.key
             /\ UNCHANGED <<acct, wire>> /\ q.served = s.served
             /\ ~Sent(t) /\ Private(w.pending.key, t)
  <2>1. FreshKey(t) /\ wire' = wire /\ acct' = acct
    BY <1>5, NextMaterial DEF Sent
  <2>2. /\ s.flow = "rotate" /\ s.begun /\ ~Sent(t) /\ w.pending = Pair(q.m.user, q.m.key)
        /\ q.served = s.served /\ v = w
    BY <1>5, <2>1 DEF FreshKey, Sent
  <2>3. w.pending # None /\ w.pending.key = q.m.key
    BY <1>0, <1>5, <2>2, KeyTypes DEF Sent
  <2>4. Private(w.pending.key, t)
    BY <1>1, <2>2, <2>3 DEF Holds
  <2>5. QED
    BY <2>1, <2>2, <2>3, <2>4
<1>6. ASSUME Sent(t)', q.m = s.m, s.m # None
      PROVE  /\ Sent(t) /\ v \in {w, Cold} /\ forsaken' = forsaken
             /\ q.served = s.served
             /\ ~q.ambiguous => ~s.ambiguous /\ UNCHANGED <<acct, wire>>
  <2>1. q.m # s.resume \/ q.flow # "signup"
    BY <1>6 DEF Sent
  <2>2. CASE FreshKey(t)
    BY <1>6, <2>2, NextMaterial DEF Sent, FreshKey, KeyMoves, Moves, MaterialMoves
  <2>3. CASE ~FreshKey(t)
    BY <1>2, <1>6, <2>3, NextMaterial DEF Sent, KeyMoves
  <2>4. QED
    BY <2>2, <2>3
<1>7. Sent(t)' => v.live = None \/ v.pending = Pair(q.m.user, q.m.key)
  <2>1. CASE q.m # s.m \/ s.m = None
    BY <1>5, <2>1
  <2>2. CASE q.m = s.m /\ s.m # None
    BY <1>1, <1>6, <2>2 DEF Holds, Cold
  <2>3. QED
    BY <2>1, <2>2
<1>8. ASSUME Sent(t)', ~q.ambiguous, NEW k \in Nat, k = q.m.key PROVE Private(k, t)'
  <2>2. CASE q.m # s.m \/ s.m = None
    <3>1. /\ UNCHANGED <<acct, wire, forsaken>> /\ q.served = s.served /\ Private(k, t)
      BY <1>5, <1>8, <2>2, ForsakenMoves
    <3>2. QED
      BY <3>1, PrivateOwn
  <2>3. CASE q.m = s.m /\ s.m # None
    <3>1. /\ UNCHANGED <<acct, wire, forsaken>> /\ q.served = s.served /\ Private(k, t)
      BY <1>1, <1>6, <1>8, <2>3 DEF Holds
    <3>2. QED
      BY <3>1, PrivateOwn
  <2>4. QED
    BY <2>2, <2>3
<1>9. ASSUME q.flow = "rotate", q.begun, ~Sent(t)', v.pending # None,
             NEW k \in Nat, k = v.pending.key
      PROVE  Private(k, t)'
  <2>1. q.m = None
    BY <1>9 DEF Sent
  <2>2. CASE v.pending.key = Fresh /\ UNCHANGED <<acct, wire>> /\ ~Sent(t) /\ q.served = s.served
    <3>1. Private(Fresh, t) /\ forsaken' = forsaken
      BY <2>2, FreshPrivate, ForsakenMoves
    <3>2. Private(k, t)
      BY <1>9, <2>2, <3>1
    <3>3. QED
      BY <2>2, <3>1, <3>2, PrivateOwn
  <2>3. CASE /\ v.pending = w.pending /\ w.live # None
             /\ s.flow = "rotate" /\ q.served = s.served /\ UNCHANGED <<acct, wire>> /\ ~Forsakes(t)
             /\ (s.begun /\ s.m = None) \/ (s.m # None /\ ~s.ambiguous)
    <3>2. Private(k, t)
      <4>1. CASE s.begun /\ s.m = None
        BY <1>1, <1>9, <2>3, <4>1 DEF Holds, Sent
      <4>2. CASE s.m # None /\ ~s.ambiguous
        <5>1. Private(s.m.key, t) /\ w.pending = Pair(s.m.user, s.m.key)
          BY <1>1, <2>3, <4>2 DEF Holds, Sent
        <5>2. s.m \in Materials
          BY <4>2, KnownParts
        <5>3. QED
          BY <1>9, <2>3, <5>1, <5>2, KeyTypes
      <4>3. QED
        BY <2>3, <4>1, <4>2
    <3>3. QED
      BY <1>2, <2>3, <3>2, PrivateOwn
  <2>4. QED
    BY <1>9, <2>1, <2>2, <2>3 DEF KeyMoves, PendingMoves
<1>10. Holds(t)'
  <2>1. /\ q.at = "review" => q.open
        /\ q.flow = "rotate" /\ q.at # "code" /\ q.open => device'[t].session
        /\ q.flow = "reauth" => v.live = None
        /\ q.flow = "login" => ~device'[t].session
    BY DEF KeyMoves
  <2>2. Sent(t)' /\ ~q.ambiguous => Private(screen[t].m.key, t)'
    BY <1>0, <1>8, KeyTypes DEF Sent
  <2>3. q.flow = "rotate" /\ q.begun /\ ~Sent(t)' /\ v.pending # None =>
          Private(device[t].worker.pending.key, t)'
    <3>1. v.pending # None => v.pending.key \in Nat
      BY DEF Moves, Devices, Workers, Pairs
    <3>2. QED
      BY <1>9, <3>1
  <2>4. QED
    BY <1>4, <1>7, <2>1, <2>2, <2>3 DEF Holds
<1>11. QED
  <2> HIDE DEF s, q, w, v
  <2>1. QED
    BY <1>3, <1>10 DEF HoldInv

\* A row that changes under a tab's cookie ends its session.
LEMMA SigningStill ==
  ASSUME TypeInv, VersionInv, NEW u \in Tab, Signing(u), forsaken \subseteq forsaken',
         screen'[u] = screen[u], device'[u] = device[u],
         acct # None /\ acct' # acct => acct'.version = acct.version + 1
  PROVE  Signing(u)'
<1>1. CASE acct' = acct
  BY <1>1 DEF Signing, Honoured, Sent
<1>2. CASE acct = None
  BY <1>2, Typed DEF Signing, Fits
<1>3. CASE acct # None /\ acct' # acct
  <2>1. acct'.version = acct.version + 1 /\ acct.version \in Nat
    BY <1>3, Typed
  <2>2. device[u].cookie <= acct.version /\ device[u].cookie \in Nat
    BY <1>3, Typed DEF VersionInv, Devices
  <2>3. device'[u].cookie # acct'.version
    BY <2>1, <2>2
  <2>4. QED
    BY <2>3 DEF Signing, Honoured
<1>4. QED
  BY <1>1, <1>2, <1>3

LEMMA RegTab ==
  ASSUME TypeInv, MaterialInv, VersionInv, RegInv, Next, NEW t \in Tab, Moves(t), KeyMoves(t)
  PROVE  RegInv'
<1> DEFINE s == screen[t]
           q == screen'[t]
<1>1. forsaken \subseteq forsaken'
  BY ForsakenMoves
<1>2. ASSUME NEW u \in Tab PROVE Signing(u)'
  <2>1. CASE u = t
    BY <2>1 DEF KeyMoves
  <2>2. CASE u # t
    <3>1. screen'[u] = screen[u] /\ device'[u] = device[u]
      BY <2>2 DEF Moves, Alone
    <3>2. acct # None /\ acct' # acct => acct'.version = acct.version + 1
      BY TabWrites
    <3>3. QED
      BY <1>1, <3>1, <3>2, SigningStill DEF RegInv
  <2>3. QED
    BY <2>1, <2>2
<1>3. ASSUME NEW r \in wire', r.kind = "rotate" PROVE Followed(r)'
  <2>1. ASSUME Sent(t), s.m = r.m, r.by \in {t, None} PROVE Followed(r)'
    <3>1. CASE Sent(t)' /\ q.m = s.m
      BY <2>1, <3>1 DEF Followed
    <3>2. CASE s.m.key \in forsaken'
      BY <2>1, <3>2 DEF Followed
    <3>3. CASE \A p \in wire' : p.m = s.m => Dead(p)'
      BY <1>3, <2>1, <3>3 DEF Followed
    <3>4. QED
      BY <2>1, <3>1, <3>2, <3>3 DEF KeyMoves, Releases
  <2>2. CASE r \in wire
    <3>1. CASE Dead(r)
      BY <2>2, <3>1, DeadStays, RowStepTab DEF Followed
    <3>2. CASE r.m.key \in forsaken
      BY <1>1, <3>2 DEF Followed
    <3>3. ASSUME NEW u \in Tab, r.by \in {u, None}, Sent(u), screen[u].m = r.m PROVE Followed(r)'
      <4>1. CASE u = t
        BY <2>1, <3>3, <4>1
      <4>2. CASE u # t
        <5>1. screen'[u] = screen[u]
          BY <4>2 DEF Moves, Alone
        <5>2. Sent(u)' /\ screen'[u].m = r.m
          BY <3>3, <5>1 DEF Sent
        <5>3. QED
          BY <3>3, <5>2 DEF Followed
      <4>3. QED
        BY <4>1, <4>2
    <3>4. QED
      BY <1>3, <2>2, <3>1, <3>2, <3>3 DEF RegInv, Followed
  <2>3. CASE s.at = "sent" /\ r = Request(t)
    <3>1. r.m = s.m /\ r.kind = s.flow /\ r.by = t /\ s.m # None
      BY <2>3, RequestFields, Typed DEF Fits, Shape, HasMaterial
    <3>2. QED
      BY <1>3, <2>1, <3>1 DEF Sent
  <2>4. QED
    BY <2>2, <2>3 DEF Moves, WireMoves
<1>4. QED
  <2> HIDE DEF s, q
  <2>1. QED
    BY <1>2, <1>3 DEF RegInv

\* The steps that are no flow's move no screen, and tell nothing new.
Elsewhere ==
  /\ UNCHANGED <<screen, minted, forsaken>>
  /\ \A u \in Tab : device'[u].worker = device[u].worker
                    \/ (screen[u] = Closed /\ device'[u].worker = Cold)
  /\ \A r \in wire' : \E p \in wire : r.m = p.m /\ r.kind = p.kind /\ r.exp = p.exp
                                      /\ r.cookie = p.cookie /\ r.by \in {p.by, None}
  /\ acct' # None => \/ acct # None /\ acct'.m = acct.m
                     \/ \E p \in wire : acct'.m = p.m /\ (acct # None => p.kind \in Started)

LEMMA PrivateStill ==
  ASSUME Elsewhere, NEW u \in Tab, NEW k \in Nat, Private(k, u)
  PROVE  Private(k, u)'
<1>1. Cold.pending = None
  BY DEF Cold
<1>2. QED
  BY <1>1 DEF Elsewhere, Private

LEMMA UserStill ==
  ASSUME TypeInv, UserInv, Elsewhere, acct # None => acct' # None
  PROVE  UserInv' /\ (acct # None => acct'.m.user = acct.m.user)
<1>1. acct # None => acct' # None /\ acct'.m.user = acct.m.user
  BY DEF Elsewhere, UserInv
<1>2. \A r \in wire' : r.kind \in Started => r.m.user = acct'.m.user
  BY <1>1 DEF Elsewhere, UserInv, TypeInv, Started
<1>3. \A t \in Tab : screen[t].flow \in Started => acct # None
  BY Typed DEF Fits, Started
<1>4. QED
  BY <1>1, <1>2, <1>3 DEF Elsewhere, UserInv

LEMMA KeyStill ==
  ASSUME TypeInv, MaterialInv, VersionInv, KeyInv, Elsewhere, RowStep
  PROVE  KeyInv'
<1>1. ASSUME NEW m \in Materials, Known(m)' PROVE m.key <= minted
  <2>1. Known(m)
    BY <1>1 DEF Known, Elsewhere
  <2>2. QED
    BY <2>1 DEF KeyInv
<1>2. Cold.live = None /\ Cold.pending = None
  BY DEF Cold
<1>3. ASSUME NEW r \in wire', r.kind \in {"recovery", "change"}, r.exp = acct'.version
      PROVE  r.m.key = acct'.m.key
  <2>1. PICK p \in wire : r.m = p.m /\ r.kind = p.kind /\ r.exp = p.exp
    BY DEF Elsewhere
  <2>2. CASE acct' = acct
    BY <1>3, <2>1, <2>2 DEF KeyInv
  <2>3. CASE acct' # acct
    <3>1. acct # None
      BY <1>3, <2>1 DEF TypeInv
    <3>2. p.exp <= acct.version /\ p.exp \in Nat /\ acct.version \in Nat
      <4>1. p \in Requests
        BY KnownParts
      <4>2. p.exp \in Nat
        BY <4>1 DEF Requests
      <4>3. p.kind \in Started
        BY <1>3, <2>1 DEF Started
      <4>4. acct.version \in Nat
        BY <3>1 DEF TypeInv, TypeOK, Rows
      <4>5. QED
        BY <3>1, <4>2, <4>3, <4>4 DEF VersionInv
    <3>3. p.exp = acct.version + 1
      BY <1>3, <2>1, <2>3, <3>1, RowStepMoves
    <3>4. QED
      BY <3>2, <3>3
  <2>4. QED
    BY <2>2, <2>3
<1>4. QED
  BY <1>1, <1>2, <1>3 DEF Elsewhere, KeyInv, Sent

LEMMA HoldStill ==
  ASSUME TypeInv, HoldInv, Elsewhere,
         \A u \in Tab : device'[u].session = device[u].session
                        \/ (screen[u] = Closed /\ device'[u].worker = Cold)
  PROVE  HoldInv'
<1>1. SUFFICES ASSUME NEW u \in Tab PROVE Holds(u)'
  BY DEF HoldInv
<1>2. screen'[u] = screen[u] /\ Holds(u)
  BY DEF Elsewhere, HoldInv
<1>3. CASE screen[u] = Closed /\ device'[u].worker = Cold
  <2>1. /\ Cold.pending = None /\ Cold.live = None
        /\ Closed.flow = "none" /\ Closed.at = "form"
    BY DEF Cold, Closed
  <2>2. QED
    BY <1>2, <1>3, <2>1 DEF Holds, Sent
<1>4. CASE device'[u].worker = device[u].worker /\ device'[u].session = device[u].session
  <2>1. Sent(u) /\ ~screen[u].ambiguous => Private(screen[u].m.key, u)'
    <3>1. SUFFICES ASSUME Sent(u), ~screen[u].ambiguous PROVE Private(screen[u].m.key, u)'
      OBVIOUS
    <3>2. PICK k \in Nat : k = screen[u].m.key
      BY <3>1, KeyTypes, KnownParts DEF Sent
    <3>3. Private(k, u)'
      BY <1>2, <3>1, <3>2, PrivateStill DEF Holds
    <3>4. QED
      BY <1>2, <3>2, <3>3
  <2>2. ASSUME screen[u].flow = "rotate", screen[u].begun, ~Sent(u), device[u].worker.pending # None
        PROVE  Private(device[u].worker.pending.key, u)'
    <3>1. PICK k \in Nat : k = device[u].worker.pending.key
      BY <2>2, KeyTypes
    <3>2. Private(k, u)'
      BY <1>2, <2>2, <3>1, PrivateStill DEF Holds
    <3>3. QED
      BY <1>4, <3>1, <3>2
  <2>3. QED
    BY <1>2, <1>4, <2>1, <2>2 DEF Holds, Sent
<1>5. QED
  BY <1>3, <1>4 DEF Elsewhere

LEMMA FollowedStill ==
  ASSUME TypeInv, MaterialInv, VersionInv, RegInv, Elsewhere, RowStep,
         NEW p \in wire, p.kind = "rotate", NEW r, r.m = p.m, r.kind = p.kind, r.exp = p.exp,
         r.cookie = p.cookie, r.by \in {p.by, None}
  PROVE  Followed(r)'
<1>1. CASE Dead(p)
  <2>1. Dead(p)'
    BY <1>1, DeadStays
  <2>2. QED
    BY <2>1 DEF Dead, Followed
<1>2. CASE p.m.key \in forsaken
  BY <1>2 DEF Followed, Elsewhere
<1>3. ASSUME NEW u \in Tab, p.by \in {u, None}, Sent(u), screen[u].m = p.m PROVE Followed(r)'
  <2>1. screen' = screen
    BY DEF Elsewhere
  <2>2. Sent(u)' /\ screen'[u].m = r.m /\ r.by \in {u, None}
    BY <1>3, <2>1 DEF Sent
  <2>3. QED
    BY <2>2 DEF Followed
<1>4. QED
  BY <1>1, <1>2, <1>3 DEF RegInv, Followed

\* Whose cookie a late request may renew.
LEMMA LateDevices ==
  ASSUME TypeInv, MaterialInv, VersionInv, Late
  PROVE  \E r \in wire :
           /\ wire' = wire \ {r} /\ UNCHANGED <<screen, minted>>
           /\ r \in Requests /\ Known(r.m)
           /\ acct' = acct \/ acct' = Written(r)
           /\ \A t \in Tab :
                /\ device'[t].session = device[t].session /\ device'[t].worker = device[t].worker
                /\ \/ device'[t] = device[t]
                   \/ r.by = t /\ r.kind \in {"change", "rotate"} /\ "ok" \in Answers(r)
                      /\ acct' = Written(r)
           /\ acct # None /\ acct' # acct =>
                /\ r.kind \in Started /\ r.exp = acct.version /\ ~Dead(r)
                /\ acct'.m = r.m /\ acct'.version = acct.version + 1
                /\ r.kind \in {"change", "rotate"} => r.cookie = acct.version
           /\ acct = None /\ acct' # None => acct'.m = r.m
<1>1. PICK r \in wire :
        /\ wire' = wire \ {r} /\ UNCHANGED <<screen, minted>>
        /\ \/ UNCHANGED <<acct, device>>
           \/ /\ "ok" \in Answers(r)
              /\ acct' = Written(r)
              /\ \/ UNCHANGED device
                 \/ /\ r.by # None /\ r.kind \in {"change", "rotate"}
                    /\ device' = [device EXCEPT ![r.by].cookie = acct'.version]
  BY DEF Late
<1>2. r \in Requests /\ Known(r.m) /\ (acct = None => r.kind = "signup")
  BY KnownParts DEF TypeInv
<1>3. acct = None /\ acct' # None => acct'.m = r.m
  BY <1>1, <1>2, WrittenRow
<1>4. acct # None /\ acct' # acct =>
        /\ r.kind \in Started /\ r.exp = acct.version /\ ~Dead(r)
        /\ acct'.m = r.m /\ acct'.version = acct.version + 1
        /\ r.kind \in {"change", "rotate"} => r.cookie = acct.version
  BY <1>1, <1>2, Writes
<1>5. ASSUME NEW t \in Tab
      PROVE  /\ device'[t].session = device[t].session /\ device'[t].worker = device[t].worker
             /\ \/ device'[t] = device[t]
                \/ r.by = t /\ r.kind \in {"change", "rotate"} /\ "ok" \in Answers(r)
                   /\ acct' = Written(r)
  <2>1. CASE UNCHANGED device
    BY <2>1
  <2>2. CASE /\ "ok" \in Answers(r) /\ acct' = Written(r)
             /\ r.by # None /\ r.kind \in {"change", "rotate"}
             /\ device' = [device EXCEPT ![r.by].cookie = acct'.version]
    <3> DEFINE d == [device[r.by] EXCEPT !.cookie = acct'.version]
    <3>1. r.by \in Tab
      BY <1>2, <2>2 DEF Requests
    <3>2. device[r.by] \in Devices
      BY <3>1, Typed
    <3>3. d.session = device[r.by].session /\ d.worker = device[r.by].worker
      BY <3>2 DEF Devices
    <3>4. device' = [device EXCEPT ![r.by] = d]
      BY <2>2 DEF TypeInv, TypeOK
    <3> HIDE DEF d
    <3>5. device'[r.by] = d /\ (t # r.by => device'[t] = device[t])
      BY <3>1, <3>4 DEF TypeInv, TypeOK
    <3>6. QED
      BY <2>2, <3>3, <3>5
  <2>3. QED
    BY <1>1, <2>1, <2>2
<1>6. QED
  BY <1>1, <1>2, <1>3, <1>4, <1>5

LEMMA LiveLate ==
  ASSUME TypeInv, MaterialInv, VersionInv, LiveInv, Next, Late
  PROVE  LiveInv'
<1>1. PICK r \in wire :
        /\ wire' = wire \ {r} /\ UNCHANGED <<screen, minted>>
        /\ r \in Requests /\ Known(r.m)
        /\ acct' = acct \/ acct' = Written(r)
        /\ \A t \in Tab :
             /\ device'[t].session = device[t].session /\ device'[t].worker = device[t].worker
             /\ \/ device'[t] = device[t]
                \/ r.by = t /\ r.kind \in {"change", "rotate"} /\ "ok" \in Answers(r)
                   /\ acct' = Written(r)
        /\ acct # None /\ acct' # acct =>
             /\ r.kind \in Started /\ r.exp = acct.version /\ ~Dead(r)
             /\ acct'.m = r.m /\ acct'.version = acct.version + 1
             /\ r.kind \in {"change", "rotate"} => r.cookie = acct.version
        /\ acct = None /\ acct' # None => acct'.m = r.m
  BY LateDevices
<1>2. UNCHANGED forsaken
  BY <1>1, ForsakenStill
<1>3. Elsewhere
  BY <1>1, <1>2 DEF Elsewhere
<1>4. RowStep
  BY RowStepLate
<1>5. /\ acct # None => acct' # None
      /\ acct # None /\ acct' # acct => acct'.version = acct.version + 1
  BY <1>4, RowStepMoves
<1>6. UserInv' /\ (acct # None => acct'.m.user = acct.m.user)
  BY <1>3, <1>5, UserStill DEF LiveInv
<1>7. KeyInv'
  BY <1>3, <1>4, KeyStill DEF LiveInv
<1>8. HoldInv'
  BY <1>1, <1>3, HoldStill DEF LiveInv
<1>9. ASSUME NEW u \in Tab PROVE Signing(u)'
  <2> DEFINE s == screen[u]
             w == device[u].worker
  <2>1. Signing(u) /\ screen'[u] = s /\ device'[u].worker = w /\ device'[u].session = device[u].session
    BY <1>1 DEF LiveInv, RegInv
  <2>2. CASE device'[u] = device[u]
    BY <1>2, <1>5, <2>1, <2>2, SigningStill
  <2>3. CASE r.by = u /\ r.kind \in {"change", "rotate"} /\ "ok" \in Answers(r) /\ acct' = Written(r)
    <3>1. SUFFICES ASSUME device[u].session PROVE Signing(u)'
      BY <2>1 DEF Signing
    <3>2. acct # None /\ acct.version \in Nat /\ r.cookie \in Nat /\ device[u].cookie \in Nat
      BY <1>1, <2>3, Typed DEF TypeInv, Requests, Devices
    <3>3. r.cookie <= device[u].cookie /\ device[u].cookie <= acct.version
      BY <2>3, <3>1, <3>2, NoneIsApart DEF VersionInv
    <3>4. r.cookie = acct.version
      <4>1. CASE r.kind = "change"
        BY <2>3, <4>1 DEF Answers, ChangeAnswer, Honoured
      <4>2. CASE r.kind = "rotate"
        BY <2>3, <4>2 DEF Answers, RotateAnswer, Honoured
      <4>3. QED
        BY <2>3, <4>1, <4>2
    <3>5. Honoured(device[u].cookie)
      BY <3>2, <3>3, <3>4 DEF Honoured
    <3>6. /\ w.live # None /\ acct.m.key \notin forsaken /\ ~(Sent(u) /\ acct.m.key = s.m.key)
               => w.live = Pair(acct.m.user, acct.m.key)
          /\ s.flow = "reauth" => s.served.key = acct.m.key \/ acct.m.key \in forsaken
      BY <2>1, <3>1, <3>5 DEF Signing
    <3>7. CASE acct' = acct
      <4>1. QED
        BY <1>1, <1>2, <2>1, <3>6, <3>7 DEF Signing, Sent
    <3>8. CASE acct' # acct /\ r.kind = "change"
      <4>1. acct'.m.key = acct.m.key /\ acct'.m.user = acct.m.user
        BY <1>1, <1>6, <3>2, <3>8 DEF LiveInv, KeyInv
      <4>2. QED
        BY <1>1, <1>2, <2>1, <3>6, <4>1 DEF Signing, Sent
    <3>9. CASE acct' # acct /\ r.kind = "rotate"
      <4>1. acct'.m = r.m /\ ~Dead(r)
        BY <1>1, <3>2, <3>9
      <4>2. r.m.key \in forsaken \/ (Sent(u) /\ s.m = r.m)
        BY <2>3, <3>9, <4>1, NoneIsApart DEF LiveInv, RegInv, Followed
      <4>3. Sent(u) => s.flow = "rotate"
        BY DEF Sent
      <4>4. QED
        BY <1>1, <1>2, <2>1, <4>1, <4>2, <4>3 DEF Signing, Sent
    <3>10. QED
      BY <2>3, <3>7, <3>8, <3>9
  <2>4. QED
    BY <1>1, <2>2, <2>3
<1>10. ASSUME NEW p \in wire', p.kind = "rotate" PROVE Followed(p)'
  <2>1. p \in wire
    BY <1>1
  <2>2. QED
    BY <1>3, <1>4, <1>10, <2>1, FollowedStill DEF LiveInv
<1>11. QED
  BY <1>6, <1>7, <1>8, <1>9, <1>10 DEF LiveInv, RegInv

LEMMA LiveReload ==
  ASSUME TypeInv, MaterialInv, VersionInv, LiveInv, Next, NEW t \in Tab, Reload(t)
  PROVE  LiveInv'
<1>1. /\ screen[t] = Closed /\ UNCHANGED <<acct, screen, minted>>
      /\ \A u \in Tab \ {t} : device'[u] = device[u]
      /\ device'[t].worker = Cold
      /\ \A r \in wire' : \E p \in wire :
           /\ r.kind = p.kind /\ r.m = p.m /\ r.exp = p.exp /\ r.cookie = p.cookie
           /\ r.by \in {p.by, None}
  BY ReloadFacts
<1>2. UNCHANGED forsaken
  BY <1>1, ForsakenStill
<1>3. Elsewhere
  BY <1>1, <1>2 DEF Elsewhere
<1>4. RowStep
  BY <1>1 DEF RowStep
<1>5. UserInv'
  BY <1>1, <1>3, UserStill DEF LiveInv
<1>6. KeyInv'
  BY <1>3, <1>4, KeyStill DEF LiveInv
<1>7. HoldInv'
  BY <1>1, <1>3, HoldStill DEF LiveInv
<1>8. ASSUME NEW u \in Tab PROVE Signing(u)'
  <2>1. CASE u = t
    <3>1. Closed.flow = "none" /\ Cold.live = None
      BY DEF Closed, Cold
    <3>2. screen'[u] = Closed /\ device'[u].worker = Cold
      BY <1>1, <2>1
    <3>3. QED
      BY <3>1, <3>2 DEF Signing
  <2>2. CASE u # t
    <3>1. screen'[u] = screen[u] /\ device'[u] = device[u] /\ Signing(u)
      BY <1>1, <2>2 DEF LiveInv, RegInv
    <3>2. QED
      BY <1>1, <1>2, <3>1, SigningStill
  <2>3. QED
    BY <2>1, <2>2
<1>9. ASSUME NEW r \in wire', r.kind = "rotate" PROVE Followed(r)'
  <2>1. PICK p \in wire : /\ r.kind = p.kind /\ r.m = p.m /\ r.exp = p.exp /\ r.cookie = p.cookie
                          /\ r.by \in {p.by, None}
    BY <1>1
  <2>2. QED
    BY <1>3, <1>4, <1>9, <2>1, FollowedStill DEF LiveInv
<1>10. QED
  BY <1>5, <1>6, <1>7, <1>8, <1>9 DEF LiveInv, RegInv

-----------------------------------------------------------------------------
(* Every step of a tab moves its keys that way.                            *)

LEMMA Gone ==
  ASSUME TypeInv, NEW t \in Tab, NEW q, Go(t, q)
  PROVE  screen'[t] = q
BY DEF Go, TypeInv, TypeOK

\* What a tab signs with, where its keys and its cookie stay.
LEMMA SigningOn ==
  ASSUME Agreed, LiveInv, Next, NEW t \in Tab, Moves(t),
         device'[t].session => device[t].session /\ device'[t].cookie = device[t].cookie,
         device'[t].worker.live \in {device[t].worker.live, None},
         screen'[t].flow = "reauth" => \/ screen[t].flow = "reauth" /\ screen'[t].served = screen[t].served
                                       \/ acct' = acct /\ screen'[t].served = acct.m,
         Sent(t) => \/ Sent(t)' /\ screen'[t].m = screen[t].m
                    \/ screen[t].m.key \in forsaken'
                    \/ acct.m.key # screen[t].m.key
  PROVE  Signing(t)'
<1>1. TypeInv /\ VersionInv /\ MaterialInv /\ Signing(t)
  BY DEF Agreed, LiveInv, RegInv
<1>2. SUFFICES ASSUME device'[t].session, Honoured(device[t].cookie)' PROVE Signing(t)'
  BY DEF Signing, Honoured
<1>3. acct # None
  BY <1>1, <1>2, Typed DEF Fits
<1>4. acct' = acct
  <2>1. SUFFICES ASSUME acct' # acct PROVE FALSE
    OBVIOUS
  <2>2. acct'.version = acct.version + 1 /\ acct.version \in Nat
    BY <1>1, <1>3, <2>1, TabWrites, Typed
  <2>3. device[t].cookie <= acct.version /\ device[t].cookie \in Nat
    BY <1>1, <1>3, Typed DEF VersionInv, Devices
  <2>4. QED
    BY <1>2, <2>2, <2>3 DEF Honoured
<1>5. Honoured(device[t].cookie) /\ device[t].session
  BY <1>2, <1>4 DEF Honoured
<1>6. forsaken \subseteq forsaken'
  BY <1>1, ForsakenMoves
<1>7. QED
  BY <1>1, <1>4, <1>5, <1>6 DEF Signing

\* A step that has nothing to do with a rotation that was sent.
LEMMA KeyPlain ==
  ASSUME Agreed, LiveInv, Next, NEW t \in Tab, Moves(t), ~Sent(t), device'[t] = device[t],
         LET s == screen[t]
             q == screen'[t]
         IN  /\ q.served # None => q.served = s.served \/ (acct # None /\ q.served = acct.m)
             /\ q.m # None /\ q.m \notin {s.m, s.resume} => FreshKey(t)
             /\ q.flow = "rotate" => q.m = None /\ ~q.begun /\ q.open /\ device[t].session
             /\ q.flow = "reauth" => device[t].worker.live = None /\ acct' = acct /\ q.served = acct.m
             /\ q.flow = "login" => ~device[t].session
  PROVE  KeyMoves(t)
<1> DEFINE s == screen[t]
           q == screen'[t]
<1>1. TypeInv /\ Holds(t)
  BY DEF Agreed, LiveInv, HoldInv
<1>2. q.at = "review" => q.flow = "rotate"
  BY DEF Moves, Fits, Shape
<1>3. PendingMoves(t)
  BY <1>1 DEF Holds, PendingMoves
<1>4. ~Sent(t)'
  BY DEF Sent
<1>5. Releases(t)
  BY DEF Releases
<1>6. Signing(t)'
  BY SigningOn
<1>7. QED
  BY <1>2, <1>3, <1>4, <1>5, <1>6 DEF KeyMoves

LEMMA KeySignup ==
  ASSUME Agreed, LiveInv, Next, NEW t \in Tab, Moves(t),
         (\E pw \in Password : SignupSubmit(t, pw)) \/ LeaveSignup(t) \/ SignupChallenge(t)
  PROVE  KeyMoves(t)
<1> DEFINE s == screen[t]
<1>1. TypeInv /\ s \in Screens /\ Shape(s)
  BY Typed DEF Agreed, Fits
<1>2. ASSUME NEW pw \in Password, SignupSubmit(t, pw) PROVE KeyMoves(t)
  <2> DEFINE m == IF s.resume # None /\ s.resume.pw = pw THEN s.resume ELSE Material(Fresh, Fresh, pw, Fresh)
             q == [s EXCEPT !.flow = "signup", !.at = "sent", !.m = m]
  <2>1. Go(t, q) /\ device' = device /\ s.flow \in {"none", "signup"}
        /\ minted' = IF s.resume # None /\ s.resume.pw = pw THEN minted ELSE Fresh
    BY <1>2 DEF SignupSubmit
  <2>2. q.flow = "signup" /\ q.m = m /\ q.served = s.served
    BY <1>1 DEF Screens
  <2>3. m = s.resume \/ (minted' = Fresh /\ m.key = Fresh)
    BY <2>1 DEF Material
  <2> HIDE DEF q, m
  <2>4. screen'[t] = q
    BY <1>1, <2>1, Gone
  <2>5. m # s.resume => FreshKey(t)
    BY <2>2, <2>3, <2>4 DEF FreshKey
  <2>6. ~Sent(t)
    BY <2>1 DEF Sent
  <2>7. QED
    BY <2>1, <2>2, <2>4, <2>5, <2>6, KeyPlain
<1>3. CASE LeaveSignup(t)
  <2>1. screen'[t] = Closed /\ device' = device /\ s.flow = "signup"
    BY <1>1, <1>3, Gone DEF LeaveSignup
  <2>2. Closed.flow = "none" /\ Closed.m = None /\ Closed.served = None
    BY DEF Closed
  <2>3. QED
    BY <2>1, <2>2, KeyPlain DEF Sent
<1>4. CASE SignupChallenge(t)
  <2> DEFINE q == [s EXCEPT !.at = "served", !.typed = s.m.pw, !.served = acct.m]
  <2>1. Go(t, q) /\ device' = device /\ s.at = "registered"
    BY <1>4 DEF SignupChallenge
  <2>2. q.flow = "signup" /\ q.m = s.m /\ q.served = acct.m /\ s.flow = "signup"
    BY <1>1, <2>1 DEF Screens, Shape
  <2> HIDE DEF q
  <2>3. screen'[t] = q /\ acct # None
    BY <1>1, <2>1, Gone, Typed DEF Fits
  <2>4. QED
    BY <2>1, <2>2, <2>3, KeyPlain DEF Sent
<1>5. QED
  BY <1>2, <1>3, <1>4

LEMMA KeyOpen ==
  ASSUME Agreed, LiveInv, Next, NEW t \in Tab, Moves(t),
         \/ \E pw \in Password : \/ LoginSubmit(t, pw) \/ ReauthSubmit(t, pw)
                                 \/ RecoverySubmit(t, pw) \/ ChangeSubmit(t, pw)
         \/ Preflight(t)
  PROVE  KeyMoves(t)
<1> DEFINE q == screen'[t]
           Opened ==
             /\ screen[t] = Closed /\ acct # None /\ acct' = acct /\ device' = device
             /\ q.m = None /\ q.served = acct.m /\ ~q.begun /\ q.open
             /\ q.flow = "login" => ~device[t].session
             /\ q.flow = "reauth" => device[t].worker.live = None
             /\ q.flow = "rotate" => device[t].session
<1>1. TypeInv
  BY DEF Agreed
<1>2. Opened
  <2>1. ASSUME NEW pw \in Password, LoginSubmit(t, pw) PROVE Opened
    <3>1. q = [Closed EXCEPT !.flow = "login", !.at = "served", !.typed = pw, !.served = acct.m]
      BY <1>1, <2>1, Gone DEF LoginSubmit
    <3>2. q.m = None /\ q.served = acct.m /\ ~q.begun /\ q.open /\ q.flow = "login"
      BY <3>1 DEF Closed
    <3> HIDE DEF q
    <3>3. QED
      BY <2>1, <3>2 DEF LoginSubmit
  <2>2. ASSUME NEW pw \in Password, ReauthSubmit(t, pw) PROVE Opened
    <3>1. q = [Closed EXCEPT !.flow = "reauth", !.at = "served", !.typed = pw, !.served = acct.m]
      BY <1>1, <2>2, Gone DEF ReauthSubmit
    <3>2. q.m = None /\ q.served = acct.m /\ ~q.begun /\ q.open /\ q.flow = "reauth"
      BY <3>1 DEF Closed
    <3> HIDE DEF q
    <3>3. QED
      BY <2>2, <3>2 DEF ReauthSubmit
  <2>3. ASSUME NEW pw \in Password, RecoverySubmit(t, pw) PROVE Opened
    <3>1. q = [Closed EXCEPT !.flow = "recovery", !.at = "read", !.typed = pw,
                             !.served = acct.m, !.exp = acct.version]
      BY <1>1, <2>3, Gone DEF RecoverySubmit
    <3>2. q.m = None /\ q.served = acct.m /\ ~q.begun /\ q.open /\ q.flow = "recovery"
      BY <3>1 DEF Closed
    <3> HIDE DEF q
    <3>3. QED
      BY <2>3, <3>2 DEF RecoverySubmit
  <2>4. ASSUME NEW pw \in Password, ChangeSubmit(t, pw) PROVE Opened
    <3>1. q = [Closed EXCEPT !.flow = "change", !.at = "read", !.typed = pw,
                             !.served = acct.m, !.exp = acct.version]
      BY <1>1, <2>4, Gone DEF ChangeSubmit
    <3>2. q.m = None /\ q.served = acct.m /\ ~q.begun /\ q.open /\ q.flow = "change"
      BY <3>1 DEF Closed
    <3> HIDE DEF q
    <3>3. QED
      BY <2>4, <3>2 DEF ChangeSubmit, Honoured
  <2>5. ASSUME Preflight(t) PROVE Opened
    <3>1. q = [Closed EXCEPT !.flow = "rotate", !.at = "review", !.served = acct.m, !.exp = acct.version]
      BY <1>1, <2>5, Gone DEF Preflight
    <3>2. q.m = None /\ q.served = acct.m /\ ~q.begun /\ q.open /\ q.flow = "rotate"
      BY <3>1 DEF Closed
    <3> HIDE DEF q
    <3>3. QED
      BY <2>5, <3>2 DEF Preflight, Honoured
  <2>6. QED
    BY <2>1, <2>2, <2>3, <2>4, <2>5
<1>3. ~Sent(t)
  BY <1>2 DEF Sent, Closed
<1> HIDE DEF q
<1>4. QED
  BY <1>2, <1>3, KeyPlain DEF q

LEMMA KeyReset ==
  ASSUME Agreed, LiveInv, Next, NEW t \in Tab, Moves(t),
         RetryReset(t) \/ GiveUpReset(t) \/ SendRewrap(t) \/ RewrapFails(t)
  PROVE  KeyMoves(t)
<1> DEFINE s == screen[t]
           q == screen'[t]
<1>1. TypeInv /\ s \in Screens /\ Shape(s)
  BY Typed DEF Agreed, Fits
<1>2. s.at \in {"lost", "read"} /\ device' = device
  BY DEF RetryReset, GiveUpReset, SendRewrap, RewrapFails
<1>3. s.flow \in {"recovery", "change"} /\ ~Sent(t) /\ s.served # None
  BY <1>1, <1>2 DEF Shape, HasServed, Sent
<1>4. Closed.m = None /\ Closed.served = None /\ Closed.flow = "none"
  BY DEF Closed
<1>5. CASE GiveUpReset(t) \/ RewrapFails(t)
  <2>1. q = Closed
    BY <1>1, <1>5, Gone DEF GiveUpReset, RewrapFails
  <2>2. QED
    BY <1>2, <1>3, <1>4, <2>1, KeyPlain
<1>6. CASE RetryReset(t)
  <2>1. q = [s EXCEPT !.at = "sent"]
    BY <1>1, <1>6, Gone DEF RetryReset
  <2>2. q.m = s.m /\ q.served = s.served /\ q.flow = s.flow
    BY <1>1, <2>1 DEF Screens
  <2> HIDE DEF q
  <2>3. QED
    BY <1>2, <1>3, <2>2, KeyPlain DEF q
<1>7. CASE SendRewrap(t)
  <2> DEFINE m == Material(Fresh, s.served.user, s.typed, s.served.key)
  <2>1. q = [s EXCEPT !.at = "sent", !.typed = None, !.m = m] /\ minted' = Fresh
    BY <1>1, <1>7, Gone DEF SendRewrap
  <2>2. q.m = m /\ q.served = s.served /\ q.flow = s.flow
    BY <1>1, <2>1 DEF Screens
  <2>3. m.user = s.served.user /\ m.key = s.served.key
    BY DEF Material
  <2> HIDE DEF m
  <2>4. FreshKey(t)
    BY <1>3, <2>1, <2>2, <2>3 DEF FreshKey
  <2> HIDE DEF q
  <2>5. QED
    BY <1>2, <1>3, <2>2, <2>4, KeyPlain DEF q
<1>8. QED
  BY <1>5, <1>6, <1>7

LEMMA KeyAcknowledge ==
  ASSUME Agreed, LiveInv, Next, NEW t \in Tab, Moves(t), Acknowledge(t)
  PROVE  KeyMoves(t)
<1>1. TypeInv /\ screen[t].at = "code" /\ device' = device /\ screen'[t] = Closed
  BY Gone DEF Agreed, Acknowledge
<1>2. ~Sent(t)
  BY <1>1, Typed DEF Fits, Shape, HasMaterial, Underway, Sent
<1>3. Closed.m = None /\ Closed.served = None /\ Closed.flow = "none"
  BY DEF Closed
<1>4. QED
  BY <1>1, <1>2, <1>3, KeyPlain

LEMMA KeySignupReceive ==
  ASSUME Agreed, LiveInv, Next, NEW t \in Tab, Moves(t), NEW answer,
         SignupReceive(t, answer), screen[t].flow = "signup"
  PROVE  KeyMoves(t)
<1> DEFINE s == screen[t]
           q == screen'[t]
<1>1. TypeInv /\ s \in Screens
  BY Typed DEF Agreed
<1>2. device' = device /\ ~Sent(t)
  BY DEF SignupReceive, Sent
<1>3. q.flow = "signup" /\ q.m \in {s.m, None} /\ q.served = s.served
  <2>1. CASE answer = "ok"
    <3>1. q = [s EXCEPT !.at = "registered", !.resume = None]
      BY <1>1, <2>1, Gone DEF SignupReceive
    <3>2. QED
      BY <1>1, <3>1 DEF Screens
  <2>2. CASE answer = "lost"
    <3>1. q = [s EXCEPT !.at = "form", !.resume = s.m, !.m = None]
      BY <1>1, <2>2, Gone DEF SignupReceive
    <3>2. QED
      BY <1>1, <3>1 DEF Screens
  <2>3. CASE answer \notin {"ok", "lost"}
    <3>1. q = [s EXCEPT !.at = "form", !.resume = Resumable(s, answer), !.m = None]
      BY <1>1, <2>3, Gone DEF SignupReceive
    <3>2. QED
      BY <1>1, <3>1 DEF Screens
  <2>4. QED
    BY <2>1, <2>2, <2>3
<1> HIDE DEF q
<1>4. QED
  BY <1>2, <1>3, KeyPlain DEF q

\* What is left of a screen that shows a code, or was closed.
LEMMA Shown ==
  ASSUME TypeInv, NEW t \in Tab, Show(t, screen[t])
  PROVE  LET q == screen'[t]
         IN  /\ q.m = None /\ q.served = None /\ ~q.begun
             /\ q = Closed \/ (q.flow = screen[t].flow /\ q.at = "code")
<1> DEFINE c == [Closed EXCEPT !.flow = screen[t].flow, !.at = "code"]
<1>1. screen'[t] = IF screen[t].open THEN c ELSE Closed
  BY DEF Show, TypeInv, TypeOK
<1>2. c.m = None /\ c.served = None /\ ~c.begun /\ c.flow = screen[t].flow /\ c.at = "code"
  BY DEF Closed
<1>3. Closed.m = None /\ Closed.served = None /\ ~Closed.begun
  BY DEF Closed
<1> HIDE DEF c
<1>4. QED
  BY <1>1, <1>2, <1>3

LEMMA KeyRecoveryReceive ==
  ASSUME Agreed, LiveInv, Next, NEW t \in Tab, Moves(t), NEW answer,
         RecoveryReceive(t, answer), screen[t].flow = "recovery"
  PROVE  KeyMoves(t)
<1> DEFINE s == screen[t]
           q == screen'[t]
<1>1. TypeInv /\ s \in Screens
  BY Typed DEF Agreed
<1>2. device' = device /\ ~Sent(t)
  BY DEF RecoveryReceive, Sent
<1>3. q.flow \in {"recovery", "none"} /\ q.m \in {s.m, None} /\ q.served \in {s.served, None}
  <2>0. Closed.m = None /\ Closed.served = None /\ Closed.flow = "none"
    BY DEF Closed
  <2>1. CASE answer = "ok"
    BY <1>1, <2>0, <2>1, Shown DEF RecoveryReceive
  <2>2. CASE answer = "lost"
    <3>1. q = [s EXCEPT !.at = "lost"]
      BY <1>1, <2>2, Gone DEF RecoveryReceive
    <3>2. QED
      BY <1>1, <3>1 DEF Screens
  <2>3. CASE answer \notin {"ok", "lost"}
    BY <1>1, <2>0, <2>3, Gone DEF RecoveryReceive
  <2>4. QED
    BY <2>1, <2>2, <2>3
<1> HIDE DEF q
<1>4. QED
  BY <1>2, <1>3, KeyPlain DEF q

\* A step by which a tab is logged out.
LEMMA KeyLogout ==
  ASSUME Agreed, LiveInv, Next, NEW t \in Tab, Moves(t), device'[t] = LoggedOut,
         LET s == screen[t]
             q == screen'[t]
         IN  /\ q.served # None => q.served = s.served
             /\ q.m \in {None, s.m}
             /\ q.flow = "rotate" => q.at # "review" /\ (q.at = "code" \/ ~q.open)
             /\ Sent(t)' /\ q.m = s.m => ~Forsakes(t),
         Releases(t)
  PROVE  KeyMoves(t)
<1> DEFINE q == screen'[t]
<1>1. ~LoggedOut.session /\ LoggedOut.worker = Cold /\ Cold.live = None /\ Cold.pending = None
  BY DEF LoggedOut, Cold
<1>2. q.at = "review" => q.flow = "rotate"
  BY DEF Moves, Fits, Shape
<1>3. PendingMoves(t)
  BY <1>1 DEF PendingMoves
<1>4. Signing(t)'
  BY <1>1 DEF Signing
<1>5. QED
  BY <1>1, <1>2, <1>3, <1>4 DEF KeyMoves

\* An accepted change or rotation is the account's, and its sender's session goes on.
LEMMA AnsweredOk ==
  ASSUME TypeInv, MaterialInv, VersionInv, NEW t \in Tab, Event(t, "ok"),
         screen[t].flow \in {"change", "rotate"}
  PROVE  LET s == screen[t]
         IN  /\ acct # None /\ acct' # None /\ acct'.m = s.m /\ wire' = wire
             /\ device[t].cookie = acct.version /\ s.exp = acct.version /\ acct.m = s.served
             /\ s.served # None /\ s.m # None /\ s.m \in Materials
             /\ acct'.version \in Nat
             /\ acct.m # s.m => acct'.version = acct.version + 1
<1> DEFINE s == screen[t]
           r == Request(t)
<1>1. /\ s.m \in Materials /\ s.m # None /\ acct # None /\ s.served # None /\ s.at = "sent"
      /\ acct' # None /\ wire' = wire /\ acct'.version \in Nat /\ acct' = Written(r)
      /\ "ok" \in Answers(r)
  BY EventFacts DEF Event
<1>2. r \in Requests /\ r.m = s.m /\ r.kind = s.flow /\ r.exp = s.exp /\ r.cookie = device[t].cookie
  BY <1>1, RequestTyped, RequestFields
<1> HIDE DEF r
<1>3. acct'.m = s.m /\ (acct.m # s.m => acct'.version = acct.version + 1)
  BY <1>1, <1>2, WrittenRow
<1>4. r.cookie = acct.version /\ r.exp = acct.version
  <2>1. CASE r.kind = "change"
    BY <1>1, <2>1 DEF Answers, ChangeAnswer, Honoured
  <2>2. CASE r.kind = "rotate"
    BY <1>1, <2>2 DEF Answers, RotateAnswer, Honoured
  <2>3. QED
    BY <1>2, <2>1, <2>2
<1>5. acct.m = s.served
  BY <1>1, <1>2, <1>4 DEF VersionInv, Started
<1>6. QED
  BY <1>1, <1>2, <1>3, <1>4, <1>5

LEMMA KeyChangeReceive ==
  ASSUME Agreed, LiveInv, Next, NEW t \in Tab, Moves(t), NEW answer, Event(t, answer),
         ChangeReceive(t, answer), screen[t].flow = "change"
  PROVE  KeyMoves(t)
<1> DEFINE s == screen[t]
           q == screen'[t]
           w == device[t].worker
<1>1. /\ TypeInv /\ MaterialInv /\ VersionInv /\ UserInv /\ KeyInv /\ Signing(t) /\ Holds(t)
      /\ device[t] \in Devices
  BY Typed DEF Agreed, LiveInv, RegInv, HoldInv
<1>2. ~Sent(t)
  BY DEF Sent
<1>3. Closed.m = None /\ Closed.served = None /\ Closed.flow = "none" /\ Closed.at = "form"
  BY DEF Closed
<1>4. CASE answer \notin {"ok", "unauthorized"}
  <2>1. device' = device /\ q = Closed
    BY <1>1, <1>4, Gone DEF ChangeReceive
  <2>2. QED
    BY <1>2, <1>3, <2>1, KeyPlain
<1>5. CASE answer = "unauthorized"
  <2>1. device'[t] = LoggedOut /\ q = Closed
    BY <1>1, <1>5, Gone, Logout DEF ChangeReceive
  <2>2. Releases(t)
    BY <1>2 DEF Releases
  <2>3. QED
    BY <1>2, <1>3, <2>1, <2>2, KeyLogout DEF Sent
<1>6. CASE answer = "ok"
  <2>1. /\ acct # None /\ acct' # None /\ acct'.m = s.m /\ wire' = wire
        /\ device[t].cookie = acct.version /\ acct.m = s.served /\ s.m # None
        /\ acct'.version \in Nat
    BY <1>1, <1>6, AnsweredOk
  <2>2. acct'.m.key = acct.m.key /\ acct'.m.user = acct.m.user
    BY <1>1, <2>1 DEF KeyInv, UserInv, Started
  <2>3. /\ q.m = None /\ q.served = None
        /\ q = Closed \/ (q.flow = "change" /\ q.at = "code")
    BY <1>1, <1>6, Shown DEF ChangeReceive
  <2>4. device'[t].session = device[t].session /\ device'[t].worker = w
    <3> DEFINE d == [device[t] EXCEPT !.cookie = acct'.version]
    <3>1. device'[t] = d
      BY <1>6 DEF ChangeReceive, TypeInv, TypeOK, Agreed
    <3>2. d.session = device[t].session /\ d.worker = w
      BY <1>1 DEF Devices
    <3> HIDE DEF d
    <3>3. QED
      BY <3>1, <3>2
  <2>5. forsaken \subseteq forsaken'
    BY <1>1, ForsakenMoves
  <2>6. Signing(t)'
    <3>1. Honoured(device[t].cookie)
      BY <2>1 DEF Honoured
    <3>2. q.flow # "reauth"
      BY <1>3, <2>3
    <3>3. ~Sent(t)'
      BY <2>3 DEF Sent
    <3>4. QED
      BY <1>1, <1>2, <2>2, <2>4, <2>5, <3>1, <3>2, <3>3 DEF Signing
  <2>7. PendingMoves(t)
    BY <1>1, <1>3, <2>3, <2>4 DEF Holds, PendingMoves
  <2>8. Releases(t)
    BY <1>2 DEF Releases
  <2>9. ~Sent(t)' /\ q.at # "review"
    BY <1>3, <2>3 DEF Sent
  <2>10. QED
    BY <1>3, <2>3, <2>4, <2>6, <2>7, <2>8, <2>9 DEF KeyMoves
<1>7. QED
  BY <1>4, <1>5, <1>6

LEMMA KeyLogin ==
  ASSUME Agreed, LiveInv, Next, NEW t \in Tab, Moves(t), NEW verified \in BOOLEAN,
         CompleteLogin(t, verified)
  PROVE  KeyMoves(t)
<1> DEFINE s == screen[t]
           q == screen'[t]
           w == device[t].worker
           v == device'[t].worker
           opens == s.served.pw = s.typed
           x == IF opens THEN Login(w, s.served.user, s.served.key) ELSE w
           in == s.flow # "reauth" /\ opens /\ verified /\ acct.m.key = s.served.key
           d == IF in THEN [session |-> TRUE, cookie |-> acct.version, worker |-> x]
                ELSE [device[t] EXCEPT !.worker = x]
<1>1. /\ TypeInv /\ MaterialInv /\ UserInv /\ Signing(t) /\ Holds(t)
      /\ device[t] \in Devices /\ s \in Screens /\ Fits(s, device[t]) /\ w \in Workers
  BY Typed, KeyTypes DEF Agreed, LiveInv, RegInv, HoldInv
<1>2. /\ s.at = "served" /\ s.flow \in {"signup", "login", "reauth"}
      /\ s.served # None /\ s.served \in Materials /\ acct # None /\ s.served.user = acct.m.user
  BY <1>1, Typed DEF CompleteLogin, Fits, Shape, HasServed, UserInv
<1>3. ~Sent(t) /\ UNCHANGED <<acct, wire>>
  BY <1>2 DEF Sent, CompleteLogin
<1>4. s.flow # "reauth" => ~device[t].session
  BY <1>1, <1>2 DEF Fits, Holds
<1>5. w.pending = None /\ (s.flow = "reauth" => w.live = None)
  BY <1>1, <1>4 DEF Holds
<1>6. x.pending = None /\ (~opens => x = w) /\ (opens => x.live = Pair(s.served.user, s.served.key))
  BY <1>1, <1>5 DEF Login, Workers
<1>7. /\ q.m = None /\ q.served = None
      /\ q = Closed \/ (q.flow = "signup" /\ q.at = "code")
  <2>1. CASE s.flow = "signup"
    BY <1>1, <2>1, Shown DEF CompleteLogin
  <2>2. CASE s.flow # "signup"
    <3>1. q = Closed
      BY <1>1, <2>2, Gone DEF CompleteLogin
    <3>2. QED
      BY <3>1 DEF Closed
  <2>3. QED
    BY <2>1, <2>2
<1>8. device'[t] = d
  BY <1>1 DEF CompleteLogin, TypeInv, TypeOK
<1> HIDE DEF x
<1>9. /\ d.worker = x
      /\ ~in => d.session = device[t].session /\ d.cookie = device[t].cookie
  BY <1>1 DEF Devices
<1>10. v = x
  BY <1>8, <1>9
<1>11. Closed.flow = "none" /\ Closed.at = "form" /\ Closed.m = None /\ Closed.served = None
  BY DEF Closed
<1>12. ~Sent(t)' /\ q.flow \notin {"reauth", "login", "rotate"} /\ q.at # "review"
  BY <1>7, <1>11 DEF Sent
<1> HIDE DEF d
<1>13. acct.m.key = s.served.key /\ opens => x.live = Pair(acct.m.user, acct.m.key)
  BY <1>2, <1>6
<1>14. Signing(t)'
  <2>1. CASE in
    BY <1>3, <1>10, <1>12, <1>13, <2>1 DEF Signing
  <2>2. CASE ~in
    <3>1. device'[t].session = device[t].session /\ device'[t].cookie = device[t].cookie
      BY <1>8, <1>9, <2>2
    <3>2. forsaken \subseteq forsaken'
      BY <1>1, ForsakenMoves
    <3>3. SUFFICES ASSUME device[t].session, Honoured(device[t].cookie), x.live # None,
                          acct.m.key \notin forsaken
                   PROVE  x.live = Pair(acct.m.user, acct.m.key)
      BY <1>3, <1>10, <1>12, <3>1, <3>2 DEF Signing, Honoured
    <3>4. s.flow = "reauth"
      BY <1>2, <1>4, <3>3
    <3>5. opens
      BY <1>5, <1>6, <3>3, <3>4
    <3>6. s.served.key = acct.m.key
      BY <1>1, <3>3, <3>4 DEF Signing
    <3>7. QED
      BY <1>13, <3>5, <3>6
  <2>3. QED
    BY <2>1, <2>2
<1>15. v.live # None => v.live = w.live \/ v.live.key = s.served.key
  <2>1. s.served.user \in Nat /\ s.served.key \in Nat
    BY <1>1, <1>2, KeyTypes
  <2>2. QED
    BY <1>1, <1>6, <1>10, <2>1, KeyTypes
<1>16. PendingMoves(t)
  BY <1>6, <1>10 DEF PendingMoves
<1>17. Releases(t)
  BY <1>3 DEF Releases
<1>18. QED
  BY <1>2, <1>7, <1>12, <1>14, <1>15, <1>16, <1>17 DEF KeyMoves

\* What was sent is not what the tab signs with yet.
LEMMA NotYetLive ==
  ASSUME TypeInv, NEW t \in Tab, Holds(t), Sent(t)
  PROVE  /\ screen[t].m \in Materials /\ device[t].worker.live # Pair(screen[t].m.user, screen[t].m.key)
         /\ Pair(screen[t].m.user, screen[t].m.key) # None
<1>1. screen[t].m \in Materials /\ screen[t].m.user \in Nat /\ screen[t].m.key \in Nat
  BY Typed, KeyTypes DEF Sent
<1>2. QED
  BY <1>1, KeyTypes DEF Holds

\* A rotation that was sent goes on.
LEMMA KeyOnward ==
  ASSUME Agreed, LiveInv, Next, NEW t \in Tab, Moves(t), Sent(t), device'[t] = device[t],
         Onward(screen[t], screen'[t]),
         screen[t].at \in {"retry", "settling"} => screen'[t].at \in {"retry", "settling", "sent"}
  PROVE  KeyMoves(t)
<1> DEFINE s == screen[t]
           q == screen'[t]
<1>1. TypeInv /\ Holds(t) /\ Fits(s, device[t])
  BY Typed DEF Agreed, LiveInv, HoldInv
<1>2. /\ q.flow = "rotate" /\ q.at # "review" /\ q.m = s.m /\ s.m # None /\ q.served = s.served
      /\ q.open => s.open
  BY DEF Onward, Underway, Sent
<1>3. s.at # "code" /\ s.flow = "rotate"
  BY <1>1 DEF Fits, Shape, HasMaterial, Underway, Sent
<1>4. ~Forsakes(t)
  BY DEF Forsakes
<1>5. Sent(t)'
  BY <1>2 DEF Sent
<1>6. PendingMoves(t)
  BY <1>1, <1>2 DEF Holds, PendingMoves
<1>7. Releases(t)
  BY <1>2, <1>5 DEF Releases
<1>8. Signing(t)'
  BY <1>2, <1>5, SigningOn
<1>9. q.open => device[t].session
  BY <1>1, <1>2, <1>3 DEF Holds
<1>10. QED
  BY <1>2, <1>4, <1>6, <1>7, <1>8, <1>9 DEF KeyMoves

\* A rotation goes back to the review, or is over, with nothing of it under way.
LEMMA KeyBack ==
  ASSUME Agreed, LiveInv, Next, NEW t \in Tab, Moves(t), UNCHANGED <<acct, wire>>,
         screen[t].flow = "rotate", screen[t].at \notin {"code", "retry", "settling"},
         device'[t].session = device[t].session, device'[t].cookie = device[t].cookie,
         LET s == screen[t]
             q == screen'[t]
             w == device[t].worker
             v == device'[t].worker
         IN  /\ q.m = None
             /\ \/ q = Closed
                \/ /\ q.flow = "rotate" /\ q.at = "review" /\ q.served = s.served
                   /\ s.open /\ q.open
             /\ \/ v = Discard(w)
                \/ v = w /\ ((s.begun /\ s.m = None) \/ (s.m # None /\ ~s.ambiguous))
             /\ s.m # None => acct.m.key # s.m.key /\ \A r \in wire : r.m # s.m
  PROVE  KeyMoves(t)
<1> DEFINE s == screen[t]
           q == screen'[t]
           w == device[t].worker
           v == device'[t].worker
<1>1. TypeInv /\ Holds(t) /\ w \in Workers
  BY KeyTypes DEF Agreed, LiveInv, HoldInv
<1>2. Closed.flow = "none" /\ Closed.at = "form" /\ Closed.served = None
  BY DEF Closed
<1>3. ~Sent(t)' /\ ~Forsakes(t)
  BY DEF Sent, Forsakes
<1>4. v.live = w.live /\ v.pending \in {w.pending, None}
  BY <1>1 DEF Discard, Workers
<1>5. Discard(w).pending = None
  BY <1>1 DEF Discard, Workers
<1>6. PendingMoves(t)
  <2>1. SUFFICES ASSUME v.pending # None PROVE PendingMoves(t)
    BY DEF PendingMoves
  <2>2. v = w
    BY <1>5, <2>1
  <2>3. QED
    BY <1>1, <1>2, <1>3, <1>4, <1>5, <2>1, <2>2 DEF Holds, PendingMoves
<1>7. Releases(t)
  BY DEF Releases, Sent
<1>8. Signing(t)'
  BY <1>2, <1>4, SigningOn DEF Sent
<1>9. q.flow = "rotate" => device'[t].session
  BY <1>1, <1>2 DEF Holds
<1>10. QED
  BY <1>2, <1>3, <1>4, <1>6, <1>7, <1>8, <1>9 DEF KeyMoves

\* A rotation of unknown outcome is given up on.
LEMMA KeyForsaken ==
  ASSUME Agreed, LiveInv, Next, NEW t \in Tab, Moves(t), acct' = acct,
         screen[t].at \in {"retry", "settling"}, screen'[t] = Closed,
         device'[t].session = device[t].session, device'[t].cookie = device[t].cookie,
         device'[t].worker \in {device[t].worker, Discard(device[t].worker)}
  PROVE  KeyMoves(t) /\ screen[t].m.key \in forsaken'
<1> DEFINE s == screen[t]
           q == screen'[t]
           w == device[t].worker
           v == device'[t].worker
<1>1. TypeInv /\ Holds(t) /\ w \in Workers
  BY KeyTypes DEF Agreed, LiveInv, HoldInv
<1>2. Closed.flow = "none" /\ Closed.at = "form" /\ Closed.served = None /\ Closed.m = None
  BY DEF Closed
<1>3. Sent(t)
  BY <1>1, Typed DEF Fits, Shape, HasMaterial, Underway, Sent
<1>4. v.live = w.live /\ v.pending \in {w.pending, None}
  BY <1>1 DEF Discard, Workers
<1>5. Forsakes(t)
  BY <1>1, <1>2, <1>3, <1>4, NotYetLive DEF Forsakes
<1>6. s.m.key \in forsaken'
  BY <1>1, <1>5, ForsakenMoves
<1>7. PendingMoves(t)
  BY <1>1, <1>2, <1>4 DEF Holds, PendingMoves
<1>8. Releases(t)
  BY <1>6 DEF Releases
<1>9. Signing(t)'
  BY <1>2, <1>4, <1>6, SigningOn
<1>10. ~Sent(t)'
  BY <1>2 DEF Sent
<1>11. QED
  BY <1>2, <1>4, <1>6, <1>7, <1>8, <1>9, <1>10 DEF KeyMoves

\* A rotation has landed, and the worker switches to its pair.
LEMMA KeyLanded ==
  ASSUME Agreed, LiveInv, Next, NEW t \in Tab, Moves(t), Sent(t), Show(t, screen[t]), wire' = wire,
         device'[t].session = device[t].session,
         device'[t].worker = Switched(device[t].worker, screen[t].served.user),
         LET s == screen[t]
         IN  /\ acct # None /\ acct' # None /\ acct'.m = s.m
             /\ acct' = acct \/ (acct'.version = acct.version + 1 /\ s.exp = acct.version)
  PROVE  KeyMoves(t)
<1> DEFINE s == screen[t]
           q == screen'[t]
           w == device[t].worker
           v == device'[t].worker
           new == Pair(s.m.user, s.m.key)
<1>1. /\ TypeInv /\ MaterialInv /\ VersionInv /\ UserInv /\ KeyInv /\ Holds(t) /\ w \in Workers
      /\ Fits(s, device[t]) /\ s \in Screens
  BY KeyTypes, Typed DEF Agreed, LiveInv, HoldInv
<1>2. s.flow = "rotate" /\ s.m # None /\ s.served # None /\ s.at # "code"
  BY <1>1 DEF Sent, Fits, Shape, HasMaterial, HasServed, Underway
<1>3. /\ q.m = None /\ q.served = None
      /\ q = Closed \/ (q.flow = "rotate" /\ q.at = "code")
  BY <1>1, <1>2, Shown
<1>4. Closed.flow = "none" /\ Closed.at = "form"
  BY DEF Closed
<1>5. ~Sent(t)' /\ q.flow \notin {"reauth", "login"} /\ q.at # "review" /\ (q.flow = "rotate" => q.at = "code")
  BY <1>3, <1>4 DEF Sent
<1>6. s.m.user = s.served.user /\ new # None /\ new.user = s.m.user
  <2>1. s.m.user = acct.m.user /\ s.served.user = acct.m.user
    BY <1>1, <1>2 DEF UserInv, Started
  <2>2. s.m.user \in Nat /\ s.m.key \in Nat
    BY <1>1, <1>2, Typed, KeyTypes
  <2>3. QED
    BY <1>1, <2>1, <2>2, KeyTypes
<1>7. v.pending = None /\ v.live \in {None, new} /\ v.live \in {w.live, w.pending}
  <2>1. CASE w.pending = None
    <3>1. v = w /\ w.live = None
      BY <1>1, <1>6, <2>1 DEF Switched, Begun, Holds
    <3>2. QED
      BY <2>1, <3>1
  <2>2. CASE w.pending # None
    <3>1. w.pending = new
      BY <1>1, <2>2 DEF Holds
    <3>2. v = Commit(w)
      BY <1>6, <2>2, <3>1 DEF Switched, Begun
    <3>3. QED
      BY <3>1, <3>2 DEF Commit
  <2>3. QED
    BY <2>1, <2>2
<1>8. Signing(t)'
  BY <1>5, <1>7 DEF Signing
<1>9. PendingMoves(t)
  BY <1>7 DEF PendingMoves
<1>10. Releases(t)
  <2>1. SUFFICES ASSUME NEW r \in wire, r.m = s.m PROVE Dead(r)'
    BY DEF Releases
  <2>2. r.kind = "rotate" /\ r.exp = s.exp
    BY <1>1, <1>2, <2>1 DEF MaterialInv, Matches
  <2>3. s.exp \in Nat /\ acct.version \in Nat /\ s.exp <= acct.version /\ (s.exp = acct.version => acct.m = s.served)
    BY <1>1, <1>2, Typed DEF VersionInv, Started, Screens
  <2>4. s.m # s.served
    BY <1>1, <1>2 DEF KeyInv, Sent
  <2>5. acct'.version > s.exp
    BY <2>3, <2>4
  <2>6. QED
    BY <2>2, <2>5 DEF Dead
<1>11. QED
  BY <1>3, <1>5, <1>7, <1>8, <1>9, <1>10 DEF KeyMoves


LEMMA KeyStart ==
  ASSUME Agreed, LiveInv, Next, NEW t \in Tab, Moves(t), NEW pw \in Password, StartRotation(t, pw)
  PROVE  KeyMoves(t)
<1> DEFINE s == screen[t]
           q == screen'[t]
           w == device[t].worker
           v == device'[t].worker
<1>1. TypeInv /\ Holds(t) /\ w \in Workers /\ s \in Screens /\ Fits(s, device[t]) /\ device[t] \in Devices
  BY KeyTypes, Typed DEF Agreed, LiveInv, HoldInv
<1>2. /\ s.at = "review" /\ s.flow = "rotate" /\ s.m = None /\ s.served # None
      /\ UNCHANGED <<acct, wire>> /\ ~Sent(t)
  BY <1>1 DEF StartRotation, Fits, Shape, HasMaterial, HasServed, Underway, Sent
<1>3. device[t].session /\ s.open
  BY <1>1, <1>2 DEF Holds
<1>4. Discard(w) \in Workers /\ Begin(w, s.served.user, Fresh) \in Workers
  BY <1>1, <1>2, WorkerTyped, KeyTypes, Typed
<1>5. CASE Discarded(t) /\ Go(t, Closed)
  <2>1. q = Closed
    BY <1>1, <1>5, Gone
  <2>2. q.m = None
    BY <2>1 DEF Closed
  <2>3. /\ v = Discard(w) /\ device'[t].session = device[t].session
        /\ device'[t].cookie = device[t].cookie
    BY <1>1, <1>4, <1>5, Reworked DEF Discarded, TypeInv, TypeOK
  <2>4. QED
    BY <1>2, <2>1, <2>2, <2>3, KeyBack
<1>6. CASE ~Discarded(t) \/ ~Go(t, Closed)
  <2>1. /\ q.at = "begun" /\ q.begun /\ q.m = None /\ q.served = s.served /\ q.flow = "rotate"
        /\ device'[t].session = device[t].session /\ device'[t].cookie = device[t].cookie
        /\ Warm(w, s.served.user)
        /\ \/ v = w /\ s.begun
           \/ v = Begin(w, s.served.user, Fresh) /\ minted' = Fresh
    <3>1. CASE s.begun /\ Go(t, [s EXCEPT !.at = "begun", !.typed = pw]) /\ UNCHANGED device
               /\ Warm(w, s.served.user)
      <4>1. q = [s EXCEPT !.at = "begun", !.typed = pw]
        BY <1>1, <3>1, Gone
      <4>2. q.at = "begun" /\ q.begun = s.begun /\ q.m = s.m /\ q.served = s.served /\ q.flow = s.flow
        BY <1>1, <4>1 DEF Screens
      <4> HIDE DEF q
      <4>3. QED
        BY <1>2, <3>1, <4>2
    <3>2. CASE /\ Go(t, [s EXCEPT !.at = "begun", !.begun = TRUE, !.typed = pw])
               /\ device' = [device EXCEPT ![t].worker = Begin(w, s.served.user, Fresh)]
               /\ minted' = Fresh /\ Warm(w, s.served.user)
      <4>1. q = [s EXCEPT !.at = "begun", !.begun = TRUE, !.typed = pw]
        BY <1>1, <3>2, Gone
      <4>2. q.at = "begun" /\ q.begun /\ q.m = s.m /\ q.served = s.served /\ q.flow = s.flow
        BY <1>1, <4>1 DEF Screens
      <4> HIDE DEF q
      <4>3. /\ v = Begin(w, s.served.user, Fresh) /\ device'[t].session = device[t].session
            /\ device'[t].cookie = device[t].cookie
        BY <1>1, <1>4, <3>2, Reworked
      <4>4. QED
        BY <1>2, <3>2, <4>2, <4>3
    <3>3. QED
      BY <1>6, <3>1, <3>2 DEF StartRotation
  <2> HIDE DEF q
  <2>2. v.live = w.live /\ w.live # None
    BY <1>1, <2>1 DEF Warm, Begin, Workers
  <2>3. v.pending # None => \/ v.pending = w.pending /\ s.begun
                            \/ v.pending.key = Fresh /\ minted' = Fresh
    BY <1>1, <2>1 DEF Begin, Workers, Pair
  <2>4. ~Forsakes(t)
    BY <1>2 DEF Forsakes
  <2>5. PendingMoves(t)
    BY <1>2, <1>3, <2>1, <2>2, <2>3, <2>4 DEF PendingMoves, q
  <2>6. ~Sent(t)'
    BY <2>1 DEF Sent, q
  <2>7. Releases(t)
    BY <1>2 DEF Releases
  <2>8. Signing(t)'
    BY <1>2, <2>1, <2>2, SigningOn DEF q
  <2>9. QED
    BY <1>3, <2>1, <2>2, <2>5, <2>6, <2>7, <2>8 DEF KeyMoves, q
<1>7. QED
  BY <1>5, <1>6

LEMMA KeySend ==
  ASSUME Agreed, LiveInv, Next, NEW t \in Tab, Moves(t), SendRotation(t)
  PROVE  KeyMoves(t)
<1> DEFINE s == screen[t]
           q == screen'[t]
           w == device[t].worker
           m == Material(Fresh, s.served.user, s.typed, w.pending.key)
<1>1. TypeInv /\ Holds(t) /\ w \in Workers /\ s \in Screens /\ Fits(s, device[t])
  BY KeyTypes, Typed DEF Agreed, LiveInv, HoldInv
<1>2. /\ s.at = "begun" /\ s.flow = "rotate" /\ s.m = None /\ s.served # None /\ s.begun
      /\ device' = device /\ minted' = Fresh /\ w.pending # None /\ w.pending.user = s.served.user
  BY <1>1 DEF SendRotation, Begun, Fits, Shape, HasMaterial, HasServed, Underway
<1>3. q = [s EXCEPT !.at = "sent", !.round = 1, !.typed = None, !.m = m]
  BY <1>1, Gone DEF SendRotation
<1>4. q.at = "sent" /\ q.flow = "rotate" /\ q.m = m /\ q.served = s.served /\ q.open = s.open
  BY <1>1, <1>2, <1>3 DEF Screens
<1>5. m.user = s.served.user /\ m.key = w.pending.key /\ m # None
  <2>1. m.user = s.served.user /\ m.key = w.pending.key
    BY DEF Material
  <2>2. q.m # None
    BY <1>4 DEF Moves, Fits, Shape, HasMaterial
  <2>3. QED
    BY <1>4, <2>1, <2>2
<1> HIDE DEF m, q
<1>6. w.pending = Pair(q.m.user, q.m.key)
  BY <1>1, <1>2, <1>4, <1>5, KeyTypes DEF Pair, Pairs
<1>7. ~Sent(t)
  BY <1>2 DEF Sent
<1>8. FreshKey(t)
  BY <1>2, <1>4, <1>5, <1>6, <1>7 DEF FreshKey, q
<1>9. PendingMoves(t)
  BY <1>1, <1>2, <1>4, <1>5 DEF PendingMoves, Holds, q
<1>10. Releases(t)
  BY <1>7 DEF Releases
<1>11. Signing(t)'
  BY <1>2, <1>4, <1>7, SigningOn DEF q
<1>12. q.open => device[t].session
  BY <1>1, <1>2, <1>4 DEF Holds
<1>13. QED
  BY <1>2, <1>4, <1>5, <1>8, <1>9, <1>10, <1>11, <1>12 DEF KeyMoves, q

LEMMA KeyPrepare ==
  ASSUME Agreed, LiveInv, Next, NEW t \in Tab, Moves(t), NEW unreachable \in BOOLEAN,
         PrepareFails(t, unreachable)
  PROVE  KeyMoves(t)
<1> DEFINE s == screen[t]
<1>1. TypeInv /\ s \in Screens /\ Fits(s, device[t])
  BY Typed DEF Agreed
<1>2. /\ s.at = "begun" /\ s.flow = "rotate" /\ s.m = None /\ s.served # None /\ s.begun
      /\ UNCHANGED <<acct, wire>> /\ BackToReview(t, s, unreachable)
  BY <1>1 DEF PrepareFails, Fits, Shape, HasMaterial, HasServed, Underway
<1>3. LET q == screen'[t]
          w == device[t].worker
      IN  /\ q.m = None
          /\ q = Closed \/ (q.flow = "rotate" /\ q.at = "review" /\ q.served = s.served /\ s.open /\ q.open)
          /\ device'[t].cookie = device[t].cookie /\ device'[t].session = device[t].session
          /\ device'[t].worker = Discard(w) \/ device'[t].worker = w
  BY <1>1, <1>2, Back
<1>4. QED
  BY <1>2, <1>3, KeyBack

\* What is known of a pair whose every send was answered.
LEMMA NotOut ==
  ASSUME Agreed, LiveInv, NEW t \in Tab, Sent(t), ~screen[t].ambiguous
  PROVE  acct.m.key # screen[t].m.key /\ \A r \in wire : r.m # screen[t].m
<1>1. TypeInv /\ Holds(t) /\ Unsent(t)
  BY DEF Agreed, LiveInv, HoldInv, SentInv
<1>2. acct # None
  BY <1>1, Typed DEF Fits, Sent
<1>3. QED
  BY <1>1, <1>2 DEF Holds, Private, Unsent, Sent

LEMMA KeyHalt ==
  ASSUME Agreed, LiveInv, Next, NEW t \in Tab, Moves(t), NEW unreachable \in BOOLEAN,
         Sent(t), screen[t].at \notin {"retry", "settling"}, UNCHANGED <<acct, wire>>,
         NEW s \in {screen[t], [screen[t] EXCEPT !.ambiguous = FALSE]}, Halt(t, s, unreachable),
         ~s.ambiguous /\ screen[t].ambiguous =>
           /\ ~unreachable
           /\ acct.m.key # screen[t].m.key /\ \A r \in wire : r.m # screen[t].m
  PROVE  KeyMoves(t)
<1> DEFINE p == screen[t]
<1>1. TypeInv /\ p \in Screens /\ Fits(p, device[t])
  BY Typed DEF Agreed
<1>2. /\ p.flow = "rotate" /\ p.m # None /\ p.served # None /\ p.at # "code"
  BY <1>1 DEF Fits, Shape, HasMaterial, HasServed, Underway, Sent
<1>3. /\ s \in Screens /\ s.m = p.m /\ s.served = p.served /\ s.open = p.open
      /\ s.ambiguous => s = p
  BY <1>1 DEF Screens
<1>4. CASE s.ambiguous
  <2> DEFINE q == [p EXCEPT !.at = "settling"]
  <2>1. Onward(p, q) /\ q.at = "settling"
    BY <1>1, <1>2, OnwardFits DEF Fits, Underway
  <2>2. Go(t, q) /\ device' = device
    BY <1>3, <1>4 DEF Halt
  <2> HIDE DEF q
  <2>3. screen'[t] = q
    BY <1>1, <2>2, Gone
  <2>4. QED
    BY <2>1, <2>2, <2>3, KeyOnward
<1>5. CASE ~s.ambiguous
  <2>1. BackToReview(t, s, unreachable)
    BY <1>5 DEF Halt
  <2>2. LET q == screen'[t]
            w == device[t].worker
        IN  /\ q.m = None
            /\ \/ q = Closed
               \/ /\ q.flow = "rotate" /\ q.at = "review" /\ q.served = s.served /\ s.open /\ q.open
                  /\ q.begun = unreachable
            /\ device'[t].cookie = device[t].cookie /\ device'[t].session = device[t].session
            /\ device'[t].worker = Discard(w) \/ (device'[t].worker = w /\ q.begun)
    BY <1>1, <1>2, <1>3, <2>1, Back
  <2>3. ~Closed.begun
    BY DEF Closed
  <2>4. device'[t].worker = Discard(device[t].worker) \/ (device'[t].worker = device[t].worker /\ ~p.ambiguous)
    BY <1>5, <2>2, <2>3
  <2>5. acct.m.key # p.m.key /\ \A r \in wire : r.m # p.m
    BY <1>5, NotOut
  <2>6. QED
    BY <1>2, <1>3, <2>2, <2>4, <2>5, KeyBack
<1>6. QED
  BY <1>4, <1>5

LEMMA KeyHandoffs ==
  ASSUME Agreed, LiveInv, Next, NEW t \in Tab, Moves(t), AnswerHandoffs(t)
  PROVE  KeyMoves(t)
<1> DEFINE s == screen[t]
<1>0. TypeInv /\ s \in Screens /\ Fits(s, device[t])
  BY Typed DEF Agreed
<1>1. s.at = "handoffs" /\ s.flow = "rotate" /\ s.m # None /\ UNCHANGED <<acct, wire>> /\ Sent(t)
  BY <1>0 DEF AnswerHandoffs, Fits, Shape, HasMaterial, Underway, Sent
<1>2. CASE Halt(t, s, TRUE) \/ Halt(t, s, FALSE)
  BY <1>1, <1>2, KeyHalt
<1>3. CASE ~(Halt(t, s, TRUE) \/ Halt(t, s, FALSE))
  <2> DEFINE n == Rounds(s.round)
             q == [s EXCEPT !.at = "sent", !.round = n]
  <2>1. n \in Nat
    BY <1>0 DEF Rounds, Screens
  <2>2. Go(t, q) /\ device' = device
    BY <1>3 DEF AnswerHandoffs
  <2> HIDE DEF n
  <2>3. Onward(s, q)
    BY <1>0, <1>1, <2>1, ResendFits DEF Fits
  <2> HIDE DEF q
  <2>4. screen'[t] = q
    BY <1>0, <2>2, Gone
  <2>5. QED
    BY <1>1, <2>2, <2>3, <2>4, KeyOnward
<1>4. QED
  BY <1>2, <1>3

LEMMA KeyRotateReceive ==
  ASSUME Agreed, LiveInv, Next, NEW t \in Tab, Moves(t), NEW answer, Event(t, answer),
         RotateReceive(t, answer), screen[t].flow = "rotate"
  PROVE  KeyMoves(t)
<1> DEFINE s == screen[t]
<1>1. /\ TypeInv /\ MaterialInv /\ VersionInv /\ UserInv /\ KeyInv
      /\ s \in Screens /\ device[t] \in Devices /\ Fits(s, device[t]) /\ Shape(s)
      /\ s.at = "sent" /\ s.m # None /\ s.served \in Materials /\ acct # None /\ Sent(t)
  BY EventFacts DEF Agreed, LiveInv, Fits, Sent
<1>2. answer \notin {"ok", "lost"} => UNCHANGED <<acct, wire>>
  BY DEF Event
<1>3. CASE answer = "ok"
  <2> DEFINE w == Switched(device[t].worker, s.served.user)
             d == [device[t] EXCEPT !.cookie = acct'.version, !.worker = w]
  <2>1. /\ acct' # None /\ acct'.m = s.m /\ wire' = wire /\ s.exp = acct.version
        /\ acct.m = s.served /\ (acct.m # s.m => acct'.version = acct.version + 1)
    BY <1>1, <1>3, AnsweredOk
  <2>2. acct.m # s.m
    BY <1>1, <2>1 DEF KeyInv, Sent
  <2>3. Show(t, s)
    BY <1>3 DEF RotateReceive
  <2>4. device' = [device EXCEPT ![t] = d]
    BY <1>1, <1>3 DEF RotateReceive, TypeInv, TypeOK
  <2> HIDE DEF w
  <2>5. d.session = device[t].session /\ d.worker = w
    BY <1>1 DEF Devices
  <2> HIDE DEF d
  <2>6. device'[t] = d
    BY <1>1, <2>4 DEF TypeInv, TypeOK
  <2>7. device'[t].session = device[t].session /\ device'[t].worker = Switched(device[t].worker, s.served.user)
    BY <2>5, <2>6 DEF w
  <2>8. QED
    BY <1>1, <2>1, <2>2, <2>3, <2>7, KeyLanded
<1>4. CASE answer = "handoff"
  <2> DEFINE q == [s EXCEPT !.at = "handoffs"]
  <2>1. Onward(s, q) /\ Go(t, q) /\ device' = device
    BY <1>1, <1>4, OnwardFits DEF Underway, RotateReceive
  <2> HIDE DEF q
  <2>2. screen'[t] = q
    BY <1>1, <2>1, Gone
  <2>3. QED
    BY <1>1, <2>1, <2>2, KeyOnward
<1>5. CASE answer = "lost"
  <2> DEFINE q == [s EXCEPT !.at = "settling", !.ambiguous = TRUE]
  <2>1. Onward(s, q)
    BY <1>1, OnwardFits DEF Underway
  <2>2. Go(t, q) /\ device' = device
    BY <1>5 DEF RotateReceive
  <2> HIDE DEF q
  <2>3. screen'[t] = q
    BY <1>1, <2>2, Gone
  <2>4. QED
    BY <1>1, <2>1, <2>2, <2>3, KeyOnward
<1>6. CASE answer = "expired" /\ s.ambiguous
  <2> DEFINE q == [s EXCEPT !.at = "waiting"]
  <2>1. Onward(s, q) /\ Go(t, q) /\ device' = device
    BY <1>1, <1>6, OnwardFits DEF Underway, RotateReceive
  <2> HIDE DEF q
  <2>2. screen'[t] = q
    BY <1>1, <2>1, Gone
  <2>3. QED
    BY <1>1, <2>1, <2>2, KeyOnward
<1>7. CASE answer = "unauthorized" /\ s.ambiguous
  <2> DEFINE q == [s EXCEPT !.at = "settling", !.open = FALSE]
  <2>1. Onward(s, q) /\ q.at = "settling"
    BY <1>1, OnwardFits DEF Underway
  <2>2. Go(t, q) /\ Dropped(t)
    BY <1>7 DEF RotateReceive
  <2>3. ~q.open
    BY <1>1 DEF Screens
  <2> HIDE DEF q
  <2>4. screen'[t] = q
    BY <1>1, <2>2, Gone
  <2>5. device'[t] = LoggedOut
    BY <1>1, <2>2, Logout
  <2>6. Releases(t)
    BY <1>1, <2>1, <2>4 DEF Releases, Sent, Onward
  <2>7. ~Forsakes(t)
    BY <1>1 DEF Forsakes
  <2>8. QED
    BY <2>1, <2>3, <2>4, <2>5, <2>6, <2>7, KeyLogout DEF Onward
<1>8. CASE answer = "unauthorized" /\ ~s.ambiguous
  <2>1. screen'[t] = Closed /\ device'[t] = LoggedOut
    BY <1>1, <1>8, Gone, Logout DEF RotateReceive
  <2>2. Closed.m = None /\ Closed.served = None /\ Closed.flow = "none"
    BY DEF Closed
  <2>3. \A r \in wire' : r.m # s.m
    BY <1>1, <1>2, <1>8, NotOut
  <2>4. Releases(t)
    BY <2>3 DEF Releases
  <2>5. ~Sent(t)'
    BY <2>1, <2>2 DEF Sent
  <2>6. QED
    BY <2>1, <2>2, <2>4, <2>5, KeyLogout
<1>9. CASE answer \notin {"ok", "handoff", "lost", "unauthorized"} /\ ~(answer = "expired" /\ s.ambiguous)
  <2>1. Halt(t, s, FALSE) /\ UNCHANGED <<acct, wire>>
    BY <1>2, <1>9 DEF RotateReceive
  <2>2. QED
    BY <1>1, <2>1, KeyHalt
<1>10. QED
  BY <1>3, <1>4, <1>5, <1>6, <1>7, <1>8, <1>9

\* A run that finds its rotation on the account.
LEMMA KeyFound ==
  ASSUME Agreed, LiveInv, Next, NEW t \in Tab, Moves(t), Sent(t), Landed(t, screen[t]),
         acct.m = screen[t].m, UNCHANGED <<acct, wire>>
  PROVE  KeyMoves(t)
<1> DEFINE s == screen[t]
           w == Switched(device[t].worker, s.served.user)
<1>1. TypeInv /\ Fits(s, device[t]) /\ acct # None
  BY Typed DEF Agreed, Fits, Sent
<1>2. s.served \in Materials /\ s.served.user \in Nat
  BY <1>1, Typed, KeyTypes DEF Fits, Shape, HasMaterial, HasServed, Underway, Sent
<1>3. w \in Workers
  BY <1>1, <1>2, WorkerTyped
<1>4. device' = [device EXCEPT ![t].worker = w]
  BY <1>1 DEF Landed, TypeInv, TypeOK
<1> HIDE DEF w
<1>5. device'[t].session = device[t].session /\ device'[t].worker = w
  BY <1>1, <1>3, <1>4, Reworked
<1>6. Show(t, s)
  BY DEF Landed
<1>7. QED
  BY <1>1, <1>5, <1>6, KeyLanded DEF w

LEMMA KeySettle ==
  ASSUME Agreed, LiveInv, Next, NEW t \in Tab, Moves(t),
         SettleOutcome(t) \/ StateAfterWait(t) \/ RetryRotation(t)
  PROVE  KeyMoves(t)
<1> DEFINE s == screen[t]
<1>0. /\ TypeInv /\ VersionInv /\ HoldInv /\ KeyInv /\ MaterialInv
      /\ s \in Screens /\ Fits(s, device[t]) /\ Shape(s)
  BY Typed DEF Agreed, LiveInv, Fits
<1>1. s.at \in {"settling", "waiting", "retry"} /\ UNCHANGED <<acct, wire>>
  BY DEF SettleOutcome, StateAfterWait, RetryRotation
<1>2. s.flow = "rotate" /\ s.m # None /\ acct # None /\ s.served # None /\ Sent(t)
  BY <1>0, <1>1 DEF Fits, Shape, HasMaterial, HasServed, Underway, Sent
<1>3. CASE acct.m = s.m /\ Landed(t, s)
  BY <1>1, <1>2, <1>3, KeyFound
<1>4. CASE SettleOutcome(t) /\ ~(acct.m = s.m /\ Landed(t, s))
  <2>1. device' = device /\ Go(t, IF s.open THEN [s EXCEPT !.at = "retry"] ELSE Closed) /\ s.at = "settling"
    BY <1>4 DEF SettleOutcome
  <2>2. CASE s.open
    <3> DEFINE q == [s EXCEPT !.at = "retry"]
    <3>1. Onward(s, q) /\ q.at = "retry"
      BY <1>0, <1>2, OnwardFits DEF Underway
    <3>2. Go(t, q)
      BY <2>1, <2>2
    <3> HIDE DEF q
    <3>3. screen'[t] = q
      BY <1>0, <3>2, Gone
    <3>4. QED
      BY <1>2, <2>1, <3>1, <3>3, KeyOnward
  <2>3. CASE ~s.open
    <3>1. screen'[t] = Closed
      BY <1>0, <2>1, <2>3, Gone
    <3>2. QED
      BY <1>1, <2>1, <3>1, KeyForsaken
  <2>4. QED
    BY <2>2, <2>3
<1>5. CASE StateAfterWait(t) /\ ~(acct.m = s.m /\ Landed(t, s))
  <2>1. s.at = "waiting" /\ (\A r \in wire : r.m # s.m)
    BY <1>5 DEF StateAfterWait
  <2>2. CASE Dropped(t) /\ Go(t, [s EXCEPT !.at = "settling", !.open = FALSE])
    <3> DEFINE q == [s EXCEPT !.at = "settling", !.open = FALSE]
    <3>1. Onward(s, q) /\ q.at = "settling"
      BY <1>0, <1>2, OnwardFits DEF Underway
    <3>2. Go(t, q) /\ Dropped(t)
      BY <2>2
    <3>3. ~q.open
      BY <1>0 DEF Screens
    <3> HIDE DEF q
    <3>4. screen'[t] = q
      BY <1>0, <3>2, Gone
    <3>5. device'[t] = LoggedOut
      BY <1>0, <3>2, Logout
    <3>6. Releases(t)
      BY <1>2, <3>1, <3>4 DEF Releases, Sent, Onward
    <3>7. ~Forsakes(t)
      BY <2>1 DEF Forsakes
    <3>8. QED
      BY <3>1, <3>3, <3>4, <3>5, <3>6, <3>7, KeyLogout DEF Onward
  <2>3. CASE Go(t, [s EXCEPT !.at = "settling"]) /\ UNCHANGED device
    <3> DEFINE q == [s EXCEPT !.at = "settling"]
    <3>1. Onward(s, q)
      BY <1>0, <1>2, OnwardFits DEF Underway
    <3>2. Go(t, q)
      BY <2>3
    <3> HIDE DEF q
    <3>3. screen'[t] = q
      BY <1>0, <3>2, Gone
    <3>4. QED
      BY <1>2, <2>1, <2>3, <3>1, <3>3, KeyOnward
  <2>4. CASE acct.m # s.m /\ acct.version = s.exp /\ Halt(t, [s EXCEPT !.ambiguous = FALSE], FALSE)
    <3>1. acct.m = s.served
      BY <1>0, <1>2, <2>1, <2>4 DEF VersionInv, Started
    <3>2. acct.m.key # s.m.key
      BY <1>0, <1>2, <3>1 DEF KeyInv
    <3>3. QED
      BY <1>1, <1>2, <2>1, <2>4, <3>2, KeyHalt
  <2>5. QED
    BY <1>5, <2>2, <2>3, <2>4 DEF StateAfterWait
<1>6. CASE RetryRotation(t) /\ ~(acct.m = s.m /\ Landed(t, s))
  <2>1. s.at = "retry"
    BY <1>6 DEF RetryRotation
  <2>2. CASE Discarded(t) /\ Go(t, Closed)
    <3>1. screen'[t] = Closed
      BY <1>0, <2>2, Gone
    <3>2. /\ device'[t].worker = Discard(device[t].worker)
          /\ device'[t].session = device[t].session /\ device'[t].cookie = device[t].cookie
      BY <1>0, <2>2, WorkerTyped, Reworked DEF Discarded, TypeInv, TypeOK
    <3>3. QED
      BY <1>1, <2>1, <3>1, <3>2, KeyForsaken
  <2>3. CASE Go(t, [s EXCEPT !.at = "sent", !.round = 1]) /\ UNCHANGED device
    <3> DEFINE q == [s EXCEPT !.at = "sent", !.round = 1]
    <3>1. Onward(s, q) /\ q.at = "sent"
      BY <1>0, <1>2, ResendFits
    <3>2. Go(t, q)
      BY <2>3
    <3> HIDE DEF q
    <3>3. screen'[t] = q
      BY <1>0, <3>2, Gone
    <3>4. QED
      BY <1>2, <2>3, <3>1, <3>3, KeyOnward
  <2>4. QED
    BY <1>6, <2>2, <2>3 DEF RetryRotation
<1>7. QED
  BY <1>3, <1>4, <1>5, <1>6

LEMMA KeyLeave ==
  ASSUME Agreed, LiveInv, Next, NEW t \in Tab, Moves(t), LeaveRotation(t)
  PROVE  KeyMoves(t)
<1> DEFINE s == screen[t]
           q == screen'[t]
           w == device[t].worker
<1>1. TypeInv /\ Holds(t) /\ w \in Workers /\ s \in Screens /\ Fits(s, device[t]) /\ Shape(s)
  BY KeyTypes, Typed DEF Agreed, LiveInv, HoldInv, Fits
<1>2. s.flow = "rotate" /\ UNCHANGED <<acct, wire>>
  BY DEF LeaveRotation
<1>3. Closed.m = None /\ Closed.served = None /\ Closed.flow = "none"
  BY DEF Closed
<1>4. CASE s.at = "review" /\ Discarded(t) /\ Go(t, Closed)
  <2>1. q = Closed /\ s.m = None
    BY <1>1, <1>4, Gone DEF Shape, HasMaterial, Underway
  <2>2. /\ device'[t].worker = Discard(w)
        /\ device'[t].session = device[t].session /\ device'[t].cookie = device[t].cookie
    BY <1>1, <1>4, WorkerTyped, Reworked DEF Discarded, TypeInv, TypeOK
  <2>3. QED
    BY <1>2, <1>3, <1>4, <2>1, <2>2, KeyBack
<1>5. CASE s.at \in {"review", "retry"} /\ Go(t, Closed) /\ UNCHANGED device
  <2>1. q = Closed
    BY <1>1, <1>5, Gone
  <2>2. CASE s.at = "review"
    <3>1. ~Sent(t)
      BY <1>1, <2>2 DEF Shape, HasMaterial, Underway, Sent
    <3>2. QED
      BY <1>3, <1>5, <2>1, <3>1, KeyPlain
  <2>3. CASE s.at = "retry"
    BY <1>2, <1>5, <2>1, <2>3, KeyForsaken
  <2>4. QED
    BY <1>5, <2>2, <2>3
<1>6. CASE s.at \notin {"review", "retry", "code"} /\ Go(t, [s EXCEPT !.open = FALSE]) /\ UNCHANGED device
  <2>1. q = [s EXCEPT !.open = FALSE]
    BY <1>1, <1>6, Gone
  <2>2. /\ q.m = s.m /\ q.served = s.served /\ q.at = s.at /\ q.flow = s.flow /\ q.begun = s.begun
        /\ ~q.open
    BY <1>1, <2>1 DEF Screens
  <2> HIDE DEF q
  <2>3. ~Forsakes(t)
    BY <2>2 DEF Forsakes, q
  <2>4. PendingMoves(t)
    BY <1>1, <1>2, <1>6, <2>2, <2>3 DEF PendingMoves, Holds, q
  <2>5. Releases(t)
    BY <2>2 DEF Releases, Sent, q
  <2>6. Sent(t) => Sent(t)' /\ q.m = s.m
    BY <2>2 DEF Sent, q
  <2>7. Signing(t)'
    BY <1>2, <1>6, <2>2, <2>6, SigningOn DEF q
  <2>8. QED
    BY <1>2, <1>6, <2>2, <2>3, <2>4, <2>5, <2>7 DEF KeyMoves, q
<1>7. QED
  BY <1>4, <1>5, <1>6 DEF LeaveRotation

LEMMA KeyWatch ==
  ASSUME Agreed, LiveInv, Next, NEW t \in Tab, Moves(t), Watch(t)
  PROVE  KeyMoves(t)
<1> DEFINE s == screen[t]
           q == screen'[t]
           gone == [s EXCEPT !.open = FALSE]
<1>1. TypeInv /\ Holds(t) /\ s \in Screens /\ Fits(s, device[t]) /\ Shape(s)
  BY Typed DEF Agreed, LiveInv, HoldInv, Fits
<1>2. device'[t] = LoggedOut
  BY <1>1, Logout DEF Watch
<1>3. Closed.m = None /\ Closed.served = None /\ Closed.flow = "none" /\ Closed.at = "form"
  BY DEF Closed
<1>4. gone.m = s.m /\ gone.served = s.served /\ gone.at = s.at /\ gone.flow = s.flow /\ ~gone.open
  BY <1>1 DEF Screens
<1>5. \/ q = Closed /\ s.at \in {"review", "retry", "code"}
      \/ q = gone /\ s.at \notin {"review", "retry", "code"}
      \/ q = s /\ s.flow # "rotate"
  <2> HIDE DEF gone
  <2>1. \/ Go(t, Closed) /\ s.at \in {"review", "retry", "code"}
        \/ Go(t, gone) /\ s.at \notin {"review", "retry", "code"}
        \/ Go(t, s) /\ s.flow # "rotate"
    BY DEF Watch, gone
  <2>2. QED
    BY <1>1, <2>1, Gone
<1> HIDE DEF q, gone
<1>6. CASE q = Closed /\ s.at \in {"review", "retry", "code"}
  <2>1. Releases(t)
    <3>1. CASE s.at = "retry"
      <4>1. Sent(t)
        BY <1>1, <3>1 DEF Shape, HasMaterial, Underway, Sent
      <4>2. device'[t].worker.live = None
        BY <1>2 DEF LoggedOut, Cold
      <4>3. Forsakes(t)
        BY <1>1, <1>3, <1>6, <3>1, <4>1, <4>2, NotYetLive DEF Forsakes, q
      <4>4. QED
        BY <1>1, <4>3, ForsakenMoves DEF Releases
    <3>2. CASE s.at # "retry"
      <4>1. ~Sent(t)
        BY <1>1, <1>6, <3>2 DEF Shape, HasMaterial, Underway, Sent
      <4>2. QED
        BY <4>1 DEF Releases
    <3>3. QED
      BY <3>1, <3>2
  <2>2. ~Sent(t)'
    BY <1>3, <1>6 DEF Sent, q
  <2>3. QED
    BY <1>2, <1>3, <1>6, <2>1, <2>2, KeyLogout DEF q
<1>7. CASE q = gone /\ s.at \notin {"review", "retry", "code"}
  <2>1. Releases(t)
    BY <1>4, <1>7 DEF Releases, Sent, q
  <2>2. ~Forsakes(t)
    BY <1>4, <1>7 DEF Forsakes, q
  <2>3. QED
    BY <1>2, <1>4, <1>7, <2>1, <2>2, KeyLogout DEF q
<1>8. CASE q = s /\ s.flow # "rotate"
  <2>1. ~Sent(t) /\ ~Sent(t)'
    BY <1>8 DEF Sent, q
  <2>2. Releases(t)
    BY <2>1 DEF Releases
  <2>3. QED
    BY <1>2, <1>8, <2>1, <2>2, KeyLogout DEF q
<1>9. QED
  BY <1>5, <1>6, <1>7, <1>8

LEMMA KeyAnswer ==
  ASSUME Agreed, LiveInv, Next, NEW t \in Tab, Moves(t), NEW answer, Event(t, answer)
  PROVE  KeyMoves(t)
BY KeySignupReceive, KeyRecoveryReceive, KeyChangeReceive, KeyRotateReceive DEF Event, Receive

LEMMA KeyEvery ==
  ASSUME Agreed, LiveInv, Next, NEW t \in Tab, Moves(t), TabStep(t)
  PROVE  KeyMoves(t)
<1>0. TypeInv
  BY DEF Agreed
<1>1. ASSUME NEW pw \in Password,
             \/ SignupSubmit(t, pw) \/ LoginSubmit(t, pw) \/ ReauthSubmit(t, pw)
             \/ RecoverySubmit(t, pw) \/ ChangeSubmit(t, pw) \/ StartRotation(t, pw)
      PROVE  KeyMoves(t)
  BY <1>1, KeySignup, KeyOpen, KeyStart
<1>2. CASE Proceed(t)
  <2>1. CASE SignupChallenge(t) \/ CompleteLogin(t, TRUE) \/ SendRewrap(t) \/ RewrapFails(t)
    BY <2>1, KeySignup, KeyLogin, KeyReset
  <2>2. CASE SendRotation(t) \/ \E unreachable \in BOOLEAN : PrepareFails(t, unreachable)
    BY <2>2, KeySend, KeyPrepare
  <2>3. CASE Answered(t)
    BY <1>0, <2>3, ServedEvent, KeyAnswer
  <2>4. CASE AnswerHandoffs(t) \/ SettleOutcome(t) \/ StateAfterWait(t)
    BY <2>4, KeyHandoffs, KeySettle
  <2>5. QED
    BY <1>2, <2>1, <2>2, <2>3, <2>4 DEF Proceed
<1>3. CASE CompleteLogin(t, FALSE) \/ Lost(t)
  BY <1>0, <1>3, KeyLogin, ServedEvent, KeyAnswer
<1>4. CASE LeaveSignup(t) \/ RetryReset(t) \/ GiveUpReset(t) \/ Preflight(t)
             \/ RetryRotation(t) \/ LeaveRotation(t) \/ Acknowledge(t) \/ Watch(t)
  BY <1>4, KeySignup, KeyReset, KeyOpen, KeySettle, KeyLeave, KeyAcknowledge, KeyWatch
<1>5. QED
  BY <1>1, <1>2, <1>3, <1>4 DEF TabStep

LEMMA LiveInit == Init => LiveInv
<1> SUFFICES ASSUME Init PROVE LiveInv
  OBVIOUS
<1>1. /\ acct = None /\ wire = {} /\ forsaken = {}
      /\ \A t \in Tab : screen[t] = Closed /\ device[t] = LoggedOut
  BY DEF Init
<1>2. /\ Closed.m = None /\ Closed.served = None /\ Closed.resume = None
      /\ Closed.flow = "none" /\ Closed.at = "form"
  BY DEF Closed
<1>3. ~LoggedOut.session /\ LoggedOut.worker.live = None /\ LoggedOut.worker.pending = None
  BY DEF LoggedOut, Cold
<1>4. \A t \in Tab : ~Sent(t)
  BY <1>1, <1>2 DEF Sent
<1>5. UserInv
  BY <1>1, <1>2 DEF UserInv
<1>6. KeyInv
  BY <1>1, <1>2, <1>3, <1>4, NoneIsApart DEF KeyInv, Known
<1>7. HoldInv
  BY <1>1, <1>2, <1>3, <1>4 DEF HoldInv, Holds
<1>8. RegInv
  BY <1>1, <1>2, <1>3 DEF RegInv, Signing
<1>9. QED
  BY <1>5, <1>6, <1>7, <1>8 DEF LiveInv

LEMMA LiveTab ==
  ASSUME Agreed, LiveInv, Next, NEW t \in Tab, TabStep(t)
  PROVE  LiveInv'
<1>1. TypeInv /\ MaterialInv /\ VersionInv /\ UserInv /\ KeyInv /\ HoldInv /\ RegInv
  BY DEF Agreed, LiveInv
<1>2. Moves(t) /\ KeyMoves(t)
  BY <1>1, TabMoves, KeyEvery
<1>3. UserInv' /\ KeyInv' /\ HoldInv' /\ RegInv'
  BY <1>1, <1>2, UserTab, KeyTab, HoldTab, RegTab
<1>4. QED
  BY <1>3 DEF LiveInv

LEMMA LiveNext == Agreed /\ LiveInv /\ [Next]_vars => LiveInv'
<1> SUFFICES ASSUME Agreed, LiveInv, [Next]_vars PROVE LiveInv'
  OBVIOUS
<1>1. TypeInv /\ MaterialInv /\ VersionInv
  BY DEF Agreed
<1>2. CASE Next
  <2>1. ASSUME NEW t \in Tab, TabStep(t) PROVE LiveInv'
    BY <1>2, <2>1, LiveTab
  <2>2. ASSUME NEW t \in Tab, Reload(t) PROVE LiveInv'
    BY <1>1, <1>2, <2>2, LiveReload
  <2>3. CASE Late
    BY <1>1, <1>2, <2>3, LiveLate
  <2>4. QED
    BY <1>2, <2>1, <2>2, <2>3, StepCases DEF Next
<1>3. CASE UNCHANGED vars
  <2>1. UNCHANGED <<acct, device, screen, wire, minted, forsaken>>
    BY <1>3 DEF vars, flows
  <2>2. UserInv' /\ KeyInv'
    BY <2>1 DEF LiveInv, UserInv, KeyInv, Known, Sent
  <2>3. HoldInv'
    BY <2>1 DEF LiveInv, HoldInv, Holds, Sent, Private
  <2>4. RegInv'
    BY <2>1 DEF LiveInv, RegInv, Signing, Followed, Honoured, Sent, Dead
  <2>5. QED
    BY <2>2, <2>3, <2>4 DEF LiveInv
<1>4. QED
  BY <1>2, <1>3

-----------------------------------------------------------------------------
(* The theorems.                                                           *)

\* What holds while every answer is the account's own.
FateInv == AskedInv /\ DeniedInv /\ CodeInv

LEMMA AgreedInit == Init => Agreed
<1> SUFFICES ASSUME Init PROVE Agreed
  OBVIOUS
<1>1. /\ acct = None /\ wire = {} /\ minted = 0
      /\ \A t \in Tab : screen[t] = Closed /\ device[t] = LoggedOut
  BY DEF Init
<1>2. /\ Closed.m = None /\ Closed.resume = None /\ Closed.flow = "none" /\ LoggedOut.cookie = 0
  BY DEF Closed, LoggedOut
<1>3. \A m \in Materials : ~Known(m)
  BY <1>1, <1>2, NoneIsApart DEF Known
<1>4. MaterialInv
  BY <1>1, <1>2, <1>3 DEF MaterialInv
<1>5. VersionInv
  BY <1>1, <1>2 DEF VersionInv, ResetMark, Started
<1>6. SentInv
  BY <1>1, <1>2 DEF SentInv, Unsent
<1>7. QED
  BY <1>4, <1>5, <1>6, TypeInit DEF Agreed

LEMMA AgreedNext == Agreed /\ [Next]_vars => Agreed'
BY TypeNext, MaterialNext, VersionNext, SentNext DEF Agreed

LEMMA FateInit == Init => FateInv
<1> SUFFICES ASSUME Init PROVE FateInv
  OBVIOUS
<1>1. /\ acct = None /\ wire = {} /\ minted = 0 /\ denied = {}
      /\ \A t \in Tab : screen[t] = Closed
  BY DEF Init
<1>2. Closed.m = None /\ Closed.resume = None /\ Closed.at = "form"
  BY DEF Closed
<1>3. QED
  BY <1>1, <1>2 DEF FateInv, AskedInv, DeniedInv, CodeInv, CodeNotLost

LEMMA FateNext ==
  ASSUME ~Throttles
  PROVE  Agreed /\ FateInv /\ [Next]_vars => FateInv'
BY DeniedNext, CodeNext DEF Agreed, FateInv

\* While nothing but the account answers for it, what a flow reports as
\* definitely refused, so that its material is dropped and the user starts over,
\* never becomes the account's: not by an earlier send of the same request that
\* arrives late, not by a resend, and not by what another tab sends
\* (runSignup.ts, runRecovery.ts, runChangePassword.ts and runKeyRotation.ts).
THEOREM RefusedNeverLands ==
  ASSUME ~Throttles
  PROVE  Spec => []DefiniteMeansNotLanded
<1>1. Agreed /\ FateInv => DefiniteMeansNotLanded
  BY DEF FateInv, DeniedInv, DefiniteMeansNotLanded
<1>2. QED
  BY <1>1, AgreedInit, AgreedNext, FateInit, FateNext, PTL DEF Spec

\* Under the same condition, whatever material the account has by now, its
\* recovery code was shown, or warned about, or left by its user, or some tab
\* still holds it: also where the request that wrote it was the one that landed
\* last, or late, or twice.
THEOREM CodeAlwaysAccounted ==
  ASSUME ~Throttles
  PROVE  Spec => []CodeNotLost
<1>1. Agreed /\ FateInv => CodeNotLost
  BY DEF FateInv, CodeInv
<1>2. QED
  BY <1>1, AgreedInit, AgreedNext, FateInit, FateNext, PTL DEF Spec

\* Whatever the network and the firewall answer, a tab whose session counts and
\* that is in the middle of nothing signs with the key the account has
\* registered, where that is not a pair which a tab sent and gave up on: a
\* rotation's pair is switched to once it has landed, dropped once every send of
\* it was refused, and kept while neither is known (runKeyRotation.ts,
\* RotateKeysScreen.tsx, worker.ts).
THEOREM LiveKeyIsTheAccounts == Spec => []LiveKeysRegistered
<1>1. Agreed /\ LiveInv => LiveKeysRegistered
  <2>1. SUFFICES ASSUME Agreed, LiveInv, NEW t \in Tab,
                        device[t].session, Honoured(device[t].cookie), screen[t] = Closed,
                        device[t].worker.live # None, acct.m.key \notin forsaken
                 PROVE  device[t].worker.live = Pair(acct.m.user, acct.m.key)
    BY DEF LiveKeysRegistered
  <2>2. ~Sent(t)
    BY <2>1 DEF Sent, Closed
  <2>3. Signing(t)
    BY <2>1 DEF LiveInv, RegInv
  <2>4. QED
    BY <2>1, <2>2, <2>3 DEF Signing
<1>2. QED
  BY <1>1, AgreedInit, AgreedNext, LiveInit, LiveNext, PTL DEF Spec
=============================================================================

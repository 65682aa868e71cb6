---------------------------- MODULE SessionsProofs ----------------------------
(***************************************************************************)
(* What Sessions guarantees for any browsers, any number of tabs,          *)
(* requests, tokens, passwords and lost answers.                           *)
(***************************************************************************)
EXTENDS Sessions, FiniteSetTheorems, TLAPS

(* What a request is doing fixes which of its fields are filled.           *)
StageFits(p) ==
  LET r == req[p] IN
  /\ r.stage = "verified" => r.op = "login"
  /\ r.stage = "rotating" => r.op = "refresh"
  /\ r.stage = "sent" => r.op \in {"refresh", "logout"}
  /\ r.stage = "sweeping" => r.op \in {"refresh", "change", "reset", "disable"}
  /\ r.stage \in {"idle", "answered"} => r.op = "none"
  /\ r.op \in {"refresh", "logout"} => r.token # None
  /\ r.reply = "session" => r.token # None
  /\ r.stage # "answered" => r.reply = "none"
  /\ r.stage \notin {"rotating", "sweeping"} => r.held = {}
  /\ r.stage = "rotating" => r.token \in r.held

StagesFit ==
  /\ \A p \in Handlers : StageFits(p)
  /\ \A p \in Tabs : req[p].op \notin {"reset", "disable"}
  /\ \A p \in Tabs : req[p].stage # "idle" => req[p].browser \in Browsers
  /\ /\ req[Admin].op \in {"none", "reset", "disable"} /\ req[Admin].stage \in {"idle", "sweeping"}
     /\ req[Admin].browser = NoBrowser /\ req[Admin].token = None

(* Tokens are issued in order, and nobody has one that is not issued.      *)
Numbered ==
  /\ \A t \in Tokens : t > issued => token[t].status = "none"
  /\ \A t \in Tokens : t <= issued => token[t].status # "none" /\ token[t].login <= issued
  /\ \A b \in Browsers : jar[b] <= issued
  /\ \A p \in Handlers : req[p].token <= issued

(* What may still be issued or set fits the bounds.                        *)
Room == issued + Issuing <= MaxTokens /\ chosen + Setting <= MaxPasswords

(* A row is locked by one request.                                         *)
OneLock ==
  \A p, q \in Handlers, t \in Tokens : t \in req[p].held /\ t \in req[q].held => p = q

(* What a revocation leaves live was issued beside it.                     *)
SweepCovers ==
  \A p \in Handlers : req[p].stage = "sweeping" =>
    \A t \in Live : t \in req[p].targets \/ token[t].raced

(* Only the first password has an old hash.                                *)
WeakIsFirst ==
  /\ account.weak => account.password = 0
  /\ \A p \in Handlers : req[p].weak => req[p].password = 0

(* A login that is to write a hash anew has verified the password in force *)
(* or was under way when that was set.                                     *)
LateRehash ==
  ~overtaken => \A p \in Tabs : req[p].stage = "verified" /\ req[p].weak => req[p].password = chosen

(* A token is in one browser, with its tabs.                               *)
Holds(b, t) == jar[b] = t \/ \E p \in Tabs : req[p].browser = b /\ req[p].token = t
OneHolder ==
  \A b, c \in Browsers, t \in Tokens : Holds(b, t) /\ Holds(c, t) => b = c

(* In a browser that was not disturbed one tab at a time has a request,    *)
(* and neither the jar nor an answer on its way holds a used token.        *)
Unused(t) == t = None \/ token[t].status # "used"
Undisturbed ==
  \A b \in Browsers \ disturbed :
    /\ \A p, q \in Tabs : req[p].browser = b /\ req[q].browser = b => p = q
    /\ (\A p \in Tabs : req[p].browser = b => req[p].stage # "answered") => Unused(jar[b])
    /\ \A p \in Tabs : req[p].browser = b /\ req[p].stage = "answered" /\ req[p].reply = "session"
                       => Unused(req[p].token)

IInv ==
  /\ TypeOK /\ StagesFit /\ Numbered /\ Room /\ OneLock
  /\ OneLivePerLogin
  /\ SweepCovers /\ WeakIsFirst /\ LateRehash /\ SignedOut /\ PasswordAsChosen
  /\ OneHolder /\ Undisturbed
-----------------------------------------------------------------------------
(* Cardinalities of sets of requests.                                      *)
LEMMA SmallerSet ==
  ASSUME NEW S, IsFiniteSet(S), NEW T, T \subseteq S
  PROVE  /\ Cardinality(T) \in Nat /\ Cardinality(S) \in Nat
         /\ Cardinality(T) <= Cardinality(S)
BY FS_Subset, FS_CardinalityType

LEMMA OneLess ==
  ASSUME NEW S, IsFiniteSet(S), NEW x \in S, NEW T, T \subseteq S \ {x}
  PROVE  /\ Cardinality(T) \in Nat /\ Cardinality(S) \in Nat
         /\ Cardinality(T) + 1 <= Cardinality(S)
<1>1. IsFiniteSet(S \ {x}) /\ Cardinality(S \ {x}) = Cardinality(S) - 1
  BY FS_RemoveElement
<1>2. Cardinality(T) \in Nat /\ Cardinality(S \ {x}) \in Nat /\ Cardinality(S) \in Nat
      /\ Cardinality(T) <= Cardinality(S \ {x})
  BY <1>1, SmallerSet, FS_CardinalityType
<1> QED
  BY <1>1, <1>2

LEMMA OneMore ==
  ASSUME NEW S, IsFiniteSet(S), NEW x, NEW T, T \subseteq S \cup {x}
  PROVE  /\ Cardinality(T) \in Nat /\ Cardinality(S) \in Nat
         /\ Cardinality(T) <= Cardinality(S) + 1
<1>1. IsFiniteSet(S \cup {x}) /\ Cardinality(S \cup {x}) \in {Cardinality(S), Cardinality(S) + 1}
  BY FS_AddElement
<1>2. Cardinality(T) \in Nat /\ Cardinality(S) \in Nat /\ Cardinality(T) <= Cardinality(S \cup {x})
  BY <1>1, SmallerSet, FS_CardinalityType
<1> QED
  BY <1>1, <1>2

LEMMA StillFits ==
  ASSUME NEW m \in Nat, NEW a \in Nat, NEW b \in Nat, NEW c \in Nat, a + b <= m,
         c <= b \/ (a + b < m /\ c <= b + 1)
  PROVE  a + c <= m
OBVIOUS

LEMMA MovesUp ==
  ASSUME NEW m \in Nat, NEW a \in Nat, NEW b \in Nat, NEW c \in Nat, NEW d, a + b <= m,
         (d = a /\ c <= b) \/ (d = a + 1 /\ c + 1 <= b)
  PROVE  d \in Nat /\ d + c <= m
OBVIOUS

LEMMA NotAbove ==
  ASSUME NEW m \in Nat, NEW a \in Nat, NEW b \in Nat, a + b <= m
  PROVE  a \in 0 .. m
OBVIOUS

Issuers == {q \in Handlers : Issues(req[q])}
Setters == {q \in Handlers : Sets(req[q])}

LEMMA RequestsFinite ==
  IsFiniteSet(Handlers) /\ IsFiniteSet(Issuers) /\ IsFiniteSet(Setters)
<1>1. IsFiniteSet(Handlers)
  BY SessionsAssumption, FS_AddElement DEF Handlers
<1> QED
  BY <1>1, FS_Subset DEF Issuers, Setters

LEMMA IdleIsRequest == Idle \in Requests
BY SessionsAssumption DEF Idle, Requests, Tokens, None

LEMMA InitHolds == Init => IInv
<1> SUFFICES ASSUME Init PROVE IInv
  OBVIOUS
<1> USE SessionsAssumption DEF Init
<1>1. TypeOK
  <2>1. /\ account \in [active : BOOLEAN, password : 0 .. MaxPasswords, weak : BOOLEAN]
        /\ chosen \in 0 .. MaxPasswords /\ issued \in 0 .. MaxTokens /\ lost \in 0 .. MaxLost
    OBVIOUS
  <2>2. NoToken \in [status : Statuses, login : Tokens \cup {None},
                      password : 0 .. MaxPasswords, raced : BOOLEAN]
    BY DEF NoToken, Statuses, None
  <2>3. req \in [Handlers -> Requests] /\ \A p \in Tabs : req[p].stage # "rotating"
    BY IdleIsRequest DEF Handlers, Idle
  <2> QED
    BY <2>1, <2>2, <2>3 DEF TypeOK, None
<1>2. Room
  <2>1. Issuers = {} /\ Setters = {}
    BY DEF Issuers, Setters, Issues, Sets, Idle
  <2>2. Cardinality({}) = 0
    BY FS_EmptySet
  <2> QED
    BY <2>1, <2>2 DEF Room, Issuing, Setting, Issuers, Setters
<1>3. StagesFit /\ Numbered /\ OneLock
  BY DEF StagesFit, StageFits, Numbered, OneLock, Idle, Handlers, Tokens, None, NoToken
<1>4. OneLivePerLogin
  BY DEF OneLivePerLogin, Live, NoToken
<1>5. SweepCovers /\ WeakIsFirst /\ LateRehash /\ SignedOut /\ PasswordAsChosen
  BY DEF SweepCovers, WeakIsFirst, LateRehash, Handlers, SignedOut, PasswordAsChosen, Live, Idle, NoToken
<1>6. OneHolder /\ Undisturbed
  BY DEF OneHolder, Undisturbed, Holds, Unused, Idle, None, Tokens, Handlers
<1> QED
  BY <1>1, <1>2, <1>3, <1>4, <1>5, <1>6 DEF IInv
-----------------------------------------------------------------------------
(* A request that is sent.                                                 *)
Opening(p, r) ==
  /\ r \in Requests /\ r.reply = "none"
  /\ r.stage \in {"sent", "verified", "sweeping"}
  /\ r.stage = "sent" <=> r.op \in {"refresh", "logout"}
  /\ r.stage = "verified" <=> r.op = "login"
  /\ r.stage = "sweeping" => r.op \in {"change", "reset", "disable"} /\ r.targets = Live
  /\ r.stage = "sent" => r.token = jar[r.browser] /\ r.token # None
  /\ r.stage # "sent" => r.token = None
  /\ r.weak => r.password = 0 /\ r.password = account.password
  /\ r.held = {}
  /\ p \in Tabs => r.browser \in Browsers /\ r.op \notin {"reset", "disable"}
  /\ p = Admin => r.browser = NoBrowser /\ r.op \in {"reset", "disable"}

LEMMA OpenKeeps ==
  ASSUME IInv, NEW p \in Handlers, NEW r, Open(p, r), Opening(p, r)
  PROVE  IInv'
<1> USE SessionsAssumption DEF IInv
<1>1. /\ req' = [req EXCEPT ![p] = r] /\ req[p] = Idle
      /\ UNCHANGED <<account, chosen, overtaken, issued, token, jar, lost>>
      /\ disturbed \subseteq disturbed'
      /\ p # Admin /\ (\E q \in Tabs : req[q].browser = r.browser) => r.browser \in disturbed'
      /\ disturbed' \subseteq disturbed \cup {r.browser}
      /\ p = Admin => disturbed' = disturbed
  BY DEF Open, dbVars
<1>2. req \in [Handlers -> Requests] /\ req' \in [Handlers -> Requests]
  BY <1>1 DEF TypeOK, Opening
<1>3. req'[p] = r /\ \A q \in Handlers : q # p => req'[q] = req[q]
  BY <1>1, <1>2
<1>4. TypeOK'
  <2>1. disturbed' \subseteq Browsers
    BY <1>1 DEF TypeOK, Opening, Handlers
  <2>2. Live' = Live
    BY <1>1 DEF Live
  <2>3. \A q \in Tabs : req'[q].stage = "rotating" => req'[q].token \in Live'
    BY <1>3, <2>2 DEF TypeOK, Opening, Handlers
  <2> QED
    BY <1>1, <1>2, <2>1, <2>3 DEF TypeOK
<1>5. StagesFit'
  BY <1>3 DEF StagesFit, StageFits, Opening, Handlers
<1>6. Numbered'
  BY <1>1, <1>3 DEF Numbered, Opening, Handlers, TypeOK, None
<1>7. Room'
  <2>1. Issuers' \subseteq Issuers \cup {p} /\ (~Issues(r)' => Issuers' \subseteq Issuers)
    BY <1>1, <1>3 DEF Issuers, Issues, Live
  <2>2. Setters' \subseteq Setters \cup {p} /\ (~Sets(r) => Setters' \subseteq Setters)
    BY <1>3 DEF Setters, Sets
  <2>3. /\ Issues(r)' => issued + Issuing < MaxTokens
        /\ Sets(r) => chosen + Setting < MaxPasswords
    BY <1>1 DEF Open, Issues, Live
  <2>4. /\ Issuing' \in Nat /\ Issuing \in Nat /\ Issuing' <= Issuing + 1
        /\ ~Issues(r)' => Issuing' <= Issuing
    <3>1. Issuing = Cardinality(Issuers) /\ Issuing' = Cardinality(Issuers')
      BY DEF Issuing, Issuers
    <3> QED
      BY <2>1, <3>1, RequestsFinite, OneMore, SmallerSet
  <2>5. /\ Setting' \in Nat /\ Setting \in Nat /\ Setting' <= Setting + 1
        /\ ~Sets(r) => Setting' <= Setting
    <3>1. Setting = Cardinality(Setters) /\ Setting' = Cardinality(Setters')
      BY DEF Setting, Setters
    <3> QED
      BY <2>2, <3>1, RequestsFinite, OneMore, SmallerSet
  <2>6. /\ issued \in Nat /\ chosen \in Nat /\ MaxTokens \in Nat /\ MaxPasswords \in Nat
        /\ issued + Issuing <= MaxTokens /\ chosen + Setting <= MaxPasswords
    BY DEF Room, TypeOK
  <2>7. issued + Issuing' <= MaxTokens
    BY <2>3, <2>4, <2>6, StillFits
  <2>8. chosen + Setting' <= MaxPasswords
    BY <2>3, <2>5, <2>6, StillFits
  <2> QED
    BY <1>1, <2>7, <2>8 DEF Room
<1>8. OneLock'
  BY <1>1, <1>3 DEF OneLock, Opening, Handlers
<1>9. LateRehash'
  BY <1>1, <1>3 DEF LateRehash, PasswordAsChosen, Opening, Handlers
<1>10. SweepCovers' /\ WeakIsFirst'
  BY <1>1, <1>3 DEF SweepCovers, WeakIsFirst, Live, Opening, Handlers
<1>11. OneLivePerLogin' /\ SignedOut' /\ PasswordAsChosen'
  BY <1>1 DEF OneLivePerLogin, SignedOut, PasswordAsChosen, Live
<1>12. OneHolder'
  BY <1>1, <1>3 DEF OneHolder, Holds, Opening, Handlers, Tokens, None
<1>13. Undisturbed'
  <2> SUFFICES ASSUME NEW b \in Browsers, b \notin disturbed'
               PROVE  /\ \A x, y \in Tabs : req'[x].browser = b /\ req'[y].browser = b => x = y
                      /\ (\A x \in Tabs : req'[x].browser = b => req'[x].stage # "answered") => Unused(jar[b])
                      /\ \A x \in Tabs : req'[x].browser = b /\ req'[x].stage = "answered"
                                         /\ req'[x].reply = "session" => Unused(req'[x].token)
    BY <1>1 DEF Undisturbed, Unused
  <2>1. b \notin disturbed /\ req[p].browser # b
    BY <1>1 DEF Idle
  <2>2. CASE p \in Tabs /\ r.browser = b
    <3>1. \A x \in Tabs : req[x].browser # b
      BY <1>1, <2>2
    <3>2. Unused(jar[b])
      BY <2>1, <3>1 DEF Undisturbed
    <3> QED
      BY <1>3, <2>2, <3>1, <3>2 DEF Opening, Handlers
  <2>3. CASE p \in Tabs => r.browser # b
    <3>1. \A x \in Tabs : req'[x].browser = b => x # p /\ req'[x] = req[x]
      BY <1>3, <2>3 DEF Handlers
    <3>2. \A x \in Tabs : req[x].browser = b => req'[x] = req[x]
      BY <1>3, <2>1 DEF Handlers
    <3> QED
      BY <2>1, <3>1, <3>2 DEF Undisturbed
  <2> QED
    BY <2>2, <2>3
<1> QED
  BY <1>4, <1>5, <1>6, <1>7, <1>8, <1>9, <1>10, <1>11, <1>12, <1>13
-----------------------------------------------------------------------------
(* The bounds: no request is added to those that will issue or set, and    *)
(* one that does is no longer among them.                                  *)
Leaves(S, n) == S' \subseteq S /\ (n' = n \/ (n' = n + 1 /\ \E p \in S : p \notin S'))

LEMMA RoomKept ==
  ASSUME IInv, Leaves(Issuers, issued), Leaves(Setters, chosen)
  PROVE  Room' /\ issued' \in 0 .. MaxTokens /\ chosen' \in 0 .. MaxPasswords
<1>1. /\ Issuing = Cardinality(Issuers) /\ Issuing' = Cardinality(Issuers')
      /\ Setting = Cardinality(Setters) /\ Setting' = Cardinality(Setters')
  BY DEF Issuing, Issuers, Setting, Setters
<1>2. /\ issued \in Nat /\ chosen \in Nat /\ MaxTokens \in Nat /\ MaxPasswords \in Nat
      /\ issued + Issuing <= MaxTokens /\ chosen + Setting <= MaxPasswords
  BY SessionsAssumption DEF IInv, Room, TypeOK
<1>3. /\ Issuing \in Nat /\ Issuing' \in Nat /\ Setting \in Nat /\ Setting' \in Nat
  BY <1>1, RequestsFinite, SmallerSet DEF Leaves
<1>4. \/ issued' = issued /\ Issuing' <= Issuing
      \/ issued' = issued + 1 /\ Issuing' + 1 <= Issuing
  <2>1. CASE issued' = issued
    BY <1>1, <2>1, RequestsFinite, SmallerSet DEF Leaves
  <2>2. CASE issued' = issued + 1 /\ \E p \in Issuers : p \notin Issuers'
    <3>1. PICK p \in Issuers : p \notin Issuers'
      BY <2>2
    <3>2. Issuers' \subseteq Issuers \ {p}
      BY <3>1 DEF Leaves
    <3> QED
      BY <1>1, <2>2, <3>2, RequestsFinite, OneLess
  <2> QED
    BY <2>1, <2>2 DEF Leaves
<1>5. \/ chosen' = chosen /\ Setting' <= Setting
      \/ chosen' = chosen + 1 /\ Setting' + 1 <= Setting
  <2>1. CASE chosen' = chosen
    BY <1>1, <2>1, RequestsFinite, SmallerSet DEF Leaves
  <2>2. CASE chosen' = chosen + 1 /\ \E p \in Setters : p \notin Setters'
    <3>1. PICK p \in Setters : p \notin Setters'
      BY <2>2
    <3>2. Setters' \subseteq Setters \ {p}
      BY <3>1 DEF Leaves
    <3> QED
      BY <1>1, <2>2, <3>2, RequestsFinite, OneLess
  <2> QED
    BY <2>1, <2>2 DEF Leaves
<1>6. issued' \in Nat /\ issued' + Issuing' <= MaxTokens
  BY <1>2, <1>3, <1>4, MovesUp
<1>7. chosen' \in Nat /\ chosen' + Setting' <= MaxPasswords
  BY <1>2, <1>3, <1>5, MovesUp
<1> QED
  BY <1>2, <1>3, <1>6, <1>7, NotAbove DEF Room
-----------------------------------------------------------------------------
(* An answer that arrives, or does not, and a refresh refused without one. *)
Refused(p) ==
  /\ req[p].stage = "sent" /\ Refuse(p)
  /\ UNCHANGED <<dbVars, jar, disturbed, lost>>

LEMMA CloseKeeps ==
  ASSUME IInv, NEW p \in Tabs, Deliver(p) \/ Lose(p) \/ Refused(p)
  PROVE  IInv'
<1> USE SessionsAssumption DEF IInv
<1>1. /\ req' = [req EXCEPT ![p] = Idle] /\ p \in Handlers
      /\ UNCHANGED <<account, chosen, overtaken, issued, token>>
  BY DEF Deliver, Lose, Refused, Refuse, dbVars, Handlers
<1>2. req \in [Handlers -> Requests] /\ req' \in [Handlers -> Requests]
  BY <1>1, IdleIsRequest DEF TypeOK
<1>3. req'[p] = Idle /\ \A q \in Handlers : q # p => req'[q] = req[q]
  BY <1>1, <1>2
<1>4. Live' = Live
  BY <1>1 DEF Live
<1>5. /\ req[p].browser \in Browsers
      /\ jar' \in [Browsers -> Tokens \cup {None}]
      /\ \A b \in Browsers : jar'[b] \in {jar[b], None} \/ (b = req[p].browser /\ jar'[b] = req[p].token)
  BY <1>2 DEF Deliver, Lose, Refused, NewCookie, TypeOK, StagesFit, Requests, Handlers
<1>6. /\ disturbed' \in SUBSET Browsers /\ lost' \in 0 .. MaxLost /\ disturbed \subseteq disturbed'
  <2>1. CASE Lose(p)
    BY <1>5, <2>1 DEF Lose, TypeOK
  <2>2. CASE Deliver(p) \/ Refused(p)
    BY <2>2 DEF Deliver, Refused, TypeOK
  <2> QED
    BY <2>1, <2>2
<1>7. TypeOK'
  BY <1>1, <1>2, <1>3, <1>4, <1>5, <1>6 DEF TypeOK, Idle, Handlers
<1>8. StagesFit'
  BY <1>3 DEF StagesFit, StageFits, Idle, Handlers
<1>9. Numbered'
  BY <1>1, <1>3, <1>5 DEF Numbered, Idle, Handlers, TypeOK, None
<1>10. Room'
  <2>1. Issuers' \subseteq Issuers /\ Setters' \subseteq Setters
    BY <1>3, <1>4 DEF Issuers, Setters, Issues, Sets, Idle
  <2>2. Leaves(Issuers, issued) /\ Leaves(Setters, chosen)
    BY <1>1, <2>1 DEF Leaves
  <2> QED
    BY <2>2, RoomKept
<1>11. OneLock'
  BY <1>3 DEF OneLock, Idle
<1>12. SweepCovers' /\ WeakIsFirst' /\ LateRehash'
  BY <1>1, <1>3, <1>4 DEF SweepCovers, WeakIsFirst, LateRehash, Idle, Handlers
<1>13. OneLivePerLogin' /\ SignedOut' /\ PasswordAsChosen'
  BY <1>1 DEF OneLivePerLogin, SignedOut, PasswordAsChosen, Live
<1>14. OneHolder'
  BY <1>3, <1>5 DEF OneHolder, Holds, Idle, Handlers, Tokens, None
<1>15. Undisturbed'
  <2> SUFFICES ASSUME NEW b \in Browsers, b \notin disturbed'
               PROVE  /\ \A x, y \in Tabs : req'[x].browser = b /\ req'[y].browser = b => x = y
                      /\ (\A x \in Tabs : req'[x].browser = b => req'[x].stage # "answered") => Unused(jar'[b])
                      /\ \A x \in Tabs : req'[x].browser = b /\ req'[x].stage = "answered"
                                         /\ req'[x].reply = "session" => Unused(req'[x].token)
    BY <1>1 DEF Undisturbed, Unused
  <2>1. b \notin disturbed /\ req'[p].browser # b
    BY <1>3, <1>6 DEF Idle
  <2>2. \A x \in Tabs : req'[x].browser = b => x # p /\ req'[x] = req[x]
    BY <1>3, <2>1 DEF Handlers
  <2>3. CASE req[p].browser # b
    <3>1. jar'[b] = jar[b]
      BY <2>3 DEF Deliver, Lose, Refused, TypeOK
    <3>2. \A x \in Tabs : req[x].browser = b => req'[x] = req[x]
      BY <1>3, <2>3 DEF Handlers
    <3> QED
      BY <2>1, <2>2, <3>1, <3>2 DEF Undisturbed
  <2>4. CASE req[p].browser = b
    <3>1. ~Lose(p)
      BY <2>4 DEF Lose
    <3>2. \A x \in Tabs : req'[x].browser # b
      BY <2>1, <2>2, <2>4 DEF Undisturbed
    <3>3. CASE Deliver(p)
      <4>1. jar'[b] = IF req[p].reply = "session" THEN req[p].token ELSE None
        BY <2>4, <3>3 DEF Deliver, NewCookie, TypeOK
      <4> QED
        BY <2>1, <2>4, <3>2, <3>3, <4>1 DEF Undisturbed, Unused, Deliver
    <3>4. CASE Refused(p)
      <4>1. \A x \in Tabs : req[x].browser = b => req[x].stage # "answered"
        BY <2>1, <2>4, <3>4 DEF Undisturbed, Refused
      <4> QED
        BY <2>1, <3>2, <3>4, <4>1 DEF Undisturbed, Refused
    <3> QED
      BY <3>1, <3>3, <3>4
  <2> QED
    BY <2>3, <2>4
<1> QED
  BY <1>7, <1>8, <1>9, <1>10, <1>11, <1>12, <1>13, <1>14, <1>15
-----------------------------------------------------------------------------
(* A session that is issued, by a login or a rotation.                     *)
New == issued + 1
Answer(p) == [Idle EXCEPT !.browser = req[p].browser, !.stage = "answered",
                          !.reply = "session", !.token = New]

(* What both do to the tokens and the requests.                            *)
Issuance(p) ==
  /\ issued' = New /\ New \in Tokens
  /\ req' \in [Handlers -> Requests] /\ req'[p] = Answer(p)
  /\ \A q \in Handlers : q # p => req'[q] = req[q]
  /\ token' \in [Tokens -> [status : Statuses, login : Tokens \cup {None},
                           password : 0 .. MaxPasswords, raced : BOOLEAN]]
  /\ \A x \in Tokens : x # New =>
       \/ token'[x] = token[x]
       \/ /\ Rotate(p) /\ x = req[p].token
          /\ token'[x].status = "used" /\ token'[x].login = token[x].login
          /\ token'[x].password = token[x].password /\ token'[x].raced = token[x].raced
  /\ token'[New].status = "live"
  /\ token'[New].login = IF Rotate(p) THEN token[req[p].token].login ELSE New
  /\ token'[New].raced \/ (~Sweeping /\ account.active /\ token'[New].password >= account.password)
  /\ Live' = (IF Rotate(p) THEN Live \ {req[p].token} ELSE Live) \cup {New}

LEMMA AnswerFields ==
  ASSUME NEW p
  PROVE  /\ Answer(p).op = "none" /\ Answer(p).stage = "answered" /\ Answer(p).reply = "session"
         /\ Answer(p).browser = req[p].browser /\ Answer(p).token = New
         /\ Answer(p).weak = FALSE /\ Answer(p).password = 0 /\ Answer(p).targets = {}
         /\ Answer(p).held = {}
BY DEF Answer, Idle

LEMMA IssuedFields ==
  ASSUME NEW root, NEW password
  PROVE  /\ Issued(root, password).status = "live" /\ Issued(root, password).login = root
         /\ Issued(root, password).password = password
         /\ Issued(root, password).raced <=> (Sweeping \/ password < account.password \/ ~account.active)
BY DEF Issued

LEMMA IssuanceTaken ==
  ASSUME IInv, NEW p \in Tabs, IssueLogin(p) \/ Rotate(p)
  PROVE  Issuance(p) /\ Room'
<1> USE SessionsAssumption DEF IInv
<1>1. p \in Handlers /\ req[p] \in Requests /\ issued \in 0 .. MaxTokens /\ issued' = New
  BY DEF IssueLogin, Rotate, TypeOK, Handlers, New
<1>2. Rotate(p) => req[p].token \in Live /\ req[p].token \in Tokens /\ req[p].token <= issued
                   /\ req[p].op = "refresh"
  BY <1>1 DEF Rotate, TypeOK, Numbered, Live, StagesFit, StageFits
<1>3. IssueLogin(p) => req[p].op = "login" /\ ~Rotate(p)
  BY <1>1 DEF IssueLogin, Rotate, StagesFit, StageFits
<1>4. /\ req' = [req EXCEPT ![p] = Answer(p)] /\ req'[p] = Answer(p)
      /\ \A q \in Handlers : q # p => req'[q] = req[q]
  BY <1>1 DEF IssueLogin, Rotate, Grant, Reply, Answer, TypeOK, New
<1>5. DOMAIN token' = Tokens /\ \A x \in Tokens : x # New =>
       \/ token'[x] = token[x]
       \/ /\ Rotate(p) /\ x = req[p].token
          /\ token'[x].status = "used" /\ token'[x].login = token[x].login
          /\ token'[x].password = token[x].password /\ token'[x].raced = token[x].raced
  BY <1>1, <1>2 DEF IssueLogin, Rotate, TypeOK, New
<1>6. New \in Tokens /\ Room'
  <2>1. \A q \in Handlers : q # p /\ req[q].token \in Live' => req[q].token \in Live
    BY <1>1, <1>5 DEF Numbered, Live, New, Tokens
  <2>2. Issuers' \subseteq Issuers /\ p \in Issuers /\ p \notin Issuers'
    <3>1. p \in Issuers
      BY <1>1, <1>2, <1>3 DEF Issuers, Issues, IssueLogin
    <3>2. p \notin Issuers'
      BY <1>4, AnswerFields DEF Issuers, Issues
    <3>3. ASSUME NEW q \in Issuers' PROVE q \in Issuers
      BY <1>4, <2>1, <3>2 DEF Issuers, Issues
    <3> QED
      BY <3>1, <3>2, <3>3
  <2>3. Setters' \subseteq Setters /\ chosen' = chosen
    BY <1>4 DEF Setters, Sets, Answer, Idle, IssueLogin, Rotate
  <2>4. Leaves(Issuers, issued) /\ Leaves(Setters, chosen)
    BY <1>1, <2>2, <2>3 DEF Leaves, New
  <2> QED
    BY <1>1, <2>4, RoomKept DEF New, Tokens
<1>7. req' \in [Handlers -> Requests]
  <2>1. Answer(p) \in Requests
    <3>1. req[p].browser \in Browsers \cup {NoBrowser} /\ {} \in SUBSET Tokens /\ 0 \in 0 .. MaxPasswords
      BY <1>1 DEF Requests
    <3> QED
      BY <1>6, <3>1 DEF Answer, Idle, Requests
  <2> QED
    BY <1>4, <2>1 DEF TypeOK
<1>8. CASE IssueLogin(p)
  <2>1. token'[New] = Issued(New, req[p].password) /\ token' = [token EXCEPT ![New] = Issued(New, req[p].password)]
    BY <1>1, <1>6, <1>8 DEF IssueLogin, TypeOK
  <2>2. Issued(New, req[p].password) \in [status : Statuses, login : Tokens \cup {None},
                           password : 0 .. MaxPasswords, raced : BOOLEAN]
    BY <1>1, <1>6 DEF Issued, Statuses, Requests
  <2>3. Live' = Live \cup {New}
    BY <1>5, <1>6, <1>3, <1>8, <2>1 DEF Live, Issued
  <2>4. token' \in [Tokens -> [status : Statuses, login : Tokens \cup {None},
                              password : 0 .. MaxPasswords, raced : BOOLEAN]]
    BY <2>1, <2>2 DEF TypeOK
  <2>5. /\ token'[New].status = "live" /\ token'[New].login = New
        /\ token'[New].raced \/ (~Sweeping /\ account.active /\ token'[New].password >= account.password)
    BY <1>1, <2>1, IssuedFields DEF TypeOK, Requests
  <2> QED
    BY <1>1, <1>3, <1>4, <1>5, <1>6, <1>7, <1>8, <2>3, <2>4, <2>5 DEF Issuance
<1>9. CASE Rotate(p)
  <2> DEFINE t == req[p].token
             r == [Issued(token[t].login, token[t].password) EXCEPT !.raced = @ \/ token[t].raced]
  <2>1. token' = [token EXCEPT ![t].status = "used", ![New] = r] /\ token'[New] = r
    BY <1>1, <1>2, <1>6, <1>9 DEF Rotate, TypeOK
  <2>2. r \in [status : Statuses, login : Tokens \cup {None},
                           password : 0 .. MaxPasswords, raced : BOOLEAN]
    BY <1>1, <1>2, <1>9 DEF Issued, Statuses, TypeOK
  <2>3. Live' = (Live \ {t}) \cup {New}
    <3>1. r.status = "live"
      BY DEF Issued
    <3>2. t # New /\ token'[t].status = "used"
      BY <1>1, <1>2, <1>5, <1>9, <2>1 DEF New, Tokens, TypeOK
    <3> QED
      BY <1>2, <1>5, <1>6, <1>9, <2>1, <3>1, <3>2 DEF Live
  <2>4. token' \in [Tokens -> [status : Statuses, login : Tokens \cup {None},
                              password : 0 .. MaxPasswords, raced : BOOLEAN]]
    BY <1>2, <1>9, <2>1, <2>2 DEF TypeOK, Statuses
  <2>5. /\ token'[New].status = "live" /\ token'[New].login = token[t].login
        /\ token'[New].raced \/ (~Sweeping /\ account.active /\ token'[New].password >= account.password)
    <3>1. /\ r.status = "live" /\ r.login = token[t].login /\ r.password = token[t].password
          /\ Issued(token[t].login, token[t].password).raced => r.raced
      BY DEF Issued
    <3>2. r.raced \/ (~Sweeping /\ account.active /\ ~(token[t].password < account.password))
      BY <3>1, IssuedFields
    <3>3. token[t].password \in Nat /\ account.password \in Nat
      BY <1>2, <1>9 DEF TypeOK
    <3>4. ~(token[t].password < account.password) => token[t].password >= account.password
      BY <3>3
    <3> HIDE DEF r, t
    <3> QED
      BY <2>1, <3>1, <3>2, <3>4
  <2> QED
    BY <1>1, <1>3, <1>4, <1>5, <1>6, <1>7, <1>9, <2>3, <2>4, <2>5 DEF Issuance
<1> QED
  BY <1>8, <1>9

LEMMA IssueKeeps ==
  ASSUME IInv, NEW p \in Tabs, IssueLogin(p) \/ Rotate(p)
  PROVE  IInv'
<1> USE SessionsAssumption DEF IInv
<1>1. Issuance(p) /\ Room'
  BY IssuanceTaken
<1>2. /\ p \in Handlers /\ p # Admin /\ req[p] \in Requests /\ issued \in 0 .. MaxTokens
      /\ UNCHANGED <<chosen, overtaken, jar, disturbed, lost>>
      /\ IssueLogin(p) => req[p].stage = "verified" /\ req[p].op = "login" /\ ~Rotate(p)
      /\ Rotate(p) => /\ req[p].stage = "rotating" /\ req[p].op = "refresh"
                      /\ req[p].token \in Live /\ req[p].token \in req[p].held /\ UNCHANGED account
      /\ req[p].browser \in Browsers
  BY DEF IssueLogin, Rotate, TypeOK, Handlers, StagesFit, StageFits
<1>3. New \notin Live /\ Live' \subseteq Live \cup {New} /\ New > issued
      /\ \A x \in Live' : x # New => token'[x] = token[x] /\ ~(Rotate(p) /\ x = req[p].token)
  BY <1>1, <1>2 DEF Issuance, New, Numbered, Live
<1>4. /\ account'.active = account.active /\ (account'.weak => account' = account)
      /\ account'.password = account.password \/ (req[p].weak /\ account'.password = req[p].password)
      /\ account' \in [active : BOOLEAN, password : 0 .. MaxPasswords, weak : BOOLEAN]
  BY <1>2 DEF IssueLogin, Rehash, Rehashes, TypeOK, Requests
<1>5. \A q \in Handlers : q # p => req'[q] = req[q]
  BY <1>1 DEF Issuance
<1>6. /\ req'[p].op = "none" /\ req'[p].stage = "answered" /\ req'[p].reply = "session"
      /\ req'[p].browser = req[p].browser /\ req'[p].token = New /\ New # None
      /\ req'[p].weak = FALSE /\ req'[p].targets = {} /\ req'[p].held = {}
  <2>1. req'[p] = Answer(p)
    BY <1>1 DEF Issuance
  <2>2. New # None
    BY <1>2 DEF New, None
  <2> QED
    BY <2>1, <2>2, AnswerFields
<1>7. TypeOK'
  <2>2. ASSUME NEW q \in Tabs, req'[q].stage = "rotating" PROVE req'[q].token \in Live'
    <3>1. q # p /\ req[q].stage = "rotating" /\ req[q].token \in Live /\ req'[q].token = req[q].token
      BY <1>5, <1>6, <2>2 DEF TypeOK, Handlers
    <3>2. ~(Rotate(p) /\ req[q].token = req[p].token)
      BY <1>2, <3>1 DEF OneLock, StagesFit, StageFits, Handlers, Live
    <3> QED
      BY <1>1, <3>1, <3>2 DEF Issuance
  <2>3. issued' \in 0 .. MaxTokens
    BY <1>1 DEF Issuance, Tokens
  <2> QED
    BY <1>1, <1>2, <1>4, <2>2, <2>3 DEF TypeOK, Issuance
<1>8. StagesFit'
  BY <1>2, <1>5, <1>6 DEF StagesFit, StageFits, Handlers
<1>9. Numbered'
  <2>1. issued' = New /\ New = issued + 1 /\ issued \in Nat
    BY <1>1, <1>2 DEF Issuance, New
  <2>2. ASSUME NEW x \in Tokens, x > issued' PROVE token'[x].status = "none"
    BY <1>1, <1>2, <2>1, <2>2 DEF Issuance, Numbered, Tokens, Live
  <2>3. ASSUME NEW x \in Tokens, x <= issued' PROVE token'[x].status # "none" /\ token'[x].login <= issued'
    <3>1. CASE x = New
      <4>1. Rotate(p) => token[req[p].token].login <= issued /\ token[req[p].token].login \in Nat
        <5> SUFFICES ASSUME Rotate(p)
                     PROVE  token[req[p].token].login <= issued /\ token[req[p].token].login \in Nat
          OBVIOUS
        <5>1. req[p].token \in Tokens /\ token[req[p].token].status = "live"
          BY <1>2 DEF Live
        <5>2. req[p].token <= issued
          BY <1>2, <5>1 DEF Numbered, Tokens
        <5>3. token[req[p].token].login \in Tokens \cup {None}
          BY <5>1 DEF TypeOK
        <5> QED
          BY <5>1, <5>2, <5>3 DEF Numbered, Tokens, None
      <4> QED
        BY <1>1, <2>1, <3>1, <4>1 DEF Issuance
    <3>2. CASE x # New
      <4>1. x <= issued /\ token[x].login \in Nat
        BY <2>1, <2>3, <3>2 DEF Tokens, TypeOK, None
      <4>2. token'[x].login = token[x].login /\ token'[x].status \in {token[x].status, "used"}
        BY <1>1, <3>2 DEF Issuance
      <4> QED
        BY <2>1, <4>1, <4>2 DEF Numbered
    <3> QED
      BY <3>1, <3>2
  <2>4. /\ \A b \in Browsers : jar'[b] <= issued'
        /\ \A q \in Handlers : req'[q].token <= issued'
    <3>1. \A x \in Tokens \cup {None} : x \in Nat
      BY DEF Tokens, None
    <3>2. /\ \A b \in Browsers : jar[b] \in Tokens \cup {None}
          /\ \A q \in Handlers : req[q].token \in Tokens \cup {None}
      BY DEF TypeOK, Requests
    <3> QED
      BY <1>2, <1>5, <1>6, <2>1, <3>1, <3>2 DEF Numbered
  <2> QED
    BY <2>2, <2>3, <2>4 DEF Numbered
<1>10. OneLock'
  BY <1>5, <1>6 DEF OneLock
<1>11. LateRehash'
  BY <1>2, <1>5, <1>6 DEF LateRehash, Handlers
<1>12. OneLivePerLogin'
  <2>1. ASSUME NEW x \in Live, x \in Live', token[x].login = token'[New].login
        PROVE  FALSE
    <3>1. x \in Tokens /\ x <= issued /\ token[x].login <= issued
      BY <1>2 DEF Live, Numbered, Tokens
    <3>2. CASE IssueLogin(p)
      BY <1>2, <2>1, <1>1, <3>1, <3>2 DEF Issuance, New, TypeOK, Tokens, None
    <3>3. CASE Rotate(p)
      <4>1. token'[New].login = token[req[p].token].login
        BY <1>1, <3>3 DEF Issuance
      <4> QED
        BY <1>2, <1>3, <2>1, <3>3, <4>1 DEF OneLivePerLogin
    <3> QED
      BY <3>2, <3>3
  <2> QED
    BY <1>3, <2>1 DEF OneLivePerLogin
<1>13. SweepCovers'
  BY <1>1, <1>3, <1>5, <1>6 DEF SweepCovers, Sweeping, Issuance
<1>14. WeakIsFirst'
  BY <1>4, <1>5, <1>6 DEF WeakIsFirst
<1>15. SignedOut'
  <2>1. account'.active = account.active /\ (account'.password = account.password \/ account'.password = 0)
    BY <1>2, <1>4 DEF WeakIsFirst
  <2>2. account.password \in Nat /\ \A x \in Tokens : token'[x].password \in Nat
    BY <1>1 DEF TypeOK, Issuance
  <2>3. ASSUME NEW x \in Live'
        PROVE token'[x].raced \/ (account.active /\ token'[x].password >= account.password)
    BY <1>1, <1>3 DEF SignedOut, Issuance
  <2> QED
    BY <2>1, <2>2, <2>3 DEF SignedOut, Live
<1>16. PasswordAsChosen'
  <2>1. req[p].weak /\ account' # account => req[p].stage = "verified"
    BY <1>2
  <2> QED
    BY <1>2, <1>4, <2>1 DEF PasswordAsChosen, LateRehash
<1>17. OneHolder'
  <2>1. ASSUME NEW b \in Browsers PROVE ~Holds(b, New)
    BY <1>2, <1>3 DEF Holds, Numbered, Handlers, New, TypeOK, Requests, Tokens, None
  <2>2. ASSUME NEW b \in Browsers, NEW x \in Tokens, Holds(b, x)'
        PROVE  Holds(b, x) \/ (x = New /\ b = req[p].browser)
    BY <1>2, <1>5, <1>6, <2>2 DEF Holds, Handlers
  <2> QED
    BY <2>1, <2>2 DEF OneHolder
<1>18. Undisturbed'
  <2> DEFINE Good(x) == x = None \/ token'[x].status # "used"
  <2>1. ASSUME NEW x \in Tokens \cup {None}, Unused(x), ~(Rotate(p) /\ x = req[p].token)
        PROVE  Good(x)
    <3>1. CASE x \in Tokens
      BY <1>1, <2>1, <3>1 DEF Unused, Issuance
    <3> QED
      BY <2>1, <3>1
  <2>2. Good(New)
    BY <1>1 DEF Issuance
  <2>3. \A b \in Browsers : jar[b] \in Tokens \cup {None} /\ \A q \in Handlers : req[q].token \in Tokens \cup {None}
    BY DEF TypeOK, Requests
  <2> SUFFICES ASSUME NEW b \in Browsers, b \notin disturbed
               PROVE  /\ \A x, y \in Tabs : req'[x].browser = b /\ req'[y].browser = b => x = y
                      /\ (\A x \in Tabs : req'[x].browser = b => req'[x].stage # "answered") => Good(jar[b])
                      /\ \A x \in Tabs : req'[x].browser = b /\ req'[x].stage = "answered"
                                         /\ req'[x].reply = "session" => Good(req'[x].token)
    BY <1>2 DEF Undisturbed, Unused
  <2>4. \A x \in Tabs : req'[x].browser = req[x].browser
    BY <1>5, <1>6 DEF Handlers
  <2>5. CASE req[p].browser = b
    <3>1. \A x \in Tabs : req'[x].browser = b => x = p
      BY <2>4, <2>5 DEF Undisturbed
    <3> QED
      BY <1>6, <2>2, <2>4, <2>5, <3>1 
  <2>6. CASE req[p].browser # b
    <3>1. \A x \in Tabs : req[x].browser = b => x # p /\ req'[x] = req[x]
      BY <1>5, <2>6 DEF Handlers
    <3>2. \A x \in Tokens : Holds(b, x) => ~(Rotate(p) /\ x = req[p].token)
      BY <1>2, <2>6 DEF OneHolder, Holds
    <3>3. (\A x \in Tabs : req'[x].browser = b => req'[x].stage # "answered") => Good(jar[b])
      <4>1. SUFFICES ASSUME \A x \in Tabs : req'[x].browser = b => req'[x].stage # "answered"
                     PROVE  Good(jar[b])
        OBVIOUS
      <4>2. Unused(jar[b])
        BY <2>4, <3>1, <4>1 DEF Undisturbed
      <4>3. jar[b] \in Tokens => Holds(b, jar[b])
        BY DEF Holds
      <4> QED
        BY <1>2, <2>1, <2>3, <3>2, <4>2, <4>3 DEF Live
    <3>4. ASSUME NEW x \in Tabs, req'[x].browser = b, req'[x].stage = "answered", req'[x].reply = "session"
          PROVE  Good(req'[x].token)
      <4>1. req'[x] = req[x] /\ Unused(req[x].token) /\ (req[x].token \in Tokens => Holds(b, req[x].token))
        BY <2>4, <3>1, <3>4 DEF Undisturbed, Holds
      <4> QED
        BY <1>2, <2>1, <2>3, <3>2, <4>1 DEF Live, Handlers
    <3> QED
      BY <2>4, <3>3, <3>4 DEF Undisturbed
  <2> QED
    BY <2>5, <2>6
<1> QED
  BY <1>1, <1>7, <1>8, <1>9, <1>10, <1>11, <1>12, <1>13, <1>14, <1>15, <1>16, <1>17, <1>18
-----------------------------------------------------------------------------
(* A refresh that takes the row of its token.                              *)
LEMMA LockKeeps ==
  ASSUME IInv, NEW p \in Tabs, Lock(p)
  PROVE  IInv'
<1> USE SessionsAssumption DEF IInv
<1>1. CASE Refuse(p)
  <2>1. Refused(p)
    BY <1>1 DEF Lock, Refused
  <2> QED
    BY <2>1, CloseKeeps
<1>2. CASE ~Refuse(p)
  <2> DEFINE t == req[p].token
  <2>1. /\ p \in Handlers /\ p # Admin /\ req[p] \in Requests /\ req \in [Handlers -> Requests]
        /\ UNCHANGED <<account, chosen, overtaken, issued, token, jar, disturbed, lost>>
        /\ req[p].op = "refresh" /\ req[p].stage = "sent"
        /\ t \in Tokens /\ \A q \in Handlers : t \notin req[q].held
    BY DEF Lock, Available, Free, dbVars, TypeOK, Handlers, Live, Revoked
  <2>2. /\ req'[p].op = "refresh" /\ req'[p].token = t /\ req'[p].browser = req[p].browser
        /\ req'[p].weak = req[p].weak /\ req'[p].password = req[p].password
        /\ req'[p].reply = req[p].reply
        /\ req'[p].active = req[p].active /\ req'[p].held = {t}
        /\ \/ req'[p].stage = "sweeping" /\ req'[p].targets = Live
           \/ req'[p].stage = "rotating" /\ t \in Live
    BY <1>2, <2>1 DEF Lock, EndedByReuse, Requests
  <2>3. \A q \in Handlers : q # p => req'[q] = req[q]
    BY <1>2, <2>1 DEF Lock
  <2>4. req' \in [Handlers -> Requests]
    <3>1. Live \in SUBSET Tokens /\ {t} \in SUBSET Tokens
      BY <2>1 DEF Live
    <3>2. CASE req' = [req EXCEPT ![p].stage = "sweeping", ![p].held = {t}, ![p].targets = EndedByReuse(p)]
      BY <2>1, <3>1, <3>2 DEF Requests, EndedByReuse
    <3>3. CASE req' = [req EXCEPT ![p].stage = "rotating", ![p].held = {t}]
      BY <2>1, <3>1, <3>3 DEF Requests
    <3> QED
      BY <1>2, <3>2, <3>3 DEF Lock
  <2>5. Live' = Live
    BY <2>1 DEF Live
  <2>6. TypeOK'
    BY <2>1, <2>2, <2>3, <2>4, <2>5 DEF TypeOK, Handlers
  <2>7. StagesFit'
    BY <2>1, <2>2, <2>3 DEF StagesFit, StageFits, Handlers
  <2>8. Numbered'
    BY <2>1, <2>2, <2>3 DEF Numbered
  <2>9. Room'
    <3>1. Issuers' \subseteq Issuers /\ Setters' \subseteq Setters
      BY <2>1, <2>2, <2>3, <2>5 DEF Issuers, Setters, Issues, Sets
    <3>2. Leaves(Issuers, issued) /\ Leaves(Setters, chosen)
      BY <2>1, <3>1 DEF Leaves
    <3> QED
      BY <3>2, RoomKept
  <2>10. OneLock'
    BY <2>1, <2>2, <2>3 DEF OneLock
  <2>11. LateRehash'
    BY <2>1, <2>2, <2>3 DEF LateRehash, Handlers
  <2>13. SweepCovers'
    BY <2>1, <2>2, <2>3, <2>5 DEF SweepCovers
  <2>14. WeakIsFirst'
    BY <2>1, <2>2, <2>3 DEF WeakIsFirst
  <2>15. OneLivePerLogin' /\ SignedOut' /\ PasswordAsChosen'
    BY <2>1 DEF OneLivePerLogin, SignedOut, PasswordAsChosen, Live
  <2>16. OneHolder'
    BY <2>1, <2>2, <2>3 DEF OneHolder, Holds, Handlers
  <2>17. Undisturbed'
    <3>1. \A x \in Tabs : /\ req'[x].browser = req[x].browser /\ req'[x].token = req[x].token
                          /\ req'[x].reply = req[x].reply
                          /\ req'[x].stage = "answered" <=> req[x].stage = "answered"
      BY <2>1, <2>2, <2>3 DEF Handlers
    <3> QED
      BY <2>1, <3>1 DEF Undisturbed, Unused
  <2> QED
    BY <2>6, <2>7, <2>8, <2>9, <2>10, <2>11, <2>13, <2>14, <2>15, <2>16, <2>17
<1> QED
  BY <1>1, <1>2
-----------------------------------------------------------------------------
(* A revocation that takes one more row.                                   *)
LEMMA TakeRowKeeps ==
  ASSUME IInv, NEW p \in Handlers, TakeRow(p)
  PROVE  IInv'
<1> USE SessionsAssumption DEF IInv
<1>1. /\ UNCHANGED <<account, chosen, overtaken, issued, token, jar, disturbed, lost>>
      /\ req[p].stage = "sweeping" /\ req \in [Handlers -> Requests] /\ req[p] \in Requests
      /\ Live' = Live
  BY DEF TakeRow, dbVars, TypeOK, Live
<1>2. PICK t \in Tokens : /\ req' = [req EXCEPT ![p].held = @ \cup {t}]
                          /\ \A q \in Handlers : t \notin req[q].held
  BY <1>1 DEF TakeRow, Free, Requests
<1>3. /\ req' \in [Handlers -> Requests] /\ \A q \in Handlers : q # p => req'[q] = req[q]
      /\ req'[p].held = req[p].held \cup {t}
      /\ req'[p].op = req[p].op /\ req'[p].stage = req[p].stage /\ req'[p].token = req[p].token
      /\ req'[p].targets = req[p].targets /\ req'[p].browser = req[p].browser
      /\ req'[p].weak = req[p].weak /\ req'[p].password = req[p].password
      /\ req'[p].reply = req[p].reply /\ req'[p].active = req[p].active
  <2>1. [req[p] EXCEPT !.held = @ \cup {t}] \in Requests
    BY <1>1 DEF Requests
  <2> QED
    BY <1>1, <1>2, <2>1 DEF Requests
<1>4. \A q \in Handlers :
        /\ req'[q].op = req[q].op /\ req'[q].stage = req[q].stage /\ req'[q].token = req[q].token
        /\ req'[q].targets = req[q].targets /\ req'[q].browser = req[q].browser
        /\ req'[q].weak = req[q].weak /\ req'[q].password = req[q].password
        /\ req'[q].reply = req[q].reply /\ req'[q].active = req[q].active
        /\ req[q].held \subseteq req'[q].held
  BY <1>3
<1>5. TypeOK'
  BY <1>1, <1>3, <1>4 DEF TypeOK, Handlers
<1>6. StagesFit'
  <2>1. ASSUME NEW q \in Handlers PROVE StageFits(q)'
    BY <1>1, <1>3, <1>4 DEF StagesFit, StageFits
  <2> QED
    BY <1>4, <2>1 DEF StagesFit, Handlers
<1>7. Numbered'
  BY <1>1, <1>4 DEF Numbered
<1>8. Room'
  <2>1. Issuers' \subseteq Issuers /\ Setters' \subseteq Setters
    BY <1>1, <1>4 DEF Issuers, Setters, Issues, Sets
  <2>2. Leaves(Issuers, issued) /\ Leaves(Setters, chosen)
    BY <1>1, <2>1 DEF Leaves
  <2> QED
    BY <2>2, RoomKept
<1>9. OneLock'
  BY <1>2, <1>3 DEF OneLock
<1>10. SweepCovers' /\ WeakIsFirst' /\ LateRehash'
  BY <1>1, <1>4 DEF SweepCovers, WeakIsFirst, LateRehash, Handlers
<1>11. OneLivePerLogin' /\ SignedOut' /\ PasswordAsChosen'
  BY <1>1 DEF OneLivePerLogin, SignedOut, PasswordAsChosen
<1>12. OneHolder' /\ Undisturbed'
  BY <1>1, <1>4 DEF OneHolder, Holds, Undisturbed, Unused, Handlers
<1> QED
  BY <1>5, <1>6, <1>7, <1>8, <1>9, <1>10, <1>11, <1>12
-----------------------------------------------------------------------------
(* A logout, the end of a revocation and of a login that is refused:       *)
(* tokens end, and no request that rotates loses its own, which it has     *)
(* locked.                                                                 *)
Ending(p) ==
  /\ req' \in [Handlers -> Requests]
  /\ \A q \in Handlers : q # p => req'[q] = req[q]
  /\ req'[p].op = "none" /\ req'[p].stage \in {"idle", "answered"}
  /\ req'[p].stage = "idle" => req'[p].browser = NoBrowser
  /\ req'[p].stage = "answered" => p # Admin /\ req'[p].browser = req[p].browser
  /\ req'[p].token = None /\ req'[p].reply # "session" /\ req'[p].weak = FALSE
  /\ req'[p].held = {}
  /\ req'[p].stage = "idle" => req'[p].reply = "none"
  /\ token' \in [Tokens -> [status : Statuses, login : Tokens \cup {None},
                           password : 0 .. MaxPasswords, raced : BOOLEAN]]
  /\ \A x \in Tokens :
       /\ token'[x].login = token[x].login /\ token'[x].password = token[x].password
       /\ token'[x].raced = token[x].raced
       /\ token'[x].status = token[x].status \/ (x \in Live /\ token'[x].status = "ended")
  /\ \A q \in Tabs : q # p /\ req[q].stage = "rotating" => req[q].token \in Live'

LEMMA ClearedFields ==
  ASSUME NEW b
  PROVE  LET r == [Idle EXCEPT !.browser = b, !.stage = "answered", !.reply = "cleared", !.token = None]
         IN  /\ r.op = "none" /\ r.stage = "answered" /\ r.reply = "cleared" /\ r.browser = b
             /\ r.token = None /\ r.weak = FALSE /\ r.targets = {} /\ r.held = {}
             /\ b \in Browsers \cup {NoBrowser} => r \in Requests
<1>1. /\ {} \in SUBSET Tokens /\ 0 \in 0 .. MaxPasswords /\ None \in Tokens \cup {None}
  BY SessionsAssumption
<1> QED
  BY <1>1 DEF Idle, Requests

Ends(p) == (p \in Tabs /\ (Logout(p) \/ RefuseLogin(p))) \/ Sweep(p) \/ Abort(p)

LEMMA EndingTaken ==
  ASSUME IInv, NEW p \in Handlers, Ends(p)
  PROVE  Ending(p)
<1> USE SessionsAssumption DEF IInv
<1>1. req[p] \in Requests /\ req \in [Handlers -> Requests]
      /\ token \in [Tokens -> [status : Statuses, login : Tokens \cup {None},
                               password : 0 .. MaxPasswords, raced : BOOLEAN]]
  BY DEF TypeOK
<1>2. CASE p \in Tabs /\ Logout(p)
  <2> DEFINE t == req[p].token
  <2>1. t # None /\ t \in Tokens
    BY <1>1, <1>2 DEF Logout, StagesFit, StageFits, Requests
  <2>2. /\ req' = [req EXCEPT ![p] = [Idle EXCEPT !.browser = req[p].browser, !.stage = "answered",
                                                 !.reply = "cleared", !.token = None]]
        /\ token' = IF t \in Live THEN [token EXCEPT ![t].status = "ended"] ELSE token
        /\ (t \in Live => \A q \in Handlers : t \notin req[q].held) /\ p # Admin /\ req[p].browser \in Browsers \cup {NoBrowser}
    BY <1>1, <1>2 DEF Logout, Free, Reply, Requests
  <2>3. /\ req' \in [Handlers -> Requests] /\ \A q \in Handlers : q # p => req'[q] = req[q]
        /\ req'[p].op = "none" /\ req'[p].stage = "answered" /\ req'[p].reply = "cleared"
        /\ req'[p].browser = req[p].browser /\ req'[p].token = None /\ req'[p].weak = FALSE
        /\ req'[p].held = {}
    BY <1>1, <2>2, ClearedFields
  <2>4. token' \in [Tokens -> [status : Statuses, login : Tokens \cup {None},
                              password : 0 .. MaxPasswords, raced : BOOLEAN]]
    BY <1>1, <2>1, <2>2 DEF Statuses
  <2>5. \A x \in Tokens :
          /\ token'[x].login = token[x].login /\ token'[x].password = token[x].password
          /\ token'[x].raced = token[x].raced
          /\ token'[x].status = token[x].status \/ (x \in Live /\ x = t /\ token'[x].status = "ended")
    BY <1>1, <2>1, <2>2
  <2>6. ASSUME NEW q \in Tabs, q # p, req[q].stage = "rotating" PROVE req[q].token \in Live'
    <3>1. req[q].token \in Live /\ req[q].token # t
      BY <2>2, <2>6 DEF TypeOK, StagesFit, StageFits, Handlers
    <3> QED
      BY <2>5, <3>1 DEF Live
  <2> QED
    BY <2>2, <2>3, <2>4, <2>5, <2>6 DEF Ending
<1>3. CASE Sweep(p)
  <2> DEFINE ts == req[p].held
  <2>1. /\ req[p].stage = "sweeping"
        /\ token' = [t \in Tokens |-> IF t \in ts \cap Live
                                      THEN [token[t] EXCEPT !.status = "ended"] ELSE token[t]]
    BY <1>3 DEF Sweep
  <2>2. req' = [req EXCEPT ![p] = Idle]
        \/ (req[p].op = "change" /\
            req' = [req EXCEPT ![p] = [Idle EXCEPT !.browser = req[p].browser, !.stage = "answered",
                                                   !.reply = "cleared", !.token = None]])
    BY <1>3 DEF Sweep, Reply
  <2>3. /\ req' \in [Handlers -> Requests] /\ \A q \in Handlers : q # p => req'[q] = req[q]
        /\ req'[p].op = "none" /\ req'[p].token = None /\ req'[p].weak = FALSE /\ req'[p].held = {}
        /\ \/ req'[p].stage = "idle" /\ req'[p].browser = NoBrowser /\ req'[p].reply = "none"
           \/ /\ req'[p].stage = "answered" /\ req'[p].browser = req[p].browser /\ req'[p].reply = "cleared"
              /\ req[p].op = "change"
    <3>1. CASE req' = [req EXCEPT ![p] = Idle]
      <4>1. req'[p] = Idle
        BY <1>1, <3>1
      <4> QED
        BY <1>1, <3>1, <4>1, IdleIsRequest DEF Idle
    <3>2. CASE req[p].op = "change" /\
            req' = [req EXCEPT ![p] = [Idle EXCEPT !.browser = req[p].browser, !.stage = "answered",
                                                   !.reply = "cleared", !.token = None]]
      <4>1. req[p].browser \in Browsers \cup {NoBrowser}
        BY <1>1 DEF Requests
      <4> QED
        BY <1>1, <3>2, <4>1, ClearedFields
    <3> QED
      BY <2>2, <3>1, <3>2
  <2>4. req[p].op = "change" => p # Admin
    BY DEF StagesFit
  <2>5. token' \in [Tokens -> [status : Statuses, login : Tokens \cup {None},
                              password : 0 .. MaxPasswords, raced : BOOLEAN]]
    <3>1. ASSUME NEW x \in Tokens
          PROVE  /\ token[x] \in [status : Statuses, login : Tokens \cup {None},
                                  password : 0 .. MaxPasswords, raced : BOOLEAN]
                 /\ [token[x] EXCEPT !.status = "ended"] \in [status : Statuses, login : Tokens \cup {None},
                                  password : 0 .. MaxPasswords, raced : BOOLEAN]
      BY <1>1 DEF Statuses
    <3> QED
      BY <2>1, <3>1
  <2>6. \A x \in Tokens :
          /\ token'[x].login = token[x].login /\ token'[x].password = token[x].password
          /\ token'[x].raced = token[x].raced
          /\ token'[x].status = token[x].status \/ (x \in Live /\ x \in ts /\ token'[x].status = "ended")
    BY <1>1, <2>1
  <2>7. ASSUME NEW q \in Tabs, q # p, req[q].stage = "rotating" PROVE req[q].token \in Live'
    <3>1. req[q].token \in Live /\ req[q].token \notin ts
      BY <2>7 DEF TypeOK, OneLock, StagesFit, StageFits, Handlers, Live
    <3> QED
      BY <2>6, <3>1 DEF Live
  <2> QED
    BY <2>3, <2>4, <2>5, <2>6, <2>7 DEF Ending
<1>4. CASE (p \in Tabs /\ RefuseLogin(p)) \/ Abort(p)
  <2>1. req' = [req EXCEPT ![p] = Idle] /\ token' = token
    BY <1>4 DEF RefuseLogin, Abort, Refuse, dbVars
  <2>2. req' \in [Handlers -> Requests] /\ req'[p] = Idle /\ \A q \in Handlers : q # p => req'[q] = req[q]
    BY <1>1, <2>1, IdleIsRequest
  <2>3. \A q \in Tabs : q # p /\ req[q].stage = "rotating" => req[q].token \in Live'
    BY <2>1 DEF TypeOK, Live
  <2> QED
    BY <1>1, <2>1, <2>2, <2>3 DEF Ending, Idle
<1> QED
  BY <1>2, <1>3, <1>4 DEF Ends

(* A revocation that commits leaves live what was issued beside it.        *)
LEMMA SweepLeavesRaced ==
  ASSUME IInv, NEW p \in Handlers, Sweep(p)
  PROVE  \A x \in Live' : token'[x].raced
<1> SUFFICES ASSUME NEW x \in Live' PROVE token'[x].raced
  OBVIOUS
<1>1. x \in Tokens /\ x \in Live /\ x \notin req[p].held /\ token'[x] = token[x]
  BY DEF Live, Sweep
<1>2. req[p].stage = "sweeping" /\ x \notin req[p].targets
  BY <1>1 DEF Sweep
<1> QED
  BY <1>1, <1>2 DEF IInv, SweepCovers

LEMMA EndKeeps ==
  ASSUME IInv, NEW p \in Handlers, Ends(p)
  PROVE  IInv'
<1> USE SessionsAssumption DEF IInv
<1>1. Ending(p)
  BY EndingTaken
<1>2. /\ req \in [Handlers -> Requests] /\ req' \in [Handlers -> Requests]
      /\ \A q \in Handlers : q # p => req'[q] = req[q]
      /\ req'[p].op = "none" /\ req'[p].stage \in {"idle", "answered"}
      /\ req'[p].token = None /\ req'[p].reply # "session" /\ req'[p].weak = FALSE /\ req'[p].held = {}
  BY <1>1 DEF Ending, TypeOK
<1>3. \A x \in Tokens :
       /\ token'[x].login = token[x].login /\ token'[x].password = token[x].password
       /\ token'[x].raced = token[x].raced
       /\ token'[x].status = token[x].status \/ (x \in Live /\ token'[x].status = "ended")
  BY <1>1 DEF Ending
<1>4. /\ Live' \subseteq Live
      /\ UNCHANGED <<issued, jar, disturbed, lost>>
      /\ Logout(p) \/ Abort(p) => UNCHANGED <<account, chosen, overtaken>>
      /\ RefuseLogin(p) => UNCHANGED <<chosen, overtaken, token>>
  BY <1>3 DEF Live, Logout, Sweep, Abort, RefuseLogin, Ends, dbVars
<1>5. Room' /\ chosen' \in 0 .. MaxPasswords
  <2>1. Issuers' \subseteq Issuers
    BY <1>2, <1>4 DEF Issuers, Issues
  <2>2. Setters' \subseteq Setters /\ p \notin Setters'
    BY <1>2 DEF Setters, Sets
  <2>3. chosen' = chosen \/ (chosen' = chosen + 1 /\ p \in Setters)
    BY <1>4 DEF Setters, Sweep, Ends
  <2>4. Leaves(Issuers, issued) /\ Leaves(Setters, chosen)
    BY <1>4, <2>1, <2>2, <2>3 DEF Leaves
  <2> QED
    BY <2>4, RoomKept
<1>6. TypeOK'
  <2>1. account' \in [active : BOOLEAN, password : 0 .. MaxPasswords, weak : BOOLEAN] /\ overtaken' \in BOOLEAN
    <3>1. CASE UNCHANGED <<account, overtaken>>
      BY <3>1 DEF TypeOK
    <3>2. CASE overtaken' \in BOOLEAN /\ account' = [account EXCEPT !.password = chosen', !.weak = FALSE]
      BY <1>5, <3>2 DEF TypeOK
    <3>3. CASE overtaken' = overtaken /\ account' = [account EXCEPT !.active = @ /\ req[p].op # "disable"]
      BY <3>3 DEF TypeOK
    <3>4. CASE RefuseLogin(p)
      BY <1>2, <1>4, <3>4 DEF RefuseLogin, Rehash, TypeOK, Requests
    <3> QED
      BY <1>4, <3>1, <3>2, <3>3, <3>4 DEF Sweep, Ends
  <2>2. ASSUME NEW q \in Tabs, req'[q].stage = "rotating" PROVE req'[q].token \in Live'
    BY <1>1, <1>2, <2>2 DEF Ending, Handlers
  <2>3. token' \in [Tokens -> [status : Statuses, login : Tokens \cup {None},
                           password : 0 .. MaxPasswords, raced : BOOLEAN]]
    BY <1>1 DEF Ending
  <2> QED
    BY <1>2, <1>4, <1>5, <2>1, <2>2, <2>3 DEF TypeOK
<1>7. StagesFit'
  <2>1. ASSUME NEW q \in Handlers PROVE StageFits(q)'
    BY <1>1, <1>2 DEF StagesFit, StageFits, Ending
  <2>2. /\ \A q \in Tabs : req'[q].op \notin {"reset", "disable"}
        /\ \A q \in Tabs : req'[q].stage # "idle" => req'[q].browser \in Browsers
    <3>1. p \in Tabs => req[p].stage # "idle"
      BY DEF Logout, Sweep, RefuseLogin, Abort, Ends, StagesFit, StageFits
    <3> QED
      BY <1>1, <1>2, <3>1 DEF StagesFit, Ending, Handlers
  <2>3. /\ req'[Admin].op \in {"none", "reset", "disable"} /\ req'[Admin].stage \in {"idle", "sweeping"}
        /\ req'[Admin].browser = NoBrowser /\ req'[Admin].token = None
    BY <1>1, <1>2 DEF StagesFit, Ending, Handlers
  <2> QED
    BY <2>1, <2>2, <2>3 DEF StagesFit
<1>8. Numbered'
  <2>1. \A x \in Tokens : (token'[x].status = "none" <=> token[x].status = "none")
                          /\ token'[x].login = token[x].login
    BY <1>3 DEF Live
  <2>2. req'[p].token <= issued
    BY <1>2 DEF TypeOK, None
  <2> QED
    BY <1>2, <1>4, <2>1, <2>2 DEF Numbered
<1>9. OneLock'
  BY <1>2 DEF OneLock
<1>10. OneLivePerLogin'
  BY <1>3, <1>4 DEF OneLivePerLogin, Live
<1>11. SweepCovers'
  BY <1>2, <1>3, <1>4 DEF SweepCovers, Live
<1>12. WeakIsFirst'
  <2>1. account'.weak => account.weak /\ account'.password = account.password
    BY <1>4 DEF Sweep, RefuseLogin, Rehash, TypeOK, Ends
  <2> QED
    BY <1>2, <2>1 DEF WeakIsFirst
<1>13. SignedOut'
  <2>1. CASE UNCHANGED account
    BY <1>3, <1>4, <2>1 DEF SignedOut, Live
  <2>2. CASE RefuseLogin(p)
    <3>1. /\ account'.active = account.active
          /\ account'.password = account.password \/ account'.password = 0
      BY <2>2 DEF RefuseLogin, Rehash, Rehashes, WeakIsFirst, TypeOK
    <3>2. \A x \in Tokens : token[x].password >= 0
      BY DEF TypeOK
    <3> QED
      BY <1>3, <1>4, <3>1, <3>2 DEF SignedOut, Live
  <2>3. CASE Sweep(p)
    BY <2>3, SweepLeavesRaced DEF SignedOut
  <2> QED
    BY <1>4, <2>1, <2>2, <2>3 DEF Ends
<1>14. PasswordAsChosen' /\ LateRehash'
  <2>1. CASE UNCHANGED <<account, chosen, overtaken>>
    BY <1>2, <2>1 DEF PasswordAsChosen, LateRehash, Handlers
  <2>2. CASE RefuseLogin(p)
    <3>1. p \in Tabs /\ req[p].stage = "verified"
      BY <2>2 DEF RefuseLogin, Ends, Sweep, Abort
    <3>2. account'.password = account.password \/ (req[p].weak /\ account'.password = req[p].password)
      BY <2>2 DEF RefuseLogin, Rehash, Rehashes, TypeOK
    <3> QED
      BY <1>2, <1>4, <2>2, <3>1, <3>2 DEF PasswordAsChosen, LateRehash, Handlers
  <2>3. CASE /\ account' = [account EXCEPT !.password = chosen', !.weak = FALSE]
             /\ overtaken' = \E q \in Tabs : req[q].stage = "verified" /\ req[q].weak
    <3>1. PasswordAsChosen'
      BY <2>3 DEF PasswordAsChosen, TypeOK
    <3>2. LateRehash'
      BY <1>2, <2>3 DEF LateRehash, Handlers
    <3> QED
      BY <3>1, <3>2
  <2>4. CASE UNCHANGED <<chosen, overtaken>> /\ account' = [account EXCEPT !.active = @ /\ req[p].op # "disable"]
    <3>1. account'.password = account.password
      BY <2>4 DEF TypeOK
    <3> QED
      BY <1>2, <2>4, <3>1 DEF PasswordAsChosen, LateRehash, Handlers
  <2> QED
    BY <1>4, <2>1, <2>2, <2>3, <2>4 DEF Sweep, Ends
<1>15. OneHolder'
  <2>1. ASSUME NEW b \in Browsers, NEW x \in Tokens, Holds(b, x)' PROVE Holds(b, x)
    BY <1>2, <1>4, <2>1 DEF Holds, Tokens, None, Handlers
  <2> QED
    BY <2>1 DEF OneHolder
<1>16. Undisturbed'
  <2> DEFINE Good(x) == x = None \/ token'[x].status # "used"
  <2>1. ASSUME NEW x \in Tokens \cup {None}, Unused(x)
        PROVE  Good(x)
    BY <1>3, <2>1 DEF Unused
  <2>2. \A b \in Browsers : jar[b] \in Tokens \cup {None} /\ \A q \in Handlers : req[q].token \in Tokens \cup {None}
    BY DEF TypeOK, Requests
  <2> SUFFICES ASSUME NEW b \in Browsers, b \notin disturbed
               PROVE  /\ \A x, y \in Tabs : req'[x].browser = b /\ req'[y].browser = b => x = y
                      /\ (\A x \in Tabs : req'[x].browser = b => req'[x].stage # "answered") => Good(jar[b])
                      /\ \A x \in Tabs : req'[x].browser = b /\ req'[x].stage = "answered"
                                         /\ req'[x].reply = "session" => Good(req'[x].token)
    BY <1>4 DEF Undisturbed, Unused
  <2>3. \A x \in Tabs : req'[x].browser = b => req[x].browser = b
    BY <1>1, <1>2 DEF Handlers, Ending
  <2>4. \A x, y \in Tabs : req'[x].browser = b /\ req'[y].browser = b => x = y
    BY <2>3 DEF Undisturbed
  <2>5. (\A x \in Tabs : req'[x].browser = b => req'[x].stage # "answered") => Good(jar[b])
    <3> SUFFICES ASSUME \A x \in Tabs : req'[x].browser = b => req'[x].stage # "answered"
                 PROVE  Good(jar[b])
      OBVIOUS
    <3>1. \A x \in Tabs : req[x].browser = b => req[x].stage # "answered"
      BY <1>2, <2>3 DEF Handlers, Logout, Sweep, RefuseLogin, Abort, Ends, StagesFit, StageFits
    <3>2. Unused(jar[b])
      BY <3>1 DEF Undisturbed
    <3> QED
      BY <2>1, <2>2, <3>2
  <2>6. ASSUME NEW x \in Tabs, req'[x].browser = b, req'[x].stage = "answered", req'[x].reply = "session"
        PROVE  Good(req'[x].token)
    <3>1. x # p /\ req'[x] = req[x]
      BY <1>2, <2>6 DEF Handlers
    <3>2. Unused(req[x].token)
      BY <2>6, <3>1 DEF Undisturbed
    <3> QED
      BY <2>1, <2>2, <3>1, <3>2 DEF Handlers
  <2> QED
    BY <2>4, <2>5, <2>6
<1> QED
  BY <1>5, <1>6, <1>7, <1>8, <1>9, <1>10, <1>11, <1>12, <1>13, <1>14, <1>15, <1>16
-----------------------------------------------------------------------------
LEMMA EnableKeeps ==
  ASSUME IInv, Enable
  PROVE  IInv'
<1> USE SessionsAssumption DEF IInv
<1>1. /\ UNCHANGED <<chosen, overtaken, issued, token, jar, req, disturbed, lost>>
      /\ account' \in [active : BOOLEAN, password : 0 .. MaxPasswords, weak : BOOLEAN]
      /\ account'.password = account.password /\ account'.weak = account.weak /\ ~account.active
  BY DEF Enable, TypeOK
<1>2. Live' = Live
  BY <1>1 DEF Live
<1>3. TypeOK' /\ StagesFit' /\ Numbered'
  BY <1>1, <1>2 DEF TypeOK, StagesFit, StageFits, Numbered
<1>4. Room'
  <2>1. Issuers' \subseteq Issuers /\ Setters' \subseteq Setters
    BY <1>1, <1>2 DEF Issuers, Setters, Issues, Sets
  <2>2. Leaves(Issuers, issued) /\ Leaves(Setters, chosen)
    BY <1>1, <2>1 DEF Leaves
  <2> QED
    BY <2>2, RoomKept
<1>5. OneLock' /\ LateRehash'
  BY <1>1 DEF OneLock, LateRehash
<1>6. OneLivePerLogin' /\ SweepCovers' /\ WeakIsFirst' /\ SignedOut' /\ PasswordAsChosen'
  BY <1>1, <1>2 DEF OneLivePerLogin, SweepCovers, WeakIsFirst, SignedOut, PasswordAsChosen
<1>7. OneHolder' /\ Undisturbed'
  BY <1>1 DEF OneHolder, Holds, Undisturbed, Unused
<1> QED
  BY <1>3, <1>4, <1>5, <1>6, <1>7

LEMMA StutterKeeps ==
  ASSUME IInv, UNCHANGED vars
  PROVE  IInv'
<1> USE SessionsAssumption DEF IInv, vars, dbVars
<1>1. Live' = Live
  BY DEF Live
<1>2. TypeOK' /\ StagesFit' /\ Numbered'
  BY <1>1 DEF TypeOK, StagesFit, StageFits, Numbered
<1>3. Room'
  <2>1. Issuers' \subseteq Issuers /\ Setters' \subseteq Setters
    BY <1>1 DEF Issuers, Setters, Issues, Sets
  <2>2. Leaves(Issuers, issued) /\ Leaves(Setters, chosen)
    BY <2>1 DEF Leaves
  <2> QED
    BY <2>2, RoomKept
<1>4. OneLock' /\ LateRehash'
  BY DEF OneLock, LateRehash
<1>5. OneLivePerLogin' /\ SweepCovers' /\ WeakIsFirst' /\ SignedOut' /\ PasswordAsChosen'
  BY <1>1 DEF OneLivePerLogin, SweepCovers, WeakIsFirst, SignedOut, PasswordAsChosen
<1>6. OneHolder' /\ Undisturbed'
  BY DEF OneHolder, Holds, Undisturbed, Unused
<1> QED
  BY <1>2, <1>3, <1>4, <1>5, <1>6
-----------------------------------------------------------------------------
(* The four requests of a browser and the two of the administrator.        *)
LEMMA SendKeeps ==
  ASSUME IInv, NEW p \in Tabs, NEW b \in Browsers,
         \/ Verify(p, b) \/ Send(p, b, "refresh") \/ Send(p, b, "logout") \/ ChangeBegins(p, b)
  PROVE  IInv'
<1> USE SessionsAssumption DEF IInv
<1>1. /\ p \in Handlers /\ p # Admin /\ {} \in SUBSET Tokens /\ Live \in SUBSET Tokens
      /\ 0 \in 0 .. MaxPasswords /\ jar[b] \in Tokens \cup {None}
      /\ account.password \in 0 .. MaxPasswords /\ account.weak \in BOOLEAN
      /\ account.active \in BOOLEAN
  BY DEF Handlers, Live, TypeOK
<1>2. CASE Verify(p, b)
  <2> DEFINE r == [Idle EXCEPT !.op = "login", !.browser = b, !.stage = "verified",
                         !.password = account.password, !.weak = account.weak, !.active = account.active]
  <2>1. r \in Requests
    BY <1>1 DEF Idle, Requests
  <2>2. Opening(p, r)
    BY <1>1, <2>1 DEF Opening, Idle, WeakIsFirst
  <2> QED
    BY <1>1, <1>2, <2>2, OpenKeeps DEF Verify
<1>3. ASSUME NEW op \in {"refresh", "logout"}, Send(p, b, op) PROVE IInv'
  <2> DEFINE r == [Idle EXCEPT !.op = op, !.browser = b, !.stage = "sent", !.token = jar[b]]
  <2>1. r \in Requests
    BY <1>1 DEF Idle, Requests
  <2>2. Opening(p, r)
    BY <1>1, <1>3, <2>1 DEF Opening, Idle, Send
  <2> QED
    BY <1>1, <1>3, <2>2, OpenKeeps DEF Send
<1>4. CASE ChangeBegins(p, b)
  <2> DEFINE r == [Idle EXCEPT !.op = "change", !.browser = b, !.stage = "sweeping", !.targets = Targets(b)]
  <2>1. r \in Requests
    BY <1>1 DEF Idle, Requests, Targets
  <2>2. Opening(p, r)
    BY <1>1, <2>1 DEF Opening, Idle, Targets
  <2> QED
    BY <1>1, <1>4, <2>2, OpenKeeps DEF ChangeBegins
<1> QED
  BY <1>2, <1>3, <1>4

LEMMA AdminKeeps ==
  ASSUME IInv, NEW op \in {"disable", "reset"}, AdminBegins(op)
  PROVE  IInv'
<1> USE SessionsAssumption DEF IInv
<1> DEFINE r == [Idle EXCEPT !.op = op, !.stage = "sweeping", !.targets = Live]
<1>1. Admin \in Handlers /\ Live \in SUBSET Tokens /\ 0 \in 0 .. MaxPasswords
  BY DEF Handlers, Live
<1>2. r \in Requests
  BY <1>1 DEF Idle, Requests
<1>3. Opening(Admin, r)
  BY <1>2 DEF Opening, Idle
<1> QED
  BY <1>1, <1>3, OpenKeeps DEF AdminBegins

LEMMA NextKeeps == IInv /\ [Next]_vars => IInv'
<1> SUFFICES ASSUME IInv, [Next]_vars PROVE IInv'
  OBVIOUS
<1>1. ASSUME NEW p \in Tabs, NEW b \in Browsers,
             Verify(p, b) \/ Send(p, b, "refresh") \/ Send(p, b, "logout") \/ ChangeBegins(p, b)
      PROVE  IInv'
  BY <1>1, SendKeeps
<1>2. ASSUME NEW p \in Tabs, Serve(p) \/ Deliver(p) \/ Lose(p) PROVE IInv'
  <2>1. p \in Handlers
    BY DEF Handlers
  <2>2. CASE IssueLogin(p) \/ Rotate(p)
    BY <2>2, IssueKeeps
  <2>3. CASE Lock(p)
    BY <2>3, LockKeeps
  <2>4. CASE Logout(p) \/ RefuseLogin(p) \/ Sweep(p) \/ Abort(p)
    BY <2>1, <2>4, EndKeeps DEF Ends
  <2>5. CASE Deliver(p) \/ Lose(p)
    BY <2>5, CloseKeeps
  <2>6. CASE TakeRow(p)
    BY <2>1, <2>6, TakeRowKeeps
  <2> QED
    BY <1>2, <2>2, <2>3, <2>4, <2>5, <2>6 DEF Serve, Revoke
<1>3. ASSUME NEW op \in {"disable", "reset"}, AdminBegins(op) PROVE IInv'
  BY <1>3, AdminKeeps
<1>4. CASE Enable
  BY <1>4, EnableKeeps
<1>5. CASE Revoke(Admin)
  <2>1. Admin \in Handlers
    BY DEF Handlers
  <2> QED
    BY <1>5, <2>1, EndKeeps, TakeRowKeeps DEF Ends, Revoke
<1>6. CASE UNCHANGED vars
  BY <1>6, StutterKeeps
<1> QED
  BY <1>1, <1>2, <1>3, <1>4, <1>5, <1>6 DEF Next
-----------------------------------------------------------------------------
(* The invariant that carries the others: in every reachable state its     *)
(* thirteen parts hold together.                                           *)
THEOREM SessionsInvariant == Spec => []IInv
<1>1. Init => IInv
  BY InitHolds
<1>2. IInv /\ [Next]_vars => IInv'
  BY NextKeeps
<1> QED
  BY <1>1, <1>2, PTL DEF Spec

(* The tables, cookies and requests keep their types, the numbers their    *)
(* bounds, and a request that rotates a token holds one that is live: no   *)
(* revocation and no logout ends it under the lock (refresh, logout and    *)
(* revoke_all_refresh).                                                    *)
THEOREM TypesHold == Spec => []TypeOK
BY SessionsInvariant, PTL DEF IInv

(* A login never has two live refresh tokens, however many tabs refresh    *)
(* at once, repeat or lose an answer (refresh, auth_service.py:125-146).   *)
THEOREM OneLiveTokenPerLogin == Spec => []OneLivePerLogin
BY SessionsInvariant, PTL DEF IInv

(* What survives a change or reset of the password or the disabling of an  *)
(* account was issued beside it, or descends from what was                 *)
(* (revoke_all_refresh and its three callers).                             *)
THEOREM RevocationSignsOut == Spec => []SignedOut
BY SessionsInvariant, PTL DEF IInv

(* The password in force is the one chosen last, unless a login that had   *)
(* verified an older hash was under way when it was set (authenticate,     *)
(* auth_service.py:41-51, and its two commits in login, 106-116).          *)
THEOREM PasswordIsAsChosen == Spec => []PasswordAsChosen
BY SessionsInvariant, PTL DEF IInv

(* A reuse whose revocation commits leaves no token live but those issued  *)
(* beside a revocation (refresh, auth_service.py:131-137).                 *)
THEOREM ReuseEndsSessions == Spec => ReuseSignsOut
<1>1. IInv => [\A p \in Tabs : req[p].op = "refresh" /\ Sweep(p) => \A t \in Live' : token'[t].raced]_vars
  BY SweepLeavesRaced DEF Handlers
<1> QED
  BY <1>1, SessionsInvariant, PTL DEF ReuseSignsOut

(* A browser whose answers all arrive and whose tabs take turns never      *)
(* keeps a token that was rotated away (refresh, set_session_cookies).     *)
THEOREM CookieStaysFresh == Spec => []CookieFresh
<1>1. IInv => CookieFresh
  BY DEF IInv, Undisturbed, Unused, CookieFresh
<1> QED
  BY <1>1, SessionsInvariant, PTL
=============================================================================

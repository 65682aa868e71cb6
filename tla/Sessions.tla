------------------------------ MODULE Sessions ------------------------------
(***************************************************************************)
(* The browser sessions of one account: login, rotating refresh tokens,    *)
(* logout, the change of the password, and the administrator who disables  *)
(* the account or resets its password.                                     *)
(*                                                                         *)
(* A browser is a cookie jar that its tabs share.  A request carries the   *)
(* cookies of the moment it is sent, its handler runs beside the others    *)
(* under READ COMMITTED, and its answer writes the jar when it arrives, if *)
(* it arrives.  refresh() locks the row of its token; revoke_all_refresh() *)
(* is one UPDATE: it sees the tokens committed when it starts, and locks   *)
(* them one by one.  A transaction keeps its rows until it commits, or     *)
(* until PostgreSQL aborts it to end a deadlock.                           *)
(***************************************************************************)
EXTENDS Naturals, FiniteSets

CONSTANTS
  Browsers,
  Tabs,         (* bound: tabs with a request at the same time             *)
  Admin,        (* the request of an administrator                         *)
  NoBrowser,
  MaxRequests,  (* bound: requests at the same time, the administrator's too *)
  MaxTokens,    (* bound: refresh tokens issued                            *)
  MaxPasswords, (* bound: changes and resets of the password               *)
  MaxLost       (* bound: answers that do not arrive                       *)

ASSUME SessionsAssumption ==
  /\ Admin \notin Tabs /\ IsFiniteSet(Tabs)
  /\ NoBrowser \notin Browsers
  /\ MaxRequests \in Nat /\ MaxTokens \in Nat /\ MaxPasswords \in Nat /\ MaxLost \in Nat

Tokens == 1 .. MaxTokens
None == 0
Handlers == Tabs \cup {Admin}

VARIABLES
  account,   (* users: is_active, which password, whether its hash is of   *)
             (* older parameters (weak)                                    *)
  chosen,    (* history: the last password a user or administrator set     *)
  overtaken, (* history: when it was set, a login that had verified an     *)
             (* older, weak hash was under way                             *)
  issued,    (* refresh tokens issued so far                               *)
  token,     (* refresh_tokens; which login they descend from, with which  *)
             (* password, and whether their issue ran beside a revocation  *)
  jar,       (* the refresh cookie of each browser; the access cookie is   *)
             (* set and deleted with it and may have expired at any moment *)
  req,       (* the request of each tab and of the administrator           *)
  disturbed, (* history: browsers that lost an answer or overlapped two    *)
  lost

dbVars == <<account, chosen, overtaken, issued, token>>
vars == <<dbVars, jar, req, disturbed, lost>>

(* revoked_at is set in "used" (rotated) and in "ended" (any other way).   *)
Statuses == {"none", "live", "used", "ended"}
NoToken == [status |-> "none", login |-> None, password |-> 0, raced |-> FALSE]

Idle == [op |-> "none", browser |-> NoBrowser, stage |-> "idle", token |-> None, targets |-> {},
         held |-> {}, password |-> 0, weak |-> FALSE, active |-> FALSE, reply |-> "none"]
Live == {t \in Tokens : token[t].status = "live"}
Revoked == {t \in Tokens : token[t].status \in {"used", "ended"}}

(* No transaction holds the row of t.                                      *)
Free(t) == \A p \in Handlers : t \notin req[p].held
Sweeping == \E p \in Handlers : req[p].stage = "sweeping"

Init ==
  /\ account = [active |-> TRUE, password |-> 0, weak |-> TRUE]
  /\ chosen = 0 /\ overtaken = FALSE
  /\ issued = 0
  /\ token = [t \in Tokens |-> NoToken]
  /\ jar = [b \in Browsers |-> None]
  /\ req = [p \in Handlers |-> Idle]
  /\ disturbed = {}
  /\ lost = 0

-----------------------------------------------------------------------------
(* The browser.  client.ts asks for a refresh after a 401, once at a time  *)
(* in each tab; nothing joins the tabs of one jar.                         *)
(* What may still be issued or set counts towards the bounds.              *)
Issues(r) == (r.op = "login" /\ r.active) \/ (r.op = "refresh" /\ r.token \in Live)
Sets(r) == r.op \in {"change", "reset"}
Issuing == Cardinality({q \in Handlers : Issues(req[q])})
Setting == Cardinality({q \in Handlers : Sets(req[q])})

Open(p, r) ==
  /\ req[p] = Idle
  /\ Cardinality({q \in Handlers : req[q] # Idle}) < MaxRequests
  /\ Issues(r) => issued + Issuing < MaxTokens
  /\ Sets(r) => chosen + Setting < MaxPasswords
  /\ req' = [req EXCEPT ![p] = r]
  /\ disturbed' = IF p # Admin /\ \E q \in Tabs : req[q].browser = r.browser
                  THEN disturbed \cup {r.browser} ELSE disturbed
  /\ UNCHANGED <<dbVars, jar, lost>>

(* refresh and logout carry the refresh cookie of the moment.              *)
Send(p, b, op) ==
  /\ jar[b] # None
  /\ Open(p, [Idle EXCEPT !.op = op, !.browser = b, !.stage = "sent", !.token = jar[b]])

(* An answer deletes the cookies or sets them to the session of token t.   *)
Reply(p, reply, t) ==
  req' = [req EXCEPT ![p] = [Idle EXCEPT !.browser = req[p].browser, !.stage = "answered",
                                         !.reply = reply, !.token = t]]

(* A refusal leaves the cookies: the error handler builds its own response, *)
(* and the cookies the refresh endpoint deletes are on another.            *)
Refuse(p) == req' = [req EXCEPT ![p] = Idle]

(* Mutant: the cookies of a session are those it came from.                *)
KeptCookie(p) == IF jar[req[p].browser] = None THEN req[p].token ELSE jar[req[p].browser]

(* set_session_cookies, clear_session_cookies.                             *)
NewCookie(p) == req[p].token
Deliver(p) ==
  /\ req[p].stage = "answered"
  /\ jar' = [jar EXCEPT ![req[p].browser] =
               IF req[p].reply = "session" THEN NewCookie(p) ELSE None]
  /\ req' = [req EXCEPT ![p] = Idle]
  /\ UNCHANGED <<dbVars, disturbed, lost>>

Lose(p) ==
  /\ req[p].stage = "answered"
  /\ lost < MaxLost /\ lost' = lost + 1
  /\ disturbed' = disturbed \cup {req[p].browser}
  /\ req' = [req EXCEPT ![p] = Idle]
  /\ UNCHANGED <<dbVars, jar>>

-----------------------------------------------------------------------------
(* issue_session: a new row, given the password its login was checked      *)
(* against.  Its issue races a revocation that has begun and not ended, or *)
(* that ended since the account was read.                                  *)
Issued(root, password) ==
  [status |-> "live", login |-> root, password |-> password,
   raced |-> Sweeping \/ password < account.password \/ ~account.active]

Grant(p, t) == Reply(p, "session", t)

(* login: the account is read and the password verified against it; a      *)
(* wrong password changes nothing.                                         *)
Verify(p, b) ==
  Open(p, [Idle EXCEPT !.op = "login", !.browser = b, !.stage = "verified", !.password = account.password,
                       !.weak = account.weak, !.active = account.active])

(* authenticate: a hash of older parameters is written anew, whatever is   *)
(* in the row by then.                                                     *)
(* Mutant: every login writes the hash.                                    *)
RehashesAlways(p) == TRUE
Rehashes(p) == req[p].weak
Rehash(p) ==
  account' = IF Rehashes(p) THEN [account EXCEPT !.password = req[p].password, !.weak = FALSE] ELSE account

IssueLogin(p) ==
  /\ req[p].stage = "verified" /\ req[p].active
  /\ issued' = issued + 1
  /\ token' = [token EXCEPT ![issued'] = Issued(issued', req[p].password)]
  /\ Rehash(p)
  /\ Grant(p, issued')
  /\ UNCHANGED <<chosen, overtaken, jar, disturbed, lost>>

(* A disabled account is refused with a commit, of the new hash included.  *)
RefuseLogin(p) ==
  /\ req[p].stage = "verified" /\ ~req[p].active
  /\ Rehash(p)
  /\ Refuse(p)
  /\ UNCHANGED <<chosen, overtaken, issued, token, jar, disturbed, lost>>

-----------------------------------------------------------------------------
(* Mutants: the row is read without FOR UPDATE; a reuse ends the sessions  *)
(* of its own login only.                                                  *)
NeverWaits(t) == TRUE
OwnLogin(p) == {t \in Live : token[t].login = token[req[p].token].login}
Available(t) == Free(t)
EndedByReuse(p) == Live

(* refresh: the row is locked and read.  A revoked token starts the        *)
(* revocation of every session; any other may have expired.                *)
Lock(p) ==
  LET t == req[p].token IN
  /\ req[p].op = "refresh" /\ req[p].stage = "sent"
  /\ Available(t)
  /\ \/ /\ t \in Revoked
        /\ req' = [req EXCEPT ![p].stage = "sweeping", ![p].held = {t}, ![p].targets = EndedByReuse(p)]
     \/ t \in Live /\ Refuse(p)
     \/ t \in Live /\ account.active /\ req' = [req EXCEPT ![p].stage = "rotating", ![p].held = {t}]
  /\ UNCHANGED <<dbVars, jar, disturbed, lost>>

(* The old token is revoked and the new one issued in one commit.          *)
Rotate(p) ==
  LET t == req[p].token IN
  /\ req[p].stage = "rotating"
  /\ issued' = issued + 1
  /\ token' = [token EXCEPT ![t].status = "used",
                            ![issued'] = [Issued(token[t].login, token[t].password)
                                            EXCEPT !.raced = @ \/ token[t].raced]]
  /\ Grant(p, issued')
  /\ UNCHANGED <<account, chosen, overtaken, jar, disturbed, lost>>

(* logout reads without a lock and its write, if it has one, waits for the *)
(* row; one that was revoked in between is written again.                  *)
Logout(p) ==
  LET t == req[p].token IN
  /\ req[p].op = "logout"
  /\ t \in Live => Free(t)
  /\ token' = IF t \in Live THEN [token EXCEPT ![t].status = "ended"] ELSE token
  /\ Reply(p, "cleared", None)
  /\ UNCHANGED <<account, chosen, overtaken, issued, jar, disturbed, lost>>

-----------------------------------------------------------------------------
(* Mutant: a change of the password ends the session it came from only.    *)
OwnTarget(b) == {jar[b]} \cap Live
Targets(b) == Live

(* The access cookie comes and goes with the refresh cookie; its account   *)
(* is read anew by every request (_authenticate_jwt).                      *)
Authenticated(b) == jar[b] # None /\ account.active

(* change-password: the caller is authenticated by the access token, the   *)
(* current password checked, and the UPDATE of the tokens sent; the new    *)
(* hash is flushed at the commit.                                          *)
ChangeBegins(p, b) ==
  /\ Authenticated(b)
  /\ Open(p, [Idle EXCEPT !.op = "change", !.browser = b, !.stage = "sweeping",
                         !.targets = Targets(b)])

(* The administrator's disable and reset revoke the same way; enable only  *)
(* writes the account.                                                     *)
AdminBegins(op) ==
  Open(Admin, [Idle EXCEPT !.op = op, !.stage = "sweeping", !.targets = Live])

Enable ==
  /\ req[Admin] = Idle
  /\ ~account.active
  /\ account' = [account EXCEPT !.active = TRUE]
  /\ UNCHANGED <<chosen, overtaken, issued, token, jar, req, disturbed, lost>>

(* The UPDATE takes its rows in some order, each once it is free; a row    *)
(* revoked meanwhile is not written and yet stays locked.                  *)
TakeRow(p) ==
  /\ req[p].stage = "sweeping"
  /\ \E t \in req[p].targets \ req[p].held :
       Free(t) /\ req' = [req EXCEPT ![p].held = @ \cup {t}]
  /\ UNCHANGED <<dbVars, jar, disturbed, lost>>

(* The commit, and with it the new password or the account disabled.       *)
Sweep(p) ==
  /\ req[p].stage = "sweeping"
  /\ req[p].targets \subseteq req[p].held
  /\ token' = [t \in Tokens |-> IF t \in req[p].held \cap Live
                                THEN [token[t] EXCEPT !.status = "ended"] ELSE token[t]]
  /\ IF Sets(req[p])
     THEN /\ chosen' = chosen + 1
          /\ overtaken' = \E q \in Tabs : req[q].stage = "verified" /\ req[q].weak
          /\ account' = [account EXCEPT !.password = chosen', !.weak = FALSE]
     ELSE /\ UNCHANGED <<chosen, overtaken>>
          /\ account' = [account EXCEPT !.active = @ /\ req[p].op # "disable"]
  /\ IF req[p].op = "change" THEN Reply(p, "cleared", None) ELSE req' = [req EXCEPT ![p] = Idle]
  /\ UNCHANGED <<issued, jar, disturbed, lost>>

(* Requests that wait for each other's rows: two revocations that take     *)
(* them in another order, or one that has come to a row rotated since it   *)
(* began, held by a reuse of it.  PostgreSQL rolls one back.               *)
WaitsFor(p, q) == \E t \in req[p].targets \ req[p].held : t \in req[q].held
Deadlocked(p) ==
  \E S \in SUBSET Handlers :
    p \in S /\ \A q \in S : (\E r \in S : WaitsFor(q, r)) /\ (\E r \in S : WaitsFor(r, q))

Abort(p) ==
  /\ req[p].stage = "sweeping"
  /\ Deadlocked(p)
  /\ Refuse(p)
  /\ UNCHANGED <<dbVars, jar, disturbed, lost>>

-----------------------------------------------------------------------------
Revoke(p) == TakeRow(p) \/ Sweep(p) \/ Abort(p)
Serve(p) == IssueLogin(p) \/ RefuseLogin(p) \/ Lock(p) \/ Rotate(p) \/ Logout(p) \/ Revoke(p)

Next ==
  \/ \E p \in Tabs, b \in Browsers :
       Verify(p, b) \/ Send(p, b, "refresh") \/ Send(p, b, "logout") \/ ChangeBegins(p, b)
  \/ \E p \in Tabs : Serve(p) \/ Deliver(p) \/ Lose(p)
  \/ \E op \in {"disable", "reset"} : AdminBegins(op)
  \/ Enable \/ Revoke(Admin)

Spec == Init /\ [][Next]_vars

-----------------------------------------------------------------------------
Requests == [op : {"none", "login", "refresh", "logout", "change", "disable", "reset"},
             browser : Browsers \cup {NoBrowser},
             stage : {"idle", "sent", "verified", "rotating", "sweeping", "answered"},
             token : Tokens \cup {None}, targets : SUBSET Tokens,
             held : SUBSET Tokens, password : 0 .. MaxPasswords, weak : BOOLEAN, active : BOOLEAN,
             reply : {"none", "session", "cleared"}]

(* Types of the tables, the cookies and the requests; a request that       *)
(* rotates a token holds one that is live.                                 *)
TypeOK ==
  /\ account \in [active : BOOLEAN, password : 0 .. MaxPasswords, weak : BOOLEAN]
  /\ chosen \in 0 .. MaxPasswords /\ overtaken \in BOOLEAN
  /\ issued \in 0 .. MaxTokens
  /\ token \in [Tokens -> [status : Statuses, login : Tokens \cup {None},
                            password : 0 .. MaxPasswords, raced : BOOLEAN]]
  /\ jar \in [Browsers -> Tokens \cup {None}]
  /\ req \in [Handlers -> Requests]
  /\ \A p \in Tabs : req[p].stage = "rotating" => req[p].token \in Live
  /\ disturbed \subseteq Browsers /\ lost \in 0 .. MaxLost

(* However refreshes overlap, repeat or lose their answers, a login never  *)
(* has two live refresh tokens: rotation replaces a token once (the row    *)
(* lock and the test of revoked_at in refresh, auth_service.py:125-146).   *)
OneLivePerLogin ==
  \A t, u \in Live : token[t].login = token[u].login => t = u

(* A session outlives a change or reset of the password or the disabling   *)
(* of the account only if its token was issued by a handler that ran       *)
(* beside the revocation, or by one that descends from it                  *)
(* (revoke_all_refresh and its three callers).                             *)
SignedOut ==
  \A t \in Live :
    \/ token[t].raced
    \/ account.active /\ token[t].password >= account.password

(* A browser whose answers all arrive and whose tabs take turns never      *)
(* keeps a refresh token that was rotated away: its next refresh is not    *)
(* mistaken for reuse.                                                     *)
CookieFresh ==
  \A b \in Browsers \ disturbed :
    /\ \A p \in Tabs : req[p].browser # b
    /\ jar[b] # None
    => token[jar[b]].status # "used"

(* The password in force is the one a user or administrator chose last,    *)
(* unless, when they did, a login was under way that had verified an older *)
(* hash and is to write it anew, of an account disabled meanwhile too      *)
(* (authenticate, auth_service.py:41-51, committed in login, 106-116).     *)
PasswordAsChosen == account.password = chosen \/ overtaken

(* A reuse that revoked its sessions, where PostgreSQL did not abort it,   *)
(* leaves no refresh token of the account but those that were issued       *)
(* beside a revocation, whatever rotated and logged in while it waited for *)
(* its rows (refresh, auth_service.py:131-137).                            *)
ReuseSignsOut ==
  [][\A p \in Tabs : req[p].op = "refresh" /\ Sweep(p) => \A t \in Live' : token'[t].raced]_vars
=============================================================================

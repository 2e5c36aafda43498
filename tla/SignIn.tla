------------------------------- MODULE SignIn -------------------------------
(***************************************************************************)
(* Signing in to the room: the owner's password and setup code, sign-in    *)
(* through an OpenID provider with one-time states and hand-off codes,     *)
(* sessions that slide, and the budget of attempts (auth/usecase/service,  *)
(* auth/usecase/oidc, web/authapi/handler, infra/http/auth and ratelimit). *)
(*                                                                         *)
(* Owner and sessions are rows; setup code, states, hand-off codes and     *)
(* budgets are the process's memory and are lost when it restarts, as are  *)
(* the requests in flight.  A request is a record with the step it is at;  *)
(* it may fail at any of them (a statement, the provider, a full hash      *)
(* slot given up on), which ends it.  The sign-in of the app carries one   *)
(* ticket from its state to its hand-off code.                             *)
(***************************************************************************)
EXTENDS Integers, FiniteSets, Functions

CONSTANTS
    Client,      \* requests that may be in flight together
    Address,     \* where they come from
    Password,    \* passwords somebody may type
    Weak,        \* the ones ValidatePassword refuses
    None,        \* no password: no row, or ROOM_PASSWORD unset
    Config,      \* what a boot may find: whether passwords are on, ROOM_PASSWORD
    MaxTokens,   \* bound: sessions the room may ever open
    Ticket,      \* sign-ins that may ever be started (bound)
    MaxPending,  \* sign-ins in progress (256)
    PerKey,      \* attempts of an address in a window (10)
    Total,       \* attempts of all addresses in a window (100)
    PruneAbove,  \* addresses kept before old ones are swept (1024)
    Window,      \* length of a window (15 minutes)
    SessionTTL,  \* life of an unused session (90 days)
    TouchEvery,  \* how stale last_seen_at may get (5 minutes)
    PendingTTL,  \* life of a state (10 minutes)
    HandoffTTL,  \* life of a hand-off code (2 minutes)
    MaxTime      \* bound: time that passes

ASSUME SignInAssumption ==
    /\ Weak \subseteq Password
    /\ None \notin Password \cup Ticket \cup Address
    /\ Config \subseteq [on : BOOLEAN, env : (Password \ Weak) \cup {None}]
    /\ {MaxPending, PerKey, Total, Window, SessionTTL, TouchEvery} \subseteq Nat \ {0}
    /\ {PruneAbove, MaxTokens, PendingTTL, HandoffTTL, MaxTime} \subseteq Nat

VARIABLES
    now,       \* the clock
    password,  \* whether the process signs in with passwords
    owner,     \* the password of auth_owner, or None
    session,   \* the rows of auth_sessions by token
    setupOpen, \* whether a setup code is issued
    pending,   \* sign-ins at the provider, by state
    handoff,   \* codes the app may redeem, by the state they came from
    started,   \* states ever drawn
    keys,      \* windows by address
    all,       \* the window of all addresses
    req,       \* req[c], the request c is serving
    opened     \* opened[t], sessions opened for ticket t (history)

vars == <<now, password, owner, session, setupOpen, pending, handoff, started,
          keys, all, req, opened>>

rows   == <<owner, session, opened>>
oidc   == <<pending, handoff, started>>
budget == <<keys, all>>

-----------------------------------------------------------------------------

\* Sessions are numbered as they are opened.
Token == 1 .. MaxTokens

Idle == [op |-> "none"]

Free(c) == req[c] = Idle

At(c, step) == ~Free(c) /\ req[c].at = step

GoTo(c, step) == req' = [req EXCEPT ![c].at = step]

End(c) == req' = [req EXCEPT ![c] = Idle]

\* A map of the process with key x set to v, and one without it.
With(f, x, v) == [y \in DOMAIN f \cup {x} |-> IF y = x THEN v ELSE f[y]]

Without(f, x) == Restrict(f, DOMAIN f \ {x})

Expired(s) == s.st = "live" /\ s.expires <= now

\* DELETE FROM auth_sessions WHERE expires_at <= now.
Unexpired(ss) == [t \in Token |-> IF Expired(ss[t]) THEN [ss[t] EXCEPT !.st = "gone"] ELSE ss[t]]

\* DELETE FROM auth_sessions, in the transaction that replaces the owner.
SignOutAll(ss) == [t \in Token |-> IF ss[t].st = "live" THEN [ss[t] EXCEPT !.st = "gone"] ELSE ss[t]]

TypeOK ==
    /\ now \in 0 .. MaxTime
    /\ password \in BOOLEAN
    /\ owner \in (Password \ Weak) \cup {None}
    /\ \A t \in Token : /\ session[t].st \in {"unused", "live", "gone"}
                        /\ session[t].seen <= now
                        /\ session[t].st = "live" => session[t].expires = session[t].seen + SessionTTL
    /\ setupOpen => password
    /\ DOMAIN pending \cup DOMAIN handoff \subseteq started
    /\ DOMAIN pending \cap DOMAIN handoff = {}
    /\ Cardinality(DOMAIN pending) <= MaxPending
    /\ DOMAIN keys \subseteq Address
    /\ \A c \in Client : Free(c) \/ req[c].op \in {"setup", "login", "start", "callback", "exchange", "visit"}

-----------------------------------------------------------------------------
(* Boot.                                                                   *)

\* Service.Bootstrap, before the server listens: expired sessions go; with
\* passwords on, ROOM_PASSWORD creates or replaces the owner, and without it
\* a room that has none issues a setup code.
Bootstrap(cfg) ==
    LET same == owner = cfg.env IN
    /\ password' = cfg.on
    /\ owner' = IF cfg.on /\ cfg.env # None THEN cfg.env ELSE owner
    /\ session' = IF cfg.on /\ cfg.env # None /\ owner # None /\ ~same
                  THEN SignOutAll(Unexpired(session)) ELSE Unexpired(session)
    /\ setupOpen' = (cfg.on /\ cfg.env = None /\ owner = None)

\* A ROOM_PASSWORD that is too short stops the boot, and is left to Config.
Restart ==
    /\ \E cfg \in Config : Bootstrap(cfg)
    /\ pending' = <<>>
    /\ handoff' = <<>>
    /\ keys' = <<>>
    /\ all' = [start |-> -Window, count |-> 0]
    /\ req' = [c \in Client |-> Idle]
    /\ UNCHANGED <<now, started, opened>>

Init ==
    /\ now = 0
    /\ \E cfg \in Config :
        /\ password = cfg.on
        /\ owner = IF cfg.on THEN cfg.env ELSE None
        /\ setupOpen = (cfg.on /\ cfg.env = None)
    /\ session = [t \in Token |-> [st |-> "unused", seen |-> 0, expires |-> 0, under |-> None]]
    /\ pending = <<>>
    /\ handoff = <<>>
    /\ started = {}
    /\ keys = <<>>
    /\ all = [start |-> -Window, count |-> 0]
    /\ req = [c \in Client |-> Idle]
    /\ opened = [t \in Ticket |-> 0]

-----------------------------------------------------------------------------
(* Limiter: attempts in fixed windows, of an address and of all of them.   *)

Rolled(w) == IF now - w.start >= Window THEN [start |-> now, count |-> 0] ELSE w

Tracked ==
    IF Cardinality(DOMAIN keys) <= PruneAbove THEN keys
    ELSE Restrict(keys, {a \in DOMAIN keys : now - keys[a].start < Window})

OfKey(a) == Rolled(IF a \in DOMAIN Tracked THEN Tracked[a] ELSE [start |-> now, count |-> 0])

Allowed(a) == OfKey(a).count < PerKey /\ Rolled(all).count < Total

Spent(w) == [w EXCEPT !.count = @ + 1]

\* Slip: what a refused address tries counts against nobody else.
AllowKeyOnly(a) ==
    /\ keys' = With(Tracked, a, IF Allowed(a) THEN Spent(OfKey(a)) ELSE OfKey(a))
    /\ all' = Rolled(all)

\* Allow: an attempt spends both budgets, a refused one spends neither.
Allow(a) ==
    /\ keys' = With(Tracked, a, IF Allowed(a) THEN Spent(OfKey(a)) ELSE OfKey(a))
    /\ all' = IF Allowed(a) THEN Spent(Rolled(all)) ELSE Rolled(all)

\* Handlers setup, login and oidcExchange: 429 when the budget is gone.
Post(c, a, r) ==
    /\ Free(c)
    /\ Allow(a)
    /\ req' = [req EXCEPT ![c] = IF Allowed(a) THEN r ELSE Idle]
    /\ UNCHANGED <<now, password, rows, setupOpen, oidc>>

-----------------------------------------------------------------------------
(* Sessions.                                                               *)

\* IssueSession, on the next token, for what proved the owner; the handlers
\* that spent an attempt give the address its budget back.
Issue(c) ==
    \E t \in Token :
        /\ At(c, "issue")
        /\ t = 1 + Cardinality({k \in Token : session[k].st # "unused"})
        /\ session' = [session EXCEPT ![t] =
               [st |-> "live", seen |-> now, expires |-> now + SessionTTL, under |-> req[c].under]]
        /\ opened' = IF req[c].ticket = None THEN opened
                     ELSE [opened EXCEPT ![req[c].ticket] = @ + 1]
        /\ keys' = IF req[c].from = None THEN keys ELSE Without(keys, req[c].from)
        /\ End(c)
        /\ UNCHANGED <<now, password, owner, setupOpen, oidc, all>>

\* RequireAuth and Authenticate: the token's row is read unexpired, and its
\* use is recorded when the last one is old enough.
Visit(c, t, target) ==
    /\ Free(c)
    /\ session[t].st = "live" /\ session[t].expires > now
    /\ target # None => session[target].st # "unused"
    /\ req' = [req EXCEPT ![c] =
           [op |-> "visit", token |-> t, target |-> target, since |-> now,
            at |-> IF now - session[t].seen >= TouchEvery THEN "touch" ELSE "serve"]]
    /\ UNCHANGED <<now, password, rows, setupOpen, oidc, budget>>

\* Slip: the use of a session is upserted.
Upsert(s, at) == [s EXCEPT !.st = "live", !.seen = at, !.expires = at + SessionTTL]

\* TouchSession: an UPDATE by id, which meets no row once it is revoked.
Touched(s, at) == IF s.st = "live" THEN [s EXCEPT !.seen = at, !.expires = at + SessionTTL] ELSE s

Touch(c) ==
    /\ At(c, "touch")
    /\ session' = [session EXCEPT ![req[c].token] = Touched(@, req[c].since)]
    /\ GoTo(c, "serve")
    /\ UNCHANGED <<now, password, owner, opened, setupOpen, oidc, budget>>

\* A touch that fails costs expiry, not the request.
TouchFails(c) ==
    /\ At(c, "touch")
    /\ GoTo(c, "serve")
    /\ UNCHANGED <<now, password, rows, setupOpen, oidc, budget>>

\* logout and revokeSession delete a row, this device's or another's; any
\* other request leaves the sessions alone.
Serve(c) ==
    /\ At(c, "serve")
    /\ session' = IF req[c].target = None THEN session
                  ELSE [session EXCEPT ![req[c].target].st = "gone"]
    /\ End(c)
    /\ UNCHANGED <<now, password, owner, opened, setupOpen, oidc, budget>>

-----------------------------------------------------------------------------
(* The password.                                                           *)

\* Service.Setup up to the hash: the code in memory is compared first.
SetupCheck(c, right) ==
    /\ At(c, "code")
    /\ IF password /\ req[c].under \notin Weak /\ setupOpen /\ right
       THEN GoTo(c, "create") ELSE End(c)
    /\ UNCHANGED <<now, password, rows, setupOpen, oidc, budget>>

\* Slip: the second of two set-ups replaces the owner of the first.
OwnerFreeAlways == TRUE

\* CreateOwner: ON CONFLICT DO NOTHING.
OwnerFree == owner = None

SetupCreate(c) ==
    /\ At(c, "create")
    /\ IF OwnerFree THEN owner' = req[c].under /\ GoTo(c, "close")
       ELSE owner' = owner /\ End(c)
    /\ UNCHANGED <<now, password, session, opened, setupOpen, oidc, budget>>

SetupClose(c) ==
    /\ At(c, "close")
    /\ setupOpen' = FALSE
    /\ GoTo(c, "issue")
    /\ UNCHANGED <<now, password, rows, oidc, budget>>

\* Service.Login reads the hash ...
LoginRead(c) ==
    /\ At(c, "read")
    /\ IF password /\ owner # None
       THEN req' = [req EXCEPT ![c].at = "verify", ![c].hash = owner] ELSE End(c)
    /\ UNCHANGED <<now, password, rows, setupOpen, oidc, budget>>

\* ... and verifies against it; a right one sweeps the expired sessions.
LoginVerify(c) ==
    /\ At(c, "verify")
    /\ IF req[c].under = req[c].hash
       THEN session' = Unexpired(session) /\ GoTo(c, "issue")
       ELSE session' = session /\ End(c)
    /\ UNCHANGED <<now, password, owner, opened, setupOpen, oidc, budget>>

-----------------------------------------------------------------------------
(* The provider.                                                           *)

Young(f, ttl) == Restrict(f, {x \in DOMAIN f : now - f[x].created <= ttl})

\* OIDC.Start: under the lock, expired entries are pruned and a state is
\* drawn unless too many sign-ins are in progress.
StartLogin(c, t, app) ==
    LET kept == Young(pending, PendingTTL)
        full == Cardinality(DOMAIN kept) >= MaxPending
    IN
    /\ Free(c)
    /\ t \notin started
    /\ handoff' = Young(handoff, HandoffTTL)
    /\ pending' = IF full THEN kept ELSE With(kept, t, [app |-> app, created |-> now])
    /\ started' = IF full THEN started ELSE started \cup {t}
    /\ req' = IF full THEN req
              ELSE [req EXCEPT ![c] = [op |-> "start", at |-> "url", ticket |-> t]]
    /\ UNCHANGED <<now, password, rows, setupOpen, budget>>

\* AuthCodeURL may have to discover the provider first; the state is given
\* up when that fails.
StartUrl(c, reached) ==
    /\ At(c, "url")
    /\ pending' = IF reached THEN pending ELSE Without(pending, req[c].ticket)
    /\ End(c)
    /\ UNCHANGED <<now, password, rows, setupOpen, handoff, started, budget>>

\* The browser comes back, more than once if it likes, with a state whose
\* cookie it was given.
CallbackArrives(c, t) ==
    /\ Free(c)
    /\ t \in started
    /\ \A d \in Client : At(d, "url") => req[d].ticket # t
    /\ req' = [req EXCEPT ![c] = [op |-> "callback", at |-> "state", ticket |-> t,
                                  app |-> FALSE, under |-> "idp", from |-> None]]
    /\ UNCHANGED <<now, password, rows, setupOpen, oidc, budget>>

\* Slip: the state is taken out when the sign-in is over.
Looked(t) == pending

\* The state is taken out of the map in the lock that looks it up.
Taken(t) == Without(pending, t)

CallbackState(c) ==
    LET t == req[c].ticket
        good == t \in DOMAIN pending /\ now - pending[t].created <= PendingTTL
    IN
    /\ At(c, "state")
    /\ pending' = Taken(t)
    /\ req' = [req EXCEPT ![c] = IF good THEN [@ EXCEPT !.at = "idp", !.app = pending[t].app] ELSE Idle]
    /\ UNCHANGED <<now, password, rows, setupOpen, handoff, started, budget>>

\* The provider's Exchange, and the allow-list: a browser gets its session
\* next, the app a code.
CallbackIdentity(c, allowed) ==
    /\ At(c, "idp")
    /\ IF allowed /\ req[c].app
       THEN /\ pending' = Young(pending, PendingTTL)
            /\ handoff' = With(Young(handoff, HandoffTTL), req[c].ticket, [created |-> now])
       ELSE UNCHANGED <<pending, handoff>>
    /\ IF allowed /\ ~req[c].app THEN GoTo(c, "issue") ELSE End(c)
    /\ UNCHANGED <<now, password, rows, setupOpen, started, budget>>

\* OIDC.Exchange: the code is spent whether or not the verifier is right.
ExchangeCode(c, right) ==
    LET t == req[c].ticket
        good == t \in DOMAIN handoff /\ now - handoff[t].created <= HandoffTTL /\ right
    IN
    /\ At(c, "take")
    /\ handoff' = Without(handoff, t)
    /\ IF good THEN GoTo(c, "issue") ELSE End(c)
    /\ UNCHANGED <<now, password, rows, setupOpen, pending, started, budget>>

-----------------------------------------------------------------------------

Fail(c) ==
    /\ ~Free(c)
    /\ ~At(c, "url")
    /\ End(c)
    /\ UNCHANGED <<now, password, rows, setupOpen, oidc, budget>>

Pass ==
    /\ now < MaxTime
    /\ now' = now + 1
    /\ UNCHANGED <<password, rows, setupOpen, oidc, budget, req>>

Setup(c, a, p) ==
    Post(c, a, [op |-> "setup", at |-> "code", under |-> p, ticket |-> None, from |-> a])

Login(c, a, p) ==
    Post(c, a, [op |-> "login", at |-> "read", under |-> p, hash |-> None, ticket |-> None, from |-> a])

\* The app holds a code once a callback has redirected to it.
Exchange(c, a, t) ==
    /\ t \in started
    /\ Post(c, a, [op |-> "exchange", at |-> "take", under |-> "idp", ticket |-> t, from |-> a])

Request(c) ==
    \/ \E a \in Address, p \in Password : Setup(c, a, p) \/ Login(c, a, p)
    \/ \E a \in Address, t \in Ticket : Exchange(c, a, t)
    \/ \E t \in Ticket, app \in BOOLEAN : StartLogin(c, t, app)
    \/ \E t \in Ticket : CallbackArrives(c, t)
    \/ \E t \in Token, target \in Token \cup {None} : Visit(c, t, target)

Step(c) ==
    \/ \E right \in BOOLEAN : SetupCheck(c, right) \/ ExchangeCode(c, right)
    \/ SetupCreate(c) \/ SetupClose(c)
    \/ LoginRead(c) \/ LoginVerify(c)
    \/ \E reached \in BOOLEAN : StartUrl(c, reached)
    \/ CallbackState(c)
    \/ \E allowed \in BOOLEAN : CallbackIdentity(c, allowed)
    \/ Issue(c)
    \/ Touch(c) \/ TouchFails(c) \/ Serve(c)
    \/ Fail(c)

Next == Pass \/ Restart \/ \E c \in Client : Request(c) \/ Step(c)

Spec == Init /\ [][Next]_vars

-----------------------------------------------------------------------------
(* What signing in promises.                                               *)

\* A request that took ticket t in time is on its way with it.
Carried(t) == \E c \in Client : req[c].op \in {"callback", "exchange"}
                                 /\ req[c].ticket = t /\ req[c].at \in {"idp", "issue"}

\* A ticket is out while its state or code would still be honoured, or it is
\* carried.
Out(t) ==
    \/ Carried(t)
    \/ t \in DOMAIN pending /\ now - pending[t].created <= PendingTTL
    \/ t \in DOMAIN handoff /\ now - handoff[t].created <= HandoffTTL

Phase == [t \in Ticket |-> IF t \notin started THEN "unused"
                           ELSE IF opened[t] > 0 THEN "redeemed"
                           ELSE IF Out(t) THEN "out" ELSE "void"]

OneUse == INSTANCE Tickets WITH phase <- Phase, opened <- opened

\* A sign-in through the provider opens at most one session, and none once it
\* expired, was refused or was lost in a restart, although callbacks and
\* exchanges are sent twice and race (OIDC.Callback, OIDC.Exchange).
ImplementsTickets == OneUse!Spec

\* A session opened with a password was opened with the one the room still
\* has: two set-ups cannot both win, and replacing the password signs every
\* device out (CreateOwner, ReplaceOwner, Bootstrap).
OldPasswordOut == \A t \in Token : session[t].st = "live" => session[t].under \in {"idp", owner}

\* A device that was signed out stays so, also when one of its requests was
\* already past the check and records its use afterwards (TouchSession).
SignedOutStaysOut == [][\A t \in Token : session[t].st = "gone" => session'[t].st = "gone"]_vars

\* The attempts the addresses have spent since the window of all of them began
\* were all counted in it, so no order of windows rolling and budgets given
\* back lets more attempts through than the total (Allow, Reset).
SpentSince == {a \in DOMAIN keys : keys[a].start >= all.start}

Attempts == UNION {{a} \X (1 .. keys[a].count) : a \in SpentSince}

BudgetsAgree == Cardinality(Attempts) <= all.count /\ all.count <= Total
=============================================================================

---------------------------- MODULE SignInProofs ----------------------------
(***************************************************************************)
(* What signing in keeps for any number of requests, sessions, tickets and *)
(* addresses.  The password argument rests on what a request has proved by *)
(* each of its steps (Vouched), the ticket argument on a ticket being in   *)
(* one place at a time (TicketOnce).                                       *)
(***************************************************************************)
EXTENDS SignIn, FiniteSetTheorems, TLAPS

-----------------------------------------------------------------------------
(* The inductive invariant.                                                *)

SetupRequest == [op : {"setup"}, at : {"code", "create", "close", "issue"}, under : Password,
                 ticket : {None}, from : Address]

LoginRequest == [op : {"login"}, at : {"read", "verify", "issue"}, under : Password,
                 hash : Password \cup {None}, ticket : {None}, from : Address]

StartRequest == [op : {"start"}, at : {"url"}, ticket : Ticket]

CallbackRequest == [op : {"callback"}, at : {"state", "idp", "issue"}, ticket : Ticket,
                    app : BOOLEAN, under : {"idp"}, from : {None}]

ExchangeRequest == [op : {"exchange"}, at : {"take", "issue"}, under : {"idp"},
                    ticket : Ticket, from : Address]

VisitRequest == [op : {"visit"}, token : Token, target : Token \cup {None}, since : Nat,
                 at : {"touch", "serve"}]

Requests == {Idle} \cup SetupRequest \cup LoginRequest \cup StartRequest
              \cup CallbackRequest \cup ExchangeRequest \cup VisitRequest

Sessions == [st : {"unused", "live", "gone"}, seen : Nat, expires : Nat,
             under : Password \cup {None, "idp"}]

\* The process memory of the provider's sign-ins.
Maps ==
    /\ \A t \in DOMAIN pending : /\ pending[t] \in [app : BOOLEAN, created : Nat]
                                 /\ pending[t].created <= now
    /\ \A t \in DOMAIN handoff : /\ handoff[t] \in [created : Nat]
                                 /\ handoff[t].created <= now
    /\ DOMAIN pending \cup DOMAIN handoff \subseteq started
    /\ started \subseteq Ticket
    /\ IsFiniteSet(DOMAIN pending)
    /\ Cardinality(DOMAIN pending) <= MaxPending

Fields ==
    /\ now \in 0 .. MaxTime
    /\ password \in BOOLEAN
    /\ setupOpen \in BOOLEAN
    /\ setupOpen => password
    /\ owner \in (Password \ Weak) \cup {None}
    /\ session \in [Token -> Sessions]
    /\ opened \in [Ticket -> Nat]
    /\ DOMAIN keys \subseteq Address
    /\ req \in [Client -> Requests]

\* A live session slid to its last use, and was opened through the provider or
\* with the password there is.
SessionOK(s) ==
    /\ s.seen <= now
    /\ s.st = "live" => /\ s.expires = s.seen + SessionTTL
                        /\ s.under \in Password \cup {"idp"}
                        /\ s.under \in {"idp", owner}

\* Tokens are given out in order.
InOrder == \E n \in 0 .. MaxTokens : \A t \in Token : session[t].st # "unused" <=> t <= n

SessionsOK == InOrder /\ \A t \in Token : SessionOK(session[t])

\* What a request has proved by the step it is at.
Vouched(r) ==
    /\ r.op = "setup" /\ r.at = "create" => r.under \notin Weak
    /\ r.op = "setup" /\ r.at \in {"close", "issue"} => r.under = owner
    /\ r.op = "login" /\ r.at = "verify" => r.hash = owner
    /\ r.op = "login" /\ r.at \in {"verify", "issue"} => owner # None
    /\ r.op = "login" /\ r.at = "issue" => r.under = owner
    /\ r.op = "visit" => /\ r.since <= now
                         /\ session[r.token].st # "unused"
                         /\ r.target # None => session[r.target].st # "unused"
    /\ r.op \in {"start", "callback", "exchange"} => r.ticket \in started

RequestsOK == \A c \in Client : Vouched(req[c])

\* Request r has taken ticket t and is on its way with it.
Holds(r, t) == r.op \in {"callback", "exchange"} /\ r.ticket = t /\ r.at \in {"idp", "issue"}

\* A ticket is at the provider, a code of the app, with one request or redeemed.
TicketOnce ==
    \A t \in Ticket :
        /\ t \in DOMAIN pending => t \notin DOMAIN handoff
        /\ t \in DOMAIN pending \cup DOMAIN handoff =>
             opened[t] = 0 /\ \A c \in Client : ~Holds(req[c], t)
        /\ \A c \in Client : Holds(req[c], t) =>
             opened[t] = 0 /\ \A d \in Client : Holds(req[d], t) => d = c
        /\ opened[t] # 0 => t \in started

Inv == Fields /\ Maps /\ SessionsOK /\ RequestsOK /\ TicketOnce

-----------------------------------------------------------------------------
(* Requests.                                                               *)

\* A request's kind, by its operation.
LEMMA RequestKind ==
    ASSUME NEW r \in Requests
    PROVE  /\ r.op = "none" <=> r = Idle
           /\ r.op = "setup" <=> r \in SetupRequest
           /\ r.op = "login" <=> r \in LoginRequest
           /\ r.op = "start" <=> r \in StartRequest
           /\ r.op = "callback" <=> r \in CallbackRequest
           /\ r.op = "exchange" <=> r \in ExchangeRequest
           /\ r.op = "visit" <=> r \in VisitRequest
           /\ r.op \in {"none", "setup", "login", "start", "callback", "exchange", "visit"}
  BY DEF Requests, Idle, SetupRequest, LoginRequest, StartRequest, CallbackRequest,
         ExchangeRequest, VisitRequest

\* And by the step it is at.
LEMMA RequestAt ==
    ASSUME NEW r \in Requests, r # Idle
    PROVE  /\ r.at = "issue" => r.op \in {"setup", "login", "callback", "exchange"}
           /\ r.at \in {"code", "create", "close"} => r.op = "setup"
           /\ r.at \in {"read", "verify"} => r.op = "login"
           /\ r.at = "url" => r.op = "start"
           /\ r.at \in {"state", "idp"} => r.op = "callback"
           /\ r.at = "take" => r.op = "exchange"
           /\ r.at \in {"touch", "serve"} => r.op = "visit"
  BY DEF Requests, SetupRequest, LoginRequest, StartRequest, CallbackRequest,
         ExchangeRequest, VisitRequest

\* The steps a request may go on to, which change nothing else it carries.
LEMMA SetupMoves ==
    ASSUME NEW r \in SetupRequest, NEW s \in {"code", "create", "close", "issue"},
           NEW q, q = [r EXCEPT !.at = s]
    PROVE  q \in SetupRequest /\ q.at = s /\ q.under = r.under
  BY DEF SetupRequest

LEMMA LoginMoves ==
    ASSUME NEW r \in LoginRequest, NEW s \in {"read", "verify", "issue"},
           NEW q, q = [r EXCEPT !.at = s]
    PROVE  q \in LoginRequest /\ q.at = s /\ q.under = r.under /\ q.hash = r.hash
  BY DEF LoginRequest

LEMMA CallbackMoves ==
    ASSUME NEW r \in CallbackRequest, NEW s \in {"state", "idp", "issue"},
           NEW q, q = [r EXCEPT !.at = s]
    PROVE  q \in CallbackRequest /\ q.at = s /\ q.ticket = r.ticket
  BY DEF CallbackRequest

LEMMA ExchangeMoves ==
    ASSUME NEW r \in ExchangeRequest, NEW s \in {"take", "issue"}, NEW q, q = [r EXCEPT !.at = s]
    PROVE  q \in ExchangeRequest /\ q.at = s /\ q.ticket = r.ticket
  BY DEF ExchangeRequest

LEMMA VisitMoves ==
    ASSUME NEW r \in VisitRequest, NEW q, q = [r EXCEPT !.at = "serve"]
    PROVE  q \in VisitRequest /\ q.token = r.token /\ q.target = r.target /\ q.since = r.since
  BY DEF VisitRequest

\* An idle client has proved nothing and holds nothing.
LEMMA IdleVouched ==
    /\ Idle \in Requests /\ Vouched(Idle) /\ Vouched(Idle)'
    /\ \A t : ~Holds(Idle, t)
  BY DEF Requests, Idle, Vouched, Holds

-----------------------------------------------------------------------------
(* What a step leaves as good as it was.                                   *)

\* The clock does not go back, the owner stays, no state is undrawn and no
\* token unused again.
Grows ==
    /\ now' \in 0 .. MaxTime /\ now' >= now
    /\ owner' = owner
    /\ started \subseteq started'
    /\ \A t \in Token : session[t].st # "unused" => session'[t].st # "unused"

LEMMA VouchedStays ==
    ASSUME Fields, Grows, NEW r \in Requests, Vouched(r)
    PROVE  Vouched(r)'
  <1>0. now \in Int /\ now' \in Int /\ now' >= now
    BY SignInAssumption DEF Fields, Grows
  <1>1. CASE r.op = "visit"
    <2>1. r \in VisitRequest
      BY <1>1, RequestKind
    <2>2. r.token \in Token /\ r.since \in Nat /\ r.target \in Token \cup {None}
      BY <2>1 DEF VisitRequest
    <2>3. /\ r.since <= now'
          /\ session'[r.token].st # "unused"
          /\ r.target # None => session'[r.target].st # "unused"
      BY <1>0, <1>1, <2>2 DEF Vouched, Grows
    <2> QED BY <1>1, <2>3 DEF Vouched
  <1>2. CASE r.op # "visit"
    BY <1>2 DEF Vouched, Grows
  <1> QED BY <1>1, <1>2

\* A client's request becomes r.
LEMMA RequestTurns ==
    ASSUME Fields, RequestsOK, Grows, NEW c \in Client, NEW r \in Requests, Vouched(r)',
           req' = [req EXCEPT ![c] = r]
    PROVE  req' \in [Client -> Requests] /\ RequestsOK'
  <1>1. req' \in [Client -> Requests] /\ req'[c] = r /\ \A d \in Client \ {c} : req'[d] = req[d]
    BY DEF Fields
  <1>2. \A d \in Client \ {c} : Vouched(req[d])'
    <2> TAKE d \in Client \ {c}
    <2>1. PICK q \in Requests : q = req[d] /\ Vouched(q)
      BY DEF Fields, RequestsOK
    <2>2. Vouched(q)' /\ req'[d] = q
      BY <1>1, <2>1, VouchedStays
    <2> QED BY <2>2 DEF Vouched
  <1>3. Vouched(req[c])'
    BY <1>1 DEF Vouched
  <1> QED BY <1>1, <1>2, <1>3 DEF RequestsOK

\* No state or code is added, no ticket redeemed, and no request takes one.
Fewer ==
    /\ \A t \in DOMAIN pending' : t \in DOMAIN pending /\ pending'[t] = pending[t]
    /\ \A t \in DOMAIN handoff' : t \in DOMAIN handoff /\ handoff'[t] = handoff[t]
    /\ \A c \in Client, t \in Ticket : Holds(req'[c], t) => Holds(req[c], t)
    /\ UNCHANGED <<started, opened>>
    /\ now' \in 0 .. MaxTime /\ now' >= now

LEMMA FewerTickets ==
    ASSUME Fields, Maps, TicketOnce, Fewer
    PROVE  Maps' /\ TicketOnce'
  <1>0. now \in Int /\ now' \in Int /\ now' >= now /\ MaxPending \in Int
    BY SignInAssumption DEF Fields, Fewer
  <1>1. IsFiniteSet(DOMAIN pending)' /\ (Cardinality(DOMAIN pending) <= MaxPending)'
    <2>1. DOMAIN pending' \in SUBSET DOMAIN pending
      BY DEF Fewer
    <2>2. IsFiniteSet(DOMAIN pending') /\ Cardinality(DOMAIN pending') <= Cardinality(DOMAIN pending)
      BY <2>1, FS_Subset DEF Maps
    <2>3. Cardinality(DOMAIN pending) \in Nat /\ Cardinality(DOMAIN pending') \in Nat
      BY <2>2, FS_CardinalityType DEF Maps
    <2> QED BY <1>0, <2>2, <2>3 DEF Maps
  <1>2. \A t \in DOMAIN pending' : pending'[t] \in [app : BOOLEAN, created : Nat]
                                     /\ pending'[t].created <= now'
    BY <1>0 DEF Fewer, Maps
  <1>3. \A t \in DOMAIN handoff' : handoff'[t] \in [created : Nat] /\ handoff'[t].created <= now'
    BY <1>0 DEF Fewer, Maps
  <1>4. Maps'
    BY <1>1, <1>2, <1>3 DEF Fewer, Maps
  <1>5. TicketOnce'
    BY DEF Fewer, TicketOnce, Holds
  <1> QED BY <1>4, <1>5

\* Sessions that are as they were, or read later.
LEMMA SameSessions ==
    ASSUME Fields, SessionsOK, Grows, session' = session
    PROVE  SessionsOK'
  <1>0. now \in Int /\ now' \in Int /\ now' >= now
    BY SignInAssumption DEF Fields, Grows
  <1>1. \A t \in Token : session[t].seen \in Nat
    BY DEF Fields, Sessions
  <1> QED BY <1>0, <1>1 DEF SessionsOK, InOrder, SessionOK, Grows

\* A step of client c that leaves the provider's memory alone.
LEMMA Turn ==
    ASSUME Inv, Grows, NEW c \in Client, NEW r \in Requests, Vouched(r)',
           \A t \in Ticket : Holds(r, t) => Holds(req[c], t),
           req' = [req EXCEPT ![c] = r],
           session' \in [Token -> Sessions], SessionsOK',
           DOMAIN keys' \subseteq Address, setupOpen' \in BOOLEAN, setupOpen' => setupOpen,
           UNCHANGED <<password, oidc, opened>>
    PROVE  Inv' /\ Fewer
  <1>1. req' \in [Client -> Requests] /\ RequestsOK'
    BY RequestTurns DEF Inv
  <1>2. \A d \in Client, t \in Ticket : Holds(req'[d], t) => Holds(req[d], t)
    BY DEF Inv, Fields, Holds
  <1>3. Fewer
    BY <1>2 DEF Fewer, oidc, Grows
  <1>4. Maps' /\ TicketOnce'
    BY <1>3, FewerTickets DEF Inv
  <1>5. Fields'
    BY <1>1 DEF Inv, Fields, Grows, oidc
  <1> QED BY <1>1, <1>3, <1>4, <1>5 DEF Inv

\* One that changes nothing but the request and its budget.
LEMMA PlainTurn ==
    ASSUME Inv, NEW c \in Client, NEW r \in Requests, Vouched(r),
           \A t \in Ticket : Holds(r, t) => Holds(req[c], t),
           req' = [req EXCEPT ![c] = r], DOMAIN keys' \subseteq Address,
           UNCHANGED <<now, password, rows, setupOpen, oidc>>
    PROVE  Inv' /\ Fewer
  <1>1. Grows
    BY SignInAssumption DEF Grows, rows, oidc, Inv, Fields
  <1>2. Vouched(r)' /\ SessionsOK'
    BY <1>1, VouchedStays, SameSessions DEF Inv, rows
  <1> QED BY <1>1, <1>2, Turn DEF Inv, Fields, rows

-----------------------------------------------------------------------------
(* Requests that arrive.                                                   *)

LEMMA PostInv ==
    ASSUME Inv, NEW c \in Client, NEW a \in Address, NEW r \in Requests, Vouched(r),
           \A t \in Ticket : ~Holds(r, t), Post(c, a, r)
    PROVE  Inv' /\ Fewer
  <1>1. DOMAIN keys' \subseteq Address
    <2>1. DOMAIN Tracked \subseteq DOMAIN keys
      BY DEF Tracked, Restrict
    <2>2. DOMAIN keys' = DOMAIN Tracked \cup {a}
      BY DEF Post, Allow, With
    <2> QED BY <2>1, <2>2 DEF Inv, Fields
  <1>2. CASE Allowed(a)
    BY <1>1, <1>2, PlainTurn DEF Post
  <1>3. CASE ~Allowed(a)
    BY <1>1, <1>3, IdleVouched, PlainTurn DEF Post
  <1> QED BY <1>2, <1>3

LEMMA PostsInv ==
    ASSUME Inv, NEW c \in Client, NEW a \in Address,
           \/ \E p \in Password : Setup(c, a, p) \/ Login(c, a, p)
           \/ \E t \in Ticket : Exchange(c, a, t)
    PROVE  Inv' /\ Fewer
  <1>1. ASSUME NEW p \in Password, Setup(c, a, p) PROVE Inv' /\ Fewer
    <2> DEFINE r == [op |-> "setup", at |-> "code", under |-> p, ticket |-> None, from |-> a]
    <2>1. r \in Requests /\ Vouched(r) /\ \A t \in Ticket : ~Holds(r, t)
      BY DEF Requests, SetupRequest, Vouched, Holds
    <2> QED BY <1>1, <2>1, PostInv DEF Setup
  <1>2. ASSUME NEW p \in Password, Login(c, a, p) PROVE Inv' /\ Fewer
    <2> DEFINE r == [op |-> "login", at |-> "read", under |-> p, hash |-> None,
                     ticket |-> None, from |-> a]
    <2>1. r \in Requests /\ Vouched(r) /\ \A t \in Ticket : ~Holds(r, t)
      BY DEF Requests, LoginRequest, Vouched, Holds
    <2> QED BY <1>2, <2>1, PostInv DEF Login
  <1>3. ASSUME NEW t \in Ticket, Exchange(c, a, t) PROVE Inv' /\ Fewer
    <2> DEFINE r == [op |-> "exchange", at |-> "take", under |-> "idp", ticket |-> t, from |-> a]
    <2>1. r \in Requests /\ Vouched(r) /\ \A s \in Ticket : ~Holds(r, s)
      BY <1>3 DEF Requests, ExchangeRequest, Vouched, Holds, Exchange
    <2> QED BY <1>3, <2>1, PostInv DEF Exchange
  <1> QED BY <1>1, <1>2, <1>3

LEMMA ArrivesInv ==
    ASSUME Inv, NEW c \in Client,
           \/ \E t \in Ticket : CallbackArrives(c, t)
           \/ \E t \in Token, target \in Token \cup {None} : Visit(c, t, target)
    PROVE  Inv' /\ Fewer
  <1>1. ASSUME NEW t \in Ticket, CallbackArrives(c, t) PROVE Inv' /\ Fewer
    <2> DEFINE r == [op |-> "callback", at |-> "state", ticket |-> t, app |-> FALSE,
                     under |-> "idp", from |-> None]
    <2>1. r \in Requests /\ Vouched(r) /\ \A s \in Ticket : ~Holds(r, s)
      BY <1>1 DEF Requests, CallbackRequest, Vouched, Holds, CallbackArrives
    <2> QED BY <1>1, <2>1, PlainTurn DEF CallbackArrives, budget, Inv, Fields
  <1>2. ASSUME NEW t \in Token, NEW target \in Token \cup {None}, Visit(c, t, target)
        PROVE  Inv' /\ Fewer
    <2> DEFINE at == IF now - session[t].seen >= TouchEvery THEN "touch" ELSE "serve"
               r == [op |-> "visit", token |-> t, target |-> target, since |-> now, at |-> at]
    <2>0. now \in Nat /\ now <= now
      BY SignInAssumption DEF Inv, Fields
    <2>1. at \in {"touch", "serve"} /\ req' = [req EXCEPT ![c] = r]
      BY <1>2 DEF Visit
    <2> HIDE DEF at
    <2>2. r \in Requests
      BY <2>0, <2>1 DEF Requests, VisitRequest
    <2>3. Vouched(r) /\ \A s \in Ticket : ~Holds(r, s)
      BY <1>2, <2>0 DEF Vouched, Holds, Visit
    <2> QED BY <1>2, <2>1, <2>2, <2>3, PlainTurn DEF Visit, budget, Inv, Fields
  <1> QED BY <1>1, <1>2

-----------------------------------------------------------------------------
(* The password and the sessions.                                          *)

LEMMA SetupCheckInv ==
    ASSUME Inv, NEW c \in Client, NEW right \in BOOLEAN, SetupCheck(c, right)
    PROVE  Inv' /\ Fewer
  <1>1. req[c] \in SetupRequest
    BY RequestAt, RequestKind DEF SetupCheck, At, Free, Inv, Fields
  <1> DEFINE r == [req[c] EXCEPT !.at = "create"]
  <1>2. r \in SetupRequest /\ r.at = "create" /\ r.under = req[c].under
    BY <1>1, SetupMoves
  <1> HIDE DEF r
  <1>3. CASE req' = [req EXCEPT ![c] = r] /\ req[c].under \notin Weak
    <2>1. r \in Requests /\ Vouched(r) /\ \A t \in Ticket : ~Holds(r, t)
      BY <1>2, <1>3 DEF Requests, SetupRequest, Vouched, Holds
    <2> QED BY <1>3, <2>1, PlainTurn DEF SetupCheck, budget, Inv, Fields
  <1>4. CASE req' = [req EXCEPT ![c] = Idle]
    BY <1>4, IdleVouched, PlainTurn DEF SetupCheck, budget, Inv, Fields
  <1> QED BY <1>3, <1>4 DEF SetupCheck, GoTo, End, r

LEMMA SetupCloseInv ==
    ASSUME Inv, NEW c \in Client, SetupClose(c)
    PROVE  Inv' /\ Fewer
  <1>1. req[c] \in SetupRequest
    BY RequestAt, RequestKind DEF SetupClose, At, Free, Inv, Fields
  <1>2. PICK r : r = [req[c] EXCEPT !.at = "issue"]
    OBVIOUS
  <1>3. /\ r \in SetupRequest /\ r.at = "issue" /\ r.under = req[c].under
        /\ req' = [req EXCEPT ![c] = r]
    BY <1>1, <1>2, SetupMoves DEF SetupClose, GoTo
  <1>4. req[c].under = owner
    BY <1>1 DEF Inv, RequestsOK, Vouched, SetupClose, At, SetupRequest
  <1>5. r \in Requests /\ Vouched(r) /\ \A t \in Ticket : ~Holds(r, t)
    BY <1>3, <1>4 DEF Requests, SetupRequest, Vouched, Holds
  <1>6. Grows
    BY SignInAssumption DEF Grows, rows, oidc, Inv, Fields, SetupClose
  <1>7. Vouched(r)' /\ SessionsOK'
    BY <1>5, <1>6, VouchedStays, SameSessions DEF Inv, SetupClose, rows
  <1> QED BY <1>3, <1>5, <1>6, <1>7, Turn DEF SetupClose, rows, budget, Inv, Fields

LEMMA LoginReadInv ==
    ASSUME Inv, NEW c \in Client, LoginRead(c)
    PROVE  Inv' /\ Fewer
  <1>1. req[c] \in LoginRequest
    BY RequestAt, RequestKind DEF LoginRead, At, Free, Inv, Fields
  <1>2. CASE password /\ owner # None
    <2> DEFINE q == [req[c] EXCEPT !.at = "verify"]
               r == [q EXCEPT !.hash = owner]
    <2>1. q \in LoginRequest /\ q.at = "verify"
      BY <1>1, LoginMoves
    <2>2. req' = [req EXCEPT ![c] = r]
      BY <1>1, <1>2 DEF LoginRead, LoginRequest, Inv, Fields
    <2> HIDE DEF q
    <2>3. r \in LoginRequest /\ r.at = "verify" /\ r.hash = owner
      BY <2>1 DEF LoginRequest, Inv, Fields
    <2> HIDE DEF r
    <2>4. r \in Requests /\ Vouched(r) /\ \A t \in Ticket : ~Holds(r, t)
      BY <1>2, <2>3 DEF Requests, LoginRequest, Vouched, Holds
    <2> QED BY <2>2, <2>4, PlainTurn DEF LoginRead, budget, Inv, Fields
  <1>3. CASE ~(password /\ owner # None)
    BY <1>3, IdleVouched, PlainTurn DEF LoginRead, End, budget, Inv, Fields
  <1> QED BY <1>2, <1>3

\* Expired rows go, and nothing else changes.
LEMMA UnexpiredOK ==
    ASSUME Fields, NEW t \in Token
    PROVE  /\ Unexpired(session) \in [Token -> Sessions]
           /\ Unexpired(session)[t].st = "unused" <=> session[t].st = "unused"
           /\ Unexpired(session)[t].st = "live" => session[t].st = "live"
           /\ session[t].st = "gone" => Unexpired(session)[t].st = "gone"
           /\ Unexpired(session)[t].seen = session[t].seen
           /\ Unexpired(session)[t].expires = session[t].expires
           /\ Unexpired(session)[t].under = session[t].under
  BY DEF Unexpired, Expired, Fields, Sessions

LEMMA LoginVerifyInv ==
    ASSUME Inv, NEW c \in Client, LoginVerify(c)
    PROVE  Inv' /\ Fewer
  <1>1. req[c] \in LoginRequest
    BY RequestAt, RequestKind DEF LoginVerify, At, Free, Inv, Fields
  <1>2. CASE req[c].under # req[c].hash
    BY <1>2, IdleVouched, PlainTurn DEF LoginVerify, End, rows, budget, Inv, Fields
  <1>3. CASE req[c].under = req[c].hash
    <2>1. PICK r : r = [req[c] EXCEPT !.at = "issue"]
      OBVIOUS
    <2>2. /\ r \in LoginRequest /\ r.at = "issue" /\ r.under = req[c].under
          /\ req' = [req EXCEPT ![c] = r] /\ session' = Unexpired(session)
      BY <1>1, <1>3, <2>1, LoginMoves DEF LoginVerify, GoTo
    <2>3. req[c].under = owner /\ owner # None
      BY <1>1, <1>3 DEF Inv, RequestsOK, Vouched, LoginVerify, At, LoginRequest
    <2>4. r \in Requests /\ Vouched(r) /\ \A t \in Ticket : ~Holds(r, t)
      BY <2>2, <2>3 DEF Requests, LoginRequest, Vouched, Holds
    <2>5. /\ session' \in [Token -> Sessions]
          /\ \A t \in Token : /\ session'[t].st = "unused" <=> session[t].st = "unused"
                              /\ session'[t].st = "live" => session[t].st = "live"
                              /\ session'[t].seen = session[t].seen
                              /\ session'[t].expires = session[t].expires
                              /\ session'[t].under = session[t].under
      <3>1. session' \in [Token -> Sessions]
        BY <2>2 DEF Unexpired, Expired, Inv, Fields, Sessions
      <3> QED BY <2>2, <3>1, UnexpiredOK DEF Inv
    <2>6. Grows
      BY <2>5, SignInAssumption DEF Grows, rows, oidc, Inv, Fields, LoginVerify
    <2>7. SessionsOK'
      BY <2>5 DEF Inv, SessionsOK, InOrder, SessionOK, LoginVerify
    <2>8. Vouched(r)'
      BY <2>4, <2>6, VouchedStays DEF Inv
    <2> QED BY <2>2, <2>4, <2>5, <2>6, <2>7, <2>8, Turn DEF LoginVerify, budget, Inv, Fields
  <1> QED BY <1>2, <1>3

LEMMA TouchInv ==
    ASSUME Inv, NEW c \in Client, Touch(c)
    PROVE  Inv' /\ Fewer
  <1>1. req[c] \in VisitRequest
    BY RequestAt, RequestKind DEF Touch, At, Free, Inv, Fields
  <1>2. PICK r : r = [req[c] EXCEPT !.at = "serve"]
    OBVIOUS
  <1>3. /\ r \in VisitRequest /\ r.token = req[c].token /\ r.target = req[c].target
        /\ r.since = req[c].since /\ req' = [req EXCEPT ![c] = r]
    BY <1>1, <1>2, VisitMoves DEF Touch, GoTo
  <1>4. Vouched(req[c]) /\ req[c].op = "visit" /\ r.op = "visit"
    BY <1>1, <1>3 DEF Inv, RequestsOK, VisitRequest
  <1>5. r \in Requests /\ Vouched(r) /\ \A t \in Ticket : ~Holds(r, t)
    BY <1>3, <1>4 DEF Requests, Vouched, Holds
  <1> DEFINE u == r.token
             s == session[u]
             n == Touched(s, r.since)
  <1>6. u \in Token /\ r.since \in Nat /\ r.since <= now /\ s \in Sessions /\ SessionOK(s)
    BY <1>3, <1>5, <1>4 DEF VisitRequest, Vouched, Inv, Fields, SessionsOK
  <1>7. /\ n \in Sessions /\ SessionOK(n) /\ n.st = s.st
    <2>1. CASE s.st = "live"
      <3> DEFINE e == [s EXCEPT !.seen = r.since]
      <3>1. e \in Sessions /\ e.seen = r.since /\ e.st = s.st /\ e.under = s.under
        BY <1>6 DEF Sessions
      <3>2. n = [e EXCEPT !.expires = r.since + SessionTTL]
        BY <2>1, <1>6 DEF Touched, Sessions
      <3>3. r.since + SessionTTL \in Nat
        BY <1>6, SignInAssumption
      <3> HIDE DEF e
      <3>4. /\ n \in Sessions /\ n.seen = r.since /\ n.st = s.st /\ n.under = s.under
            /\ n.expires = r.since + SessionTTL
        BY <3>1, <3>2, <3>3 DEF Sessions
      <3> QED BY <1>6, <2>1, <3>4 DEF SessionOK
    <2>2. CASE s.st # "live"
      BY <1>6, <2>2 DEF Touched
    <2> QED BY <2>1, <2>2
  <1>8. session' = [session EXCEPT ![u] = n]
    BY <1>3 DEF Touch
  <1> HIDE DEF n
  <1>9. /\ session' \in [Token -> Sessions] /\ session'[u] = n
        /\ \A t \in Token \ {u} : session'[t] = session[t]
    BY <1>6, <1>7, <1>8 DEF Inv, Fields
  <1>10. Grows
    BY <1>6, <1>7, <1>9, SignInAssumption DEF Grows, oidc, Inv, Fields, Touch
  <1>11. SessionsOK'
    <2>1. UNCHANGED <<now, owner>>
      BY DEF Touch
    <2>2. \A t \in Token : SessionOK(session[t])'
      BY <1>6, <1>7, <1>9, <2>1 DEF Inv, SessionsOK, SessionOK
    <2>3. InOrder'
      BY <1>6, <1>7, <1>9 DEF Inv, SessionsOK, InOrder
    <2> QED BY <2>2, <2>3 DEF SessionsOK
  <1>12. Vouched(r)'
    BY <1>5, <1>10, VouchedStays DEF Inv
  <1> QED BY <1>3, <1>5, <1>9, <1>10, <1>11, <1>12, Turn DEF Touch, budget, Inv, Fields

LEMMA TouchFailsInv ==
    ASSUME Inv, NEW c \in Client, TouchFails(c)
    PROVE  Inv' /\ Fewer
  <1>1. req[c] \in VisitRequest /\ Vouched(req[c])
    BY RequestAt, RequestKind DEF TouchFails, At, Free, Inv, Fields, RequestsOK
  <1>2. PICK r : r = [req[c] EXCEPT !.at = "serve"]
    OBVIOUS
  <1>3. /\ r \in VisitRequest /\ r.token = req[c].token /\ r.target = req[c].target
        /\ r.since = req[c].since /\ req' = [req EXCEPT ![c] = r]
    BY <1>1, <1>2, VisitMoves DEF TouchFails, GoTo
  <1>4. r.op = "visit" /\ req[c].op = "visit"
    BY <1>1, <1>3 DEF VisitRequest
  <1>5. r \in Requests /\ Vouched(r) /\ \A t \in Ticket : ~Holds(r, t)
    BY <1>1, <1>3, <1>4 DEF Requests, Vouched, Holds
  <1> QED BY <1>3, <1>5, PlainTurn DEF TouchFails, budget, Inv, Fields

LEMMA ServeInv ==
    ASSUME Inv, NEW c \in Client, Serve(c)
    PROVE  Inv' /\ Fewer
  <1>1. req[c] \in VisitRequest /\ Vouched(req[c])
    BY RequestAt, RequestKind DEF Serve, At, Free, Inv, Fields, RequestsOK
  <1>2. CASE req[c].target = None
    BY <1>2, IdleVouched, PlainTurn DEF Serve, End, rows, budget, Inv, Fields
  <1>3. CASE req[c].target # None
    <2> DEFINE u == req[c].target
    <2>1. u \in Token /\ session[u].st # "unused"
      BY <1>1, <1>3 DEF VisitRequest, Vouched
    <2>2. session' = [session EXCEPT ![u].st = "gone"]
      BY <1>3 DEF Serve
    <2>3. /\ session' \in [Token -> Sessions]
          /\ session'[u].st = "gone" /\ session'[u].seen = session[u].seen
          /\ \A t \in Token \ {u} : session'[t] = session[t]
      BY <2>1, <2>2 DEF Inv, Fields, Sessions
    <2>4. Grows
      BY <2>1, <2>3, SignInAssumption DEF Grows, oidc, Inv, Fields, Serve
    <2>5. SessionsOK'
      <3>1. UNCHANGED <<now, owner>>
        BY DEF Serve
      <3>2. \A t \in Token : SessionOK(session[t])'
        BY <2>1, <2>3, <3>1 DEF Inv, SessionsOK, SessionOK
      <3>3. InOrder'
        BY <2>1, <2>3 DEF Inv, SessionsOK, InOrder
      <3> QED BY <3>2, <3>3 DEF SessionsOK
    <2> QED BY <2>3, <2>4, <2>5, IdleVouched, Turn DEF Serve, End, budget, Inv, Fields
  <1> QED BY <1>2, <1>3

LEMMA FailInv ==
    ASSUME Inv, NEW c \in Client, Fail(c)
    PROVE  Inv' /\ Fewer
  BY IdleVouched, PlainTurn DEF Fail, End, budget, Inv, Fields

\* The first owner: no session and no other request was vouched for by one.
LEMMA SetupCreateInv ==
    ASSUME Inv, NEW c \in Client, SetupCreate(c)
    PROVE  Inv' /\ Fewer
  <1>1. req[c] \in SetupRequest /\ Vouched(req[c]) /\ req[c].op = "setup" /\ req[c].at = "create"
    BY RequestAt, RequestKind DEF SetupCreate, At, Free, Inv, Fields, RequestsOK
  <1>2. CASE owner # None
    BY <1>2, IdleVouched, PlainTurn DEF SetupCreate, OwnerFree, End, rows, budget, Inv, Fields
  <1>3. CASE owner = None
    <2>1. PICK r : r = [req[c] EXCEPT !.at = "close"]
      OBVIOUS
    <2>2. /\ r \in SetupRequest /\ r.at = "close" /\ r.under = req[c].under
          /\ req' = [req EXCEPT ![c] = r] /\ owner' = r.under
      BY <1>1, <1>3, <2>1, SetupMoves DEF SetupCreate, GoTo, OwnerFree
    <2>3. r \in Requests /\ r.op = "setup" /\ owner' \in Password \ Weak /\ owner' # None
      BY <1>1, <2>2, SignInAssumption DEF Requests, SetupRequest, Vouched
    <2>4. req' \in [Client -> Requests] /\ req'[c] = r /\ \A d \in Client \ {c} : req'[d] = req[d]
      BY <2>2, <2>3 DEF Inv, Fields
    <2>5. \A d \in Client \ {c} : Vouched(req[d])'
      <3> TAKE d \in Client \ {c}
      <3>1. req[d] \in Requests /\ Vouched(req[d]) /\ req'[d] = req[d]
        BY <2>4 DEF Inv, Fields, RequestsOK
      <3>2. req[d].op = "login" => req[d].at = "read"
        BY <1>3, <3>1, RequestKind DEF Vouched, LoginRequest
      <3>3. req[d].op = "setup" => req[d].at \notin {"close", "issue"}
        BY <1>3, <3>1, RequestKind, SignInAssumption DEF Vouched, SetupRequest
      <3> QED BY <3>1, <3>2, <3>3 DEF Vouched, SetupCreate, oidc
    <2>6. Vouched(req[c])'
      BY <2>2, <2>3, <2>4 DEF Vouched
    <2>7. SessionsOK'
      BY <1>3, SignInAssumption DEF Inv, SessionsOK, SessionOK, InOrder, SetupCreate
    <2>8. Fewer
      BY <2>3, <2>4, SignInAssumption DEF Fewer, Holds, SetupCreate, oidc, Inv, Fields
    <2>9. Maps' /\ TicketOnce'
      BY <2>8, FewerTickets DEF Inv
    <2>10. Fields'
      BY <2>3, <2>4 DEF Inv, Fields, SetupCreate, budget
    <2> QED BY <2>5, <2>6, <2>7, <2>8, <2>9, <2>10 DEF Inv, RequestsOK
  <1> QED BY <1>2, <1>3

\* The token that is opened next is unused.
LEMMA NextToken ==
    ASSUME Fields, InOrder, NEW t \in Token,
           t = 1 + Cardinality({k \in Token : session[k].st # "unused"})
    PROVE  /\ session[t].st = "unused"
           /\ \A k \in Token : session[k].st # "unused" <=> k <= t - 1
  <1>1. PICK n \in 0 .. MaxTokens : \A k \in Token : session[k].st # "unused" <=> k <= n
    BY DEF InOrder
  <1>2. n \in Nat /\ MaxTokens \in Nat
    BY SignInAssumption
  <1>3. {k \in Token : session[k].st # "unused"} = 1 .. n
    BY <1>1, <1>2 DEF Token
  <1>4. Cardinality(1 .. n) = n
    BY <1>2, FS_Interval
  <1>5. t = 1 + n
    BY <1>3, <1>4
  <1>6. t \in Int /\ t - 1 = n /\ ~(t <= n)
    BY <1>2, <1>5
  <1>7. \A k \in Token : session[k].st # "unused" <=> k <= t - 1
    BY <1>1, <1>6
  <1>8. session[t].st = "unused"
    BY <1>1, <1>6
  <1> QED BY <1>7, <1>8

\* The session that c opens on token t.
LEMMA Issued ==
    ASSUME Inv, NEW c \in Client, At(c, "issue"), NEW t \in Token,
           t = 1 + Cardinality({k \in Token : session[k].st # "unused"}),
           session' = [session EXCEPT ![t] =
               [st |-> "live", seen |-> now, expires |-> now + SessionTTL, under |-> req[c].under]],
           UNCHANGED <<now, owner>>
    PROVE  /\ session' \in [Token -> Sessions] /\ SessionsOK'
           /\ session[t].st = "unused" /\ \A k \in Token \ {t} : session'[k] = session[k]
           /\ session'[t].st = "live"
  <1>1. req[c] \in Requests /\ Vouched(req[c]) /\ req[c] # Idle
           /\ req[c].op \in {"setup", "login", "callback", "exchange"} /\ req[c].at = "issue"
    BY RequestAt DEF At, Free, Inv, Fields, RequestsOK
  <1>2. req[c].under \in Password \cup {"idp"} /\ req[c].under \in {"idp", owner}
    BY <1>1, RequestKind DEF Vouched, SetupRequest, LoginRequest, CallbackRequest, ExchangeRequest
  <1> DEFINE s == [st |-> "live", seen |-> now, expires |-> now + SessionTTL, under |-> req[c].under]
  <1>3. now \in Nat /\ SessionTTL \in Nat
    BY SignInAssumption DEF Inv, Fields
  <1>4. s \in Sessions /\ SessionOK(s) /\ s.st = "live"
    BY <1>2, <1>3 DEF Sessions, SessionOK
  <1> HIDE DEF s
  <1>5. /\ session' \in [Token -> Sessions] /\ session'[t] = s
        /\ \A k \in Token \ {t} : session'[k] = session[k]
    BY <1>4 DEF Inv, Fields, s
  <1>6. /\ session[t].st = "unused"
        /\ \A k \in Token : session[k].st # "unused" <=> k <= t - 1
    BY NextToken DEF Inv, SessionsOK
  <1>7. InOrder'
    <2>1. t \in 0 .. MaxTokens /\ t \in Int
      BY SignInAssumption DEF Token
    <2>2. \A k \in Token : session'[k].st # "unused" <=> k <= t
      BY <1>4, <1>5, <1>6, <2>1 DEF Token
    <2> QED BY <2>1, <2>2 DEF InOrder
  <1>8. \A k \in Token : SessionOK(session[k])'
    BY <1>4, <1>5 DEF Inv, SessionsOK, SessionOK
  <1> QED BY <1>4, <1>5, <1>6, <1>7, <1>8 DEF SessionsOK

\* The ticket c took is redeemed.
Redeems(c) ==
    LET t == req[c].ticket IN
    /\ t \in Ticket
    /\ Holds(req[c], t)
    /\ opened' = [opened EXCEPT ![t] = @ + 1]
    /\ req' = [req EXCEPT ![c] = Idle]
    /\ UNCHANGED <<now, oidc>>

LEMMA IssueInv ==
    ASSUME Inv, NEW c \in Client, Issue(c)
    PROVE  Inv' /\ (Fewer \/ Redeems(c))
  <1>1. PICK t \in Token :
           /\ At(c, "issue")
           /\ t = 1 + Cardinality({k \in Token : session[k].st # "unused"})
           /\ session' = [session EXCEPT ![t] =
               [st |-> "live", seen |-> now, expires |-> now + SessionTTL, under |-> req[c].under]]
           /\ opened' = (IF req[c].ticket = None THEN opened
                         ELSE [opened EXCEPT ![req[c].ticket] = @ + 1])
           /\ keys' = (IF req[c].from = None THEN keys ELSE Without(keys, req[c].from))
           /\ End(c)
           /\ UNCHANGED <<now, password, owner, setupOpen, oidc, all>>
    BY DEF Issue
  <1>2. /\ session' \in [Token -> Sessions] /\ SessionsOK'
        /\ session[t].st = "unused" /\ \A k \in Token \ {t} : session'[k] = session[k]
        /\ session'[t].st = "live"
    BY <1>1, Issued
  <1>3. Grows
    BY <1>1, <1>2, SignInAssumption DEF Grows, oidc, Inv, Fields
  <1>4. DOMAIN keys' \subseteq Address
    BY <1>1 DEF Inv, Fields, Without, Restrict
  <1>5. req[c] \in Requests /\ Vouched(req[c]) /\ req[c] # Idle
           /\ req[c].op \in {"setup", "login", "callback", "exchange"} /\ req[c].at = "issue"
    BY <1>1, RequestAt DEF At, Free, Inv, Fields, RequestsOK
  <1>6. CASE req[c].ticket = None
    BY <1>1, <1>2, <1>3, <1>4, <1>6, IdleVouched, Turn DEF End, Inv, Fields
  <1>7. CASE req[c].ticket # None
    <2> DEFINE k == req[c].ticket
    <2>1. k \in Ticket /\ Holds(req[c], k) /\ k \in started
      BY <1>5, <1>7, RequestKind
         DEF SetupRequest, LoginRequest, CallbackRequest, ExchangeRequest, Holds, Vouched
    <2>2. Redeems(c)
      BY <1>1, <1>7, <2>1 DEF Redeems, End
    <2>3. req' \in [Client -> Requests] /\ RequestsOK'
      BY <1>1, <1>3, IdleVouched, RequestTurns DEF Inv, End
    <2>4. \A d \in Client : \A x : Holds(req'[d], x) => Holds(req[d], x) /\ d # c
      BY <1>1, IdleVouched DEF End, Inv, Fields
    <2>5. opened' \in [Ticket -> Nat] /\ opened'[k] # 0 /\ \A x \in Ticket \ {k} : opened'[x] = opened[x]
      BY <1>1, <1>7, <2>1 DEF Inv, Fields
    <2>6. UNCHANGED <<pending, handoff, started>>
      BY <1>1 DEF oidc
    <2>7. TicketOnce'
      <3>1. ASSUME NEW x \in Ticket, x # k
            PROVE  /\ x \in DOMAIN pending' => x \notin DOMAIN handoff'
                   /\ x \in DOMAIN pending' \cup DOMAIN handoff' =>
                        opened'[x] = 0 /\ \A d \in Client : ~Holds(req'[d], x)
                   /\ \A d \in Client : Holds(req'[d], x) =>
                        opened'[x] = 0 /\ \A e \in Client : Holds(req'[e], x) => e = d
                   /\ opened'[x] # 0 => x \in started'
        BY <2>4, <2>5, <2>6, <3>1 DEF Inv, TicketOnce
      <3>2. /\ k \notin DOMAIN pending' \cup DOMAIN handoff' /\ k \in started'
            /\ \A d \in Client : ~Holds(req'[d], k)
        BY <2>1, <2>4, <2>6 DEF Inv, TicketOnce
      <3> QED BY <3>1, <3>2 DEF TicketOnce, Holds
    <2>8. Maps'
      BY <1>1, <2>6 DEF Inv, Maps
    <2>9. Fields'
      BY <1>1, <1>2, <1>4, <2>3, <2>5 DEF Inv, Fields
    <2> QED BY <1>2, <2>2, <2>3, <2>7, <2>8, <2>9 DEF Inv
  <1> QED BY <1>6, <1>7

-----------------------------------------------------------------------------
(* The provider.                                                           *)

LEMMA WithoutMap ==
    ASSUME NEW f, NEW x
    PROVE  /\ DOMAIN Without(f, x) = DOMAIN f \ {x}
           /\ \A y \in DOMAIN f \ {x} : Without(f, x)[y] = f[y]
  BY DEF Without, Restrict

LEMMA YoungMap ==
    ASSUME NEW f, NEW ttl
    PROVE  /\ DOMAIN Young(f, ttl) = {x \in DOMAIN f : now - f[x].created <= ttl}
           /\ \A x \in DOMAIN Young(f, ttl) : x \in DOMAIN f /\ Young(f, ttl)[x] = f[x]
  BY DEF Young, Restrict

LEMMA WithMap ==
    ASSUME NEW f, NEW x, NEW v
    PROVE  /\ DOMAIN With(f, x, v) = DOMAIN f \cup {x}
           /\ With(f, x, v)[x] = v
           /\ \A y \in DOMAIN f \ {x} : With(f, x, v)[y] = f[y]
  BY DEF With

\* A step of c that may empty the provider's memory but adds nothing to it.
LEMMA ShrinkTurn ==
    ASSUME Inv, NEW c \in Client, NEW r \in Requests, Vouched(r),
           \A t \in Ticket : Holds(r, t) => Holds(req[c], t),
           req' = [req EXCEPT ![c] = r],
           \A t \in DOMAIN pending' : t \in DOMAIN pending /\ pending'[t] = pending[t],
           \A t \in DOMAIN handoff' : t \in DOMAIN handoff /\ handoff'[t] = handoff[t],
           UNCHANGED <<now, password, rows, setupOpen, started, budget>>
    PROVE  Inv' /\ Fewer
  <1>1. Grows
    BY SignInAssumption DEF Grows, rows, Inv, Fields
  <1>2. req' \in [Client -> Requests] /\ RequestsOK'
    BY <1>1, VouchedStays, RequestTurns DEF Inv
  <1>3. \A d \in Client, t \in Ticket : Holds(req'[d], t) => Holds(req[d], t)
    BY DEF Inv, Fields, Holds
  <1>4. Fewer
    BY <1>1, <1>3 DEF Fewer, rows, Grows
  <1>5. Maps' /\ TicketOnce'
    BY <1>4, FewerTickets DEF Inv
  <1>6. SessionsOK'
    BY <1>1, SameSessions DEF Inv, rows
  <1>7. Fields'
    BY <1>2 DEF Inv, Fields, rows, budget
  <1> QED BY <1>2, <1>4, <1>5, <1>6, <1>7 DEF Inv

LEMMA StartUrlInv ==
    ASSUME Inv, NEW c \in Client, NEW reached \in BOOLEAN, StartUrl(c, reached)
    PROVE  Inv' /\ Fewer
  <1>1. \A t \in DOMAIN pending' : t \in DOMAIN pending /\ pending'[t] = pending[t]
    <2>1. CASE pending' = pending
      BY <2>1
    <2>2. CASE pending' = Without(pending, req[c].ticket)
      BY <2>2, WithoutMap
    <2> QED BY <2>1, <2>2 DEF StartUrl
  <1>2. /\ req' = [req EXCEPT ![c] = Idle]
        /\ UNCHANGED <<now, password, rows, setupOpen, handoff, started, budget>>
    BY DEF StartUrl, End
  <1> QED BY <1>1, <1>2, IdleVouched, ShrinkTurn

\* Ticket t is drawn: its state is new and everything else is as it was, but
\* for what had expired.
Draws(t) ==
    /\ t \in Ticket /\ t \notin started
    /\ started' = started \cup {t}
    /\ DOMAIN pending' = {x \in DOMAIN pending : now - pending[x].created <= PendingTTL} \cup {t}
    /\ pending'[t] \in [app : BOOLEAN, created : Nat] /\ pending'[t].created = now
    /\ \A x \in DOMAIN pending' \ {t} : pending'[x] = pending[x]
    /\ DOMAIN handoff' = {x \in DOMAIN handoff : now - handoff[x].created <= HandoffTTL}
    /\ \A x \in DOMAIN handoff' : handoff'[x] = handoff[x]
    /\ \A c \in Client, x \in Ticket : Holds(req'[c], x) <=> Holds(req[c], x)
    /\ UNCHANGED <<now, opened>>

LEMMA StartLoginInv ==
    ASSUME Inv, NEW c \in Client, NEW t \in Ticket, NEW app \in BOOLEAN, StartLogin(c, t, app)
    PROVE  Inv' /\ (Fewer \/ Draws(t))
  <1> DEFINE kept == Young(pending, PendingTTL)
             full == Cardinality(DOMAIN kept) >= MaxPending
             r == [op |-> "start", at |-> "url", ticket |-> t]
  <1>0. req[c] = Idle /\ Idle \in Requests /\ t \notin started
    BY IdleVouched DEF StartLogin, Free
  <1>1. \A x \in DOMAIN handoff' : x \in DOMAIN handoff /\ handoff'[x] = handoff[x]
    BY YoungMap DEF StartLogin
  <1>2. CASE full
    <2>1. req' = [req EXCEPT ![c] = Idle]
      BY <1>0, <1>2 DEF StartLogin, Inv, Fields
    <2>2. \A x \in DOMAIN pending' : x \in DOMAIN pending /\ pending'[x] = pending[x]
      BY <1>2, YoungMap DEF StartLogin
    <2>3. UNCHANGED <<now, password, rows, setupOpen, started, budget>>
      BY <1>2 DEF StartLogin
    <2> QED BY <1>1, <2>1, <2>2, <2>3, IdleVouched, ShrinkTurn
  <1>3. CASE ~full
    <2>1. /\ pending' = With(kept, t, [app |-> app, created |-> now])
          /\ handoff' = Young(handoff, HandoffTTL)
          /\ started' = started \cup {t}
          /\ req' = [req EXCEPT ![c] = r]
          /\ UNCHANGED <<now, password, rows, setupOpen, budget>>
      BY <1>3 DEF StartLogin
    <2>2. now \in Nat
      BY SignInAssumption DEF Inv, Fields
    <2>3. \A x : ~Holds(r, x) /\ ~Holds(Idle, x)
      BY IdleVouched DEF Holds
    <2>4. \A d \in Client, x \in Ticket : Holds(req'[d], x) <=> Holds(req[d], x)
      BY <1>0, <2>1, <2>3 DEF Inv, Fields
    <2>5. Draws(t)
      <3>1. /\ DOMAIN kept = {x \in DOMAIN pending : now - pending[x].created <= PendingTTL}
            /\ \A x \in DOMAIN kept : kept[x] = pending[x]
        BY YoungMap
      <3>2. /\ DOMAIN handoff' = {x \in DOMAIN handoff : now - handoff[x].created <= HandoffTTL}
            /\ \A x \in DOMAIN handoff' : handoff'[x] = handoff[x]
        BY <2>1, YoungMap
      <3> HIDE DEF kept
      <3>3. /\ DOMAIN pending' = DOMAIN kept \cup {t}
            /\ pending'[t] = [app |-> app, created |-> now]
            /\ \A x \in DOMAIN kept \ {t} : pending'[x] = kept[x]
        <4> DEFINE v == [app |-> app, created |-> now]
        <4>1. pending' = With(kept, t, v)
          BY <2>1
        <4> HIDE DEF v
        <4>2. /\ DOMAIN pending' = DOMAIN kept \cup {t}
              /\ pending'[t] = v
              /\ \A x \in DOMAIN kept \ {t} : pending'[x] = kept[x]
          BY <4>1 DEF With
        <4> QED BY <4>2 DEF v
      <3>4. DOMAIN pending' = {x \in DOMAIN pending : now - pending[x].created <= PendingTTL} \cup {t}
        BY <3>1, <3>3
      <3>5. \A x \in DOMAIN pending' \ {t} : pending'[x] = pending[x]
        BY <3>1, <3>3
      <3>6. pending'[t] \in [app : BOOLEAN, created : Nat] /\ pending'[t].created = now
        BY <2>2, <3>3
      <3> QED BY <1>0, <2>1, <2>4, <3>2, <3>4, <3>5, <3>6 DEF Draws, rows
    <2>6. Grows
      BY <2>1, SignInAssumption DEF Grows, rows, Inv, Fields
    <2>7. r \in Requests /\ Vouched(r)'
      BY <2>1 DEF Requests, StartRequest, Vouched
    <2>8. req' \in [Client -> Requests] /\ RequestsOK'
      BY <2>1, <2>6, <2>7, RequestTurns DEF Inv
    <2>9. Maps'
      <3>1. DOMAIN pending' = DOMAIN kept \cup {t} /\ DOMAIN kept \in SUBSET DOMAIN pending
        BY <2>1, WithMap, YoungMap
      <3>2. IsFiniteSet(DOMAIN kept) /\ Cardinality(DOMAIN kept) \in Nat
        BY <3>1, FS_Subset, FS_CardinalityType DEF Inv, Maps
      <3>3. IsFiniteSet(DOMAIN pending') /\ Cardinality(DOMAIN pending') <= Cardinality(DOMAIN kept) + 1
        BY <3>1, <3>2, FS_AddElement
      <3>4. Cardinality(DOMAIN pending') <= MaxPending
        <4> HIDE DEF kept
        <4>1. Cardinality(DOMAIN pending') \in Nat
          BY <3>3, FS_CardinalityType
        <4>2. Cardinality(DOMAIN kept) + 1 <= MaxPending
          BY <1>3, <3>2, SignInAssumption
        <4> QED BY <3>2, <3>3, <4>1, <4>2, SignInAssumption
      <3>5. \A x \in DOMAIN pending' : pending'[x] \in [app : BOOLEAN, created : Nat]
                                         /\ pending'[x].created <= now'
        BY <2>2, <2>5 DEF Draws, Inv, Maps
      <3>6. \A x \in DOMAIN handoff' : handoff'[x] \in [created : Nat] /\ handoff'[x].created <= now'
        BY <1>1, <2>1 DEF Inv, Maps
      <3>7. DOMAIN pending' \cup DOMAIN handoff' \subseteq started' /\ started' \subseteq Ticket
        BY <2>5 DEF Draws, Inv, Maps
      <3> QED BY <3>3, <3>4, <3>5, <3>6, <3>7 DEF Maps
    <2>10. TicketOnce'
      <3>1. ASSUME NEW x \in Ticket, x # t
            PROVE  /\ x \in DOMAIN pending' => x \in DOMAIN pending
                   /\ x \in DOMAIN handoff' => x \in DOMAIN handoff
        BY <2>5, <3>1 DEF Draws
      <3>2. /\ t \notin DOMAIN handoff' /\ opened[t] = 0
            /\ \A d \in Client : ~Holds(req[d], t)
        BY <1>0, <1>1 DEF Inv, Maps, TicketOnce, RequestsOK, Vouched, Holds
      <3>3. ASSUME NEW x \in Ticket
            PROVE  /\ x \in DOMAIN pending' => x \notin DOMAIN handoff'
                   /\ x \in DOMAIN pending' \cup DOMAIN handoff' =>
                        opened'[x] = 0 /\ \A d \in Client : ~Holds(req'[d], x)
                   /\ \A d \in Client : Holds(req'[d], x) =>
                        opened'[x] = 0 /\ \A e \in Client : Holds(req'[e], x) => e = d
                   /\ opened'[x] # 0 => x \in started'
        BY <2>1, <2>4, <3>1, <3>2 DEF Inv, TicketOnce, rows
      <3> QED BY <3>3 DEF TicketOnce, Holds
    <2>11. SessionsOK'
      BY <2>1, <2>6, SameSessions DEF Inv, rows
    <2>12. Fields'
      BY <2>1, <2>8 DEF Inv, Fields, rows, budget
    <2> QED BY <2>5, <2>8, <2>9, <2>10, <2>11, <2>12 DEF Inv
  <1> QED BY <1>2, <1>3

\* No ticket is drawn or redeemed; some that were out may be no more.
Voids == /\ \A t \in Ticket : Out(t)' => Out(t)
         /\ UNCHANGED <<started, opened>>

LEMMA FewerVoids ==
    ASSUME Inv, Fewer
    PROVE  Voids
  <1>0. now \in Int /\ now' \in Int /\ now' >= now /\ PendingTTL \in Int /\ HandoffTTL \in Int
    BY SignInAssumption DEF Inv, Fields, Fewer
  <1>1. ASSUME NEW t \in Ticket, Carried(t)' PROVE Carried(t)
    BY <1>1 DEF Fewer, Carried, Holds
  <1>2. ASSUME NEW t \in DOMAIN pending', now' - pending'[t].created <= PendingTTL
        PROVE  t \in DOMAIN pending /\ now - pending[t].created <= PendingTTL
    <2>1. t \in DOMAIN pending /\ pending'[t] = pending[t] /\ pending[t].created \in Int
      BY <1>2 DEF Fewer, Inv, Maps
    <2> QED BY <1>0, <1>2, <2>1
  <1>3. ASSUME NEW t \in DOMAIN handoff', now' - handoff'[t].created <= HandoffTTL
        PROVE  t \in DOMAIN handoff /\ now - handoff[t].created <= HandoffTTL
    <2>1. t \in DOMAIN handoff /\ handoff'[t] = handoff[t] /\ handoff[t].created \in Int
      BY <1>3 DEF Fewer, Inv, Maps
    <2> QED BY <1>0, <1>3, <2>1
  <1> QED BY <1>1, <1>2, <1>3 DEF Voids, Out, Fewer

\* A step of c that moves ticket k and leaves every other where it was.
Moves(c, k) ==
    /\ k \in Ticket
    /\ \A t \in DOMAIN pending' : t # k /\ t \in DOMAIN pending /\ pending'[t] = pending[t]
    /\ \A t \in DOMAIN handoff' \ {k} : t \in DOMAIN handoff /\ handoff'[t] = handoff[t]
    /\ k \in DOMAIN handoff' => handoff'[k] \in [created : Nat] /\ handoff'[k].created = now
    /\ \A d \in Client, t \in Ticket : t # k => (Holds(req'[d], t) => Holds(req[d], t))
    /\ \A d \in Client \ {c} : req'[d] = req[d]
    /\ UNCHANGED <<now, started, opened>>

\* It goes to one place, and was in one that it left.
LEMMA MoveKeeps ==
    ASSUME Inv, NEW c \in Client, NEW k \in Ticket, Moves(c, k), k \in started, opened[k] = 0,
           \A d \in Client \ {c} : ~Holds(req[d], k),
           k \in DOMAIN handoff' => ~Holds(req'[c], k)
    PROVE  Maps' /\ TicketOnce'
  <1>0. now \in Nat /\ MaxPending \in Int
    BY SignInAssumption DEF Inv, Fields
  <1>1. IsFiniteSet(DOMAIN pending') /\ Cardinality(DOMAIN pending') <= MaxPending
    <2>1. DOMAIN pending' \in SUBSET DOMAIN pending
      BY DEF Moves
    <2>2. IsFiniteSet(DOMAIN pending') /\ Cardinality(DOMAIN pending') <= Cardinality(DOMAIN pending)
      BY <2>1, FS_Subset DEF Inv, Maps
    <2>3. Cardinality(DOMAIN pending) \in Nat /\ Cardinality(DOMAIN pending') \in Nat
      BY <2>2, FS_CardinalityType DEF Inv, Maps
    <2> QED BY <1>0, <2>2, <2>3 DEF Inv, Maps
  <1>2. \A t \in DOMAIN pending' : pending'[t] \in [app : BOOLEAN, created : Nat]
                                     /\ pending'[t].created <= now'
    BY DEF Moves, Inv, Maps
  <1>3. \A t \in DOMAIN handoff' : handoff'[t] \in [created : Nat] /\ handoff'[t].created <= now'
    BY <1>0 DEF Moves, Inv, Maps
  <1>4. DOMAIN pending' \cup DOMAIN handoff' \subseteq started' /\ started' \subseteq Ticket
    BY DEF Moves, Inv, Maps
  <1>5. Maps'
    BY <1>1, <1>2, <1>3, <1>4 DEF Maps
  <1>6. ASSUME NEW x \in Ticket, x # k
        PROVE  /\ x \in DOMAIN pending' => x \notin DOMAIN handoff'
               /\ x \in DOMAIN pending' \cup DOMAIN handoff' =>
                    opened'[x] = 0 /\ \A d \in Client : ~Holds(req'[d], x)
               /\ \A d \in Client : Holds(req'[d], x) =>
                    opened'[x] = 0 /\ \A e \in Client : Holds(req'[e], x) => e = d
               /\ opened'[x] # 0 => x \in started'
    BY <1>6 DEF Moves, Inv, TicketOnce
  <1>7. /\ k \notin DOMAIN pending'
        /\ k \in DOMAIN handoff' => opened'[k] = 0 /\ \A d \in Client : ~Holds(req'[d], k)
        /\ \A d \in Client : Holds(req'[d], k) =>
             opened'[k] = 0 /\ \A e \in Client : Holds(req'[e], k) => e = d
        /\ opened'[k] # 0 => k \in started'
    BY DEF Moves
  <1>8. TicketOnce'
    BY <1>6, <1>7 DEF TicketOnce, Holds
  <1> QED BY <1>5, <1>8

\* A ticket that was out and is moved voids none.
LEMMA MoveVoids ==
    ASSUME Inv, NEW c \in Client, NEW k \in Ticket, Moves(c, k), Out(k)
    PROVE  Voids
  <1>1. ASSUME NEW t \in Ticket, t # k, Out(t)' PROVE Out(t)
    <2>1. CASE Carried(t)'
      BY <1>1, <2>1 DEF Moves, Carried, Holds, Out
    <2>2. CASE ~Carried(t)'
      BY <1>1, <2>2 DEF Moves, Out
    <2> QED BY <2>1, <2>2
  <1> QED BY <1>1 DEF Voids, Moves

LEMMA CallbackStateInv ==
    ASSUME Inv, NEW c \in Client, CallbackState(c)
    PROVE  Inv' /\ Voids
  <1> DEFINE k == req[c].ticket
             good == k \in DOMAIN pending /\ now - pending[k].created <= PendingTTL
  <1>1. /\ req[c] \in CallbackRequest /\ Vouched(req[c]) /\ req[c].op = "callback"
        /\ req[c].at = "state" /\ k \in Ticket /\ k \in started
    BY RequestAt, RequestKind DEF CallbackState, At, Free, Inv, Fields, RequestsOK, Vouched,
                                  CallbackRequest
  <1>2. \A t \in DOMAIN pending' : t # k /\ t \in DOMAIN pending /\ pending'[t] = pending[t]
    BY DEF CallbackState, Taken, Without, Restrict
  <1>3. CASE ~good
    <2>1. req' = [req EXCEPT ![c] = Idle]
      BY <1>3 DEF CallbackState
    <2> QED BY <1>2, <2>1, IdleVouched, ShrinkTurn, FewerVoids DEF CallbackState
  <1>4. CASE good
    <2> DEFINE q == [req[c] EXCEPT !.at = "idp"]
    <2>1. q \in CallbackRequest /\ q.at = "idp" /\ q.ticket = k
      BY <1>1, CallbackMoves
    <2>2. PICK r : r = [q EXCEPT !.app = pending[k].app]
      OBVIOUS
    <2>3. req' = [req EXCEPT ![c] = r]
      BY <1>1, <1>4, <2>2 DEF CallbackState, CallbackRequest, Inv, Fields
    <2>4. pending[k].app \in BOOLEAN
      BY <1>4 DEF Inv, Maps
    <2> HIDE DEF q
    <2>5. r \in CallbackRequest /\ r.at = "idp" /\ r.ticket = k
      BY <2>1, <2>2, <2>4 DEF CallbackRequest
    <2>6. r \in Requests /\ Vouched(r) /\ \A t \in Ticket : Holds(r, t) => t = k
      BY <1>1, <2>5 DEF Requests, Vouched, Holds, CallbackRequest
    <2>7. /\ req'[c] = r /\ \A d \in Client \ {c} : req'[d] = req[d]
      BY <2>3 DEF Inv, Fields
    <2>8. k \notin DOMAIN handoff /\ opened[k] = 0 /\ \A d \in Client : ~Holds(req[d], k)
      BY <1>1, <1>4 DEF Inv, TicketOnce
    <2>9. Moves(c, k) /\ k \notin DOMAIN handoff'
      BY <1>1, <1>2, <2>6, <2>7, <2>8 DEF Moves, CallbackState, rows
    <2>10. Maps' /\ TicketOnce'
      BY <1>1, <2>8, <2>9, MoveKeeps
    <2>11. Voids
      BY <1>1, <1>4, <2>9, MoveVoids DEF Out
    <2>12. Grows
      BY SignInAssumption DEF Grows, rows, Inv, Fields, CallbackState
    <2>13. req' \in [Client -> Requests] /\ RequestsOK'
      BY <2>3, <2>6, <2>12, VouchedStays, RequestTurns DEF Inv
    <2>14. SessionsOK'
      BY <2>12, SameSessions DEF Inv, CallbackState, rows
    <2>15. Fields'
      BY <2>13 DEF Inv, Fields, rows, budget, CallbackState
    <2> QED BY <2>10, <2>11, <2>13, <2>14, <2>15 DEF Inv
  <1> QED BY <1>3, <1>4

LEMMA CallbackIdentityInv ==
    ASSUME Inv, NEW c \in Client, NEW allowed \in BOOLEAN, CallbackIdentity(c, allowed)
    PROVE  Inv' /\ Voids
  <1> DEFINE k == req[c].ticket
  <1>1. /\ req[c] \in CallbackRequest /\ Vouched(req[c]) /\ req[c].op = "callback"
        /\ req[c].at = "idp" /\ k \in Ticket /\ k \in started /\ Holds(req[c], k)
    BY RequestAt, RequestKind DEF CallbackIdentity, At, Free, Inv, Fields, RequestsOK, Vouched,
                                  CallbackRequest, Holds
  <1>2. CASE ~allowed
    BY <1>2, IdleVouched, PlainTurn, FewerVoids
       DEF CallbackIdentity, End, oidc, budget, Inv, Fields
  <1>3. CASE allowed /\ ~req[c].app
    <2>1. PICK r : r = [req[c] EXCEPT !.at = "issue"]
      OBVIOUS
    <2>2. /\ r \in CallbackRequest /\ r.at = "issue" /\ r.ticket = k
          /\ req' = [req EXCEPT ![c] = r]
      BY <1>1, <1>3, <2>1, CallbackMoves DEF CallbackIdentity, GoTo
    <2>3. r \in Requests /\ Vouched(r) /\ \A t \in Ticket : Holds(r, t) => Holds(req[c], t)
      BY <1>1, <2>2 DEF Requests, Vouched, Holds, CallbackRequest
    <2> QED BY <1>3, <2>2, <2>3, PlainTurn, FewerVoids DEF CallbackIdentity, oidc, budget, Inv, Fields
  <1>4. CASE allowed /\ req[c].app
    <2>1. /\ pending' = Young(pending, PendingTTL)
          /\ handoff' = With(Young(handoff, HandoffTTL), k, [created |-> now])
          /\ req' = [req EXCEPT ![c] = Idle]
          /\ UNCHANGED <<now, password, rows, setupOpen, started, budget>>
      BY <1>4 DEF CallbackIdentity, End
    <2>2. now \in Nat
      BY SignInAssumption DEF Inv, Fields
    <2>3. /\ k \notin DOMAIN pending /\ opened[k] = 0
          /\ \A d \in Client \ {c} : ~Holds(req[d], k)
      BY <1>1 DEF Inv, TicketOnce
    <2>4. \A t \in DOMAIN pending' : t # k /\ t \in DOMAIN pending /\ pending'[t] = pending[t]
      BY <2>1, <2>3 DEF Young, Restrict
    <2>5. /\ \A t \in DOMAIN handoff' \ {k} : t \in DOMAIN handoff /\ handoff'[t] = handoff[t]
          /\ handoff'[k] = [created |-> now]
      <3> DEFINE young == Young(handoff, HandoffTTL)
                 v == [created |-> now]
      <3>1. \A t \in DOMAIN young : t \in DOMAIN handoff /\ young[t] = handoff[t]
        BY YoungMap
      <3> HIDE DEF young, v
      <3>2. handoff' = With(young, k, v)
        BY <2>1 DEF young, v
      <3>3. /\ DOMAIN handoff' = DOMAIN young \cup {k} /\ handoff'[k] = v
            /\ \A t \in DOMAIN young \ {k} : handoff'[t] = young[t]
        BY <3>2 DEF With
      <3> QED BY <3>1, <3>3 DEF v
    <2>6. /\ req'[c] = Idle /\ \A d \in Client \ {c} : req'[d] = req[d]
      BY <2>1 DEF Inv, Fields
    <2>7. Moves(c, k) /\ ~Holds(req'[c], k)
      BY <1>1, <2>1, <2>2, <2>4, <2>5, <2>6, IdleVouched DEF Moves, rows
    <2>8. Maps' /\ TicketOnce'
      BY <1>1, <2>3, <2>7, MoveKeeps
    <2>9. Voids
      BY <1>1, <2>7, MoveVoids DEF Out, Carried, Holds
    <2>10. Grows
      BY <2>1, SignInAssumption DEF Grows, rows, Inv, Fields
    <2>11. req' \in [Client -> Requests] /\ RequestsOK'
      BY <2>1, <2>10, IdleVouched, RequestTurns DEF Inv
    <2>12. SessionsOK'
      BY <2>1, <2>10, SameSessions DEF Inv, rows
    <2>13. Fields'
      BY <2>1, <2>11 DEF Inv, Fields, rows, budget
    <2> QED BY <2>8, <2>9, <2>11, <2>12, <2>13 DEF Inv
  <1> QED BY <1>2, <1>3, <1>4

LEMMA ExchangeCodeInv ==
    ASSUME Inv, NEW c \in Client, NEW right \in BOOLEAN, ExchangeCode(c, right)
    PROVE  Inv' /\ Voids
  <1> DEFINE k == req[c].ticket
             good == k \in DOMAIN handoff /\ now - handoff[k].created <= HandoffTTL /\ right
  <1>1. /\ req[c] \in ExchangeRequest /\ Vouched(req[c]) /\ req[c].op = "exchange"
        /\ req[c].at = "take" /\ k \in Ticket /\ k \in started
    BY RequestAt, RequestKind DEF ExchangeCode, At, Free, Inv, Fields, RequestsOK, Vouched,
                                  ExchangeRequest
  <1>2. /\ \A t \in DOMAIN handoff' : t # k /\ t \in DOMAIN handoff /\ handoff'[t] = handoff[t]
        /\ UNCHANGED <<now, password, rows, setupOpen, pending, started, budget>>
    BY DEF ExchangeCode, Without, Restrict
  <1>3. CASE ~good
    <2>1. req' = [req EXCEPT ![c] = Idle]
      BY <1>3 DEF ExchangeCode, End
    <2> QED BY <1>2, <2>1, IdleVouched, ShrinkTurn, FewerVoids
  <1>4. CASE good
    <2>1. PICK r : r = [req[c] EXCEPT !.at = "issue"]
      OBVIOUS
    <2>2. /\ r \in ExchangeRequest /\ r.at = "issue" /\ r.ticket = k
          /\ req' = [req EXCEPT ![c] = r]
      BY <1>1, <1>4, <2>1, ExchangeMoves DEF ExchangeCode, GoTo
    <2>3. r \in Requests /\ Vouched(r) /\ \A t \in Ticket : Holds(r, t) => t = k
      BY <1>1, <2>2 DEF Requests, Vouched, Holds, ExchangeRequest
    <2>4. /\ req'[c] = r /\ \A d \in Client \ {c} : req'[d] = req[d]
      BY <2>2 DEF Inv, Fields
    <2>5. k \notin DOMAIN pending /\ opened[k] = 0 /\ \A d \in Client : ~Holds(req[d], k)
      BY <1>1, <1>4 DEF Inv, TicketOnce
    <2>6. Moves(c, k) /\ k \notin DOMAIN handoff'
      BY <1>1, <1>2, <2>3, <2>4, <2>5 DEF Moves, rows
    <2>7. Maps' /\ TicketOnce'
      BY <1>1, <2>5, <2>6, MoveKeeps
    <2>8. Voids
      BY <1>1, <1>4, <2>6, MoveVoids DEF Out
    <2>9. Grows
      BY <1>2, SignInAssumption DEF Grows, rows, Inv, Fields
    <2>10. req' \in [Client -> Requests] /\ RequestsOK'
      BY <2>2, <2>3, <2>9, VouchedStays, RequestTurns DEF Inv
    <2>11. SessionsOK'
      BY <1>2, <2>9, SameSessions DEF Inv, rows
    <2>12. Fields'
      BY <1>2, <2>10 DEF Inv, Fields, rows, budget
    <2> QED BY <2>7, <2>8, <2>10, <2>11, <2>12 DEF Inv
  <1> QED BY <1>3, <1>4

-----------------------------------------------------------------------------
(* Time, restarts and the whole step.                                      *)

LEMMA PassInv ==
    ASSUME Inv, Pass
    PROVE  Inv' /\ Fewer
  <1>1. now \in Nat /\ now' \in 0 .. MaxTime /\ now' >= now
    BY SignInAssumption DEF Pass, Inv, Fields
  <1>2. Grows
    BY <1>1 DEF Grows, Pass, rows, oidc
  <1>3. RequestsOK'
    <2>1. ASSUME NEW c \in Client PROVE Vouched(req[c])'
      <3>1. PICK q \in Requests : q = req[c] /\ Vouched(q)
        BY DEF Inv, Fields, RequestsOK
      <3>2. Vouched(q)' /\ req'[c] = q
        BY <1>2, <3>1, VouchedStays DEF Inv, Pass
      <3> QED BY <3>2 DEF Vouched
    <2> QED BY <2>1 DEF RequestsOK
  <1>4. Fewer
    BY <1>1 DEF Fewer, Pass, oidc, rows
  <1>5. Maps' /\ TicketOnce'
    BY <1>4, FewerTickets DEF Inv
  <1>6. SessionsOK'
    BY <1>2, SameSessions DEF Inv, Pass, rows
  <1>7. Fields'
    BY <1>1 DEF Inv, Fields, Pass, rows, budget
  <1> QED BY <1>3, <1>4, <1>5, <1>6, <1>7 DEF Inv

\* The sessions after a boot: expired ones are gone, and every one if the
\* password was replaced.
LEMMA BootstrapSessions ==
    ASSUME Inv, NEW cfg \in Config, Bootstrap(cfg), now' = now
    PROVE  /\ owner' \in (Password \ Weak) \cup {None}
           /\ session' \in [Token -> Sessions]
           /\ SessionsOK'
           /\ \A t \in Token : session[t].st = "gone" => session'[t].st = "gone"
  <1> DEFINE u == Unexpired(session)
             replaced == cfg.on /\ cfg.env # None /\ owner # None /\ owner # cfg.env
  <1>0. cfg.env \in (Password \ Weak) \cup {None}
    BY SignInAssumption
  <1>1. /\ u \in [Token -> Sessions]
        /\ \A t \in Token : /\ u[t].st = "unused" <=> session[t].st = "unused"
                            /\ u[t].st = "live" => session[t].st = "live"
                            /\ session[t].st = "gone" => u[t].st = "gone"
                            /\ u[t].seen = session[t].seen
                            /\ u[t].expires = session[t].expires
                            /\ u[t].under = session[t].under
    <2>1. u \in [Token -> Sessions]
      BY DEF Unexpired, Expired, Inv, Fields, Sessions
    <2> QED BY <2>1, UnexpiredOK DEF Inv
  <1> HIDE DEF u
  <1>2. /\ session' \in [Token -> Sessions]
        /\ \A t \in Token : /\ session'[t].st = "unused" <=> u[t].st = "unused"
                            /\ session'[t].st = "live" => u[t].st = "live" /\ ~replaced
                            /\ u[t].st = "gone" => session'[t].st = "gone"
                            /\ session'[t].seen = u[t].seen
                            /\ session'[t].expires = u[t].expires
                            /\ session'[t].under = u[t].under
    <2>1. CASE replaced
      <3>1. session' = [t \in Token |-> IF u[t].st = "live" THEN [u[t] EXCEPT !.st = "gone"] ELSE u[t]]
        BY <2>1 DEF Bootstrap, SignOutAll, u
      <3>2. session' \in [Token -> Sessions]
        BY <1>1, <3>1 DEF Sessions
      <3>3. ASSUME NEW t \in Token
            PROVE  /\ session'[t].st = "unused" <=> u[t].st = "unused"
                   /\ session'[t].st # "live"
                   /\ u[t].st = "gone" => session'[t].st = "gone"
                   /\ session'[t].seen = u[t].seen
                   /\ session'[t].expires = u[t].expires
                   /\ session'[t].under = u[t].under
        <4>1. u[t] \in Sessions
          BY <1>1
        <4> QED BY <3>1, <4>1 DEF Sessions
      <3> QED BY <3>2, <3>3
    <2>2. CASE ~replaced
      <3>1. session' = u
        BY <2>2 DEF Bootstrap, u
      <3> QED BY <1>1, <2>2, <3>1
    <2> QED BY <2>1, <2>2
  <1>3. owner' = IF cfg.on /\ cfg.env # None THEN cfg.env ELSE owner
    BY DEF Bootstrap
  <1>4. owner' \in (Password \ Weak) \cup {None}
    BY <1>0, <1>3 DEF Inv, Fields
  <1>5. ASSUME NEW t \in Token PROVE SessionOK(session[t])'
    <2>1. SessionOK(session[t])
      BY DEF Inv, SessionsOK
    <2>2. session'[t].seen <= now'
      BY <1>1, <1>2, <2>1 DEF SessionOK
    <2>3. ASSUME session'[t].st = "live"
          PROVE  /\ session'[t].expires = session'[t].seen + SessionTTL
                 /\ session'[t].under \in Password \cup {"idp"}
                 /\ session'[t].under \in {"idp", owner'}
      <3>1. /\ session[t].st = "live" /\ ~replaced /\ session'[t].seen = session[t].seen
            /\ session'[t].expires = session[t].expires /\ session'[t].under = session[t].under
        BY <1>1, <1>2, <2>3
      <3>2. session[t].under = "idp" \/ (session[t].under = owner /\ owner # None)
        BY <2>1, <3>1, SignInAssumption DEF SessionOK
      <3> QED BY <1>3, <2>1, <3>1, <3>2 DEF SessionOK
    <2> QED BY <2>2, <2>3 DEF SessionOK
  <1>6. InOrder'
    BY <1>1, <1>2 DEF InOrder, Inv, SessionsOK
  <1> QED BY <1>1, <1>2, <1>4, <1>5, <1>6 DEF SessionsOK

LEMMA RestartInv ==
    ASSUME Inv, Restart
    PROVE  Inv' /\ Fewer
  <1>1. PICK cfg \in Config : Bootstrap(cfg)
    BY DEF Restart
  <1>2. UNCHANGED <<now, started, opened>> /\ now \in Nat /\ now \in 0 .. MaxTime
    BY SignInAssumption DEF Restart, Inv, Fields
  <1>3. /\ owner' \in (Password \ Weak) \cup {None}
        /\ session' \in [Token -> Sessions] /\ SessionsOK'
    BY <1>1, <1>2, BootstrapSessions
  <1>4. req' \in [Client -> Requests] /\ \A c \in Client : req'[c] = Idle
    BY IdleVouched DEF Restart
  <1>5. RequestsOK'
    BY <1>4 DEF RequestsOK, Vouched, Idle
  <1>6. DOMAIN pending' = {} /\ DOMAIN handoff' = {} /\ DOMAIN keys' = {}
    BY DEF Restart
  <1>7. Fewer
    BY <1>2, <1>4, <1>6, IdleVouched DEF Fewer
  <1>8. Maps' /\ TicketOnce'
    BY <1>7, FewerTickets DEF Inv
  <1>9. password' \in BOOLEAN /\ setupOpen' \in BOOLEAN /\ (setupOpen' => password')
    BY <1>1, SignInAssumption DEF Bootstrap
  <1>10. Fields'
    BY <1>2, <1>3, <1>4, <1>6, <1>9 DEF Inv, Fields
  <1> QED BY <1>3, <1>5, <1>7, <1>8, <1>10 DEF Inv

LEMMA InitInv == ASSUME Init PROVE Inv
  <1>1. PICK cfg \in Config :
          /\ password = cfg.on
          /\ owner = (IF cfg.on THEN cfg.env ELSE None)
          /\ setupOpen = (cfg.on /\ cfg.env = None)
    BY DEF Init
  <1>2. now = 0 /\ 0 \in 0 .. MaxTime /\ MaxTokens \in Nat /\ MaxPending \in Nat
    BY SignInAssumption DEF Init
  <1>3. /\ session \in [Token -> Sessions]
        /\ \A t \in Token : session[t].st = "unused" /\ session[t].seen = 0
    BY DEF Init, Sessions
  <1>4. req \in [Client -> Requests] /\ \A c \in Client : req[c] = Idle
    BY IdleVouched DEF Init
  <1>5. DOMAIN pending = {} /\ DOMAIN handoff = {} /\ DOMAIN keys = {} /\ started = {}
    BY DEF Init
  <1>6. Fields
    <2>1. /\ password \in BOOLEAN /\ setupOpen \in BOOLEAN /\ (setupOpen => password)
          /\ owner \in (Password \ Weak) \cup {None}
      BY <1>1, SignInAssumption
    <2>2. opened \in [Ticket -> Nat]
      BY DEF Init
    <2> QED BY <1>2, <1>3, <1>4, <1>5, <2>1, <2>2 DEF Fields
  <1>7. Maps
    BY <1>2, <1>5, FS_EmptySet DEF Maps
  <1>8. SessionsOK
    <2>1. InOrder
      <3>1. 0 \in 0 .. MaxTokens /\ \A t \in Token : session[t].st # "unused" <=> t <= 0
        BY <1>2, <1>3 DEF Token
      <3> QED BY <3>1 DEF InOrder
    <2> QED BY <1>2, <1>3, <2>1 DEF SessionsOK, SessionOK
  <1>9. RequestsOK /\ TicketOnce
    <2>1. \A t \in Ticket : opened[t] = 0
      BY DEF Init
    <2> QED BY <1>4, <1>5, <2>1, IdleVouched DEF RequestsOK, TicketOnce
  <1> QED BY <1>6, <1>7, <1>8, <1>9 DEF Inv

\* Every step keeps the invariant, and voids tickets, draws one or redeems one.
LEMMA StepInv ==
    ASSUME Inv, Next
    PROVE  /\ Inv'
           /\ Voids \/ (\E t \in Ticket : Draws(t)) \/ (\E c \in Client : Redeems(c))
  <1>1. ASSUME Inv' /\ Fewer
        PROVE  Inv' /\ Voids
    BY <1>1, FewerVoids
  <1>2. CASE Pass \/ Restart
    BY <1>1, <1>2, PassInv, RestartInv
  <1>3. ASSUME NEW c \in Client, Request(c)
        PROVE  Inv' /\ (Voids \/ \E t \in Ticket : Draws(t))
    BY <1>1, <1>3, PostsInv, ArrivesInv, StartLoginInv DEF Request
  <1>4. ASSUME NEW c \in Client, Step(c)
        PROVE  Inv' /\ (Voids \/ Redeems(c))
    BY <1>1, <1>4, SetupCheckInv, ExchangeCodeInv, SetupCreateInv, SetupCloseInv, LoginReadInv,
       LoginVerifyInv, StartUrlInv, CallbackStateInv, CallbackIdentityInv, IssueInv, TouchInv,
       TouchFailsInv, ServeInv, FailInv DEF Step
  <1> QED BY <1>2, <1>3, <1>4 DEF Next

LEMMA NextInv == ASSUME Inv, [Next]_vars PROVE Inv'
  <1>1. CASE UNCHANGED vars
    BY <1>1 DEF vars, rows, oidc, budget, Inv, Fields, Maps, SessionsOK, InOrder, SessionOK,
                RequestsOK, Vouched, TicketOnce, Holds
  <1> QED BY <1>1, StepInv

-----------------------------------------------------------------------------
(* What follows.                                                           *)

\* The variables of signing in keep to their types.
THEOREM SignInTypeOK == Spec => []TypeOK
  <1>1. Inv => TypeOK
    <2>1. ASSUME Inv PROVE TypeOK
      <3>1. \A t \in Token : /\ session[t].st \in {"unused", "live", "gone"}
                             /\ session[t].seen <= now
                             /\ session[t].st = "live" => session[t].expires = session[t].seen + SessionTTL
        BY <2>1 DEF Inv, Fields, Sessions, SessionsOK, SessionOK
      <3>2. DOMAIN pending \cap DOMAIN handoff = {}
        BY <2>1 DEF Inv, Maps, TicketOnce
      <3>3. \A c \in Client : Free(c) \/ req[c].op \in {"setup", "login", "start", "callback", "exchange", "visit"}
        BY <2>1, RequestKind DEF Inv, Fields, Free
      <3> QED BY <2>1, <3>1, <3>2, <3>3 DEF Inv, Fields, Maps, TypeOK
    <2> QED BY <2>1
  <1> QED BY InitInv, NextInv, <1>1, PTL DEF Spec

\* No session is live under a password the room no longer has, whoever races to
\* set the first one and whatever a boot replaces it with (CreateOwner,
\* ReplaceOwner, Bootstrap).
THEOREM ReplacedPasswordOut == Spec => []OldPasswordOut
  <1>1. Inv => OldPasswordOut
    BY DEF Inv, SessionsOK, SessionOK, OldPasswordOut
  <1> QED BY InitInv, NextInv, <1>1, PTL DEF Spec

\* A device that was signed out stays so, although requests that were past the
\* check record their use after it (TouchSession, an UPDATE that meets no row).
THEOREM RevokedStaysOut == Spec => SignedOutStaysOut
  <1>1. ASSUME Inv, [Next]_vars, NEW t \in Token, session[t].st = "gone"
        PROVE  session'[t].st = "gone"
    <2>1. CASE UNCHANGED session
      BY <1>1, <2>1
    <2>2. CASE Restart
      BY <1>1, <2>2, BootstrapSessions DEF Restart
    <2>3. ASSUME NEW c \in Client, Issue(c) PROVE session'[t].st = "gone"
      <3>1. PICK k \in Token :
               /\ At(c, "issue")
               /\ k = 1 + Cardinality({x \in Token : session[x].st # "unused"})
               /\ session' = [session EXCEPT ![k] =
                   [st |-> "live", seen |-> now, expires |-> now + SessionTTL, under |-> req[c].under]]
               /\ UNCHANGED <<now, owner>>
        BY <2>3 DEF Issue
      <3>2. session[k].st = "unused" /\ \A x \in Token \ {k} : session'[x] = session[x]
        BY <1>1, <3>1, Issued
      <3> QED BY <1>1, <3>2
    <2>4. ASSUME NEW c \in Client, Touch(c) PROVE session'[t].st = "gone"
      BY <1>1, <2>4 DEF Touch, Touched, Inv, Fields
    <2>5. ASSUME NEW c \in Client, Serve(c) PROVE session'[t].st = "gone"
      <3>1. session[t] \in Sessions
        BY <1>1 DEF Inv, Fields
      <3> QED BY <1>1, <2>5, <3>1 DEF Serve, Inv, Fields, Sessions
    <2>6. ASSUME NEW c \in Client, LoginVerify(c) PROVE session'[t].st = "gone"
      BY <1>1, <2>6, UnexpiredOK DEF LoginVerify, Inv
    <2>7. ASSUME NEW c \in Client, Request(c) PROVE UNCHANGED session
      BY <2>7 DEF Request, Setup, Login, Exchange, Post, StartLogin, CallbackArrives, Visit, rows
    <2>8. ASSUME NEW c \in Client, Step(c), ~(Issue(c) \/ Touch(c) \/ Serve(c) \/ LoginVerify(c))
          PROVE  UNCHANGED session
      BY <2>8 DEF Step, SetupCheck, ExchangeCode, SetupCreate, SetupClose, LoginRead, StartUrl,
                  CallbackState, CallbackIdentity, TouchFails, Fail, rows
    <2>9. CASE Pass \/ UNCHANGED vars
      BY <2>1, <2>9 DEF Pass, vars, rows
    <2> QED BY <1>1, <2>1, <2>2, <2>3, <2>4, <2>5, <2>6, <2>7, <2>8, <2>9 DEF Next
  <1>2. Inv /\ [Next]_vars =>
          [\A t \in Token : session[t].st = "gone" => session'[t].st = "gone"]_vars
    BY <1>1
  <1> QED BY InitInv, NextInv, <1>2, PTL DEF Spec, SignedOutStaysOut

-----------------------------------------------------------------------------
(* Tickets.                                                                *)

\* The phase of a ticket, before a step and after it.
LEMMA PhaseIs ==
    ASSUME opened \in [Ticket -> Nat], opened' \in [Ticket -> Nat], NEW t \in Ticket
    PROVE  /\ Phase[t] = IF t \notin started THEN "unused"
                         ELSE IF opened[t] # 0 THEN "redeemed"
                         ELSE IF Out(t) THEN "out" ELSE "void"
           /\ Phase'[t] = IF t \notin started' THEN "unused"
                          ELSE IF opened'[t] # 0 THEN "redeemed"
                          ELSE IF Out(t)' THEN "out" ELSE "void"
  <1>1. /\ opened[t] \in Nat /\ opened'[t] \in Nat
        /\ opened[t] > 0 <=> opened[t] # 0
        /\ opened'[t] > 0 <=> opened'[t] # 0
    OBVIOUS
  <1> QED BY <1>1 DEF Phase

LEMMA TicketStep ==
    ASSUME Inv, [Next]_vars
    PROVE  [OneUse!Next]_(OneUse!vars)
  <1>0. /\ opened \in [Ticket -> Nat] /\ opened' \in [Ticket -> Nat]
        /\ DOMAIN Phase = Ticket /\ DOMAIN Phase' = Ticket
        /\ Phase = [t \in Ticket |-> Phase[t]] /\ Phase' = [t \in Ticket |-> Phase'[t]]
    <2>1. Inv'
      BY NextInv
    <2> QED BY <2>1 DEF Inv, Fields, Phase
  <1>1. CASE Voids
    <2> DEFINE S == {t \in Ticket : Phase[t] = "out" /\ Phase'[t] = "void"}
    <2>1. ASSUME NEW t \in Ticket
          PROVE  Phase'[t] = IF t \in S THEN "void" ELSE Phase[t]
      BY <1>0, <1>1, <2>1, PhaseIs DEF Voids
    <2>2. Phase' = [t \in Ticket |-> IF t \in S THEN "void" ELSE Phase[t]]
      BY <1>0, <2>1
    <2>3. OneUse!Void(S)
      BY <1>1, <2>2 DEF OneUse!Void, Voids
    <2>4. S \in SUBSET Ticket
      OBVIOUS
    <2> HIDE DEF S
    <2> QED BY <2>3, <2>4 DEF OneUse!Next
  <1>2. ASSUME NEW k \in Ticket, Draws(k) PROVE OneUse!Next
    <2>1. opened[k] = 0 /\ opened' = opened
      BY <1>2 DEF Draws, Inv, TicketOnce
    <2>2. Phase[k] = "unused"
      BY <1>0, <1>2, PhaseIs DEF Draws
    <2>3. now \in Int /\ PendingTTL \in Nat /\ Out(k)'
      BY <1>2, SignInAssumption DEF Inv, Fields, Draws, Out
    <2>4. Phase'[k] = "out"
      BY <1>0, <1>2, <2>1, <2>3, PhaseIs DEF Draws
    <2>5. ASSUME NEW t \in Ticket, t # k PROVE Phase'[t] = Phase[t]
      <3>1. Carried(t)' <=> Carried(t)
        BY <1>2 DEF Draws, Carried, Holds
      <3>2. t \in DOMAIN pending' /\ now' - pending'[t].created <= PendingTTL
              <=> t \in DOMAIN pending /\ now - pending[t].created <= PendingTTL
        BY <1>2, <2>5 DEF Draws
      <3>3. t \in DOMAIN handoff' /\ now' - handoff'[t].created <= HandoffTTL
              <=> t \in DOMAIN handoff /\ now - handoff[t].created <= HandoffTTL
        BY <1>2 DEF Draws
      <3>4. Out(t)' <=> Out(t)
        BY <3>1, <3>2, <3>3 DEF Out
      <3>5. t \in started' <=> t \in started
        BY <1>2, <2>5 DEF Draws
      <3> QED BY <1>0, <2>1, <3>4, <3>5, PhaseIs
    <2>6. Phase' = [Phase EXCEPT ![k] = "out"]
      BY <1>0, <2>4, <2>5
    <2> QED BY <2>1, <2>2, <2>6 DEF OneUse!Next, OneUse!HandOut
  <1>3. ASSUME NEW c \in Client, Redeems(c) PROVE OneUse!Next
    <2>1. PICK k \in Ticket : k = req[c].ticket
      BY <1>3 DEF Redeems
    <2>2. /\ Holds(req[c], k) /\ opened' = [opened EXCEPT ![k] = @ + 1]
          /\ req' = [req EXCEPT ![c] = Idle]
          /\ UNCHANGED <<now, pending, handoff, started>>
      BY <1>3, <2>1 DEF Redeems, oidc
    <2>3. opened[k] = 0 /\ k \in started /\ Out(k)
      BY <2>2 DEF Inv, TicketOnce, RequestsOK, Vouched, Holds, Out, Carried
    <2>4. Phase[k] = "out"
      BY <1>0, <2>3, PhaseIs
    <2>5. opened'[k] = 1 /\ Phase'[k] = "redeemed"
      BY <1>0, <2>2, <2>3, PhaseIs
    <2>6. ASSUME NEW t \in Ticket, t # k PROVE Phase'[t] = Phase[t]
      <3>1. \A d \in Client : Holds(req'[d], t) <=> Holds(req[d], t)
        <4>1. ~Holds(req[c], t) /\ ~Holds(Idle, t)
          BY <2>2, <2>6, IdleVouched DEF Holds
        <4>2. req'[c] = Idle /\ \A d \in Client \ {c} : req'[d] = req[d]
          BY <2>2 DEF Inv, Fields
        <4> QED BY <4>1, <4>2
      <3>2. Carried(t)' <=> Carried(t)
        BY <3>1 DEF Carried, Holds
      <3>3. Out(t)' <=> Out(t)
        BY <2>2, <3>2 DEF Out
      <3>4. opened'[t] = opened[t]
        BY <1>0, <2>2, <2>6
      <3> QED BY <1>0, <2>2, <3>3, <3>4, PhaseIs
    <2>7. Phase' = [Phase EXCEPT ![k] = "redeemed"]
      BY <1>0, <2>5, <2>6
    <2> QED BY <2>2, <2>4, <2>7 DEF OneUse!Next, OneUse!Redeem
  <1>4. CASE UNCHANGED vars
    <2>1. \A t \in Ticket : Phase'[t] = Phase[t]
      BY <1>4 DEF Phase, Out, Carried, vars, rows, oidc, budget
    <2>2. Phase' = Phase /\ opened' = opened
      BY <1>0, <1>4, <2>1 DEF vars
    <2> QED BY <2>2 DEF OneUse!vars
  <1> QED BY <1>1, <1>2, <1>3, <1>4, StepInv

\* A state opens at most one session, and none once it expired, was refused or
\* was lost: the states, codes and requests of SignIn implement Tickets, however
\* often callbacks and exchanges are sent (OIDC.Callback, OIDC.Exchange).
THEOREM TicketsOpenOnce == Spec => ImplementsTickets
  <1>1. Init => OneUse!Init
    <2>1. ASSUME Init
          PROVE  \A t \in Ticket : Phase[t] = "unused"
      BY <2>1 DEF Init, Phase
    <2>2. ASSUME Init PROVE Phase = [t \in Ticket |-> "unused"]
      BY <2>1, <2>2 DEF Phase
    <2> QED BY <2>2 DEF Init, OneUse!Init
  <1>2. Inv /\ [Next]_vars => [OneUse!Next]_(OneUse!vars)
    BY TicketStep
  <1> QED BY InitInv, NextInv, <1>1, <1>2, PTL DEF Spec, ImplementsTickets, OneUse!Spec

-----------------------------------------------------------------------------
(* The budget of attempts.                                                 *)

Windows == [start : Int, count : Nat]

\* No window of an address begins a whole window later than that of all of
\* them, so when that one rolls, what was spent before it is out of its count.
Budget ==
    /\ all \in Windows /\ all.start <= now /\ all.count <= Total
    /\ \A a \in DOMAIN keys :
        /\ keys[a] \in Windows
        /\ keys[a].start <= now /\ keys[a].start < all.start + Window
    /\ IsFiniteSet(Attempts) /\ Cardinality(Attempts) <= all.count

LEMMA AttemptOf ==
    ASSUME NEW x
    PROVE  x \in Attempts <=> \E a \in DOMAIN keys :
                keys[a].start >= all.start /\ \E i \in 1 .. keys[a].count : x = <<a, i>>
  BY DEF Attempts, SpentSince

\* The same of the next state.
LEMMA AttemptOfNext ==
    ASSUME NEW x
    PROVE  x \in Attempts' <=> \E a \in DOMAIN keys' :
                keys'[a].start >= all'.start /\ \E i \in 1 .. keys'[a].count : x = <<a, i>>
  BY DEF Attempts, SpentSince

\* Fewer attempts are within a count that is as high.
LEMMA FewerAttempts ==
    ASSUME Budget, Attempts' \subseteq Attempts
    PROVE  IsFiniteSet(Attempts') /\ Cardinality(Attempts') <= Cardinality(Attempts)
  BY FS_Subset DEF Budget

LEMMA OneMore ==
    ASSUME NEW S, NEW x, IsFiniteSet(S)
    PROVE  IsFiniteSet(S \cup {x}) /\ Cardinality(S \cup {x}) <= Cardinality(S) + 1
  <1>1. /\ IsFiniteSet(S \cup {x})
        /\ Cardinality(S \cup {x}) = (IF x \in S THEN Cardinality(S) ELSE Cardinality(S) + 1)
    BY FS_AddElement
  <1>2. Cardinality(S) \in Nat
    BY FS_CardinalityType
  <1> QED BY <1>1, <1>2

\* Allow: when the window of all rolls, every attempt kept is of an older one.
LEMMA AllowBudget ==
    ASSUME Budget, now \in Nat, now' = now, NEW a, Allow(a)
    PROVE  Budget'
  <1> DEFINE k == OfKey(a)
             w == Rolled(all)
             spend == Allowed(a)
  <1>0. Window \in Nat \ {0} /\ Total \in Nat \ {0}
    BY SignInAssumption
  <1>1. /\ DOMAIN Tracked \subseteq DOMAIN keys
        /\ \A b \in DOMAIN Tracked : Tracked[b] = keys[b]
    BY DEF Tracked, Restrict
  <1>2. all \in Windows /\ \A b \in DOMAIN keys : keys[b] \in Windows
    BY DEF Budget
  <1>3. w = all \/ (w = [start |-> now, count |-> 0] /\ now - all.start >= Window)
    BY DEF Rolled
  <1>4. \/ k = [start |-> now, count |-> 0]
        \/ a \in DOMAIN keys /\ k = keys[a]
    BY <1>1 DEF OfKey, Rolled
  <1>5. k \in Windows /\ w \in Windows /\ k.start <= now /\ w.start <= now /\ w.count <= Total
    <2>1. [start |-> now, count |-> 0] \in Windows
      BY DEF Windows
    <2>2. a \in DOMAIN keys => keys[a].start <= now
      BY DEF Budget
    <2>3. all.start <= now /\ all.count <= Total
      BY DEF Budget
    <2> QED BY <1>0, <1>2, <1>3, <1>4, <2>1, <2>2, <2>3
  <1>6. k.start < w.start + Window /\ \A b \in DOMAIN keys : keys[b].start < w.start + Window
    <2>1. \A b \in DOMAIN keys : keys[b].start <= now /\ keys[b].start < all.start + Window
      BY DEF Budget
    <2>2. CASE w = all /\ now - all.start < Window
      BY <1>0, <1>2, <1>4, <2>1, <2>2 DEF Windows
    <2>3. CASE w = [start |-> now, count |-> 0]
      BY <1>0, <1>2, <1>4, <2>1, <2>3 DEF Windows
    <2>4. now - all.start < Window => w = all
      BY <1>0, <1>2 DEF Rolled, Windows
    <2>5. ~(now - all.start < Window) => w = [start |-> now, count |-> 0]
      BY <1>0, <1>2 DEF Rolled, Windows
    <2> QED BY <2>2, <2>3, <2>4, <2>5
  <1>7. PICK v \in Windows, u \in Windows :
          /\ v.start = k.start /\ v.count = (IF spend THEN k.count + 1 ELSE k.count)
          /\ u.start = w.start /\ u.count = (IF spend THEN w.count + 1 ELSE w.count)
          /\ keys' = With(Tracked, a, v) /\ all' = u
    <2>1. PICK v : v = IF spend THEN Spent(k) ELSE k
      OBVIOUS
    <2>2. PICK u : u = IF spend THEN Spent(w) ELSE w
      OBVIOUS
    <2>3. keys' = With(Tracked, a, v) /\ all' = u
      BY <2>1, <2>2 DEF Allow
    <2> HIDE DEF k, w, spend
    <2>4. v \in Windows /\ v.start = k.start /\ v.count = (IF spend THEN k.count + 1 ELSE k.count)
      BY <1>5, <2>1 DEF Spent, Windows
    <2>5. u \in Windows /\ u.start = w.start /\ u.count = (IF spend THEN w.count + 1 ELSE w.count)
      BY <1>5, <2>2 DEF Spent, Windows
    <2> QED BY <2>3, <2>4, <2>5
  <1>8. spend => w.count < Total
    BY DEF Allowed
  <1>9. /\ DOMAIN keys' = DOMAIN Tracked \cup {a} /\ keys'[a] = v
        /\ \A b \in DOMAIN keys' : b # a => b \in DOMAIN keys /\ keys'[b] = keys[b]
    BY <1>1, <1>7 DEF With
  <1>10. u.count <= Total
    BY <1>0, <1>5, <1>7, <1>8 DEF Windows
  <1>11. PICK new : new = <<a, v.count>>
    OBVIOUS
  <1>12. CASE w = all
    <2>1. ASSUME NEW x \in Attempts'
          PROVE  x \in Attempts \/ (spend /\ x = new)
      <3>0. PICK b \in DOMAIN keys' :
                keys'[b].start >= all'.start /\ \E j \in 1 .. keys'[b].count : x = <<b, j>>
        BY AttemptOfNext
      <3>1. PICK i \in 1 .. keys'[b].count : keys'[b].start >= all'.start /\ x = <<b, i>>
        BY <3>0
      <3>2. CASE b # a
        BY <1>7, <1>9, <1>12, <3>1, <3>2, AttemptOf
      <3>3. CASE b = a /\ i <= k.count
        <4>1. a \in DOMAIN keys /\ k = keys[a]
          BY <1>4, <3>1, <3>3
        <4>2. i \in 1 .. keys[a].count /\ keys[a].start >= all.start
          BY <1>7, <1>9, <1>12, <3>1, <3>3, <4>1
        <4> QED BY <3>1, <3>3, <4>1, <4>2, AttemptOf
      <3>4. CASE b = a /\ ~(i <= k.count)
        <4>1. i \in 1 .. v.count
          BY <1>9, <3>1, <3>4
        <4>2. spend /\ i = v.count
          BY <1>5, <1>7, <3>4, <4>1 DEF Windows
        <4> QED BY <1>11, <3>1, <3>4, <4>2
      <3> QED BY <3>2, <3>3, <3>4
    <2>2. CASE spend
      <3>1. IsFiniteSet(Attempts \cup {new}) /\ Cardinality(Attempts \cup {new}) <= Cardinality(Attempts) + 1
        BY OneMore DEF Budget
      <3>2. Attempts' \subseteq Attempts \cup {new}
        BY <2>1
      <3>3. IsFiniteSet(Attempts') /\ Cardinality(Attempts') <= Cardinality(Attempts \cup {new})
        BY <3>1, <3>2, FS_Subset
      <3>4. /\ Cardinality(Attempts) \in Nat /\ Cardinality(Attempts') \in Nat
            /\ Cardinality(Attempts \cup {new}) \in Nat /\ Cardinality(Attempts) <= all.count
        BY <3>1, <3>3, FS_CardinalityType DEF Budget
      <3>5. Cardinality(Attempts') <= u.count
        BY <1>2, <1>7, <1>12, <2>2, <3>1, <3>3, <3>4 DEF Windows
      <3> QED BY <1>5, <1>6, <1>7, <1>9, <1>10, <3>3, <3>5 DEF Budget
    <2>3. CASE ~spend
      <3>1. IsFiniteSet(Attempts') /\ Cardinality(Attempts') <= Cardinality(Attempts)
        BY <2>1, <2>3, FewerAttempts
      <3>2. /\ Cardinality(Attempts) \in Nat /\ Cardinality(Attempts') \in Nat
            /\ Cardinality(Attempts) <= all.count
        BY <3>1, FS_CardinalityType DEF Budget
      <3>3. Cardinality(Attempts') <= u.count
        BY <1>2, <1>7, <1>12, <2>3, <3>1, <3>2 DEF Windows
      <3> QED BY <1>5, <1>6, <1>7, <1>9, <1>10, <3>1, <3>3 DEF Budget
    <2> QED BY <2>2, <2>3
  <1>13. CASE w = [start |-> now, count |-> 0] /\ now - all.start >= Window
    <2>1. \A b \in DOMAIN keys : keys[b].start < now
      BY <1>0, <1>2, <1>13 DEF Budget, Windows
    <2>2. ASSUME NEW x \in Attempts'
          PROVE  spend /\ x = new
      <3>0. PICK b \in DOMAIN keys' :
                keys'[b].start >= now /\ \E j \in 1 .. keys'[b].count : x = <<b, j>>
        BY <1>7, <1>13, AttemptOfNext
      <3>1. PICK i \in 1 .. keys'[b].count : keys'[b].start >= now /\ x = <<b, i>>
        BY <3>0
      <3>2. b = a
        BY <1>2, <1>9, <2>1, <3>1 DEF Windows
      <3>3. k = [start |-> now, count |-> 0]
        BY <1>2, <1>4, <1>7, <1>9, <2>1, <3>1, <3>2 DEF Windows
      <3>4. i \in 1 .. v.count /\ v.count = (IF spend THEN 1 ELSE 0)
        BY <1>7, <1>9, <3>1, <3>2, <3>3
      <3>5. spend /\ i = v.count
        BY <3>4
      <3> QED BY <1>11, <3>1, <3>2, <3>5
    <2>3. CASE spend
      <3>1. IsFiniteSet({new}) /\ Cardinality({new}) = 1
        BY FS_Singleton
      <3>2. Attempts' \subseteq {new}
        BY <2>2
      <3>3. IsFiniteSet(Attempts') /\ Cardinality(Attempts') <= 1
        BY <3>1, <3>2, FS_Subset
      <3>4. u.count = 1
        BY <1>7, <1>13, <2>3
      <3> QED BY <1>5, <1>6, <1>7, <1>9, <1>10, <3>3, <3>4 DEF Budget
    <2>4. CASE ~spend
      <3>1. Attempts' = {}
        BY <2>2, <2>4
      <3>2. IsFiniteSet(Attempts') /\ Cardinality(Attempts') = 0
        BY <3>1, FS_EmptySet
      <3>3. u.count = 0
        BY <1>7, <1>13, <2>4
      <3> QED BY <1>5, <1>6, <1>7, <1>9, <1>10, <3>2, <3>3 DEF Budget
    <2> QED BY <2>3, <2>4
  <1> QED BY <1>3, <1>12, <1>13

\* A budget given back, or an address forgotten, only takes attempts away.
LEMMA FewerKeysBudget ==
    ASSUME Budget, now \in Nat, now' \in Nat, now <= now', all' = all,
           DOMAIN keys' \subseteq DOMAIN keys, \A b \in DOMAIN keys' : keys'[b] = keys[b]
    PROVE  Budget'
  <1>1. Attempts' \subseteq Attempts
    <2>1. ASSUME NEW x \in Attempts' PROVE x \in Attempts
      <3>1. PICK b \in DOMAIN keys' :
                keys'[b].start >= all'.start /\ \E j \in 1 .. keys'[b].count : x = <<b, j>>
        BY AttemptOfNext
      <3> QED BY <3>1, AttemptOf
    <2> QED BY <2>1
  <1>2. /\ IsFiniteSet(Attempts') /\ Cardinality(Attempts') \in Nat
        /\ Cardinality(Attempts) \in Nat /\ Cardinality(Attempts') <= Cardinality(Attempts)
    BY <1>1, FewerAttempts, FS_CardinalityType DEF Budget
  <1>3. Cardinality(Attempts') <= all'.count
    BY <1>2 DEF Budget, Windows
  <1>4. all' \in Windows /\ all'.start <= now' /\ all'.count <= Total
    BY DEF Budget, Windows
  <1>5. ASSUME NEW b \in DOMAIN keys'
        PROVE  /\ keys'[b] \in Windows
               /\ keys'[b].start <= now' /\ keys'[b].start < all'.start + Window
    BY DEF Budget, Windows
  <1> QED BY <1>2, <1>3, <1>4, <1>5 DEF Budget

LEMMA PostBudget ==
    ASSUME Inv, Budget, NEW c \in Client, Request(c)
    PROVE  Budget'
  <1>1. now \in Nat
    BY SignInAssumption DEF Inv, Fields
  <1>2. ASSUME NEW a \in Address, NEW r, Post(c, a, r) PROVE Budget'
    BY <1>1, <1>2, AllowBudget DEF Post
  <1>3. ASSUME UNCHANGED <<now, keys, all>> PROVE Budget'
    BY <1>1, <1>3, FewerKeysBudget
  <1>4. ASSUME NEW a \in Address, NEW p \in Password, Setup(c, a, p) \/ Login(c, a, p)
        PROVE  Budget'
    BY <1>2, <1>4 DEF Setup, Login
  <1>5. ASSUME NEW a \in Address, NEW t \in Ticket, Exchange(c, a, t) PROVE Budget'
    BY <1>2, <1>5 DEF Exchange
  <1>6. ASSUME NEW t \in Ticket, NEW app \in BOOLEAN, StartLogin(c, t, app) PROVE Budget'
    BY <1>3, <1>6 DEF StartLogin, budget
  <1>7. ASSUME NEW t \in Ticket, CallbackArrives(c, t) PROVE Budget'
    BY <1>3, <1>7 DEF CallbackArrives, budget
  <1>8. ASSUME NEW t \in Token, NEW target \in Token \cup {None}, Visit(c, t, target) PROVE Budget'
    BY <1>3, <1>8 DEF Visit, budget
  <1> QED BY <1>4, <1>5, <1>6, <1>7, <1>8 DEF Request

LEMMA StepBudget ==
    ASSUME Inv, Budget, NEW c \in Client, Step(c)
    PROVE  Budget'
  <1>1. now \in Nat
    BY SignInAssumption DEF Inv, Fields
  <1>2. CASE UNCHANGED <<now, keys, all>>
    BY <1>1, <1>2, FewerKeysBudget
  <1>3. CASE Issue(c)
    <2>1. UNCHANGED <<now, all>>
      BY <1>3 DEF Issue
    <2>2. keys' = keys \/ keys' = Without(keys, req[c].from)
      BY <1>3 DEF Issue
    <2>3. DOMAIN keys' \subseteq DOMAIN keys /\ \A b \in DOMAIN keys' : keys'[b] = keys[b]
      BY <2>2 DEF Without, Restrict
    <2> QED BY <1>1, <2>1, <2>3, FewerKeysBudget
  <1>4. ASSUME NEW right \in BOOLEAN
        PROVE  SetupCheck(c, right) \/ ExchangeCode(c, right) => UNCHANGED <<now, keys, all>>
    BY DEF SetupCheck, ExchangeCode, budget
  <1>5. SetupCreate(c) \/ SetupClose(c) => UNCHANGED <<now, keys, all>>
    BY DEF SetupCreate, SetupClose, budget
  <1>6. LoginRead(c) \/ LoginVerify(c) => UNCHANGED <<now, keys, all>>
    BY DEF LoginRead, LoginVerify, budget
  <1>7. ASSUME NEW reached \in BOOLEAN
        PROVE  StartUrl(c, reached) => UNCHANGED <<now, keys, all>>
    BY DEF StartUrl, budget
  <1>8. CallbackState(c) => UNCHANGED <<now, keys, all>>
    BY DEF CallbackState, budget
  <1>9. ASSUME NEW allowed \in BOOLEAN
        PROVE  CallbackIdentity(c, allowed) => UNCHANGED <<now, keys, all>>
    BY DEF CallbackIdentity, budget
  <1>10. Touch(c) \/ TouchFails(c) \/ Serve(c) \/ Fail(c) => UNCHANGED <<now, keys, all>>
    BY DEF Touch, TouchFails, Serve, Fail, budget
  <1> QED BY <1>2, <1>3, <1>4, <1>5, <1>6, <1>7, <1>8, <1>9, <1>10 DEF Step

\* A process begins with no attempts.
LEMMA NoAttempts ==
    ASSUME now \in Nat, keys = <<>>, all = [start |-> -Window, count |-> 0]
    PROVE  Budget
  <1>1. Window \in Nat \ {0} /\ Total \in Nat
    BY SignInAssumption
  <1>2. all \in Windows /\ all.start <= now /\ all.count = 0 /\ all.count <= Total
    BY <1>1 DEF Windows
  <1>3. DOMAIN keys = {}
    OBVIOUS
  <1>4. Attempts = {}
    BY <1>3 DEF Attempts, SpentSince
  <1> QED BY <1>2, <1>3, <1>4, FS_EmptySet DEF Budget

LEMMA NextBudget == ASSUME Inv, Budget, [Next]_vars PROVE Budget'
  <1>1. now \in Nat
    BY SignInAssumption DEF Inv, Fields
  <1>2. CASE UNCHANGED <<keys, all>> /\ now' \in {now, now + 1}
    BY <1>1, <1>2, FewerKeysBudget
  <1>3. CASE Restart
    <2>1. now' \in Nat /\ keys' = <<>> /\ all' = [start |-> -Window, count |-> 0]
      BY <1>1, <1>3 DEF Restart
    <2>2. Window \in Nat \ {0} /\ Total \in Nat
      BY SignInAssumption
    <2>3. all' \in Windows /\ all'.start <= now' /\ all'.count = 0 /\ all'.count <= Total
      BY <2>1, <2>2 DEF Windows
    <2>4. DOMAIN keys' = {}
      BY <2>1
    <2>5. Attempts' = {}
      BY <2>4 DEF Attempts, SpentSince
    <2> QED BY <2>3, <2>4, <2>5, FS_EmptySet DEF Budget
  <1>4. Pass \/ UNCHANGED vars => UNCHANGED <<keys, all>> /\ now' \in {now, now + 1}
    BY DEF Pass, budget, vars
  <1> QED BY <1>2, <1>3, <1>4, PostBudget, StepBudget DEF Next

\* No order of windows rolling over, budgets given back and addresses forgotten
\* lets more attempts through than the total allows (Allow, Reset).
THEOREM TotalHolds == Spec => []BudgetsAgree
  <1>1. Init => Budget
    BY NoAttempts DEF Init
  <1>2. Budget => BudgetsAgree
    BY DEF Budget, BudgetsAgree
  <1> QED BY InitInv, NextInv, NextBudget, <1>1, <1>2, PTL DEF Spec

=============================================================================

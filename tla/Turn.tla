-------------------------------- MODULE Turn --------------------------------
(***************************************************************************)
(* One consult, from the question to the end of the event stream that      *)
(* carries its answer: memory/usecase/{consult,council,agent,toolloop,     *)
(* progress}.go, the providers' chat calls (infra/gemini, infra/anthropic, *)
(* infra/ollama) and the stream in web/api/handler.go.                     *)
(*                                                                         *)
(* Four kinds of goroutine take steps: the request's own, one per seat of  *)
(* the council, the council's heartbeat and the stream's keep-alive.  They *)
(* share the connection.  Besides them the model provider answers, fails   *)
(* or stays silent, the deadline passes and the reader leaves.             *)
(*                                                                         *)
(* The reader's screen is the sequence of pieces shown since the last      *)
(* reset.  A piece is named after the call and the model that wrote it.    *)
(* What is retrieved and how it is worded is left out.                     *)
(***************************************************************************)
EXTENDS Plan, Sequences

CONSTANTS
  MaxRetries,   \* retries of a busy model (maxRateRetries in infra/gemini)
  MaxChain,     \* bound: models in a provider's fallback chain
  MaxPieces     \* bound: pieces of text one call streams

ASSUME TurnAssumption ==
  /\ MaxRetries \in Nat
  /\ MaxChain \in Nat \ {0}
  /\ MaxPieces \in Nat \ {0}

VARIABLES
  plan,     \* the policy that runs, whether a council sits, whether an empty search escalates
  ctx,      \* the request's context: "live", past its deadline, or left by the reader
  pc,       \* where the request goroutine is
  job,      \* which kind of call it makes: "closing", "agent", "fallback", "single"
  round,    \* the agent's round
  call,     \* the model call in flight
  res,      \* what the last call ended with
  seat,     \* the council's seats
  pending,  \* the seats that have not reported
  beat,     \* the council's heartbeat
  alive,    \* the stream's keep-alive
  shown,    \* the text on the reader's screen
  answer    \* the answer the consult returned, or None

vars == <<plan, ctx, pc, job, round, call, res, seat, pending, beat, alive, shown, answer>>
council == <<seat, pending, beat>>

None == <<<<"none", 0, 0>>>>
Seats == 1..3
councilSeatRounds == 2
Results == {"none", "text", "empty", "tools", "error"}
NoCall == [at |-> "none", chain |-> 1, model |-> 1, tries |-> 0, got |-> <<>>]

\* How many rounds a seat may call tools in.
SeatRounds == Min2(plan.policy.rounds, councilSeatRounds)
Seated == 1..plan.policy.generals

TypeOK ==
  /\ plan.policy.tier \in Tiers /\ plan.council \in BOOLEAN /\ plan.escalates \in BOOLEAN
  /\ ctx \in {"live", "late", "gone"}
  /\ pc \in {"gather", "choose", "council", "joining", "joined", "call", "turned",
             "digging", "over", "stopping", "returned"}
  /\ job \in {"none", "closing", "agent", "fallback", "single"}
  /\ round \in 0..plan.policy.rounds
  /\ call.at \in {"none", "post", "wait", "stream"}
  /\ call.model \in 1..call.chain /\ call.tries \in 0..MaxRetries
  /\ Len(call.got) <= MaxPieces
  /\ res \in Results
  /\ \A s \in Seats : /\ seat[s].at \in {"off", "digging", "told", "reporting", "done"}
                      /\ seat[s].round \in 0..councilSeatRounds
                      /\ seat[s].pos \in {"none", "ok", "failed"}
  /\ pending \subseteq Seats
  /\ beat \in {"off", "ticking", "gone"}
  /\ alive \in {"ticking", "gone"}

Init ==
  /\ \E in \in Inputs :
       LET policy == Resolve(in) IN
       plan = [policy |-> policy, council |-> UsesCouncil(in, policy),
               escalates |-> Escalates(in, policy)]
  /\ ctx = "live"
  /\ pc = "gather"
  /\ job = "none" /\ round = 0 /\ call = NoCall /\ res = "none"
  /\ seat = [s \in Seats |-> [at |-> "off", round |-> 0, pos |-> "none"]]
  /\ pending = {} /\ beat = "off" /\ alive = "ticking"
  /\ shown = <<>> /\ answer = None

-----------------------------------------------------------------------------
(* The model call of the request goroutine *)

\* A call is opened on the first model of the chain.  Settings may have moved
\* to another provider since the last call, so the chain is its own each time.
Open(j) ==
  /\ job' = j
  /\ \E chain \in 1..MaxChain : call' = [NoCall EXCEPT !.at = "post", !.chain = chain]
  /\ pc' = "call"
  /\ res' = "none"

Piece(c) == <<job, round, c.model>>

\* Slip: text is only retracted when the round failed.
RetractsFailuresOnly(r) == job = "agent" /\ call.got # <<>> /\ r = "error"

\* streamChatTools takes back what a round wrote when the round turns out to
\* be a failure or a tool call; streamChat takes nothing back.
Retracts(r) == job = "agent" /\ call.got # <<>> /\ r \in {"error", "tools"}

\* The call returns with r.
Return(r) ==
  /\ res' = r
  /\ call' = [call EXCEPT !.at = "none"]
  /\ shown' = IF Retracts(r) THEN <<>> ELSE shown
  /\ pc' = "turned"
  /\ UNCHANGED <<plan, ctx, job, round, council, alive, answer>>

InCall(at) == pc = "call" /\ call.at = at

Connected ==
  /\ InCall("post")
  /\ call' = [call EXCEPT !.at = "stream"]
  /\ UNCHANGED <<plan, ctx, pc, job, round, res, council, alive, shown, answer>>

\* Slip: the retries are counted one too many.
BusyOnceMore ==
  /\ InCall("post")
  /\ call.tries <= MaxRetries
  /\ call' = [call EXCEPT !.at = "wait", !.tries = @ + 1]
  /\ UNCHANGED <<plan, ctx, pc, job, round, res, council, alive, shown, answer>>

\* The model is busy: the reader is told, and the same request waits.
Busy ==
  /\ InCall("post")
  /\ call.tries < MaxRetries
  /\ call' = [call EXCEPT !.at = "wait", !.tries = @ + 1]
  /\ UNCHANGED <<plan, ctx, pc, job, round, res, council, alive, shown, answer>>

Waited ==
  /\ InCall("wait")
  /\ call' = [call EXCEPT !.at = "post"]
  /\ UNCHANGED <<plan, ctx, pc, job, round, res, council, alive, shown, answer>>

\* Still busy after the retries, or busy for longer than is worth waiting: the
\* next model of the chain is asked, and after the last one the call fails.
NextModel ==
  /\ InCall("post")
  /\ call.model < call.chain
  /\ call' = [call EXCEPT !.model = @ + 1, !.tries = 0]
  /\ UNCHANGED <<plan, ctx, pc, job, round, res, council, alive, shown, answer>>

\* A piece of the answer reaches the screen.
Delta ==
  /\ InCall("stream")
  /\ Len(call.got) < MaxPieces
  /\ call' = [call EXCEPT !.got = Append(@, Piece(call))]
  /\ shown' = Append(shown, Piece(call))
  /\ UNCHANGED <<plan, ctx, pc, job, round, res, council, alive, answer>>

\* Refused, unreachable or not configured, or out of models.
Refused == InCall("post") /\ Return("error")

\* The stream broke.  Once it has begun it is not retried on another model.
Broken == InCall("stream") /\ Return("error")

\* A filter stopped the reply: half an answer is not stored as a whole one.
Blocked == InCall("stream") /\ Return("error")

\* The context ended: the request, the wait and the stream all notice.
Cut == ctx # "live" /\ pc = "call" /\ Return("error")

Ends ==
  /\ InCall("stream")
  /\ \/ call.got # <<>> /\ Return("text")
     \/ call.got = <<>> /\ Return("empty")
     \/ job = "agent" /\ Return("tools")

-----------------------------------------------------------------------------
(* The request goroutine *)

Fail ==
  /\ pc' = "over"
  /\ UNCHANGED <<plan, ctx, job, round, call, res, council, alive, shown, answer>>

Answered ==
  /\ answer' = call.got
  /\ pc' = "over"
  /\ UNCHANGED <<plan, ctx, job, round, call, res, council, alive, shown>>

\* The search.  Nothing found on the cheapest tier runs the standard one.
Gather ==
  /\ pc = "gather"
  /\ \/ /\ pc' = "choose"
        /\ UNCHANGED <<plan, ctx, job, round, call, res, council, alive, shown, answer>>
     \/ /\ plan.escalates
        /\ plan' = [policy |-> Escalated(plan.policy), council |-> FALSE, escalates |-> FALSE]
        /\ UNCHANGED <<ctx, pc, job, round, call, res, council, alive, shown, answer>>
     \/ Fail

GatherCut == ctx # "live" /\ pc = "gather" /\ Fail

\* Every seat starts at once, and the heartbeat with them.
Convene ==
  /\ pc' = "council"
  /\ seat' = [s \in Seats |-> IF s \in Seated THEN [seat[s] EXCEPT !.at = "digging"] ELSE seat[s]]
  /\ pending' = Seated
  /\ beat' = "ticking"
  /\ UNCHANGED <<plan, ctx, job, round, call, res, alive, shown, answer>>

StartAgent ==
  /\ Open("agent")
  /\ round' = 0

\* Council, agent or a single call.  Each reads the person's own page first,
\* and fails when it cannot.
Choose ==
  /\ pc = "choose"
  /\ \/ plan.council /\ Convene
     \/ /\ ~ plan.council /\ UsesTools(plan.policy)
        /\ StartAgent
        /\ UNCHANGED <<plan, ctx, council, alive, shown, answer>>
     \/ /\ ~ plan.council /\ ~ UsesTools(plan.policy)
        /\ Open("single")
        /\ UNCHANGED <<plan, ctx, round, council, alive, shown, answer>>
     \/ Fail

\* A council that could not convene still owes an answer: one agent writes it,
\* on a clean screen, unless the request itself is over.
CouncilFailed ==
  IF ctx = "live"
  THEN /\ StartAgent
       /\ shown' = <<>>
       /\ UNCHANGED <<plan, ctx, council, alive, answer>>
  ELSE Fail

\* All seats are through, so the heartbeat is told to stop.
Join ==
  /\ pc = "council"
  /\ \A s \in Seated : seat[s].at = "done"
  /\ pc' = "joining"
  /\ UNCHANGED <<plan, ctx, job, round, call, res, council, alive, shown, answer>>

\* Slip: the heartbeat is told to stop, but nobody waits until it has.
JoinedAtOnce ==
  /\ pc = "joining"
  /\ pc' = "joined"
  /\ UNCHANGED <<plan, ctx, job, round, call, res, council, alive, shown, answer>>

Joined ==
  /\ pc = "joining"
  /\ beat = "gone"
  /\ pc' = "joined"
  /\ UNCHANGED <<plan, ctx, job, round, call, res, council, alive, shown, answer>>

\* The exchange is written between the seats that reported.
Synthesise ==
  /\ pc = "joined"
  /\ IF ctx = "live" /\ \E s \in Seated : seat[s].pos = "ok"
     THEN Open("closing") /\ UNCHANGED <<plan, ctx, round, council, alive, shown, answer>>
     ELSE CouncilFailed

Turned(j, r) == pc = "turned" /\ job = j /\ res \in r

AfterSingle ==
  \/ Turned("single", {"text", "empty"}) /\ Answered
  \/ Turned("single", {"error"}) /\ Fail

AfterClosing ==
  \/ Turned("closing", {"text"}) /\ Answered
  \/ Turned("closing", {"empty", "error"}) /\ CouncilFailed

AfterFallback ==
  \/ Turned("fallback", {"text"}) /\ Answered
  \/ Turned("fallback", {"empty", "error"}) /\ Fail

\* A round that called tools runs them and goes on; out of rounds, or caught
\* repeating itself, the loop stops and a call without tools answers instead.
AfterRound ==
  \/ Turned("agent", {"text"}) /\ Answered
  \/ Turned("agent", {"empty", "error"}) /\ Fail
  \/ /\ Turned("agent", {"tools"})
     /\ \/ /\ round < plan.policy.rounds
           /\ pc' = "digging"
           /\ UNCHANGED <<plan, ctx, job, round, call, res, council, alive, shown, answer>>
        \/ /\ round > 0
           /\ Open("fallback")
           /\ UNCHANGED <<plan, ctx, round, council, alive, shown, answer>>

\* The tools have run.  One that failed only says so to the model.
Dug ==
  /\ pc = "digging"
  /\ Open("agent")
  /\ round' = round + 1
  /\ UNCHANGED <<plan, ctx, council, alive, shown, answer>>

\* The handler says "done" or "error" and stops the keep-alive.
Finish ==
  /\ pc = "over"
  /\ pc' = "stopping"
  /\ UNCHANGED <<plan, ctx, job, round, call, res, council, alive, shown, answer>>

HandlerReturns ==
  /\ pc = "stopping"
  /\ alive = "gone"
  /\ pc' = "returned"
  /\ UNCHANGED <<plan, ctx, job, round, call, res, council, alive, shown, answer>>

-----------------------------------------------------------------------------
(* The other goroutines, the clock and the reader *)

Sit(s, v) ==
  /\ seat' = [seat EXCEPT ![s] = v]
  /\ UNCHANGED <<plan, ctx, pc, job, round, call, res, beat, alive, shown, answer>>

\* One round of a seat's own loop.  It shows nothing but its tool calls.
SeatRound(s) ==
  /\ seat[s].at = "digging"
  /\ UNCHANGED pending
  /\ \/ \E pos \in {"ok", "failed"} : Sit(s, [seat[s] EXCEPT !.at = "told", !.pos = pos])
     \/ /\ seat[s].round < SeatRounds
        /\ Sit(s, [seat[s] EXCEPT !.round = @ + 1])

SeatCut(s) ==
  /\ ctx # "live"
  /\ seat[s].at = "digging"
  /\ Sit(s, [seat[s] EXCEPT !.at = "told", !.pos = "failed"])
  /\ UNCHANGED pending

\* It takes itself off the list and reads who is still out, both under the
\* lock; what it then says about them, it says under a lock of its own.
SeatTold(s) ==
  /\ seat[s].at = "told"
  /\ pending' = pending \ {s}
  /\ Sit(s, [seat[s] EXCEPT !.at = IF pending' = {} THEN "done" ELSE "reporting"])

SeatReports(s) ==
  /\ seat[s].at = "reporting"
  /\ Sit(s, [seat[s] EXCEPT !.at = "done"])
  /\ UNCHANGED pending

\* The heartbeat leaves when it is told to, or when the context ends.
BeatStops ==
  /\ beat = "ticking"
  /\ pc = "joining" \/ ctx # "live"
  /\ beat' = "gone"
  /\ UNCHANGED <<plan, ctx, pc, job, round, call, res, seat, pending, alive, shown, answer>>

KeepAliveStops ==
  /\ alive = "ticking"
  /\ pc = "stopping"
  /\ alive' = "gone"
  /\ UNCHANGED <<plan, ctx, pc, job, round, call, res, council, shown, answer>>

\* Slip: the clock only runs for the tiers that dig.
DeadlineOfTools ==
  /\ UsesTools(plan.policy)
  /\ ctx = "live"
  /\ ctx' = "late"
  /\ UNCHANGED <<plan, pc, job, round, call, res, council, alive, shown, answer>>

\* Every tier bounds the whole consult.
Deadline ==
  /\ ctx = "live"
  /\ ctx' = "late"
  /\ UNCHANGED <<plan, pc, job, round, call, res, council, alive, shown, answer>>

\* The reader closes the page.
Leave ==
  /\ ctx = "live"
  /\ ctx' = "gone"
  /\ UNCHANGED <<plan, pc, job, round, call, res, council, alive, shown, answer>>

-----------------------------------------------------------------------------

\* Steps the code takes by itself, without waiting on a model, a search or a tool.
OwnSteps ==
  Choose \/ Join \/ Joined \/ Synthesise \/ AfterSingle \/ AfterClosing \/ AfterFallback
    \/ AfterRound \/ Finish \/ HandlerReturns

Next ==
  \/ Connected \/ Busy \/ Waited \/ NextModel \/ Delta \/ Refused \/ Broken \/ Blocked \/ Cut \/ Ends
  \/ Gather \/ GatherCut \/ Dug \/ OwnSteps
  \/ \E s \in Seats : SeatRound(s) \/ SeatCut(s) \/ SeatTold(s) \/ SeatReports(s)
  \/ BeatStops \/ KeepAliveStops \/ Deadline \/ Leave

\* A provider, a search and a tool owe nothing while the context is live.  Once
\* it has ended, whatever blocks on them returns.
Fairness ==
  /\ WF_vars(OwnSteps)
  /\ WF_vars(Deadline)
  /\ WF_vars(Cut) /\ WF_vars(GatherCut) /\ WF_vars(ctx # "live" /\ Dug)
  /\ \A s \in Seats : WF_vars(SeatCut(s)) /\ WF_vars(SeatTold(s)) /\ WF_vars(SeatReports(s))
  /\ WF_vars(BeatStops) /\ WF_vars(KeepAliveStops)

Spec == Init /\ [][Next]_vars /\ Fairness

-----------------------------------------------------------------------------
(* Properties *)

\* When a turn succeeds, what stands on the reader's screen is the answer that
\* is stored and nothing else: no sentence of a round that went on to call a
\* tool, of a model that failed half way, or of a council that fell through
\* (OnReset in progress.go).
ShownIsAnswer == answer # None => shown = answer

Silent == beat # "ticking" /\ \A s \in Seats : seat[s].at \in {"off", "done"}

\* While the answer streams nobody of the council writes to the connection any
\* more, and once the handler has returned nobody writes at all (council.go:113,
\* keepAlive in handler.go).
QuietWriters ==
  /\ pc = "call" => Silent
  /\ pc = "returned" => Silent /\ alive = "gone"

\* Every turn ends, whatever the model, the search and the tools do: the
\* deadline reaches the request, every seat and the heartbeat.
TurnEnds == <>(pc = "returned")
=============================================================================

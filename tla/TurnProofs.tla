----------------------------- MODULE TurnProofs ------------------------------
(***************************************************************************)
(* What one consult keeps for any number of retries, models and pieces.    *)
(*                                                                         *)
(* Shape says what the variables are, Screen what the reader sees at each  *)
(* place of the request goroutine, Quiet which other goroutines may still  *)
(* write there.  Each is preserved by every step; the properties are what  *)
(* the last two say where the answer is given and where it is streamed.    *)
(*                                                                         *)
(* Then what the conversation keeps that such turns belong to, for any     *)
(* number of tabs: Conversation says what a turn in flight still carries,  *)
(* SpacedBy whose suggestion each one is.                                  *)
(*                                                                         *)
(* Last, what beast mode's turns and clicks keep of its orders: a re-arm   *)
(* still to run goes to a later clock than the one it was listed for       *)
(* (Timely), and only it changes a count of misses (Counts).               *)
(***************************************************************************)
EXTENDS Turn, ChatSession, BeastBoard, FiniteSetTheorems, TLAPS

Jobs == {"none", "closing", "agent", "fallback", "single"}

Policies == [tier : Tiers, generals : 0..3, rounds : 0..3, council : BOOLEAN,
             decompose : BOOLEAN]

Calls == [at : {"none", "post", "wait", "stream"}, chain : 1..MaxChain, model : 1..MaxChain,
          tries : 0..MaxRetries, got : Seq(Jobs \X Nat \X Nat)]

SeatRows == [at : {"off", "digging", "told", "reporting", "done"}, round : 0..councilSeatRounds,
             pos : {"none", "ok", "failed"}]

Shape ==
  /\ TypeOK
  /\ plan \in [policy : Policies, council : BOOLEAN, escalates : BOOLEAN]
  /\ call \in Calls
  /\ round \in Nat
  /\ seat \in [Seats -> SeatRows]
  /\ pc = "gather" => round = 0
  /\ pc = "digging" => round < plan.policy.rounds

\* What is on the screen: nothing between calls, the pieces of the call while
\* it runs, and still they when it ended well.
Screen ==
  /\ pc \in {"gather", "choose", "council", "joining", "joined", "digging"} => shown = <<>>
  /\ pc = "call" => shown = call.got
  /\ pc = "turned" /\ res \in {"text", "empty"} => shown = call.got
  /\ pc = "turned" /\ res = "tools" => shown = <<>>
  /\ answer # None => pc \in {"over", "stopping", "returned"} /\ shown = answer

Away == \A s \in Seats : seat[s].at \in {"off", "done"}

\* Who may still write: nobody but the heartbeat once the seats are joined, and
\* nobody once it has left.
Quiet ==
  /\ pc \in {"gather", "choose"} => beat = "off" /\ \A s \in Seats : seat[s].at = "off"
  /\ pc = "council" => \A s \in Seats \ Seated : seat[s].at = "off"
  /\ pc = "joining" => Away
  /\ pc \in {"joined", "call", "turned", "digging", "over", "stopping", "returned"} => Silent
  /\ pc = "returned" => alive = "gone"

-----------------------------------------------------------------------------
(* The plan.                                                               *)

LEMMA PolicyShape ==
    ASSUME NEW t
    PROVE  PolicyFor(t) \in Policies
  BY DEF PolicyFor, Policies, Tiers

LEMMA ResolveShape ==
    ASSUME NEW in \in Inputs
    PROVE  /\ Resolve(in) \in Policies
           /\ UsesCouncil(in, Resolve(in)) \in BOOLEAN
           /\ Escalates(in, Resolve(in)) \in BOOLEAN
  <1> DEFINE policy == PolicyFor(CapTo(ParseTier(in.asked, in.def), Ceiling(in)))
             most == IF in.cap > 0 THEN Min2(in.cap, policy.generals) ELSE policy.generals
  <1>1. policy \in Policies
    BY PolicyShape
  <1>2. most \in 0..3
    BY <1>1 DEF Policies, Inputs, Min2
  <1>3. Resolve(in) = [policy EXCEPT !.generals = IF in.plain THEN 0 ELSE most]
    BY DEF Resolve
  <1>4. Resolve(in) \in Policies
    BY <1>1, <1>2, <1>3 DEF Policies
  <1> QED BY <1>4 DEF UsesCouncil, Escalates, Policies

LEMMA EscalatedShape ==
    ASSUME NEW p \in Policies
    PROVE  Escalated(p) \in Policies
  BY PolicyShape DEF Escalated, Policies, Min2

-----------------------------------------------------------------------------
(* What the variables are.                                                 *)

LEMMA ShapeInit == Init => Shape
  <1> SUFFICES ASSUME Init PROVE Shape
    OBVIOUS
  <1>1. plan \in [policy : Policies, council : BOOLEAN, escalates : BOOLEAN]
    BY ResolveShape DEF Init
  <1>2. call \in Calls
    BY TurnAssumption DEF Init, NoCall, Calls
  <1>3. seat \in [Seats -> SeatRows]
    BY DEF Init, SeatRows, councilSeatRounds
  <1> QED BY <1>1, <1>2, <1>3, TurnAssumption
       DEF Init, Shape, TypeOK, Policies, Calls, SeatRows, NoCall, Seats, Results

\* A call is opened well formed, whatever it is for.
LEMMA OpenShape ==
    ASSUME NEW j \in Jobs, Open(j)
    PROVE  /\ job' = j /\ pc' = "call" /\ res' = "none"
           /\ call' \in Calls /\ call'.at = "post" /\ call'.model = 1 /\ call'.got = <<>>
  <1>1. PICK chain \in 1..MaxChain : call' = [NoCall EXCEPT !.at = "post", !.chain = chain]
    BY DEF Open
  <1>2. call' = [at |-> "post", chain |-> chain, model |-> 1, tries |-> 0, got |-> <<>>]
    BY <1>1 DEF NoCall
  <1>3. <<>> \in Seq(Jobs \X Nat \X Nat)
    OBVIOUS
  <1>4. call' \in Calls
    BY <1>2, <1>3, TurnAssumption DEF Calls
  <1>5. job' = j /\ pc' = "call" /\ res' = "none"
    BY DEF Open
  <1> QED BY <1>2, <1>4, <1>5

\* Calls with fields replaced.
LEMMA MovedCall ==
    ASSUME NEW c \in Calls, NEW at \in {"none", "post", "wait", "stream"},
           NEW d, d = [c EXCEPT !.at = at]
    PROVE  d \in Calls /\ d.at = at /\ d.chain = c.chain /\ d.model = c.model
           /\ d.tries = c.tries /\ d.got = c.got
  BY DEF Calls

LEMMA RetriedCall ==
    ASSUME NEW c \in Calls, c.tries < MaxRetries,
           NEW d, d = [c EXCEPT !.at = "wait", !.tries = @ + 1]
    PROVE  d \in Calls /\ d.at = "wait" /\ d.chain = c.chain /\ d.model = c.model /\ d.got = c.got
  <1> DEFINE e == [c EXCEPT !.at = "wait"]
  <1>1. e \in Calls /\ e.at = "wait" /\ e.tries = c.tries /\ e.chain = c.chain
        /\ e.model = c.model /\ e.got = c.got
    BY DEF Calls
  <1>2. d = [e EXCEPT !.tries = c.tries + 1]
    BY <1>1
  <1>3. c.tries + 1 \in 0..MaxRetries
    BY TurnAssumption DEF Calls
  <1> HIDE DEF e
  <1> QED BY <1>1, <1>2, <1>3 DEF Calls

LEMMA NextCall ==
    ASSUME NEW c \in Calls, c.model < c.chain,
           NEW d, d = [c EXCEPT !.model = @ + 1, !.tries = 0]
    PROVE  d \in Calls /\ d.at = c.at /\ d.chain = c.chain /\ d.model = c.model + 1 /\ d.got = c.got
  <1> DEFINE e == [c EXCEPT !.model = @ + 1]
  <1>1. c.model + 1 \in 1..MaxChain
    BY TurnAssumption DEF Calls
  <1>2. e \in Calls /\ e.model = c.model + 1 /\ e.at = c.at /\ e.chain = c.chain /\ e.got = c.got
    BY <1>1 DEF Calls
  <1>3. d = [e EXCEPT !.tries = 0]
    OBVIOUS
  <1>4. 0 \in 0..MaxRetries
    BY TurnAssumption
  <1> HIDE DEF e
  <1> QED BY <1>2, <1>3, <1>4 DEF Calls

LEMMA LongerCall ==
    ASSUME NEW c \in Calls, NEW p \in Jobs \X Nat \X Nat,
           NEW d, d = [c EXCEPT !.got = Append(@, p)]
    PROVE  d \in Calls /\ d.at = c.at /\ d.chain = c.chain /\ d.model = c.model
           /\ d.tries = c.tries /\ d.got = Append(c.got, p) /\ Len(d.got) = Len(c.got) + 1
  <1>1. Append(c.got, p) \in Seq(Jobs \X Nat \X Nat) /\ Len(Append(c.got, p)) = Len(c.got) + 1
    BY DEF Calls
  <1> QED BY <1>1 DEF Calls

LEMMA ReturnShape ==
    ASSUME Shape, NEW r \in Results, Return(r)
    PROVE  Shape'
  <1>1. call \in Calls /\ call.model \in 1..call.chain /\ Len(call.got) <= MaxPieces
    BY DEF Shape, TypeOK
  <1>2. call' \in Calls /\ call'.at = "none" /\ call'.model = call.model
        /\ call'.tries = call.tries /\ call'.chain = call.chain /\ call'.got = call.got
    BY <1>1, MovedCall DEF Return
  <1>3. UNCHANGED <<plan, ctx, job, round, council, alive>> /\ pc' = "turned" /\ res' = r
    BY DEF Return
  <1> QED BY <1>1, <1>2, <1>3 DEF Shape, TypeOK, council, Calls

LEMMA CallShape ==
    ASSUME Shape, Connected \/ Busy \/ Waited \/ NextModel \/ Delta
    PROVE  Shape'
  <1>0. call \in Calls /\ call.model \in 1..call.chain /\ Len(call.got) <= MaxPieces
    BY DEF Shape, TypeOK
  <1>1. call' \in Calls /\ call'.model \in 1..call'.chain /\ Len(call'.got) <= MaxPieces
    <2>1. CASE Connected \/ Waited
      BY <1>0, <2>1, MovedCall DEF Connected, Waited
    <2>2. CASE Busy
      BY <1>0, <2>2, RetriedCall DEF Busy
    <2>3. CASE NextModel
      <3>1. call.model < call.chain /\ call' = [call EXCEPT !.model = @ + 1, !.tries = 0]
        BY <2>3 DEF NextModel
      <3>2. /\ call' \in Calls
            /\ call'.chain = call.chain /\ call'.model = call.model + 1 /\ call'.got = call.got
        BY <1>0, <3>1, NextCall
      <3>3. call.model + 1 \in 1..call.chain
        BY <1>0, <3>1 DEF Calls
      <3> QED BY <1>0, <3>2, <3>3
    <2>4. CASE Delta
      <3>1. Piece(call) \in Jobs \X Nat \X Nat
        BY <1>0 DEF Piece, Calls, Shape, TypeOK, Jobs
      <3>2. Len(call.got) < MaxPieces /\ call' = [call EXCEPT !.got = Append(@, Piece(call))]
        BY <2>4 DEF Delta
      <3>3. /\ call' \in Calls
            /\ call'.chain = call.chain /\ call'.model = call.model
            /\ Len(call'.got) = Len(call.got) + 1
        BY <1>0, <3>1, <3>2, LongerCall
      <3>4. Len(call.got) \in Nat
        BY <1>0 DEF Calls
      <3> QED BY <1>0, <3>2, <3>3, <3>4, TurnAssumption
    <2> QED BY <2>1, <2>2, <2>3, <2>4
  <1>2. UNCHANGED <<plan, ctx, pc, job, round, res, council, alive>>
    BY DEF Connected, Busy, Waited, NextModel, Delta
  <1>3. call'.at \in {"none", "post", "wait", "stream"} /\ call'.tries \in 0..MaxRetries
    BY <1>1 DEF Calls
  <1> QED BY <1>1, <1>2, <1>3 DEF Shape, TypeOK, council

\* A call is opened in a round the plan has.
LEMMA OpenedShape ==
    ASSUME Shape, NEW j \in Jobs, Open(j),
           plan' = plan, ctx' = ctx, alive' = alive, council' = council,
           round' \in 0..plan.policy.rounds
    PROVE  Shape'
  <1>1. /\ job' = j /\ pc' = "call" /\ res' = "none"
        /\ call' \in Calls /\ call'.at = "post" /\ call'.model = 1 /\ call'.got = <<>>
    BY OpenShape
  <1>2. /\ call'.model \in 1..call'.chain /\ call'.tries \in 0..MaxRetries
        /\ Len(call'.got) <= MaxPieces
    BY <1>1, TurnAssumption DEF Calls
  <1>3. plan.policy.rounds \in 0..3
    BY DEF Shape, Policies
  <1> QED BY <1>1, <1>2, <1>3 DEF Shape, TypeOK, council, Jobs, Results

LEMMA FailShape ==
    ASSUME Shape, Fail \/ Answered
    PROVE  Shape'
  BY DEF Shape, TypeOK, Fail, Answered, council

LEMMA CouncilFailedShape ==
    ASSUME Shape, CouncilFailed
    PROVE  Shape'
  <1>1. plan.policy.rounds \in 0..3
    BY DEF Shape, Policies
  <1>2. CASE ctx = "live"
    BY <1>1, <1>2, OpenedShape DEF CouncilFailed, StartAgent, Jobs, council
  <1>3. CASE ctx # "live"
    BY <1>3, FailShape DEF CouncilFailed
  <1> QED BY <1>2, <1>3

LEMMA GatherShape ==
    ASSUME Shape, Gather \/ GatherCut
    PROVE  Shape'
  <1>1. CASE Fail
    BY <1>1, FailShape
  <1>2. CASE Gather /\ ~Fail /\ pc' = "choose" /\ UNCHANGED plan
    BY <1>2 DEF Gather, Shape, TypeOK, council
  <1>3. CASE plan' = [policy |-> Escalated(plan.policy), council |-> FALSE, escalates |-> FALSE]
             /\ pc = "gather"
             /\ UNCHANGED <<ctx, pc, job, round, call, res, council, alive, shown, answer>>
    <2>1. Escalated(plan.policy) \in Policies
      BY EscalatedShape DEF Shape
    <2> QED BY <1>3, <2>1 DEF Shape, TypeOK, council, Policies
  <1> QED BY <1>1, <1>2, <1>3 DEF Gather, GatherCut

LEMMA OwnShape ==
    ASSUME Shape, OwnSteps \/ Dug
    PROVE  Shape'
  <1>0. plan.policy.rounds \in 0..3 /\ round \in 0..plan.policy.rounds
    BY DEF Shape, TypeOK, Policies
  <1>1. CASE Choose
    <2>1. CASE Convene
      <3>1. seat' \in [Seats -> SeatRows]
        BY <2>1 DEF Convene, Shape, SeatRows
      <3>2. pending' \subseteq Seats
        BY <2>1 DEF Convene, Seated, Shape, Policies, Seats
      <3> QED BY <2>1, <3>1, <3>2 DEF Convene, Shape, TypeOK, SeatRows
    <2>2. CASE StartAgent /\ UNCHANGED <<plan, ctx, council, alive, shown, answer>>
      BY <1>0, <2>2, OpenedShape DEF StartAgent, Jobs
    <2>3. CASE Open("single") /\ UNCHANGED <<plan, ctx, round, council, alive, shown, answer>>
      BY <1>0, <2>3, OpenedShape DEF Jobs
    <2>4. CASE Fail
      BY <2>4, FailShape
    <2> QED BY <1>1, <2>1, <2>2, <2>3, <2>4 DEF Choose
  <1>2. CASE Join \/ Joined \/ Finish \/ HandlerReturns
    BY <1>2 DEF Join, Joined, Finish, HandlerReturns, Shape, TypeOK, council
  <1>3. CASE Synthesise
    <2>1. CASE Open("closing") /\ UNCHANGED <<plan, ctx, round, council, alive, shown, answer>>
      BY <1>0, <2>1, OpenedShape DEF Jobs
    <2> QED BY <1>3, <2>1, CouncilFailedShape DEF Synthesise
  <1>4. CASE AfterSingle \/ AfterFallback
    BY <1>4, FailShape DEF AfterSingle, AfterFallback
  <1>5. CASE AfterClosing
    BY <1>5, FailShape, CouncilFailedShape DEF AfterClosing
  <1>6. CASE AfterRound
    <2>1. CASE Answered \/ Fail
      BY <2>1, FailShape
    <2>2. CASE round < plan.policy.rounds /\ pc' = "digging"
               /\ UNCHANGED <<plan, ctx, job, round, call, res, council, alive, shown, answer>>
      BY <2>2 DEF Shape, TypeOK, council
    <2>3. CASE Open("fallback") /\ UNCHANGED <<plan, ctx, round, council, alive, shown, answer>>
      BY <1>0, <2>3, OpenedShape DEF Jobs
    <2> QED BY <1>6, <2>1, <2>2, <2>3 DEF AfterRound
  <1>7. CASE Dug
    <2>1. round + 1 \in 0..plan.policy.rounds
      BY <1>0, <1>7 DEF Dug, Shape
    <2> QED BY <1>7, <2>1, OpenedShape DEF Dug, Jobs
  <1> QED BY <1>1, <1>2, <1>3, <1>4, <1>5, <1>6, <1>7 DEF OwnSteps

LEMMA SeatShape ==
    ASSUME Shape, NEW s \in Seats, SeatRound(s) \/ SeatCut(s) \/ SeatTold(s) \/ SeatReports(s)
    PROVE  Shape'
  <1>1. seat' \in [Seats -> SeatRows]
    <2>1. seat[s] \in SeatRows /\ plan.policy.rounds \in 0..3
      BY DEF Shape, Policies
    <2>2. CASE SeatRound(s)
      <3>1. CASE \E pos \in {"ok", "failed"} : Sit(s, [seat[s] EXCEPT !.at = "told", !.pos = pos])
        <4>1. PICK pos \in {"ok", "failed"} : seat' = [seat EXCEPT ![s] = [seat[s] EXCEPT !.at = "told", !.pos = pos]]
          BY <3>1 DEF Sit
        <4> DEFINE e == [seat[s] EXCEPT !.at = "told"]
        <4>2. e \in SeatRows
          BY <2>1 DEF SeatRows
        <4>3. [e EXCEPT !.pos = pos] \in SeatRows
          <5> HIDE DEF e
          <5> QED BY <4>2 DEF SeatRows
        <4> QED BY <4>1, <4>3 DEF Shape
      <3>2. CASE seat[s].round < SeatRounds /\ Sit(s, [seat[s] EXCEPT !.round = @ + 1])
        <4>1. seat[s].round + 1 \in 0..councilSeatRounds
          BY <2>1, <3>2 DEF SeatRows, SeatRounds, Min2, councilSeatRounds
        <4>2. [seat[s] EXCEPT !.round = @ + 1] \in SeatRows
          BY <2>1, <4>1 DEF SeatRows
        <4> QED BY <3>2, <4>2 DEF Shape, Sit
      <3> QED BY <2>2, <3>1, <3>2 DEF SeatRound
    <2>3. CASE SeatCut(s)
      <3> DEFINE e == [seat[s] EXCEPT !.at = "told"]
      <3>1. e \in SeatRows
        BY <2>1 DEF SeatRows
      <3>2. [e EXCEPT !.pos = "failed"] \in SeatRows
        <4> HIDE DEF e
        <4> QED BY <3>1 DEF SeatRows
      <3>3. seat' = [seat EXCEPT ![s] = [e EXCEPT !.pos = "failed"]]
        BY <2>3 DEF SeatCut, Sit
      <3> HIDE DEF e
      <3> QED BY <3>2, <3>3 DEF Shape
    <2>4. CASE SeatTold(s) \/ SeatReports(s)
      <3>1. \A at \in {"done", "reporting"} : [seat[s] EXCEPT !.at = at] \in SeatRows
        BY <2>1 DEF SeatRows
      <3>2. PICK at \in {"done", "reporting"} : seat' = [seat EXCEPT ![s] = [seat[s] EXCEPT !.at = at]]
        BY <2>4 DEF SeatTold, SeatReports, Sit
      <3> QED BY <3>1, <3>2 DEF Shape
    <2> QED BY <2>2, <2>3, <2>4
  <1>2. pending' \subseteq Seats
    BY DEF SeatRound, SeatCut, SeatTold, SeatReports, Shape, TypeOK
  <1>3. UNCHANGED <<plan, ctx, pc, job, round, call, res, beat, alive, shown, answer>>
    BY DEF SeatRound, SeatCut, SeatTold, SeatReports, Sit
  <1> QED BY <1>1, <1>2, <1>3 DEF Shape, TypeOK, SeatRows

LEMMA ShapeNext == Shape /\ [Next]_vars => Shape'
  <1> SUFFICES ASSUME Shape, [Next]_vars PROVE Shape'
    OBVIOUS
  <1>1. CASE Connected \/ Busy \/ Waited \/ NextModel \/ Delta
    BY <1>1, CallShape
  <1>2. CASE Refused \/ Broken \/ Blocked \/ Cut \/ Ends
    BY <1>2, ReturnShape DEF Refused, Broken, Blocked, Cut, Ends, Results
  <1>3. CASE Gather \/ GatherCut
    BY <1>3, GatherShape
  <1>4. CASE OwnSteps \/ Dug
    BY <1>4, OwnShape
  <1>5. CASE \E s \in Seats : SeatRound(s) \/ SeatCut(s) \/ SeatTold(s) \/ SeatReports(s)
    BY <1>5, SeatShape
  <1>6. CASE BeatStops \/ KeepAliveStops \/ Deadline \/ Leave
    BY <1>6 DEF BeatStops, KeepAliveStops, Deadline, Leave, Shape, TypeOK, council
  <1>7. CASE UNCHANGED vars
    BY <1>7 DEF vars, council, Shape, TypeOK
  <1> QED BY <1>1, <1>2, <1>3, <1>4, <1>5, <1>6, <1>7 DEF Next

-----------------------------------------------------------------------------
(* What the reader sees.                                                   *)

LEMMA ScreenInit == Init => Screen
  BY DEF Init, Screen

\* A call opens on a clean screen, and so it stays clean.
LEMMA OpenedScreen ==
    ASSUME NEW j \in Jobs, Open(j), shown' = <<>>, answer' = None
    PROVE  Screen'
  BY OpenShape DEF Screen

LEMMA CallScreen ==
    ASSUME Shape, Screen, Connected \/ Busy \/ Waited \/ NextModel \/ Delta
    PROVE  Screen'
  <1>0. call \in Calls /\ pc = "call" /\ pc' = "call" /\ answer' = answer
    BY DEF Shape, Connected, Busy, Waited, NextModel, Delta, InCall
  <1>1. CASE Connected \/ Waited
    <2>1. call'.got = call.got
      BY <1>0, <1>1, MovedCall DEF Connected, Waited
    <2> QED BY <1>0, <1>1, <2>1 DEF Screen, Connected, Waited
  <1>2. CASE Busy
    <2>1. call'.got = call.got
      BY <1>0, <1>2, RetriedCall DEF Busy
    <2> QED BY <1>0, <1>2, <2>1 DEF Screen, Busy
  <1>3. CASE NextModel
    <2>1. call'.got = call.got
      BY <1>0, <1>3, NextCall DEF NextModel
    <2> QED BY <1>0, <1>3, <2>1 DEF Screen, NextModel
  <1>4. CASE Delta
    <2>1. call'.got = Append(call.got, Piece(call))
      BY <1>0, <1>4 DEF Delta, Calls
    <2> QED BY <1>0, <1>4, <2>1 DEF Screen, Delta
  <1> QED BY <1>1, <1>2, <1>3, <1>4

\* A call that ends takes back what an agent's round wrote, unless it is the
\* answer.
LEMMA ReturnScreen ==
    ASSUME Shape, Screen, NEW r \in Results, Return(r), pc = "call",
           r = "tools" => job = "agent"
    PROVE  Screen'
  <1>1. call'.got = call.got
    BY MovedCall DEF Shape, Return
  <1> QED BY <1>1 DEF Screen, Return, Retracts, Results

LEMMA CouncilFailedScreen ==
    ASSUME Shape, Screen, CouncilFailed, pc \in {"joined", "turned"}
    PROVE  Screen'
  <1>1. CASE ctx = "live"
    BY <1>1, OpenedScreen DEF CouncilFailed, StartAgent, Screen, Jobs
  <1>2. CASE ctx # "live"
    BY <1>2 DEF CouncilFailed, Fail, Screen
  <1> QED BY <1>1, <1>2

LEMMA OwnScreen ==
    ASSUME Shape, Screen, OwnSteps \/ Dug
    PROVE  Screen'
  <1>1. CASE Choose
    <2>1. CASE Convene \/ Fail
      BY <1>1, <2>1 DEF Choose, Convene, Fail, Screen
    <2>2. CASE StartAgent /\ UNCHANGED <<plan, ctx, council, alive, shown, answer>>
      BY <1>1, <2>2, OpenedScreen DEF Choose, StartAgent, Jobs, Screen
    <2>3. CASE Open("single") /\ UNCHANGED <<plan, ctx, round, council, alive, shown, answer>>
      BY <1>1, <2>3, OpenedScreen DEF Choose, Jobs, Screen
    <2> QED BY <1>1, <2>1, <2>2, <2>3 DEF Choose
  <1>2. CASE Join \/ Joined \/ Finish \/ HandlerReturns
    BY <1>2 DEF Join, Joined, Finish, HandlerReturns, Screen
  <1>3. CASE Synthesise
    <2>1. CASE Open("closing") /\ UNCHANGED <<plan, ctx, round, council, alive, shown, answer>>
      BY <1>3, <2>1, OpenedScreen DEF Synthesise, Jobs, Screen
    <2> QED BY <1>3, <2>1, CouncilFailedScreen DEF Synthesise
  <1>4. CASE AfterSingle \/ AfterFallback
    BY <1>4 DEF AfterSingle, AfterFallback, Turned, Answered, Fail, Screen
  <1>5. CASE AfterClosing
    <2>1. CASE Answered /\ Turned("closing", {"text"})
      BY <2>1 DEF Turned, Answered, Screen
    <2> QED BY <1>5, <2>1, CouncilFailedScreen DEF AfterClosing, Turned
  <1>6. CASE AfterRound
    <2>1. CASE Turned("agent", {"text", "empty", "error"})
      BY <1>6, <2>1 DEF AfterRound, Turned, Answered, Fail, Screen
    <2>2. CASE Turned("agent", {"tools"}) /\ pc' = "digging" /\ UNCHANGED <<shown, answer>>
      BY <2>2 DEF Turned, Screen
    <2>3. CASE Turned("agent", {"tools"}) /\ Open("fallback") /\ UNCHANGED <<shown, answer>>
      BY <2>3, OpenedScreen DEF Turned, Screen, Jobs
    <2> QED BY <1>6, <2>1, <2>2, <2>3 DEF AfterRound, Turned
  <1>7. CASE Dug
    BY <1>7, OpenedScreen DEF Dug, Screen, Jobs
  <1> QED BY <1>1, <1>2, <1>3, <1>4, <1>5, <1>6, <1>7 DEF OwnSteps

LEMMA ScreenNext == Shape /\ Screen /\ [Next]_vars => Screen'
  <1> SUFFICES ASSUME Shape, Screen, [Next]_vars PROVE Screen'
    OBVIOUS
  <1>1. CASE Connected \/ Busy \/ Waited \/ NextModel \/ Delta
    BY <1>1, CallScreen
  <1>2. CASE Refused \/ Broken \/ Blocked \/ Cut \/ Ends
    BY <1>2, ReturnScreen DEF Refused, Broken, Blocked, Cut, Ends, InCall, Results
  <1>3. CASE Gather \/ GatherCut
    BY <1>3 DEF Gather, GatherCut, Fail, Screen
  <1>4. CASE OwnSteps \/ Dug
    BY <1>4, OwnScreen
  <1>5. CASE \E s \in Seats : SeatRound(s) \/ SeatCut(s) \/ SeatTold(s) \/ SeatReports(s)
    BY <1>5 DEF SeatRound, SeatCut, SeatTold, SeatReports, Sit, Screen
  <1>6. CASE BeatStops \/ KeepAliveStops \/ Deadline \/ Leave
    BY <1>6 DEF BeatStops, KeepAliveStops, Deadline, Leave, Screen
  <1>7. CASE UNCHANGED vars
    BY <1>7 DEF vars, Screen
  <1> QED BY <1>1, <1>2, <1>3, <1>4, <1>5, <1>6, <1>7 DEF Next

-----------------------------------------------------------------------------
(* Who else writes.                                                        *)

LEMMA QuietInit == Init => Quiet
  BY DEF Init, Quiet

\* A step of the request goroutine alone, to a place that asks for no more.
LEMMA MovesQuietly ==
    ASSUME Quiet, UNCHANGED <<council, alive>>,
           pc \in {"gather", "choose", "joined", "call", "turned", "digging"},
           \/ pc' \in {"joined", "call", "turned", "digging", "over"}
           \/ pc = "gather" /\ pc' \in {"gather", "choose"}
    PROVE  Quiet'
  BY DEF Quiet, Silent, council

LEMMA CouncilFailedQuiet ==
    ASSUME Quiet, CouncilFailed, pc \in {"joined", "turned"}
    PROVE  Quiet'
  BY MovesQuietly DEF CouncilFailed, StartAgent, Open, Fail

LEMMA OwnQuiet ==
    ASSUME Shape, Quiet, OwnSteps \/ Dug
    PROVE  Quiet'
  <1>1. CASE Choose
    <2>1. CASE Convene
      BY <1>1, <2>1 DEF Choose, Convene, Quiet, Seated, Shape, SeatRows, SeatRounds
    <2>2. CASE Fail \/ (\E j \in Jobs : Open(j) /\ UNCHANGED <<council, alive>>)
      BY <1>1, <2>2, MovesQuietly DEF Choose, Fail, Open
    <2> QED BY <1>1, <2>1, <2>2 DEF Choose, StartAgent, Jobs
  <1>2. CASE Join
    BY <1>2 DEF Join, Quiet, Away, council
  <1>3. CASE Joined
    BY <1>3 DEF Joined, Quiet, Away, Silent, council
  <1>4. CASE Finish \/ HandlerReturns
    BY <1>4 DEF Finish, HandlerReturns, Quiet, Silent, council
  <1>5. CASE Synthesise
    BY <1>5, CouncilFailedQuiet, MovesQuietly DEF Synthesise, Open
  <1>6. CASE AfterSingle \/ AfterFallback
    BY <1>6, MovesQuietly DEF AfterSingle, AfterFallback, Turned, Answered, Fail
  <1>7. CASE AfterClosing
    BY <1>7, CouncilFailedQuiet, MovesQuietly DEF AfterClosing, Turned, Answered
  <1>8. CASE AfterRound
    BY <1>8, MovesQuietly DEF AfterRound, Turned, Answered, Fail, Open
  <1>9. CASE Dug
    BY <1>9, MovesQuietly DEF Dug, Open
  <1> QED BY <1>1, <1>2, <1>3, <1>4, <1>5, <1>6, <1>7, <1>8, <1>9 DEF OwnSteps

LEMMA QuietNext == Shape /\ Quiet /\ [Next]_vars => Quiet'
  <1> SUFFICES ASSUME Shape, Quiet, [Next]_vars PROVE Quiet'
    OBVIOUS
  <1>1. CASE Connected \/ Busy \/ Waited \/ NextModel \/ Delta
    BY <1>1, MovesQuietly DEF Connected, Busy, Waited, NextModel, Delta, InCall
  <1>2. CASE Refused \/ Broken \/ Blocked \/ Cut \/ Ends
    BY <1>2, MovesQuietly DEF Refused, Broken, Blocked, Cut, Ends, Return, InCall
  <1>3. CASE Gather \/ GatherCut
    BY <1>3, MovesQuietly DEF Gather, GatherCut, Fail
  <1>4. CASE OwnSteps \/ Dug
    BY <1>4, OwnQuiet
  <1>5. CASE \E s \in Seats : SeatRound(s) \/ SeatCut(s) \/ SeatTold(s) \/ SeatReports(s)
    <2>1. PICK s \in Seats : seat[s].at \notin {"off", "done"}
                             /\ \A z \in Seats \ {s} : seat'[z] = seat[z]
      BY <1>5 DEF SeatRound, SeatCut, SeatTold, SeatReports, Sit, Shape
    <2>2. UNCHANGED <<plan, pc, beat, alive>>
      BY <1>5 DEF SeatRound, SeatCut, SeatTold, SeatReports, Sit
    <2> QED BY <2>1, <2>2 DEF Quiet, Silent, Away, Seated
  <1>6. CASE BeatStops
    BY <1>6 DEF BeatStops, Quiet, Silent, Away, Seated
  <1>7. CASE KeepAliveStops \/ Deadline \/ Leave
    BY <1>7 DEF KeepAliveStops, Deadline, Leave, Quiet, Silent, Away, Seated, council
  <1>8. CASE UNCHANGED vars
    BY <1>8 DEF vars, council, Quiet, Silent, Away, Seated
  <1> QED BY <1>1, <1>2, <1>3, <1>4, <1>5, <1>6, <1>7, <1>8 DEF Next

-----------------------------------------------------------------------------

\* The variables have the shape they are given, for any bounds: the council's
\* seats keep within the rounds of the plan and a call within its chain.
THEOREM TurnTypeOK == Spec => []TypeOK
  <1>1. Shape => TypeOK
    BY DEF Shape
  <1> QED BY <1>1, ShapeInit, ShapeNext, PTL DEF Spec

\* When a consult succeeds, the reader's screen holds the answer that is stored
\* and nothing else, whatever rounds, models and councils came to nothing before
\* (streamChatTools, streamChat, OnReset).
THEOREM ScreenIsTheAnswer == Spec => []ShownIsAnswer
  <1>1. Screen => ShownIsAnswer
    BY DEF Screen, ShownIsAnswer
  <1> QED BY <1>1, ShapeInit, ShapeNext, ScreenInit, ScreenNext, PTL DEF Spec

\* Nobody of the council writes while the answer streams, and nobody writes at
\* all once the handler has returned (council.go, keepAlive in handler.go).
THEOREM WritersAreGone == Spec => []QuietWriters
  <1>1. Quiet => QuietWriters
    BY DEF Quiet, QuietWriters
  <1> QED BY <1>1, ShapeInit, ShapeNext, QuietInit, QuietNext, PTL DEF Spec

-----------------------------------------------------------------------------
(* Conversations: the inductive invariant.                                 *)

\* Messages that are no longer shown to the model as they are.
Old == 1 .. (Len(said) - KeepRecent)

\* What a turn in flight carries is of messages there are, and every copy of the
\* row it may still write summarizes old ones only.
TurnOK(t) ==
    /\ t.next = "write" <=> t.writes # <<>>
    /\ there => /\ t.known \subseteq DOMAIN said
                /\ t.row.summary \subseteq Old
                /\ \A i \in DOMAIN t.writes : t.writes[i].summary \subseteq Old

Conversation ==
    /\ session \in Row /\ there \in BOOLEAN
    /\ said \in Seq(Message) /\ Len(said) <= MaxMessages
    /\ turn \in [Client -> Turn \cup {Idle}]
    /\ there => session.summary \subseteq Old
    /\ \A c \in Client : turn[c] # Idle => TurnOK(turn[c])

Suggestions == {i \in Answers : said[i].suggests}

Between(j, k) == {i \in Answers : j < i /\ i < k}

\* A turn that has listed the messages and may still suggest.
Listed(t) == t.next \in {"ask", "write", "answer"}

\* Suggestion j is of the tab by[j]: a tab leaves Cooldown answers between two of
\* its own, for it knows of all it made before.
SpacedBy(by) ==
    /\ \A j \in Suggestions : by[j] \in Client
    /\ \A j, k \in Suggestions : j < k /\ by[j] = by[k] => Cooldown <= Cardinality(Between(j, k))
    /\ \A c \in Client : Listed(turn[c]) => \A j \in Suggestions : by[j] = c => j \in turn[c].known

ChatInv == Conversation /\ \E by : SpacedBy(by)

-----------------------------------------------------------------------------
(* Positions.                                                              *)

LEMMA Sizes == KeepRecent \in Nat \ {0} /\ Cooldown \in Nat \ {0} /\ MaxMessages \in Nat \ {0}
  BY ChatAssumption

LEMMA Above ==
    ASSUME NEW n \in Nat, NEW i \in 1 .. n
    PROVE  IsFiniteSet({j \in 1 .. n : j > i}) /\ Cardinality({j \in 1 .. n : j > i}) = n - i
  <1>1. {j \in 1 .. n : j > i} = (i + 1) .. n
    OBVIOUS
  <1>2. IsFiniteSet((i + 1) .. n) /\ Cardinality((i + 1) .. n) = n - i
    BY FS_Interval
  <1> QED BY <1>1, <1>2

\* The most recent messages are not the old ones.
LEMMA RecentNotOld ==
    ASSUME NEW n \in Nat, NEW i \in LastOf(1 .. n, KeepRecent)
    PROVE  i \notin 1 .. (n - KeepRecent)
  <1>1. i \in 1 .. n /\ Cardinality({j \in 1 .. n : j > i}) < KeepRecent
    BY DEF LastOf
  <1>2. n - i < KeepRecent
    BY <1>1, Above
  <1> QED BY <1>1, <1>2, Sizes

\* What is cut off is old, however little of the conversation is known.
LEMMA CutoffIsOld ==
    ASSUME NEW n \in Nat, NEW known \in SUBSET (1 .. n)
    PROVE  Cutoff(known) \subseteq 1 .. (n - KeepRecent)
  <1> SUFFICES ASSUME NEW i \in Cutoff(known) PROVE i \in 1 .. (n - KeepRecent)
    OBVIOUS
  <1>1. i \in 1 .. n /\ ~(Cardinality({j \in known : j > i}) < KeepRecent)
    BY DEF Cutoff, LastOf
  <1>2. {j \in known : j > i} \subseteq {j \in 1 .. n : j > i}
    OBVIOUS
  <1>3. PICK A, B : A = {j \in known : j > i} /\ B = {j \in 1 .. n : j > i}
    OBVIOUS
  <1>4. IsFiniteSet(B) /\ Cardinality(B) = n - i /\ A \subseteq B
    BY <1>1, <1>2, <1>3, Above
  <1>5. IsFiniteSet(A) /\ Cardinality(A) <= n - i
    BY <1>4, FS_Subset
  <1>6. Cardinality(A) \in Nat /\ ~(Cardinality(A) < KeepRecent)
    BY <1>1, <1>3, <1>5, FS_CardinalityType
  <1> QED BY <1>1, <1>5, <1>6, Sizes

LEMMA SaidMore ==
    ASSUME said \in Seq(Message), NEW m \in Message, said' = Append(said, m)
    PROVE  /\ said' \in Seq(Message) /\ Len(said) \in Nat /\ Len(said') = Len(said) + 1
           /\ DOMAIN said = 1 .. Len(said) /\ DOMAIN said' = 1 .. (Len(said) + 1)
           /\ \A i \in DOMAIN said : said'[i] = said[i]
           /\ said'[Len(said) + 1] = m
           /\ Old \subseteq Old'
  <1>1. /\ said' \in Seq(Message) /\ Len(said) \in Nat /\ Len(said') = Len(said) + 1
        /\ DOMAIN said = 1 .. Len(said) /\ DOMAIN said' = 1 .. (Len(said) + 1)
        /\ \A i \in DOMAIN said : said'[i] = said[i]
        /\ said'[Len(said) + 1] = m
    OBVIOUS
  <1>2. Old \subseteq Old'
    BY <1>1, Sizes DEF Old
  <1> QED BY <1>1, <1>2

-----------------------------------------------------------------------------
(* The rows a turn writes.                                                 *)

LEMMA ChosenRow ==
    ASSUME NEW row \in Row, NEW m \in Mode \cup {""}
    PROVE  Chosen(row, m) \in Row /\ Chosen(row, m).summary = row.summary
  BY DEF Chosen, Row, Fields

\* The rows of one summary.
Of(S) == {r \in Row : r.summary = S}

LEMMA NothingToWrite == <<>> \in Seq(Row)
  OBVIOUS

LEMMA CopiesRows ==
    ASSUME NEW row \in Row, NEW m \in Choice, NEW d \in Depth, NEW S, row.summary = S
    PROVE  Copies(row, m, d) \in Seq(Of(S))
  <1> DEFINE titled == [row EXCEPT !.titled = TRUE]
             picked == IF d = "" THEN titled ELSE [titled EXCEPT !.depth = d]
  <1>1. titled \in Of(S)
    BY DEF Of, Row, Fields
  <1>2. picked \in Of(S)
    BY <1>1 DEF Of, Row, Fields
  <1>3. m # "unsaid" => Chosen(picked, m) \in Of(S)
    BY <1>2, ChosenRow DEF Of, Choice
  <1> HIDE DEF titled, picked
  <1>4. PICK T, t, p, h : T = Of(S) /\ t = titled /\ p = picked /\ h = Chosen(picked, m)
    OBVIOUS
  <1>5. PICK a : a = IF row.titled THEN <<>> ELSE <<t>>
    OBVIOUS
  <1>6. PICK b : b = IF p = t THEN <<>> ELSE <<p>>
    OBVIOUS
  <1>7. PICK e : e = IF m = "unsaid" THEN <<>> ELSE <<h>>
    OBVIOUS
  <1>8. Copies(row, m, d) = a \o b \o e
    BY <1>4, <1>5, <1>6, <1>7 DEF Copies, titled, picked
  <1>9. <<>> \in Seq(T)
    OBVIOUS
  <1>10. t \in T /\ p \in T /\ (m # "unsaid" => h \in T)
    BY <1>1, <1>2, <1>3, <1>4
  <1>11. <<t>> \in Seq(T) /\ <<p>> \in Seq(T) /\ (m # "unsaid" => <<h>> \in Seq(T))
    BY <1>10
  <1>12. a \in Seq(T) /\ b \in Seq(T) /\ e \in Seq(T)
    BY <1>5, <1>6, <1>7, <1>9, <1>11
  <1>13. a \o b \o e \in Seq(T)
    BY <1>12
  <1> QED BY <1>4, <1>8, <1>13

\* A turn with nothing left to write asks the model.
LEMMA ReadyTurn ==
    ASSUME NEW t \in Turn, t.next = "write"
    PROVE  /\ Ready(t) \in Turn
           /\ Ready(t).row = t.row /\ Ready(t).writes = t.writes /\ Ready(t).known = t.known
           /\ Ready(t).next \in {"write", "answer"}
           /\ Ready(t).next = "write" <=> t.writes # <<>>
  <1>1. CASE t.writes # <<>>
    BY <1>1 DEF Ready
  <1>2. CASE t.writes = <<>>
    <2>1. Ready(t) = [t EXCEPT !.next = "answer", !.chose = "unsaid", !.depth = ""]
      BY <1>2 DEF Ready
    <2>2. PICK u : u = Ready(t)
      OBVIOUS
    <2>3. u = [next |-> "answer", row |-> t.row, writes |-> t.writes, known |-> t.known,
               chose |-> "unsaid", depth |-> ""]
      BY <2>1, <2>2 DEF Turn
    <2>4. "" \in Depth /\ "unsaid" \in Choice
      BY ChatAssumption DEF Choice
    <2>5. t.row \in Row /\ t.writes \in Seq(Row) /\ t.known \in SUBSET Said
      BY DEF Turn
    <2>6. u \in Turn
      BY <2>3, <2>4, <2>5 DEF Turn
    <2>7. u.row = t.row /\ u.writes = t.writes /\ u.known = t.known /\ u.next = "answer"
      BY <2>3
    <2> QED BY <1>2, <2>2, <2>6, <2>7
  <1> QED BY <1>1, <1>2

\* What is left of a turn that has its answer: a row to write whose summary is
\* of old messages, or nothing.
LEMMA RestTurn ==
    ASSUME NEW t \in Turn, NEW n \in Nat, n <= MaxMessages, t.known \subseteq 1 .. n,
           t.row.summary \subseteq 1 .. (n - KeepRecent), t.writes = <<>>
    PROVE  /\ Rest(t) \in Turn \cup {Idle}
           /\ t.next # "remember" => Rest(t) = Idle \/ Rest(t).next = "summarize"
           /\ t.next = "remember" => Rest(t) = t
           /\ Rest(t) # Idle => /\ Rest(t).writes = <<>>
                                /\ Rest(t).known \subseteq 1 .. n
                                /\ Rest(t).row.summary \subseteq 1 .. (n - KeepRecent)
  <1>1. CASE t.next = "remember" \/ Cutoff(t.known) = {}
    BY <1>1 DEF Rest
  <1>2. CASE t.next # "remember" /\ Cutoff(t.known) # {}
    <2>1. Cutoff(t.known) \subseteq 1 .. (n - KeepRecent)
      BY CutoffIsOld
    <2>2. t.row \in Row /\ t.row.summary \cup Cutoff(t.known) \subseteq Said
      <3>1. t.row \in Row /\ t.row.summary \subseteq Said
        BY DEF Turn, Row, Fields
      <3>2. 1 .. (n - KeepRecent) \subseteq Said
        BY Sizes DEF Said
      <3> QED BY <2>1, <3>1, <3>2
    <2>3. PICK row : row = [t.row EXCEPT !.summary = @ \cup Cutoff(t.known)]
      OBVIOUS
    <2>4. row \in Row /\ row.summary = t.row.summary \cup Cutoff(t.known)
      BY <2>2, <2>3 DEF Row, Fields
    <2>5. Rest(t) = [next |-> "summarize", row |-> row, writes |-> t.writes, known |-> {},
                     chose |-> t.chose, depth |-> t.depth]
      BY <1>2, <2>3 DEF Rest, Turn
    <2> QED BY <1>2, <2>1, <2>4, <2>5 DEF Turn
  <1> QED BY <1>1, <1>2

-----------------------------------------------------------------------------
(* Steps.                                                                  *)

\* A request turns into t, and nothing else changes but what it writes.
LEMMA TurnsInto ==
    ASSUME Conversation, NEW c \in Client, NEW t \in Turn \cup {Idle}, Goes(c, t),
           t # Idle => TurnOK(t), UNCHANGED <<there, said>>,
           session' = session \/ (session' \in Row /\ session'.summary \subseteq Old)
    PROVE  Conversation'
  <1>1. turn' \in [Client -> Turn \cup {Idle}] /\ turn'[c] = t
        /\ \A d \in Client \ {c} : turn'[d] = turn[d]
    BY DEF Goes, Conversation
  <1>2. Old' = Old
    BY DEF Old
  <1>3. ASSUME NEW d \in Client, turn'[d] # Idle PROVE TurnOK(turn[d])'
    <2>1. TurnOK(turn'[d])
      BY <1>1, <1>3 DEF Conversation
    <2>2. PICK u : u = turn'[d]
      OBVIOUS
    <2>3. TurnOK(u) => TurnOK(u)'
      BY <1>2 DEF TurnOK
    <2>4. TurnOK(u) /\ u = turn[d]'
      BY <2>1, <2>2
    <2> QED BY <2>3, <2>4 DEF TurnOK
  <1>4. session' \in Row /\ (there' => session'.summary \subseteq Old')
    BY <1>2 DEF Conversation
  <1> QED BY <1>1, <1>3, <1>4 DEF Conversation

\* Nothing is said, and a turn that listed before or now knows of its suggestions.
LEMMA SpacedTurns ==
    ASSUME NEW by, SpacedBy(by), NEW c \in Client, NEW t, turn \in [Client -> Turn \cup {Idle}],
           Goes(c, t), said' = said,
           Listed(t) => \/ Listed(turn[c]) /\ turn[c].known \subseteq t.known
                        \/ DOMAIN said \subseteq t.known
    PROVE  SpacedBy(by)'
  <1>1. turn'[c] = t /\ \A d \in Client \ {c} : turn'[d] = turn[d]
    BY DEF Goes
  <1>2. Suggestions' = Suggestions /\ Suggestions \subseteq DOMAIN said
        /\ \A j, k : Between(j, k)' = Between(j, k)
    BY DEF Suggestions, Answers, Between
  <1>3. ASSUME NEW d \in Client, Listed(turn'[d]), NEW j \in Suggestions, by[j] = d
        PROVE  j \in turn'[d].known
    BY <1>1, <1>2, <1>3 DEF SpacedBy
  <1>4. \A d \in Client : Listed(turn[d])' => Listed(turn'[d])
    BY DEF Listed
  <1> QED BY <1>2, <1>3, <1>4 DEF SpacedBy, Listed

\* A client that does nothing has not listed.
LEMMA IdleListsNothing == ~Listed(Idle)
  BY DEF Listed, Idle

LEMMA TurnAt ==
    ASSUME Conversation, NEW c \in Client, NEW at, Doing(c, at), at # "nothing"
    PROVE  turn[c] # Idle /\ turn[c] \in Turn /\ TurnOK(turn[c]) /\ turn[c].next = at
  BY DEF Conversation, Doing, Idle

LEMMA WritesNothing ==
    ASSUME NEW t, t.writes = <<>>, t.next # "write",
           there => t.known \subseteq DOMAIN said /\ t.row.summary \subseteq Old
    PROVE  TurnOK(t)
  <1>1. DOMAIN t.writes = {}
    OBVIOUS
  <1> QED BY <1>1 DEF TurnOK

\* The statements before the question and after the answer.
LEMMA SetModeReadInv ==
    ASSUME ChatInv, NEW c \in Client, NEW m \in Mode \cup {""}, SetModeRead(c, m)
    PROVE  ChatInv'
  <1>1. PICK row : row = Chosen(session, m)
    OBVIOUS
  <1>2. row \in Row /\ row.summary = session.summary
    BY <1>1, ChosenRow DEF ChatInv, Conversation
  <1>3. "" \in Depth
    BY ChatAssumption
  <1>4. PICK t : t = [next |-> "setmode", row |-> row, writes |-> <<>>, known |-> {},
                      chose |-> m, depth |-> ""]
    OBVIOUS
  <1>6. t \in Turn
    BY <1>2, <1>3, <1>4, NothingToWrite DEF Turn, Choice
  <1>7. TurnOK(t) /\ ~Listed(t)
    <2>1. /\ t.next = "setmode" /\ t.writes = <<>> /\ t.known = {} /\ t.row = row
      BY <1>4
    <2>2. there => row.summary \subseteq Old
      BY <1>2 DEF ChatInv, Conversation
    <2>3. TurnOK(t)
      BY <2>1, <2>2, WritesNothing
    <2>4. ~Listed(t)
      BY <2>1 DEF Listed
    <2> QED BY <2>3, <2>4
  <1>8. Goes(c, t) /\ UNCHANGED <<session, there, said>>
    BY <1>1, <1>4 DEF SetModeRead
  <1> QED BY <1>6, <1>7, <1>8, TurnsInto, SpacedTurns DEF ChatInv, Conversation

LEMMA SendMessageInv ==
    ASSUME ChatInv, NEW c \in Client, NEW m \in Choice, NEW d \in Depth, SendMessage(c, m, d)
    PROVE  ChatInv'
  <1>1. PICK t : t = [next |-> "list", row |-> session, writes |-> <<>>, known |-> {},
                      chose |-> m, depth |-> d]
    OBVIOUS
  <1>2. session \in Row /\ (there => session.summary \subseteq Old)
    BY DEF ChatInv, Conversation
  <1>3. t \in Turn
    BY <1>1, <1>2, NothingToWrite DEF Turn
  <1>4. TurnOK(t) /\ ~Listed(t)
    <2>1. /\ t.next = "list" /\ t.writes = <<>> /\ t.known = {} /\ t.row = session
      BY <1>1
    <2> QED BY <1>2, <2>1 DEF TurnOK, Listed
  <1>5. Goes(c, t) /\ UNCHANGED <<session, there, said>>
    BY <1>1 DEF SendMessage
  <1> QED BY <1>3, <1>4, <1>5, TurnsInto, SpacedTurns DEF ChatInv, Conversation

LEMMA ListMessagesInv ==
    ASSUME ChatInv, NEW c \in Client, ListMessages(c)
    PROVE  ChatInv'
  <1>1. /\ turn[c] # Idle /\ turn[c] \in Turn /\ TurnOK(turn[c]) /\ turn[c].next = "list"
        /\ turn \in [Client -> Turn \cup {Idle}]
    BY TurnAt DEF ListMessages, ChatInv, Conversation
  <1>2. PICK o : o = turn[c]
    OBVIOUS
  <1>3. PICK t : t = [o EXCEPT !.next = "ask", !.known = DOMAIN said]
    OBVIOUS
  <1>4. DOMAIN said \subseteq Said
    BY Sizes DEF Said, ChatInv, Conversation
  <1>5. t = [next |-> "ask", row |-> o.row, writes |-> o.writes, known |-> DOMAIN said,
             chose |-> o.chose, depth |-> o.depth]
    BY <1>1, <1>2, <1>3 DEF Turn
  <1>6. t \in Turn
    BY <1>1, <1>2, <1>4, <1>5 DEF Turn
  <1>7. TurnOK(t) /\ DOMAIN said \subseteq t.known
    BY <1>1, <1>2, <1>5 DEF TurnOK
  <1>8. Goes(c, t) /\ UNCHANGED <<session, there, said>>
    BY <1>2, <1>3 DEF ListMessages
  <1> QED BY <1>1, <1>6, <1>7, <1>8, TurnsInto, SpacedTurns DEF ChatInv

\* A turn that ends, whether it wrote its row or failed.
LEMMA EndsInv ==
    ASSUME ChatInv, NEW c \in Client, Goes(c, Idle), UNCHANGED <<there, said>>,
           session' = session \/ Written(turn[c].row), turn[c] # Idle
    PROVE  ChatInv'
  <1>1. turn[c] \in Turn /\ TurnOK(turn[c]) /\ turn \in [Client -> Turn \cup {Idle}]
    BY DEF ChatInv, Conversation
  <1>2. session' = session \/ (session' \in Row /\ session'.summary \subseteq Old)
    BY <1>1 DEF Written, Turn, TurnOK
  <1> QED BY <1>1, <1>2, TurnsInto, SpacedTurns, IdleListsNothing DEF ChatInv

LEMMA WriteCopyInv ==
    ASSUME ChatInv, NEW c \in Client, WriteCopy(c)
    PROVE  ChatInv'
  <1>1. PICK o : o = turn[c]
    OBVIOUS
  <1>2. /\ o # Idle /\ o \in Turn /\ TurnOK(o) /\ o.next = "write"
        /\ turn \in [Client -> Turn \cup {Idle}]
    BY <1>1, TurnAt DEF WriteCopy, ChatInv, Conversation
  <1>3. o.writes \in Seq(Row) /\ o.writes # <<>>
    BY <1>2 DEF Turn, TurnOK
  <1>4. PICK row, rest : row = Head(o.writes) /\ rest = Tail(o.writes)
    OBVIOUS
  <1>5. /\ row \in Row /\ row = o.writes[1] /\ 1 \in DOMAIN o.writes
        /\ rest \in Seq(Row)
        /\ \A i \in DOMAIN rest : i + 1 \in DOMAIN o.writes /\ rest[i] = o.writes[i + 1]
    BY <1>3, <1>4
  <1>6. PICK u : u = [o EXCEPT !.row = row, !.writes = rest]
    OBVIOUS
  <1>7. u = [next |-> "write", row |-> row, writes |-> rest, known |-> o.known,
             chose |-> o.chose, depth |-> o.depth]
    BY <1>2, <1>6 DEF Turn
  <1>8. u \in Turn
    BY <1>2, <1>5, <1>7 DEF Turn
  <1>9. there => /\ o.known \subseteq DOMAIN said /\ row.summary \subseteq Old
                 /\ \A i \in DOMAIN rest : rest[i].summary \subseteq Old
    BY <1>2, <1>5 DEF TurnOK
  <1>10. PICK t : t = Ready(u)
    OBVIOUS
  <1>11. /\ t \in Turn /\ t.row = row /\ t.writes = rest /\ t.known = o.known
         /\ t.next \in {"write", "answer"} /\ (t.next = "write" <=> rest # <<>>)
    BY <1>7, <1>8, <1>10, ReadyTurn
  <1>12. TurnOK(t)
    BY <1>9, <1>11 DEF TurnOK
  <1>13. Goes(c, t)
    BY <1>1, <1>4, <1>6, <1>10 DEF WriteCopy
  <1>14. session' = session \/ (session' \in Row /\ session'.summary \subseteq Old)
    BY <1>1, <1>4, <1>5, <1>9 DEF WriteCopy, Written
  <1>15. Listed(turn[c]) /\ turn[c].known \subseteq t.known
    BY <1>1, <1>2, <1>11 DEF Listed
  <1>16. UNCHANGED <<there, said>>
    BY DEF WriteCopy
  <1> QED BY <1>2, <1>11, <1>12, <1>13, <1>14, <1>15, <1>16, TurnsInto, SpacedTurns DEF ChatInv

-----------------------------------------------------------------------------
(* Saying something.                                                       *)

\* A message is said and c's request turns into t.
LEMMA Says ==
    ASSUME Conversation, there, NEW c \in Client, NEW m \in Message, NEW t \in Turn \cup {Idle},
           Len(said) < MaxMessages, said' = Append(said, m), Goes(c, t),
           t # Idle => TurnOK(t)', UNCHANGED <<there, session>>
    PROVE  Conversation'
  <1>1. /\ turn' \in [Client -> Turn \cup {Idle}] /\ turn'[c] = t
        /\ \A d \in Client \ {c} : turn'[d] = turn[d]
    BY DEF Goes, Conversation
  <1>2. /\ said' \in Seq(Message) /\ Len(said') <= MaxMessages
        /\ Old \subseteq Old' /\ DOMAIN said \subseteq DOMAIN said'
    BY SaidMore, Sizes DEF Conversation
  <1>3. ASSUME NEW d \in Client, turn'[d] # Idle PROVE TurnOK(turn[d])'
    <2>1. CASE d = c
      BY <1>1, <1>3, <2>1 DEF TurnOK
    <2>2. CASE d # c
      <3>1. PICK u : u = turn[d] /\ u = turn'[d] /\ TurnOK(u)
        BY <1>1, <1>3, <2>2 DEF Conversation
      <3>2. TurnOK(u)'
        BY <1>2, <3>1 DEF TurnOK
      <3> QED BY <3>1, <3>2 DEF TurnOK
    <2> QED BY <2>1, <2>2
  <1>4. session' \in Row /\ (there' => session'.summary \subseteq Old')
    BY <1>2 DEF Conversation
  <1> QED BY <1>1, <1>2, <1>3, <1>4 DEF Conversation

LEMMA StoreQuestionInv ==
    ASSUME ChatInv, NEW c \in Client, StoreQuestion(c)
    PROVE  ChatInv'
  <1>1. PICK o : o = turn[c]
    OBVIOUS
  <1>2. /\ o # Idle /\ o \in Turn /\ TurnOK(o) /\ o.next = "ask"
        /\ turn \in [Client -> Turn \cup {Idle}] /\ said \in Seq(Message)
    BY <1>1, TurnAt DEF StoreQuestion, ChatInv, Conversation
  <1>3. PICK writes : writes = Copies(o.row, o.chose, o.depth)
    OBVIOUS
  <1>4. writes \in Seq(Of(o.row.summary)) /\ o.row \in Row
    BY <1>2, <1>3, CopiesRows DEF Turn
  <1>5. writes \in Seq(Row) /\ \A i \in DOMAIN writes : writes[i].summary = o.row.summary
    BY <1>4 DEF Of
  <1>6. PICK known : known = o.known \cup {Len(said) + 1}
    OBVIOUS
  <1>7. PICK m : m = [role |-> "user", mode |-> "", suggests |-> FALSE]
    OBVIOUS
  <1>8. m \in Message
    BY <1>7 DEF Message
  <1>9. there /\ Len(said) < MaxMessages /\ said' = Append(said, m)
    BY <1>7 DEF StoreQuestion, Stored
  <1>10. /\ Len(said) \in Nat /\ DOMAIN said = 1 .. Len(said)
         /\ DOMAIN said' = 1 .. (Len(said) + 1)
         /\ \A i \in DOMAIN said : said'[i] = said[i]
         /\ said'[Len(said) + 1] = m /\ Old \subseteq Old'
    BY <1>2, <1>8, <1>9, SaidMore
  <1>11. known \subseteq DOMAIN said' /\ known \subseteq Said
    BY <1>2, <1>6, <1>9, <1>10, Sizes DEF TurnOK, Said
  <1>12. PICK u : u = [o EXCEPT !.next = "write", !.writes = writes, !.known = known]
    OBVIOUS
  <1>13. u = [next |-> "write", row |-> o.row, writes |-> writes, known |-> known,
              chose |-> o.chose, depth |-> o.depth]
    BY <1>2, <1>12 DEF Turn
  <1>14. u \in Turn
    BY <1>2, <1>5, <1>11, <1>13 DEF Turn
  <1>15. PICK t : t = Ready(u)
    OBVIOUS
  <1>16. /\ t \in Turn /\ t.row = o.row /\ t.writes = writes /\ t.known = known
         /\ t.next \in {"write", "answer"} /\ (t.next = "write" <=> writes # <<>>)
    BY <1>13, <1>14, <1>15, ReadyTurn
  <1>17. there' = there /\ session' = session /\ Goes(c, t)
    BY <1>1, <1>3, <1>6, <1>12, <1>15 DEF StoreQuestion
  <1>18. o.row.summary \subseteq Old'
    BY <1>2, <1>9, <1>10 DEF TurnOK
  <1>19. TurnOK(t)'
    BY <1>5, <1>11, <1>16, <1>18 DEF TurnOK
  <1>20. Conversation'
    BY <1>8, <1>9, <1>16, <1>17, <1>19, Says DEF ChatInv
  <1>21. PICK by : SpacedBy(by)
    BY DEF ChatInv
  <1>22. /\ turn'[c] = t /\ \A d \in Client \ {c} : turn'[d] = turn[d]
    BY <1>2, <1>17 DEF Goes
  <1>23. Answers' = Answers
    <2>1. m.role # "assistant"
      BY <1>7
    <2>2. \A i \in DOMAIN said' : i \in DOMAIN said \/ i = Len(said) + 1
      BY <1>10
    <2>3. DOMAIN said \subseteq DOMAIN said'
      BY <1>10
    <2> QED BY <1>10, <2>1, <2>2, <2>3 DEF Answers
  <1>24. /\ Suggestions' = Suggestions /\ Suggestions \subseteq DOMAIN said
         /\ \A j, k : Between(j, k)' = Between(j, k)
    BY <1>10, <1>23 DEF Suggestions, Between, Answers
  <1>25. ASSUME NEW d \in Client, Listed(turn'[d]), NEW j \in Suggestions, by[j] = d
         PROVE  j \in turn'[d].known
    <2>1. CASE d = c
      BY <1>1, <1>2, <1>6, <1>16, <1>21, <1>22, <1>25, <2>1 DEF SpacedBy, Listed
    <2>2. CASE d # c
      BY <1>21, <1>22, <1>25, <2>2 DEF SpacedBy
    <2> QED BY <2>1, <2>2
  <1>26. \A d \in Client : Listed(turn[d])' => Listed(turn'[d])
    BY DEF Listed
  <1>27. SpacedBy(by)'
    BY <1>21, <1>24, <1>25, <1>26 DEF SpacedBy, Listed
  <1> QED BY <1>20, <1>27 DEF ChatInv

\* Of the answers above j that are known, there are as many among all of them.
LEMMA KnownBetween ==
    ASSUME said \in Seq(Message), NEW n \in Nat, NEW j \in 1 .. n,
           NEW A, NEW B, A \subseteq B, B \subseteq 1 .. n,
           ~(Cardinality({k \in A : k > j}) < Cooldown)
    PROVE  Cooldown <= Cardinality({k \in B : j < k})
  <1>1. PICK S, T, V : S = {k \in A : k > j} /\ T = {k \in B : j < k} /\ V = 1 .. n
    OBVIOUS
  <1>2. S \subseteq T /\ T \subseteq V
    BY <1>1
  <1>3. IsFiniteSet(V)
    BY <1>1, FS_Interval
  <1>4. IsFiniteSet(T)
    BY <1>2, <1>3, FS_Subset
  <1>5. IsFiniteSet(S) /\ Cardinality(S) <= Cardinality(T)
    BY <1>2, <1>4, FS_Subset
  <1>6. Cardinality(S) \in Nat /\ Cardinality(T) \in Nat
    BY <1>4, <1>5, FS_CardinalityType
  <1>7. Cooldown <= Cardinality(T)
    BY <1>1, <1>5, <1>6, Sizes
  <1> QED BY <1>1, <1>7

\* An answer is said by c, which suggests only if it knows of none lately: the
\* suggestions stay spaced, and the new one is of c.
LEMMA SpacedAnswer ==
    ASSUME NEW by, SpacedBy(by), NEW c \in Client, NEW t, turn \in [Client -> Turn \cup {Idle}],
           said \in Seq(Message), Goes(c, t), ~Listed(t), NEW m \in Message, m.role = "assistant",
           said' = Append(said, m), Listed(turn[c]), turn[c].known \subseteq DOMAIN said,
           m.suggests => ~suggestedRecently(turn[c].known)
    PROVE  \E w : SpacedBy(w)'
  <1>0. PICK n : n = Len(said)
    OBVIOUS
  <1>1. /\ n \in Nat /\ DOMAIN said = 1 .. n /\ DOMAIN said' = 1 .. (n + 1)
        /\ \A i \in DOMAIN said : said'[i] = said[i]
        /\ said'[n + 1] = m
    BY <1>0, SaidMore
  <1>2. turn'[c] = t /\ \A d \in Client \ {c} : turn'[d] = turn[d]
    BY DEF Goes
  <1>3. Answers \subseteq 1 .. n /\ Suggestions \subseteq Answers
    BY <1>1 DEF Answers, Suggestions
  <1>4. Answers' = Answers \cup {n + 1}
    BY <1>1 DEF Answers
  <1>5. Suggestions' = IF m.suggests THEN Suggestions \cup {n + 1} ELSE Suggestions
    BY <1>1, <1>3, <1>4 DEF Suggestions, Message
  <1>6. PICK w : /\ w[n + 1] = c
                 /\ \A j \in Suggestions : w[j] = by[j] /\ j \in 1 .. n
    <2> DEFINE f == [j \in 1 .. (n + 1) |-> IF j = n + 1 THEN c ELSE by[j]]
    <2>1. f[n + 1] = c /\ \A j \in Suggestions : f[j] = by[j] /\ j \in 1 .. n
      BY <1>1, <1>3
    <2> HIDE DEF f
    <2> QED BY <2>1
  <1>7. \A j \in Suggestions' : w[j] \in Client
    BY <1>5, <1>6 DEF SpacedBy
  <1>8. ASSUME NEW j \in Suggestions', NEW k \in Suggestions', j < k, w[j] = w[k]
        PROVE  Cooldown <= Cardinality(Between(j, k)')
    <2>1. CASE k \in Suggestions
      <3>1. j \in Suggestions /\ by[j] = by[k]
        BY <1>1, <1>5, <1>6, <1>8, <2>1
      <3>2. Between(j, k)' = Between(j, k)
        BY <1>1, <1>4, <1>6, <2>1, <3>1 DEF Between
      <3> QED BY <1>8, <2>1, <3>1, <3>2 DEF SpacedBy
    <2>2. CASE k \notin Suggestions
      <3>1. k = n + 1 /\ m.suggests
        BY <1>5, <1>8, <2>2
      <3>2. j \in Suggestions /\ j \in 1 .. n
        BY <1>1, <1>5, <1>6, <1>8, <3>1
      <3>3. by[j] = c
        BY <1>6, <1>8, <3>1, <3>2
      <3>4. j \in turn[c].known
        BY <3>2, <3>3 DEF SpacedBy
      <3>5. PICK A : A = {i \in turn[c].known : said[i].role = "assistant"}
        OBVIOUS
      <3>6. A \subseteq Answers /\ j \in A
        BY <1>3, <3>2, <3>4, <3>5 DEF Answers
      <3>7. j \notin LastOf(A, Cooldown)
        BY <3>1, <3>2, <3>5 DEF suggestedRecently, RecentAnswers, Suggestions
      <3>8. ~(Cardinality({i \in A : i > j}) < Cooldown)
        BY <3>6, <3>7 DEF LastOf
      <3>9. Cooldown <= Cardinality({i \in Answers : j < i})
        BY <1>1, <1>3, <3>2, <3>6, <3>8, KnownBetween
      <3>10. Between(j, k)' = {i \in Answers : j < i}
        <4>1. \A i \in Answers : i \in Answers' /\ i < k
          BY <1>1, <1>3, <1>4, <3>1
        <4>2. ASSUME NEW i \in Answers', i < k PROVE i \in Answers
          BY <1>1, <1>4, <3>1, <4>2
        <4>3. Between(j, k)' = {i \in Answers' : j < i /\ i < k}
          BY DEF Between
        <4> QED BY <4>1, <4>2, <4>3
      <3> QED BY <3>9, <3>10
    <2> QED BY <2>1, <2>2
  <1>9. ASSUME NEW d \in Client, Listed(turn'[d]), NEW j \in Suggestions', w[j] = d
        PROVE  j \in turn'[d].known
    <2>1. d # c
      BY <1>2, <1>9
    <2>2. j \in Suggestions /\ by[j] = d
      BY <1>5, <1>6, <1>9, <2>1
    <2> QED BY <1>2, <1>9, <2>1, <2>2 DEF SpacedBy
  <1>10. \A d \in Client : Listed(turn[d])' => Listed(turn'[d])
    BY DEF Listed
  <1>11. SpacedBy(w)'
    BY <1>7, <1>8, <1>9, <1>10 DEF SpacedBy
  <1> QED BY <1>11

LEMMA StoreAnswerInv ==
    ASSUME ChatInv, NEW c \in Client, NEW m \in Mode, NEW suggests \in BOOLEAN,
           StoreAnswer(c, m, suggests)
    PROVE  ChatInv'
  <1>1. PICK o : o = turn[c]
    OBVIOUS
  <1>2. /\ o # Idle /\ o \in Turn /\ TurnOK(o) /\ o.next = "answer"
        /\ turn \in [Client -> Turn \cup {Idle}] /\ said \in Seq(Message)
    BY <1>1, TurnAt DEF StoreAnswer, ChatInv, Conversation
  <1>3. PICK g : g = [role |-> "assistant", mode |-> m, suggests |-> suggests]
    OBVIOUS
  <1>4. g \in Message /\ g.role = "assistant" /\ g.suggests = suggests
    BY <1>3 DEF Message
  <1>5. /\ there /\ Len(said) < MaxMessages /\ said' = Append(said, g)
        /\ UNCHANGED <<session, there>>
        /\ suggests => ~suggestedRecently(o.known)
    BY <1>1, <1>3 DEF StoreAnswer, Stored
  <1>6. PICK n : n = Len(said) + 1
    OBVIOUS
  <1>7. /\ n \in Nat /\ n <= MaxMessages /\ Len(said') = n
        /\ DOMAIN said = 1 .. (n - 1) /\ DOMAIN said' = 1 .. n
        /\ Old \subseteq Old'
    BY <1>2, <1>4, <1>5, <1>6, SaidMore, Sizes
  <1>8. PICK known, moved : known = o.known \cup {n} /\ moved = (~o.row.locked /\ m # o.row.mode)
    OBVIOUS
  <1>9. known \subseteq 1 .. n /\ known \subseteq Said
    BY <1>2, <1>5, <1>7, <1>8, Sizes DEF TurnOK, Said
  <1>10. PICK row : row = [o.row EXCEPT !.mode = IF moved THEN m ELSE @]
    OBVIOUS
  <1>11. row \in Row /\ row.summary = o.row.summary
    <2>1. o.row \in Row
      BY <1>2 DEF Turn
    <2> QED BY <1>8, <1>10, <2>1, ChatAssumption DEF Row, Fields
  <1>12. PICK u : u = [o EXCEPT !.known = known, !.next = IF moved THEN "remember" ELSE @,
                                !.row.mode = IF moved THEN m ELSE @]
    OBVIOUS
  <1>13. u = [next |-> IF moved THEN "remember" ELSE "answer", row |-> row,
              writes |-> o.writes, known |-> known, chose |-> o.chose, depth |-> o.depth]
    BY <1>2, <1>10, <1>12 DEF Turn
  <1>14. u \in Turn /\ u.writes = <<>>
    <2>1. o.writes = <<>> /\ o.writes \in Seq(Row) /\ o.chose \in Choice /\ o.depth \in Depth
      BY <1>2 DEF TurnOK, Turn
    <2> QED BY <1>9, <1>11, <1>13, <2>1 DEF Turn
  <1>15. /\ u.known = known /\ u.row = row
         /\ u.next = (IF moved THEN "remember" ELSE "answer")
    BY <1>13
  <1>16. row.summary \subseteq 1 .. (n - KeepRecent)
    BY <1>2, <1>5, <1>6, <1>7, <1>11 DEF TurnOK, Old
  <1>17. PICK t : t = Rest(u)
    OBVIOUS
  <1>18. /\ t \in Turn \cup {Idle}
         /\ t = Idle \/ t.next \in {"summarize", "remember"}
         /\ t # Idle => /\ t.writes = <<>> /\ t.known \subseteq 1 .. n
                        /\ t.row.summary \subseteq 1 .. (n - KeepRecent)
    <2>1. /\ t \in Turn \cup {Idle}
          /\ u.next # "remember" => t = Idle \/ t.next = "summarize"
          /\ u.next = "remember" => t = u
          /\ t # Idle => /\ t.writes = <<>> /\ t.known \subseteq 1 .. n
                         /\ t.row.summary \subseteq 1 .. (n - KeepRecent)
      BY <1>7, <1>9, <1>14, <1>15, <1>16, <1>17, RestTurn
    <2> QED BY <2>1
  <1>19. Goes(c, t)
    BY <1>1, <1>6, <1>8, <1>12, <1>17 DEF StoreAnswer
  <1>20. t # Idle => TurnOK(t)'
    <2>1. Old' = 1 .. (n - KeepRecent)
      BY <1>7 DEF Old
    <2>2. ASSUME t # Idle PROVE TurnOK(t)'
      <3>1. t.writes = <<>> /\ DOMAIN t.writes = {} /\ t.next # "write"
        BY <1>18, <2>2
      <3>2. t.known \subseteq DOMAIN said' /\ t.row.summary \subseteq Old'
        BY <1>7, <1>18, <2>1, <2>2
      <3> QED BY <3>1, <3>2 DEF TurnOK
    <2> QED BY <2>2
  <1>21. Conversation'
    BY <1>4, <1>5, <1>18, <1>19, <1>20, Says DEF ChatInv
  <1>22. ~Listed(t)
    BY <1>18 DEF Listed, Idle
  <1>23. Listed(turn[c]) /\ turn[c].known \subseteq DOMAIN said
    BY <1>1, <1>2, <1>5 DEF Listed, TurnOK
  <1>24. g.suggests => ~suggestedRecently(turn[c].known)
    BY <1>1, <1>4, <1>5
  <1>25. PICK by : SpacedBy(by)
    BY DEF ChatInv
  <1>26. \E w : SpacedBy(w)'
    BY <1>2, <1>4, <1>5, <1>19, <1>22, <1>23, <1>24, <1>25, SpacedAnswer
  <1>27. PICK w : SpacedBy(w)'
    BY <1>26
  <1>28. (\E v : SpacedBy(v))'
    BY <1>27
  <1> QED BY <1>21, <1>28 DEF ChatInv

LEMMA RememberModeInv ==
    ASSUME ChatInv, NEW c \in Client, RememberMode(c)
    PROVE  ChatInv'
  <1>1. PICK o : o = turn[c]
    OBVIOUS
  <1>2. /\ o # Idle /\ o \in Turn /\ TurnOK(o) /\ o.next = "remember"
        /\ turn \in [Client -> Turn \cup {Idle}] /\ said \in Seq(Message)
        /\ Len(said) <= MaxMessages
    BY <1>1, TurnAt DEF RememberMode, ChatInv, Conversation
  <1>3. PICK u : u = [o EXCEPT !.next = "summarize"]
    OBVIOUS
  <1>4. u = [next |-> "summarize", row |-> o.row, writes |-> o.writes, known |-> o.known,
             chose |-> o.chose, depth |-> o.depth]
    BY <1>2, <1>3 DEF Turn
  <1>5. u \in Turn /\ u.writes = <<>> /\ u.known = o.known /\ u.row = o.row /\ u.next = "summarize"
    BY <1>2, <1>4 DEF Turn, TurnOK
  <1>6. PICK t : t = Rest(u)
    OBVIOUS
  <1>7. Goes(c, t) /\ UNCHANGED <<there, said>>
    BY <1>1, <1>3, <1>6 DEF RememberMode
  <1>8. PICK n : n = Len(said)
    OBVIOUS
  <1>9. n \in Nat /\ n <= MaxMessages /\ DOMAIN said = 1 .. n /\ Old = 1 .. (n - KeepRecent)
    BY <1>2, <1>8 DEF Old
  <1>10. session' = session \/ (session' \in Row /\ session'.summary \subseteq Old)
    BY <1>1, <1>2 DEF RememberMode, Written, Turn, TurnOK
  <1>11. ~Listed(t) /\ t \in Turn \cup {Idle}
    <2>1. CASE Cutoff(u.known) = {}
      BY <1>5, <1>6, <2>1, IdleListsNothing DEF Rest
    <2>2. CASE Cutoff(u.known) # {}
      <3>1. PICK row : row = [u.row EXCEPT !.summary = @ \cup Cutoff(u.known)]
        OBVIOUS
      <3>2. u.row \in Row /\ u.known \subseteq Said /\ Cutoff(u.known) \subseteq u.known
        BY <1>5 DEF Turn, Cutoff
      <3>3. row \in Row
        BY <3>1, <3>2 DEF Row, Fields
      <3>4. t = [next |-> "summarize", row |-> row, writes |-> u.writes, known |-> {},
                 chose |-> u.chose, depth |-> u.depth]
        BY <1>5, <1>6, <2>2, <3>1 DEF Rest, Turn
      <3>5. t \in Turn
        BY <1>5, <3>3, <3>4 DEF Turn
      <3> QED BY <3>4, <3>5 DEF Listed
    <2> QED BY <2>1, <2>2
  <1>12. t # Idle => TurnOK(t)
    <2>1. CASE there
      <3>1. /\ t # Idle => /\ t.writes = <<>> /\ t.known \subseteq 1 .. n
                           /\ t.row.summary \subseteq 1 .. (n - KeepRecent)
            /\ t = Idle \/ t.next = "summarize"
        BY <1>2, <1>5, <1>6, <1>9, <2>1, RestTurn DEF TurnOK
      <3> QED BY <1>9, <3>1, WritesNothing
    <2>2. CASE ~there
      <3>1. t # Idle => t.writes = <<>> /\ t.next = "summarize"
        BY <1>5, <1>6 DEF Rest, Turn
      <3> QED BY <2>2, <3>1, WritesNothing
    <2> QED BY <2>1, <2>2
  <1>13. Conversation'
    BY <1>7, <1>10, <1>11, <1>12, TurnsInto DEF ChatInv
  <1>14. PICK by : SpacedBy(by)
    BY DEF ChatInv
  <1>15. SpacedBy(by)'
    BY <1>2, <1>7, <1>11, <1>14, SpacedTurns
  <1> QED BY <1>13, <1>15 DEF ChatInv

\* With the session go its messages, and what the turns in flight know of them.
LEMMA DeleteSessionInv ==
    ASSUME ChatInv, DeleteSession
    PROVE  ChatInv'
  <1>1. ~there' /\ said' = <<>> /\ session' = session /\ turn' = turn
    BY DEF DeleteSession
  <1>2. said' \in Seq(Message) /\ Len(said') = 0 /\ DOMAIN said' = {}
    BY <1>1
  <1>3. ASSUME NEW c \in Client, turn'[c] # Idle PROVE TurnOK(turn[c])'
    <2>1. TurnOK(turn[c])
      BY <1>1, <1>3 DEF ChatInv, Conversation
    <2> QED BY <1>1, <2>1 DEF TurnOK
  <1>4. /\ session' \in Row /\ there' \in BOOLEAN
        /\ turn' \in [Client -> Turn \cup {Idle}] /\ Len(said') <= MaxMessages
    <2>1. there' = FALSE /\ Len(said') <= MaxMessages
      BY <1>2, Sizes DEF DeleteSession
    <2> QED BY <1>1, <2>1 DEF ChatInv, Conversation
  <1>5. Conversation'
    BY <1>1, <1>2, <1>3, <1>4 DEF Conversation
  <1>6. Suggestions' = {}
    BY <1>2 DEF Suggestions, Answers
  <1>7. PICK by : SpacedBy(by)
    BY DEF ChatInv
  <1>8. SpacedBy(by)'
    BY <1>6 DEF SpacedBy
  <1> QED BY <1>5, <1>8 DEF ChatInv

LEMMA ChatInitInv == ASSUME ChatInit PROVE ChatInv
  <1>1. "" \in Depth
    BY ChatAssumption
  <1>4. said \in Seq(Message) /\ Len(said) \in 0 .. 1 /\ \A i \in DOMAIN said : ~said[i].suggests
    <2>1. said = <<>> => said \in Seq(Message) /\ Len(said) \in 0 .. 1 /\ DOMAIN said = {}
      OBVIOUS
    <2>2. (\E m \in Mode : said = <<[role |-> "assistant", mode |-> m, suggests |-> FALSE]>>)
            => /\ said \in Seq(Message) /\ Len(said) \in 0 .. 1
               /\ \A i \in DOMAIN said : ~said[i].suggests
      <3>1. SUFFICES ASSUME NEW m \in Mode,
                            said = <<[role |-> "assistant", mode |-> m, suggests |-> FALSE]>>
                     PROVE  /\ said \in Seq(Message) /\ Len(said) \in 0 .. 1
                            /\ \A i \in DOMAIN said : ~said[i].suggests
        OBVIOUS
      <3>2. PICK g : g = [role |-> "assistant", mode |-> m, suggests |-> FALSE]
        OBVIOUS
      <3>3. g \in Message /\ ~g.suggests /\ said = <<g>>
        BY <3>1, <3>2 DEF Message
      <3> QED BY <3>3
    <2> QED BY <2>1, <2>2 DEF ChatInit
  <1>5. session \in Row /\ session.summary = {}
    <2>1. \E t \in BOOLEAN, m \in Mode \cup {""} :
            session = [titled |-> t, depth |-> "", mode |-> m, locked |-> FALSE, summary |-> {}]
      BY DEF ChatInit
    <2>2. PICK t \in BOOLEAN, m \in Mode \cup {""} :
            session = [titled |-> t, depth |-> "", mode |-> m, locked |-> FALSE, summary |-> {}]
      BY <2>1
    <2> QED BY <1>1, <2>2 DEF Row, Fields
  <1>6. there \in BOOLEAN /\ turn = [c \in Client |-> Idle] /\ Len(said) <= MaxMessages
    <2>1. there = TRUE /\ turn = [c \in Client |-> Idle]
      BY DEF ChatInit
    <2>2. Len(said) <= MaxMessages
      <3>1. MaxMessages \in Nat /\ 1 <= MaxMessages
        BY Sizes
      <3> QED BY <1>4, <3>1
    <2> QED BY <2>1, <2>2
  <1>7. Conversation
    BY <1>4, <1>5, <1>6 DEF Conversation
  <1>8. Suggestions = {}
    BY <1>4 DEF Suggestions, Answers
  <1>9. SpacedBy(<<>>)
    BY <1>8 DEF SpacedBy
  <1> QED BY <1>7, <1>9 DEF ChatInv

LEMMA ChatNextInv == ASSUME ChatInv, [ChatNext]_chatVars PROVE ChatInv'
  <1>1. CASE UNCHANGED chatVars
    <2>1. Conversation'
      BY <1>1 DEF chatVars, ChatInv, Conversation, TurnOK, Old
    <2>2. PICK by : SpacedBy(by)
      BY DEF ChatInv
    <2>3. SpacedBy(by)'
      BY <1>1, <2>2 DEF chatVars, SpacedBy, Suggestions, Answers, Between, Listed
    <2> QED BY <2>1, <2>3 DEF ChatInv
  <1>2. ASSUME NEW c \in Client, SetModeWrite(c) \/ Summarize(c)
        PROVE  ChatInv'
    <2>1. turn[c] # Idle
      BY <1>2 DEF SetModeWrite, Summarize, Doing, Idle
    <2>2. Goes(c, Idle) /\ UNCHANGED <<there, said>> /\ Written(turn[c].row)
      BY <1>2 DEF SetModeWrite, Summarize
    <2> QED BY <2>1, <2>2, EndsInv
  <1>3. ASSUME NEW c \in Client, TurnFails(c)
        PROVE  ChatInv'
    BY <1>3, EndsInv DEF TurnFails
  <1>4. CASE DeleteSession
    BY <1>4, DeleteSessionInv
  <1>5. ASSUME NEW c \in Client,
               \/ \E m \in Mode \cup {""} : SetModeRead(c, m)
               \/ \E m \in Choice, d \in Depth : SendMessage(c, m, d)
               \/ ListMessages(c)
               \/ StoreQuestion(c)
               \/ WriteCopy(c)
               \/ \E m \in Mode, s \in BOOLEAN : StoreAnswer(c, m, s)
               \/ RememberMode(c)
        PROVE  ChatInv'
    BY <1>5, SetModeReadInv, SendMessageInv, ListMessagesInv, StoreQuestionInv, WriteCopyInv,
       StoreAnswerInv, RememberModeInv
  <1> QED BY <1>1, <1>2, <1>3, <1>4, <1>5 DEF ChatNext

-----------------------------------------------------------------------------
(* What follows for conversations.                                         *)

\* No window of answers holds two suggestions of one tab.
LEMMA SpacedWindow ==
    ASSUME Conversation, NEW by, SpacedBy(by), NEW i \in Answers
    PROVE  Cardinality({j \in LastOf({k \in Answers : k <= i}, Cooldown + 1) : said[j].suggests})
              <= Cardinality(Client)
  <1>0. PICK A, S : /\ A = {k \in Answers : k <= i}
                    /\ S = {j \in LastOf(A, Cooldown + 1) : said[j].suggests}
    OBVIOUS
  <1> DEFINE f == [j \in S |-> by[j]]
  <1>1. Answers \subseteq 1 .. Len(said) /\ Len(said) \in Nat
    BY DEF Answers, Conversation
  <1>2. S \subseteq Suggestions /\ S \subseteq A /\ A \subseteq Answers
    BY <1>0 DEF LastOf, Suggestions
  <1>3. ASSUME NEW j \in S, NEW k \in S, j < k, by[j] = by[k]
        PROVE  FALSE
    <2>1. Cooldown <= Cardinality(Between(j, k))
      BY <1>2, <1>3 DEF SpacedBy
    <2>2. PICK B, D, V : B = Between(j, k) /\ D = {a \in A : a > j} /\ V = 1 .. Len(said)
      OBVIOUS
    <2>3. Cardinality(D) < Cooldown + 1
      BY <1>0, <2>2 DEF LastOf
    <2>4. B \cup {k} \subseteq D /\ k \notin B /\ D \subseteq V
      <3>1. k \in A /\ A \subseteq Answers /\ i \in Int /\ k \in Int /\ k <= i
        BY <1>0, <1>1, <1>2
      <3>2. \A a \in B : a \in Answers /\ a \in Int /\ j < a /\ a < k
        BY <1>1, <2>2 DEF Between
      <3>3. j \in Int
        BY <1>1, <1>2
      <3>4. B \subseteq D
        BY <1>0, <2>2, <3>1, <3>2, <3>3
      <3>5. k \in D /\ k \notin B
        BY <1>3, <2>2, <3>1, <3>2, <3>3
      <3> QED BY <1>1, <2>2, <3>1, <3>4, <3>5
    <2>5. IsFiniteSet(V)
      BY <1>1, <2>2, FS_Interval
    <2>6. IsFiniteSet(D)
      BY <2>4, <2>5, FS_Subset
    <2>7. IsFiniteSet(B)
      BY <2>4, <2>6, FS_Subset
    <2>8. IsFiniteSet(B \cup {k}) /\ Cardinality(B \cup {k}) = Cardinality(B) + 1
      BY <2>4, <2>7, FS_AddElement
    <2>9. Cardinality(B \cup {k}) <= Cardinality(D)
      BY <2>4, <2>6, FS_Subset
    <2>10. Cardinality(B) \in Nat /\ Cardinality(D) \in Nat /\ Cooldown <= Cardinality(B)
      BY <2>1, <2>2, <2>6, <2>7, FS_CardinalityType
    <2> QED BY <2>3, <2>8, <2>9, <2>10, Sizes
  <1>4. f \in [S -> Client]
    BY <1>2 DEF SpacedBy
  <1>5. \A j, k \in S : f[j] = f[k] => j = k
    <2>1. \A j \in S : j \in Int
      <3>1. S \subseteq Answers
        BY <1>2
      <3> QED BY <1>1, <3>1
    <2>2. \A j, k \in S : f[j] = f[k] => by[j] = by[k]
      OBVIOUS
    <2> QED BY <1>3, <2>1, <2>2
  <1> HIDE DEF f
  <1>6. f \in Injection(S, Client)
    BY <1>4, <1>5 DEF Injection, IsInjective
  <1>7. IsFiniteSet(Client)
    BY ChatAssumption
  <1>8. Cardinality(S) <= Cardinality(Client)
    BY <1>6, <1>7, FS_Injection
  <1> QED BY <1>0, <1>8

\* The row, the messages and the turns keep to their types, for any tabs, modes
\* and depths.
THEOREM ConversationTypeOK == ChatSpec => []ChatTypeOK
  <1>1. ChatInv => ChatTypeOK
    BY DEF ChatInv, Conversation, TurnOK, ChatTypeOK
  <1> QED BY ChatInitInv, ChatNextInv, <1>1, PTL DEF ChatSpec

\* A tab leaves Cooldown answers between two suggestions of its own, whatever the
\* other tabs say meanwhile (suggestedRecently).
THEOREM TabsSpaceSuggestions == ChatSpec => []SuggestionsSpaced
  <1>1. ChatInv => SuggestionsSpaced
    BY SpacedWindow DEF ChatInv, SuggestionsSpaced
  <1> QED BY ChatInitInv, ChatNextInv, <1>1, PTL DEF ChatSpec

\* No summary reaches into the messages the model is shown as they are, whichever
\* of the turns that carry one writes it last (maybeSummarize).
THEOREM SummaryStaysBehind == ChatSpec => []SummaryIsOfOld
  <1>1. ASSUME ChatInv PROVE SummaryIsOfOld
    <2>1. Len(said) \in Nat /\ DOMAIN said = 1 .. Len(said)
      BY <1>1 DEF ChatInv, Conversation
    <2>2. there => session.summary \subseteq Old
      BY <1>1 DEF ChatInv, Conversation
    <2> QED BY <2>1, <2>2, RecentNotOld DEF SummaryIsOfOld, Old
  <1> QED BY ChatInitInv, ChatNextInv, <1>1, PTL DEF ChatSpec

-----------------------------------------------------------------------------
(* Orders on a clock: rows, clocks and statements, and requests that run them. *)

LEMMA BoardSizes ==
    /\ MaxMinutes \in Nat \ {0} /\ MinRearm \in Nat \ {0} /\ Attempts \in Nat \ {0}
    /\ MaxTask \in Nat \ {0} /\ MaxOrders \in Nat \ {0}
    /\ MaxTime \in Nat /\ MaxMisses \in Nat /\ Asked \subseteq Int
  BY BeastAssumption

LEMMA Clamped ==
    ASSUME NEW m \in Int
    PROVE  ClampMinutes(m) \in 1 .. MaxMinutes /\ ClampMinutes(m) \in Int
  BY BoardSizes DEF ClampMinutes, Larger, Smaller

LEMMA Windows ==
    ASSUME NEW m \in Nat, NEW k \in Nat
    PROVE  RearmWindow(m, k) \in Nat /\ RearmWindow(m, k) >= MinRearm
  <1>1. CASE 2^k \in 1 .. m
    <2>1. PICK d \in 1 .. m : d = 2^k
      BY <1>1
    <2>2. m \div d \in Nat
      OBVIOUS
    <2> QED BY <1>1, <2>1, <2>2, BoardSizes DEF RearmWindow, Larger
  <1>2. CASE 2^k \notin 1 .. m
    BY <1>2, BoardSizes DEF RearmWindow
  <1> QED BY <1>1, <1>2

LEMMA TaskForm ==
    ASSUME NEW row \in Task
    PROVE  /\ row.status \in Status \cup {"none"} /\ row.text \in Text /\ row.minutes \in 1 .. MaxMinutes
           /\ row.minutes \in Nat /\ row.deadline \in Int /\ row.expiries \in Nat
           /\ row.loop \in Loop \cup {NoLoop}
  BY BoardSizes DEF Task

LEMMA KeptForm ==
    ASSUME task \in [Number -> Task], NEW n \in Number, NEW row \in Task
    PROVE  Kept(n, row) \in Task /\ Kept(n, row).expiries = task[n].expiries
  <1>1. PICK k \in Nat : k = task[n].expiries
    BY TaskForm
  <1>2. [row EXCEPT !.expiries = k] \in Task /\ [row EXCEPT !.expiries = k].expiries = k
    BY <1>1 DEF Task
  <1> QED BY <1>1, <1>2 DEF Kept

LEMMA StmtForms ==
    /\ \A at \in Nat : [do |-> "late", at |-> at] \in Stmt
    /\ \A at \in Nat, due \in SUBSET [n : Number, deadline : Int], b \in BOOLEAN :
          [do |-> "rearm", at |-> at, due |-> due, missed |-> b] \in Stmt
    /\ [do |-> "erupt"] \in Stmt
    /\ \A n \in Number : [do |-> "report", n |-> n] \in Stmt
    /\ \A n \in Number, row \in Task : [do |-> "complete", n |-> n, row |-> row] \in Stmt
    /\ \A rows \in SUBSET [n : Number, row : Task] : [do |-> "update", rows |-> rows] \in Stmt
    /\ \A l \in Loop : [do |-> "close", loop |-> l] \in Stmt
    /\ \A b \in BOOLEAN, orders \in SUBSET [n : Position, order : Order] :
          [do |-> "issue", answer |-> b, orders |-> orders] \in Stmt
    /\ \A rows \in SUBSET [n : Position, row : Task], q \in 0 .. MaxTask, k \in 0 .. Attempts - 1 :
          [do |-> "insert", rows |-> rows, seq |-> q, tries |-> k] \in Stmt
  BY DEF Stmt

LEMMA StmtFields ==
    ASSUME NEW s \in Stmt
    PROVE  /\ s.do = "late" => s.at \in Nat
           /\ s.do = "rearm" => /\ s.at \in Nat /\ s.missed \in BOOLEAN
                                /\ s.due \in SUBSET [n : Number, deadline : Int]
           /\ s.do = "report" => s.n \in Number
           /\ s.do = "complete" => s.n \in Number /\ s.row \in Task
           /\ s.do = "update" => s.rows \in SUBSET [n : Number, row : Task]
           /\ s.do = "close" => s.loop \in Loop
           /\ s.do = "issue" => /\ s.answer \in BOOLEAN
                                /\ s.orders \in SUBSET [n : Position, order : Order]
           /\ s.do = "insert" => /\ s.rows \in SUBSET [n : Position, row : Task]
                                 /\ s.seq \in 0 .. MaxTask /\ s.tries \in 0 .. Attempts - 1
  BY DEF Stmt

\* Statements a request may run next.
Runnable(ss) == ss \in Seq(Stmt) /\ \A i \in DOMAIN ss : Timely(ss[i])

LEMMA NothingNext == Runnable(<<>>)
  <1>1. <<>> \in Seq(Stmt)
    OBVIOUS
  <1> QED BY <1>1 DEF Runnable

LEMMA OneNext ==
    ASSUME NEW s \in Stmt, Timely(s)
    PROVE  Runnable(<<s>>)
  <1>1. <<s>> \in Seq(Stmt) /\ DOMAIN <<s>> = {1} /\ <<s>>[1] = s
    OBVIOUS
  <1> QED BY <1>1 DEF Runnable

LEMMA RunOn ==
    ASSUME NEW ss, NEW ts, Runnable(ss), Runnable(ts)
    PROVE  Runnable(ss \o ts)
  <1>1. ss \in Seq(Stmt) /\ ts \in Seq(Stmt) /\ Len(ss) \in Nat /\ Len(ts) \in Nat
        /\ DOMAIN ss = 1 .. Len(ss) /\ DOMAIN ts = 1 .. Len(ts)
    BY DEF Runnable
  <1>2. PICK us : us = ss \o ts
    OBVIOUS
  <1>3. /\ us \in Seq(Stmt) /\ DOMAIN us = 1 .. Len(ss) + Len(ts)
        /\ \A i \in DOMAIN us : us[i] = IF i <= Len(ss) THEN ss[i] ELSE ts[i - Len(ss)]
    BY <1>1, <1>2
  <1>4. ASSUME NEW i \in DOMAIN us
        PROVE  Timely(us[i])
    <2>1. CASE i <= Len(ss)
      <3>1. i \in DOMAIN ss /\ us[i] = ss[i]
        BY <1>1, <1>3, <2>1
      <3> QED BY <3>1 DEF Runnable
    <2>2. CASE i > Len(ss)
      <3>1. i - Len(ss) \in DOMAIN ts /\ us[i] = ts[i - Len(ss)]
        BY <1>1, <1>3, <2>2
      <3> QED BY <3>1 DEF Runnable
    <2> QED BY <1>1, <1>3, <2>1, <2>2
  <1> QED BY <1>2, <1>3, <1>4 DEF Runnable

LEMMA TheRest ==
    ASSUME NEW ss, Runnable(ss), ss # <<>>
    PROVE  /\ Head(ss) \in Stmt /\ Timely(Head(ss)) /\ Runnable(Tail(ss))
  <1>1. ss \in Seq(Stmt) /\ Len(ss) \in Nat \ {0} /\ 1 \in DOMAIN ss
    BY DEF Runnable
  <1>2. Head(ss) = ss[1] /\ ss[1] \in Stmt
    BY <1>1
  <1>3. PICK ts : ts = Tail(ss)
    OBVIOUS
  <1>4. ts \in Seq(Stmt) /\ \A i \in DOMAIN ts : i + 1 \in DOMAIN ss /\ ts[i] = ss[i + 1]
    BY <1>1, <1>3
  <1>5. \A i \in DOMAIN ts : Timely(ts[i])
    BY <1>4 DEF Runnable
  <1> QED BY <1>1, <1>2, <1>3, <1>4, <1>5 DEF Runnable

LEMMA Waits == BoardTypeOK => \A c \in Caller : Runnable(todo[c])
  BY DEF BoardTypeOK, Runnable

\* The statement a request runs.
LEMMA Running ==
    ASSUME BoardTypeOK, NEW c \in Caller, NEW do, Runs(c, do)
    PROVE  /\ Head(todo[c]) \in Stmt /\ Head(todo[c]).do = do /\ Timely(Head(todo[c]))
           /\ Runnable(Tail(todo[c]))
  <1>1. Runnable(todo[c]) /\ todo[c] # <<>>
    BY Waits DEF Runs, Free
  <1> QED BY <1>1, TheRest DEF Runs

\* A request's statements replaced, and the rest of the state left well typed.
LEMMA PutWell ==
    ASSUME BoardTypeOK, NEW c \in Caller, NEW ss, Runnable(ss), todo' = [todo EXCEPT ![c] = ss],
           task' \in [Number -> Task], closed' \subseteq Loop, erupted' \in Seq(0 .. MaxTime),
           now' = now
    PROVE  BoardTypeOK'
  <1>1. todo' \in [Caller -> Seq(Stmt)]
    BY DEF BoardTypeOK, Runnable
  <1>2. ASSUME NEW d \in Caller
        PROVE  (\A i \in DOMAIN todo[d] : Timely(todo[d][i]))'
    <2>1. Runnable(todo[d])
      BY Waits
    <2>2. PICK us : us = IF d = c THEN ss ELSE todo[d]
      OBVIOUS
    <2>3. todo'[d] = us
      BY <2>2 DEF BoardTypeOK
    <2>4. \A i \in DOMAIN us : Timely(us[i])
      BY <2>1, <2>2 DEF Runnable
    <2>5. \A i \in DOMAIN us : Timely(us[i])'
      BY <2>4 DEF Timely
    <2> QED BY <2>3, <2>5 DEF Timely
  <1>3. now' \in 0 .. MaxTime
    BY DEF BoardTypeOK
  <1> QED BY <1>1, <1>2, <1>3 DEF BoardTypeOK

LEMMA ContinueWell ==
    ASSUME BoardTypeOK, NEW c \in Caller, NEW do, Runs(c, do), NEW ss, Runnable(ss), Continue(c, ss),
           task' \in [Number -> Task], closed' \subseteq Loop, erupted' \in Seq(0 .. MaxTime),
           now' = now
    PROVE  BoardTypeOK'
  <1>1. PICK ts : ts = ss \o Tail(todo[c])
    OBVIOUS
  <1>2. Runnable(ts)
    BY <1>1, Running, RunOn
  <1>3. todo' = [todo EXCEPT ![c] = ts]
    BY <1>1 DEF Continue
  <1> QED BY <1>2, <1>3, PutWell

LEMMA StartWell ==
    ASSUME BoardTypeOK, NEW c \in Caller, NEW ss, Runnable(ss), Start(c, ss),
           UNCHANGED <<task, closed, erupted, now>>
    PROVE  BoardTypeOK'
  <1>1. /\ todo' = [todo EXCEPT ![c] = ss] /\ now' = now /\ task' \in [Number -> Task]
        /\ closed' \subseteq Loop /\ erupted' \in Seq(0 .. MaxTime)
    BY DEF Start, BoardTypeOK
  <1> QED BY <1>1, PutWell

-----------------------------------------------------------------------------
(* A statement a request runs next.                                        *)

LEMMA UpdatesReady ==
    ASSUME NEW rows \in SUBSET [n : Number, row : Task]
    PROVE  Runnable(Updates(rows))
  <1>1. PICK s : s = [do |-> "update", rows |-> rows]
    OBVIOUS
  <1>2. s \in Stmt /\ s.do = "update"
    BY <1>1, StmtForms
  <1>3. Timely(s)
    BY <1>2 DEF Timely
  <1> QED BY <1>1, <1>2, <1>3, OneNext, NothingNext DEF Updates

LEMMA InsertsReady ==
    ASSUME NEW rows \in SUBSET [n : Position, row : Task]
    PROVE  Runnable(Inserts(rows))
  <1>1. PICK s : s = [do |-> "insert", rows |-> rows, seq |-> 0, tries |-> 0]
    OBVIOUS
  <1>2. 0 \in 0 .. MaxTask /\ 0 \in 0 .. Attempts - 1
    BY BoardSizes
  <1>3. s \in Stmt /\ s.do = "insert"
    BY <1>1, <1>2, StmtForms
  <1>4. Timely(s)
    BY <1>3 DEF Timely
  <1> QED BY <1>1, <1>3, <1>4, OneNext, NothingNext DEF Inserts

LEMMA RearmsReady ==
    ASSUME NEW at \in Nat, at <= now, NEW due \in SUBSET [n : Number, deadline : Int],
           NEW missed \in BOOLEAN, \A d \in due : d.deadline >= at + MinRearm
    PROVE  Runnable(Rearms(at, due, missed))
  <1>1. PICK s : s = [do |-> "rearm", at |-> at, due |-> due, missed |-> missed]
    OBVIOUS
  <1>2. s \in Stmt /\ s.do = "rearm" /\ s.at = at /\ s.due = due
    BY <1>1, StmtForms
  <1>3. Timely(s)
    BY <1>2 DEF Timely
  <1>4. PICK e : e = [do |-> "erupt"]
    OBVIOUS
  <1>5. e \in Stmt /\ e.do = "erupt"
    BY <1>4, StmtForms
  <1>6. Timely(e)
    BY <1>5 DEF Timely
  <1>7. Runnable(<<s>>) /\ Runnable(<<e>>) /\ Runnable(<<>>)
    BY <1>2, <1>3, <1>5, <1>6, OneNext, NothingNext
  <1> QED BY <1>1, <1>4, <1>7 DEF Rearms

\* What a step may do to a task's misses: leave them, or count one on an open
\* task that is late and move its clock on.
Counts ==
    \A n \in Number :
        \/ ~Exists(n)
        \/ task'[n].expiries = task[n].expiries
        \/ /\ Overdue(task[n], now)
           /\ task'[n].status = "open"
           /\ task'[n].expiries = task[n].expiries + 1
           /\ task'[n].deadline >= task[n].deadline + MinRearm

LEMMA UpdateWell ==
    ASSUME BoardTypeOK, NEW c \in Caller, Update(c)
    PROVE  BoardTypeOK' /\ Counts
  <1>1. Runs(c, "update")
    BY DEF Update
  <1>2. PICK rows \in SUBSET [n : Number, row : Task] : rows = Head(todo[c]).rows
    BY <1>1, Running, StmtFields
  <1>3. PICK e \in rows :
            task' = [task EXCEPT ![e.n] = Kept(e.n, e.row)] /\ Continue(c, Updates(rows \ {e}))
    BY <1>2 DEF Update
  <1>4. e.n \in Number /\ e.row \in Task /\ rows \ {e} \in SUBSET [n : Number, row : Task]
    BY <1>2
  <1>5. task \in [Number -> Task]
    BY DEF BoardTypeOK
  <1>6. PICK row : row = Kept(e.n, e.row)
    OBVIOUS
  <1>7. row \in Task /\ row.expiries = task[e.n].expiries
    BY <1>4, <1>5, <1>6, KeptForm
  <1>8. task' = [task EXCEPT ![e.n] = row]
    BY <1>3, <1>6
  <1>9. Counts
    BY <1>4, <1>5, <1>7, <1>8 DEF Counts
  <1>10. PICK ss : ss = Updates(rows \ {e})
    OBVIOUS
  <1>11. Runnable(ss)
    BY <1>4, <1>10, UpdatesReady
  <1>12. /\ task' \in [Number -> Task] /\ closed' \subseteq Loop
         /\ erupted' \in Seq(0 .. MaxTime) /\ now' = now
    BY <1>4, <1>5, <1>7, <1>8 DEF Update, BoardTypeOK
  <1> QED BY <1>1, <1>3, <1>9, <1>10, <1>11, <1>12, ContinueWell

LEMMA CompleteWell ==
    ASSUME BoardTypeOK, NEW c \in Caller, Complete(c)
    PROVE  BoardTypeOK' /\ Counts
  <1>1. Runs(c, "complete")
    BY DEF Complete
  <1>2. PICK s \in Stmt : s = Head(todo[c]) /\ s.do = "complete"
    BY <1>1, Running
  <1>3. s.n \in Number /\ s.row \in Task
    BY <1>2, StmtFields
  <1>4. task \in [Number -> Task]
    BY DEF BoardTypeOK
  <1>5. PICK done : done = [s.row EXCEPT !.status = "done"]
    OBVIOUS
  <1>6. done \in Task
    BY <1>3, <1>5 DEF Task, Status
  <1>7. PICK row : row = Kept(s.n, done)
    OBVIOUS
  <1>8. row \in Task /\ row.expiries = task[s.n].expiries
    BY <1>3, <1>4, <1>6, <1>7, KeptForm
  <1>9. task' = [task EXCEPT ![s.n] = row]
    BY <1>2, <1>5, <1>7 DEF Complete
  <1>10. Counts
    BY <1>3, <1>4, <1>8, <1>9 DEF Counts
  <1>11. PICK l : l = s.row.loop
    OBVIOUS
  <1>12. PICK ss : ss = IF l = NoLoop THEN <<>> ELSE <<[do |-> "close", loop |-> l]>>
    OBVIOUS
  <1>13. Runnable(ss)
    <2>1. CASE l = NoLoop
      BY <1>12, <2>1, NothingNext
    <2>2. CASE l # NoLoop
      <3>1. l \in Loop
        BY <1>3, <1>11, <2>2, TaskForm
      <3>2. PICK next : next = [do |-> "close", loop |-> l]
        OBVIOUS
      <3>3. next \in Stmt /\ next.do = "close"
        BY <3>1, <3>2, StmtForms
      <3>4. Timely(next)
        BY <3>3 DEF Timely
      <3>5. ss = <<next>>
        BY <1>12, <2>2, <3>2
      <3> QED BY <3>3, <3>4, <3>5, OneNext
    <2> QED BY <2>1, <2>2
  <1>14. Continue(c, ss)
    BY <1>2, <1>11, <1>12 DEF Complete
  <1>15. /\ task' \in [Number -> Task] /\ closed' \subseteq Loop
         /\ erupted' \in Seq(0 .. MaxTime) /\ now' = now
    BY <1>3, <1>4, <1>8, <1>9 DEF Complete, BoardTypeOK
  <1> QED BY <1>1, <1>10, <1>13, <1>14, <1>15, ContinueWell

\* A step that leaves the tasks alone.
LEMMA ContinueOnly ==
    ASSUME BoardTypeOK, NEW c \in Caller, NEW do, Runs(c, do), NEW ss, Runnable(ss), Continue(c, ss),
           UNCHANGED <<task, now>>, closed' \subseteq Loop, erupted' \in Seq(0 .. MaxTime)
    PROVE  BoardTypeOK' /\ Counts
  <1>1. task' \in [Number -> Task]
    BY DEF BoardTypeOK
  <1>2. BoardTypeOK'
    BY <1>1, ContinueWell
  <1> QED BY <1>2 DEF Counts

LEMMA CloseLoopWell ==
    ASSUME BoardTypeOK, NEW c \in Caller, CloseLoop(c)
    PROVE  BoardTypeOK' /\ Counts
  <1>1. Runs(c, "close") /\ Continue(c, <<>>) /\ UNCHANGED <<task, now>>
    BY DEF CloseLoop
  <1>2. Head(todo[c]).loop \in Loop
    BY <1>1, Running, StmtFields
  <1>3. closed' \subseteq Loop /\ erupted' \in Seq(0 .. MaxTime)
    BY <1>2 DEF CloseLoop, BoardTypeOK
  <1> QED BY <1>1, <1>3, NothingNext, ContinueOnly

LEMMA ReportNextWell ==
    ASSUME BoardTypeOK, NEW c \in Caller, ReportNext(c)
    PROVE  BoardTypeOK' /\ Counts
  <1>1. Runs(c, "report")
    BY DEF ReportNext
  <1>2. PICK n \in Number : n = Head(todo[c]).n
    BY <1>1, Running, StmtFields
  <1>3. PICK row \in Task : row = task[n]
    BY DEF BoardTypeOK
  <1>4. PICK next : next = [do |-> "complete", n |-> n, row |-> row]
    OBVIOUS
  <1>5. next \in Stmt /\ next.do = "complete"
    BY <1>4, StmtForms
  <1>6. Timely(next)
    BY <1>5 DEF Timely
  <1>7. PICK ss : ss = IF row.status # "open" THEN <<>> ELSE <<next>>
    OBVIOUS
  <1>8. Runnable(ss)
    BY <1>5, <1>6, <1>7, OneNext, NothingNext
  <1>9. Continue(c, ss)
    BY <1>2, <1>3, <1>4, <1>7 DEF ReportNext
  <1>10. UNCHANGED <<task, now>> /\ closed' \subseteq Loop /\ erupted' \in Seq(0 .. MaxTime)
    BY DEF ReportNext, BoardTypeOK
  <1> QED BY <1>1, <1>8, <1>9, <1>10, ContinueOnly

LEMMA IssuedForm ==
    ASSUME BoardTypeOK, NEW o \in Order, NEW ans \in BOOLEAN
    PROVE  Issued(o, ans) \in Task
  <1>1. o.text \in Text /\ o.minutes \in Int /\ o.loop \in Loop \cup {NoLoop}
    BY BoardSizes DEF Order
  <1>2. PICK m \in 1 .. MaxMinutes : m = ClampMinutes(o.minutes) /\ m \in Int
    BY <1>1, Clamped
  <1>3. now + m \in Int
    BY <1>2, BoardSizes DEF BoardTypeOK
  <1> QED BY <1>1, <1>2, <1>3 DEF Issued, Task, Status

LEMMA IssueWell ==
    ASSUME BoardTypeOK, NEW c \in Caller, Issue(c)
    PROVE  BoardTypeOK' /\ Counts
  <1>1. Runs(c, "issue")
    BY DEF Issue
  <1>2. PICK orders \in SUBSET [n : Position, order : Order], ans \in BOOLEAN :
            orders = Head(todo[c]).orders /\ ans = Head(todo[c]).answer
    BY <1>1, Running, StmtFields
  <1>3. PICK rows : rows = {[n |-> o.n, row |-> Issued(o.order, ans)] : o \in orders}
    OBVIOUS
  <1>4. rows \in SUBSET [n : Position, row : Task]
    <2>1. ASSUME NEW o \in orders
          PROVE  [n |-> o.n, row |-> Issued(o.order, ans)] \in [n : Position, row : Task]
      <3>1. o.n \in Position /\ o.order \in Order
        BY <1>2
      <3>2. PICK row \in Task : row = Issued(o.order, ans)
        BY <1>2, <3>1, IssuedForm
      <3> QED BY <3>1, <3>2
    <2> QED BY <1>3, <2>1
  <1>5. PICK ss : ss = Inserts(rows)
    OBVIOUS
  <1>6. Runnable(ss)
    BY <1>4, <1>5, InsertsReady
  <1>7. Continue(c, ss)
    BY <1>2, <1>3, <1>5 DEF Issue
  <1>8. UNCHANGED <<task, now>> /\ closed' \subseteq Loop /\ erupted' \in Seq(0 .. MaxTime)
    BY DEF Issue, BoardTypeOK
  <1> QED BY <1>1, <1>6, <1>7, <1>8, ContinueOnly

LEMMA InsertForm ==
    ASSUME NEW s \in Stmt, s.do = "insert"
    PROVE  s = [do |-> "insert", rows |-> s.rows, seq |-> s.seq, tries |-> s.tries]
  BY DEF Stmt

LEMMA TakeNumberWell ==
    ASSUME BoardTypeOK, NEW c \in Caller, TakeNumber(c)
    PROVE  BoardTypeOK' /\ Counts
  <1>1. Runs(c, "insert")
    BY DEF TakeNumber
  <1>2. PICK s \in Stmt : s = Head(todo[c]) /\ s.do = "insert"
    BY <1>1, Running
  <1>3. PICK k \in Number : k = NextNumber
    BY DEF TakeNumber
  <1>4. PICK next : next = [s EXCEPT !.seq = k]
    OBVIOUS
  <1>5. next = [do |-> "insert", rows |-> s.rows, seq |-> k, tries |-> s.tries]
    BY <1>2, <1>4, InsertForm
  <1>6. k \in 0 .. MaxTask
    BY BoardSizes DEF Number
  <1>7. next \in Stmt /\ next.do = "insert"
    BY <1>2, <1>5, <1>6, StmtFields, StmtForms
  <1>8. Timely(next)
    BY <1>7 DEF Timely
  <1>9. PICK ss : ss = <<next>>
    OBVIOUS
  <1>10. Runnable(ss)
    BY <1>7, <1>8, <1>9, OneNext
  <1>11. Continue(c, ss)
    BY <1>2, <1>3, <1>4, <1>9 DEF TakeNumber
  <1>12. UNCHANGED <<task, now>> /\ closed' \subseteq Loop /\ erupted' \in Seq(0 .. MaxTime)
    BY DEF TakeNumber, BoardTypeOK
  <1> QED BY <1>1, <1>10, <1>11, <1>12, ContinueOnly

\* A request that stops with what it has left.
LEMMA StopWell ==
    ASSUME BoardTypeOK, NEW c \in Caller, todo' = [todo EXCEPT ![c] = <<>>],
           UNCHANGED <<task, closed, erupted, now>>
    PROVE  BoardTypeOK' /\ Counts
  <1>1. task' \in [Number -> Task] /\ closed' \subseteq Loop /\ erupted' \in Seq(0 .. MaxTime)
    BY DEF BoardTypeOK
  <1>2. BoardTypeOK'
    BY <1>1, NothingNext, PutWell
  <1> QED BY <1>2 DEF Counts

LEMMA InsertWell ==
    ASSUME BoardTypeOK, NEW c \in Caller, Insert(c)
    PROVE  BoardTypeOK' /\ Counts
  <1>1. Runs(c, "insert") /\ UNCHANGED <<closed, erupted, now>>
    BY DEF Insert
  <1>2. PICK s \in Stmt : s = Head(todo[c]) /\ s.do = "insert"
    BY <1>1, Running
  <1>3. /\ s.rows \in SUBSET [n : Position, row : Task] /\ s.seq \in 0 .. MaxTask
        /\ s.tries \in 0 .. Attempts - 1
    BY <1>2, StmtFields
  <1>4. s.seq # 0
    BY <1>2 DEF Insert
  <1>5. s.seq \in Number
    BY <1>3, <1>4, BoardSizes DEF Number
  <1>6. task \in [Number -> Task] /\ closed' \subseteq Loop /\ erupted' \in Seq(0 .. MaxTime)
    BY <1>1 DEF BoardTypeOK
  <1>7. \/ \E e \in s.rows : /\ ~Exists(s.seq) /\ task' = [task EXCEPT ![s.seq] = e.row]
                             /\ Continue(c, Inserts(s.rows \ {e}))
        \/ /\ s.tries + 1 < Attempts /\ task' = task
           /\ Continue(c, <<[s EXCEPT !.seq = 0, !.tries = @ + 1]>>)
        \/ todo' = [todo EXCEPT ![c] = <<>>] /\ task' = task
    BY <1>2 DEF Insert
  <1>8. ASSUME NEW e \in s.rows, ~Exists(s.seq), task' = [task EXCEPT ![s.seq] = e.row],
               Continue(c, Inserts(s.rows \ {e}))
        PROVE  BoardTypeOK' /\ Counts
    <2>1. e.row \in Task /\ s.rows \ {e} \in SUBSET [n : Position, row : Task]
      BY <1>3
    <2>2. PICK ss : ss = Inserts(s.rows \ {e})
      OBVIOUS
    <2>3. Runnable(ss)
      BY <2>1, <2>2, InsertsReady
    <2>4. task' \in [Number -> Task]
      BY <1>5, <1>6, <1>8, <2>1
    <2>5. Continue(c, ss)
      BY <1>8, <2>2
    <2>6. BoardTypeOK'
      BY <1>1, <1>6, <2>3, <2>4, <2>5, ContinueWell
    <2>7. Counts
      BY <1>5, <1>6, <1>8 DEF Counts
    <2> QED BY <2>6, <2>7
  <1>9. ASSUME s.tries + 1 < Attempts, task' = task,
               Continue(c, <<[s EXCEPT !.seq = 0, !.tries = @ + 1]>>)
        PROVE  BoardTypeOK' /\ Counts
    <2>1. PICK one : one = [s EXCEPT !.seq = 0]
      OBVIOUS
    <2>2. one = [do |-> "insert", rows |-> s.rows, seq |-> 0, tries |-> s.tries]
      BY <1>2, <2>1, InsertForm
    <2>3. PICK next : next = [one EXCEPT !.tries = @ + 1]
      OBVIOUS
    <2>4. next = [do |-> "insert", rows |-> s.rows, seq |-> 0, tries |-> s.tries + 1]
      BY <2>2, <2>3
    <2>5. 0 \in 0 .. MaxTask /\ s.tries + 1 \in 0 .. Attempts - 1
      BY <1>3, <1>9, BoardSizes
    <2>6. next \in Stmt /\ next.do = "insert"
      BY <1>3, <2>4, <2>5, StmtForms
    <2>7. Timely(next)
      BY <2>6 DEF Timely
    <2>8. PICK ss : ss = <<next>>
      OBVIOUS
    <2>9. Runnable(ss)
      BY <2>6, <2>7, <2>8, OneNext
    <2>10. Continue(c, ss)
      BY <1>9, <2>1, <2>3, <2>8
    <2> QED BY <1>1, <1>6, <1>9, <2>9, <2>10, ContinueOnly
  <1>10. ASSUME todo' = [todo EXCEPT ![c] = <<>>], task' = task
         PROVE  BoardTypeOK' /\ Counts
    BY <1>1, <1>10, StopWell
  <1> QED BY <1>7, <1>8, <1>9, <1>10

LEMMA ListLateWell ==
    ASSUME BoardTypeOK, NEW c \in Caller, ListLate(c)
    PROVE  BoardTypeOK' /\ Counts
  <1>1. Runs(c, "late")
    BY DEF ListLate
  <1>2. PICK at \in Nat : at = Head(todo[c]).at /\ at <= now
    BY <1>1, Running, StmtFields DEF Timely
  <1> DEFINE Due(row) == at + RearmWindow(row.minutes, row.expiries + 1)
  <1>3. PICK due : due = {[n |-> n, deadline |-> Due(task[n])] :
                            n \in {m \in Number : Overdue(task[m], at)}}
    OBVIOUS
  <1>4. ASSUME NEW n \in Number
        PROVE  Due(task[n]) \in Int /\ Due(task[n]) >= at + MinRearm
    <2>1. task[n] \in Task
      BY DEF BoardTypeOK
    <2>2. PICK m \in Nat, k \in Nat : m = task[n].minutes /\ k = task[n].expiries + 1
      BY <2>1, TaskForm
    <2>3. PICK w \in Nat : w = RearmWindow(m, k) /\ w >= MinRearm
      BY Windows
    <2>4. Due(task[n]) = at + w
      BY <2>2, <2>3
    <2>5. at + w \in Int /\ at + w >= at + MinRearm
      BY <2>3, BoardSizes
    <2> QED BY <2>4, <2>5
  <1> HIDE DEF Due
  <1>5. due \in SUBSET [n : Number, deadline : Int] /\ \A d \in due : d.deadline >= at + MinRearm
    BY <1>3, <1>4
  <1>6. PICK ss : ss = Rearms(at, due, FALSE)
    OBVIOUS
  <1>7. Runnable(ss)
    BY <1>2, <1>5, <1>6, RearmsReady
  <1>8. Continue(c, ss)
    BY <1>2, <1>3, <1>6 DEF ListLate, Due
  <1>9. UNCHANGED <<task, now>> /\ closed' \subseteq Loop /\ erupted' \in Seq(0 .. MaxTime)
    BY DEF ListLate, BoardTypeOK
  <1> QED BY <1>1, <1>7, <1>8, <1>9, ContinueOnly

LEMMA RearmWell ==
    ASSUME BoardTypeOK, NEW c \in Caller, Rearm(c)
    PROVE  BoardTypeOK' /\ Counts
  <1>1. Runs(c, "rearm") /\ UNCHANGED <<closed, erupted, now>>
    BY DEF Rearm
  <1>2. PICK s \in Stmt : s = Head(todo[c]) /\ s.do = "rearm" /\ Timely(s)
    BY <1>1, Running
  <1>3. /\ s.at \in Nat /\ s.missed \in BOOLEAN /\ s.due \in SUBSET [n : Number, deadline : Int]
        /\ s.at <= now /\ \A d \in s.due : d.deadline >= s.at + MinRearm
    BY <1>2, StmtFields DEF Timely
  <1>4. task \in [Number -> Task] /\ closed' \subseteq Loop /\ erupted' \in Seq(0 .. MaxTime)
    BY <1>1 DEF BoardTypeOK
  <1>5. PICK e \in s.due, b \in BOOLEAN :
            /\ Continue(c, Rearms(s.at, s.due \ {e}, b))
            /\ \/ /\ StillLate(e.n, s.at)
                  /\ task' = [task EXCEPT ![e.n].expiries = @ + 1, ![e.n].deadline = e.deadline]
               \/ task' = task
    BY <1>2, <1>3 DEF Rearm
  <1>6. PICK ss : ss = Rearms(s.at, s.due \ {e}, b)
    OBVIOUS
  <1>7. s.due \ {e} \in SUBSET [n : Number, deadline : Int]
        /\ \A d \in s.due \ {e} : d.deadline >= s.at + MinRearm
    BY <1>3
  <1>8. Runnable(ss)
    BY <1>3, <1>6, <1>7, RearmsReady
  <1>9. Continue(c, ss)
    BY <1>5, <1>6
  <1>10. CASE StillLate(e.n, s.at)
              /\ task' = [task EXCEPT ![e.n].expiries = @ + 1, ![e.n].deadline = e.deadline]
    <2>1. PICK n \in Number, d \in Int : n = e.n /\ d = e.deadline /\ d >= s.at + MinRearm
      BY <1>3
    <2>2. PICK row \in Task : row = task[n]
      BY <1>4
    <2>3. row.status = "open" /\ row.deadline <= s.at /\ row.expiries \in Nat /\ row.deadline \in Int
      BY <1>10, <2>1, <2>2, TaskForm DEF StillLate, Overdue
    <2>4. PICK one : one = [row EXCEPT !.expiries = @ + 1]
      OBVIOUS
    <2>5. one \in Task /\ one.status = "open" /\ one.expiries = row.expiries + 1
      BY <2>3, <2>4 DEF Task
    <2>6. PICK two : two = [one EXCEPT !.deadline = d]
      OBVIOUS
    <2>7. two \in Task /\ two.status = "open" /\ two.expiries = row.expiries + 1 /\ two.deadline = d
      BY <2>5, <2>6 DEF Task
    <2>8. PICK f : f = [task EXCEPT ![n] = one]
      OBVIOUS
    <2>9. f[n] = one /\ [f EXCEPT ![n] = two] = [task EXCEPT ![n] = two]
      BY <1>4, <2>8
    <2>10. [task EXCEPT ![n].expiries = @ + 1] = f
      BY <2>2, <2>4, <2>8
    <2>11. task' = [f EXCEPT ![n].deadline = d]
      BY <1>10, <2>1, <2>10
    <2>12. task' = [task EXCEPT ![n] = two]
      BY <2>6, <2>9, <2>11
    <2>13. task' \in [Number -> Task]
      BY <1>4, <2>7, <2>12
    <2>14. BoardTypeOK'
      BY <1>1, <1>4, <1>8, <1>9, <2>13, ContinueWell
    <2>15. row.deadline <= now /\ d >= row.deadline + MinRearm
      BY <1>3, <2>1, <2>3, BoardSizes DEF BoardTypeOK
    <2>16. Counts
      BY <1>4, <2>2, <2>3, <2>7, <2>12, <2>15 DEF Counts, Overdue
    <2> QED BY <2>14, <2>16
  <1>11. CASE task' = task
    BY <1>1, <1>4, <1>8, <1>9, <1>11, ContinueOnly
  <1> QED BY <1>5, <1>10, <1>11

LEMMA EruptWell ==
    ASSUME BoardTypeOK, NEW c \in Caller, Erupt(c)
    PROVE  BoardTypeOK' /\ Counts
  <1>1. Runs(c, "erupt") /\ Continue(c, <<>>) /\ UNCHANGED <<task, now>>
    BY DEF Erupt
  <1>2. closed' \subseteq Loop /\ erupted' \in Seq(0 .. MaxTime)
    BY DEF Erupt, BoardTypeOK
  <1> QED BY <1>1, <1>2, NothingNext, ContinueOnly

-----------------------------------------------------------------------------
(* A request begun, the clock, and what follows for orders.                *)

LEMMA StartOnly ==
    ASSUME BoardTypeOK, NEW c \in Caller, NEW ss, Runnable(ss), Start(c, ss),
           UNCHANGED <<task, closed, erupted, now>>
    PROVE  BoardTypeOK' /\ Counts
  <1>1. BoardTypeOK'
    BY StartWell
  <1> QED BY <1>1 DEF Counts

LEMMA AddWell ==
    ASSUME BoardTypeOK, NEW c \in Caller, NEW t \in Text, NEW m \in Asked, Add(c, t, m)
    PROVE  BoardTypeOK' /\ Counts
  <1>1. PICK o : o = [text |-> t, minutes |-> m, loop |-> NoLoop]
    OBVIOUS
  <1>2. o \in Order
    BY <1>1 DEF Order
  <1>3. 1 \in Position
    BY BoardSizes DEF Position
  <1>4. PICK orders \in SUBSET [n : Position, order : Order] : orders = {[n |-> 1, order |-> o]}
    <2>1. [n |-> 1, order |-> o] \in [n : Position, order : Order]
      BY <1>2, <1>3
    <2>2. {[n |-> 1, order |-> o]} \in SUBSET [n : Position, order : Order]
      BY <2>1
    <2> QED BY <2>2
  <1>5. PICK next : next = [do |-> "issue", answer |-> FALSE, orders |-> orders]
    OBVIOUS
  <1>6. next \in Stmt /\ next.do = "issue"
    BY <1>5, StmtForms
  <1>7. Timely(next)
    BY <1>6 DEF Timely
  <1>8. PICK ss : ss = <<next>>
    OBVIOUS
  <1>9. Runnable(ss)
    BY <1>6, <1>7, <1>8, OneNext
  <1>10. Start(c, ss) /\ UNCHANGED <<task, closed, erupted, now>>
    BY <1>1, <1>4, <1>5, <1>8 DEF Add
  <1> QED BY <1>9, <1>10, StartOnly

LEMMA EditWell ==
    ASSUME BoardTypeOK, NEW c \in Caller, NEW n \in Number, NEW row \in Task, Edit(c, n, row)
    PROVE  BoardTypeOK' /\ Counts
  <1>1. PICK rows \in SUBSET [n : Number, row : Task] : rows = {[n |-> n, row |-> row]}
    <2>1. [n |-> n, row |-> row] \in [n : Number, row : Task]
      OBVIOUS
    <2>2. {[n |-> n, row |-> row]} \in SUBSET [n : Number, row : Task]
      BY <2>1
    <2> QED BY <2>2
  <1>2. PICK ss : ss = Updates(rows)
    OBVIOUS
  <1>3. Runnable(ss)
    BY <1>2, UpdatesReady
  <1>4. Start(c, ss) /\ UNCHANGED <<task, closed, erupted, now>>
    BY <1>1, <1>2 DEF Edit
  <1> QED BY <1>3, <1>4, StartOnly

LEMMA EditsWell ==
    ASSUME BoardTypeOK, NEW c \in Caller, NEW n \in Number,
           \/ \E t \in Text : EditText(c, n, t)
           \/ \E m \in Asked : EditMinutes(c, n, m) \/ EditExtend(c, n, m)
           \/ Abandon(c, n)
    PROVE  BoardTypeOK' /\ Counts
  <1>1. PICK row \in Task : row = task[n]
    BY DEF BoardTypeOK
  <1>2. now \in Int
    BY BoardSizes DEF BoardTypeOK
  <1>3. ASSUME NEW t \in Text, EditText(c, n, t)
        PROVE  BoardTypeOK' /\ Counts
    <2>1. PICK r : r = [row EXCEPT !.text = t]
      OBVIOUS
    <2>2. r \in Task
      BY <2>1 DEF Task
    <2>3. Edit(c, n, r)
      BY <1>1, <1>3, <2>1 DEF EditText
    <2> QED BY <2>2, <2>3, EditWell
  <1>4. ASSUME NEW m \in Asked, EditMinutes(c, n, m)
        PROVE  BoardTypeOK' /\ Counts
    <2>1. PICK k \in 1 .. MaxMinutes : k = ClampMinutes(m) /\ k \in Int
      BY BoardSizes, Clamped
    <2>2. PICK one : one = [row EXCEPT !.minutes = k]
      OBVIOUS
    <2>3. one \in Task
      BY <2>2 DEF Task
    <2>4. PICK d \in Int : d = now + k
      BY <1>2, <2>1
    <2>5. PICK r : r = [one EXCEPT !.deadline = d]
      OBVIOUS
    <2>6. r \in Task
      BY <2>3, <2>5 DEF Task
    <2>7. Edit(c, n, r)
      BY <1>1, <1>4, <2>1, <2>2, <2>4, <2>5 DEF EditMinutes
    <2> QED BY <2>6, <2>7, EditWell
  <1>5. ASSUME NEW m \in Asked, EditExtend(c, n, m)
        PROVE  BoardTypeOK' /\ Counts
    <2>1. row.deadline \in Int /\ m \in Int
      BY TaskForm, BoardSizes
    <2>2. PICK d \in Int : d = Larger(row.deadline + m, now + 1)
      BY <1>2, <2>1 DEF Larger
    <2>3. PICK r : r = [row EXCEPT !.deadline = d]
      OBVIOUS
    <2>4. r \in Task
      BY <2>3 DEF Task
    <2>5. Edit(c, n, r)
      BY <1>1, <1>5, <2>2, <2>3 DEF EditExtend
    <2> QED BY <2>4, <2>5, EditWell
  <1>6. ASSUME Abandon(c, n)
        PROVE  BoardTypeOK' /\ Counts
    <2>1. PICK r : r = [row EXCEPT !.status = "abandoned"]
      OBVIOUS
    <2>2. r \in Task
      BY <2>1 DEF Task, Status
    <2>3. Edit(c, n, r)
      BY <1>1, <1>6, <2>1 DEF Abandon
    <2> QED BY <2>2, <2>3, EditWell
  <1> QED BY <1>3, <1>4, <1>5, <1>6

LEMMA ListForm ==
    ASSUME NEW S, NEW k \in Nat, NEW list \in Lists(S, k)
    PROVE  \E m \in 0 .. k : list \in [1 .. m -> S]
  BY DEF Lists

LEMMA ReportWell ==
    ASSUME BoardTypeOK, NEW c \in Caller, NEW ids \in Lists(Number, MaxIds), Report(c, ids)
    PROVE  BoardTypeOK' /\ Counts
  <1>1. MaxIds \in Nat
    BY BeastAssumption
  <1>2. PICK m \in Nat : ids \in [1 .. m -> Number]
    BY <1>1, ListForm
  <1>3. PICK ss : ss = [i \in 1 .. m |-> [do |-> "report", n |-> ids[i]]]
    OBVIOUS
  <1>4. \A i \in 1 .. m : ss[i] \in Stmt /\ ss[i].do = "report"
    BY <1>2, <1>3, StmtForms
  <1>5. ss \in Seq(Stmt) /\ DOMAIN ss = 1 .. m
    <2>1. DOMAIN ss = 1 .. m /\ ss = [i \in 1 .. m |-> ss[i]]
      BY <1>3
    <2>2. ss \in [1 .. m -> Stmt]
      BY <1>4, <2>1
    <2> QED BY <2>1, <2>2
  <1>6. Runnable(ss)
    BY <1>4, <1>5 DEF Runnable, Timely
  <1>7. Start(c, ss) /\ UNCHANGED <<task, closed, erupted, now>>
    BY <1>2, <1>3 DEF Report
  <1> QED BY <1>6, <1>7, StartOnly

LEMMA ApplyWell ==
    ASSUME BoardTypeOK, NEW c \in Caller, NEW orders \in Lists(Order, MaxOrders),
           NEW done \in Lists(Number, MaxIds), Apply(c, orders, done)
    PROVE  BoardTypeOK' /\ Counts
  <1>1. MaxIds \in Nat
    BY BeastAssumption
  <1>2. PICK m \in Nat : done \in [1 .. m -> Number]
    BY <1>1, ListForm
  <1>3. PICK ss : ss = [i \in 1 .. m |-> [do |-> "complete", n |-> done[i], row |-> task[done[i]]]]
    OBVIOUS
  <1>4. \A i \in 1 .. m : ss[i] \in Stmt /\ ss[i].do = "complete"
    <2>1. \A n \in Number : task[n] \in Task
      BY DEF BoardTypeOK
    <2> QED BY <1>2, <1>3, <2>1, StmtForms
  <1>5. ss \in Seq(Stmt) /\ DOMAIN ss = 1 .. m
    <2>1. DOMAIN ss = 1 .. m /\ ss = [i \in 1 .. m |-> ss[i]]
      BY <1>3
    <2>2. ss \in [1 .. m -> Stmt]
      BY <1>4, <2>1
    <2> QED BY <2>1, <2>2
  <1>6. Runnable(ss)
    BY <1>4, <1>5 DEF Runnable, Timely
  <1>7. PICK fresh : fresh = {[n |-> i, order |-> orders[i]] : i \in NotOpenYet(orders)}
    OBVIOUS
  <1>8. fresh \in SUBSET [n : Position, order : Order]
    <2>1. PICK k \in 0 .. MaxOrders : orders \in [1 .. k -> Order]
      BY ListForm, BoardSizes
    <2>2. \A i \in NotOpenYet(orders) : i \in 1 .. k /\ orders[i] \in Order
      BY <2>1 DEF NotOpenYet
    <2>3. \A i \in 1 .. k : i \in Position
      BY BoardSizes DEF Position
    <2> QED BY <1>7, <2>2, <2>3
  <1>9. PICK issue : issue = [do |-> "issue", answer |-> TRUE, orders |-> fresh]
    OBVIOUS
  <1>10. issue \in Stmt /\ issue.do = "issue"
    BY <1>8, <1>9, StmtForms
  <1>11. Timely(issue)
    BY <1>10 DEF Timely
  <1>12. PICK ts : ts = IF fresh = {} THEN <<>> ELSE <<issue>>
    OBVIOUS
  <1>13. Runnable(ts)
    BY <1>10, <1>11, <1>12, OneNext, NothingNext
  <1>14. PICK us : us = ss \o ts
    OBVIOUS
  <1>15. Runnable(us)
    BY <1>6, <1>13, <1>14, RunOn
  <1>16. Start(c, us) /\ UNCHANGED <<task, closed, erupted, now>>
    BY <1>2, <1>3, <1>7, <1>9, <1>12, <1>14 DEF Apply
  <1> QED BY <1>15, <1>16, StartOnly

LEMMA StandDownWell ==
    ASSUME BoardTypeOK, NEW c \in Caller, StandDown(c)
    PROVE  BoardTypeOK' /\ Counts
  <1>1. PICK rows : rows = {[n |-> n, row |-> [task[n] EXCEPT !.status = "abandoned"]] :
                             n \in {m \in Number : task[m].status = "open"}}
    OBVIOUS
  <1>2. rows \in SUBSET [n : Number, row : Task]
    <2>1. ASSUME NEW n \in Number
          PROVE  [task[n] EXCEPT !.status = "abandoned"] \in Task
      <3>1. PICK row \in Task : row = task[n]
        BY DEF BoardTypeOK
      <3>2. [row EXCEPT !.status = "abandoned"] \in Task
        BY DEF Task, Status
      <3> QED BY <3>1, <3>2
    <2> QED BY <1>1, <2>1
  <1>3. PICK ss : ss = Updates(rows)
    OBVIOUS
  <1>4. Runnable(ss)
    BY <1>2, <1>3, UpdatesReady
  <1>5. Start(c, ss) /\ UNCHANGED <<task, closed, erupted, now>>
    BY <1>1, <1>3 DEF StandDown
  <1> QED BY <1>4, <1>5, StartOnly

LEMMA ExpiredTurnWell ==
    ASSUME BoardTypeOK, NEW c \in Caller, ExpiredTurn(c)
    PROVE  BoardTypeOK' /\ Counts
  <1>1. PICK at \in Nat : at = now
    BY BoardSizes DEF BoardTypeOK
  <1>2. PICK next : next = [do |-> "late", at |-> at]
    OBVIOUS
  <1>3. next \in Stmt /\ next.do = "late" /\ next.at = at
    BY <1>2, StmtForms
  <1>4. Timely(next)
    BY <1>1, <1>3 DEF Timely
  <1>5. PICK ss : ss = <<next>>
    OBVIOUS
  <1>6. Runnable(ss)
    BY <1>3, <1>4, <1>5, OneNext
  <1>7. Start(c, ss) /\ UNCHANGED <<task, closed, erupted, now>>
    BY <1>1, <1>2, <1>5 DEF ExpiredTurn
  <1> QED BY <1>6, <1>7, StartOnly

LEMMA TickWell ==
    ASSUME BoardTypeOK, Tick
    PROVE  BoardTypeOK' /\ Counts
  <1>1. /\ now \in Nat /\ now' = now + 1 /\ now' \in 0 .. MaxTime
        /\ UNCHANGED <<task, closed, erupted, todo>>
    BY BoardSizes DEF Tick, BoardTypeOK
  <1>2. ASSUME NEW c \in Caller, NEW i \in DOMAIN todo[c]
        PROVE  Timely(todo[c][i])'
    <2>1. PICK s \in Stmt : s = todo[c][i] /\ Timely(s)
      BY DEF BoardTypeOK
    <2>2. s.do \in {"late", "rearm"} => s.at \in Nat
      BY <2>1, StmtFields
    <2>3. Timely(s)'
      BY <1>1, <2>1, <2>2 DEF Timely
    <2> QED BY <1>1, <2>1, <2>3 DEF Timely
  <1>3. BoardTypeOK'
    BY <1>1, <1>2 DEF BoardTypeOK
  <1> QED BY <1>1, <1>3 DEF Counts

LEMMA BoardStep == BoardTypeOK /\ [BoardNext]_boardVars => BoardTypeOK' /\ Counts
  <1> SUFFICES ASSUME BoardTypeOK, [BoardNext]_boardVars PROVE BoardTypeOK' /\ Counts
    OBVIOUS
  <1>1. CASE UNCHANGED boardVars
    BY <1>1 DEF boardVars, BoardTypeOK, Timely, Counts
  <1>2. ASSUME NEW c \in Caller, Statement(c)
        PROVE  BoardTypeOK' /\ Counts
    BY <1>2, UpdateWell, CompleteWell, CloseLoopWell, ReportNextWell, IssueWell, TakeNumberWell,
       InsertWell, ListLateWell, RearmWell, EruptWell DEF Statement
  <1>3. ASSUME NEW c \in Caller, Request(c)
        PROVE  BoardTypeOK' /\ Counts
    BY <1>3, AddWell, EditsWell, ReportWell, ApplyWell, StandDownWell, ExpiredTurnWell DEF Request
  <1>4. ASSUME NEW c \in Caller, RequestFails(c)
        PROVE  BoardTypeOK' /\ Counts
    BY <1>4, StopWell DEF RequestFails
  <1>5. CASE Tick
    BY <1>5, TickWell
  <1> QED BY <1>1, <1>2, <1>3, <1>4, <1>5 DEF BoardNext

LEMMA BoardStart == BoardInit => BoardTypeOK
  <1> SUFFICES ASSUME BoardInit PROVE BoardTypeOK
    OBVIOUS
  <1>1. task \in [Number -> Task]
    BY BoardSizes DEF BoardInit, Task, Status
  <1>2. todo \in [Caller -> Seq(Stmt)] /\ \A c \in Caller : todo[c] = <<>>
    <2>1. <<>> \in Seq(Stmt)
      OBVIOUS
    <2> QED BY <2>1 DEF BoardInit
  <1>3. closed \subseteq Loop /\ erupted \in Seq(0 .. MaxTime) /\ now \in 0 .. MaxTime
    BY BoardSizes DEF BoardInit
  <1> QED BY <1>1, <1>2, <1>3 DEF BoardTypeOK

\* The rows, the eruptions and every statement a request has still to run keep
\* their form, and a re-arm is to no less than the shortest clock from when its
\* turn began.
THEOREM BoardTypes == BoardSpec => []BoardTypeOK
  <1> QED BY BoardStart, BoardStep, PTL DEF BoardSpec

\* No write of a row decided before a miss takes the count of misses back
\* (Repository.Update beside Rearm).
THEOREM MissesNeverLost == BoardSpec => MissesKept
  <1>1. BoardTypeOK /\ [BoardNext]_boardVars
        => [\A n \in Number : Exists(n) => task'[n].expiries >= task[n].expiries]_boardVars
    <2> SUFFICES ASSUME BoardTypeOK, [BoardNext]_boardVars, NEW n \in Number, Exists(n)
                 PROVE  task'[n].expiries >= task[n].expiries
      OBVIOUS
    <2>1. task[n].expiries \in Nat
      BY TaskForm DEF BoardTypeOK
    <2> QED BY <2>1, BoardStep DEF Counts
  <1> QED BY <1>1, BoardTypes, PTL DEF BoardSpec, MissesKept

\* However many turns list one late clock, a miss is counted only on an open task
\* that is late, and moves its clock on by the shortest clock at least (Expire,
\* Rearm).
THEOREM RearmedOnce == BoardSpec => MissMovesClockOn
  <1>1. BoardTypeOK /\ [BoardNext]_boardVars
        => [\A n \in Number : Exists(n) /\ task'[n].expiries > task[n].expiries
              => /\ Overdue(task[n], now)
                 /\ task'[n].status = "open"
                 /\ task'[n].deadline >= task[n].deadline + MinRearm]_boardVars
    <2> SUFFICES ASSUME BoardTypeOK, [BoardNext]_boardVars, NEW n \in Number, Exists(n),
                        task'[n].expiries > task[n].expiries
                 PROVE  /\ Overdue(task[n], now)
                        /\ task'[n].status = "open"
                        /\ task'[n].deadline >= task[n].deadline + MinRearm
      OBVIOUS
    <2>1. task[n].expiries \in Nat
      BY TaskForm DEF BoardTypeOK
    <2> QED BY <2>1, BoardStep DEF Counts
  <1> QED BY <1>1, BoardTypes, PTL DEF BoardSpec, MissMovesClockOn

=============================================================================

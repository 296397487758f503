------------------------------ MODULE Research ------------------------------
(***************************************************************************)
(* The decisions of phase2/: data.py (what a refresh returns), features.py *)
(* (classify), agents.py (propose, critique, allocate), policy.py (the     *)
(* gates), engine.py (run_cycle, run_multi_underlying_cycle and the work   *)
(* of a batch), outcomes.py (shadows, marks, scores), and the way a        *)
(* selected thesis goes through execution_coordinator.py,                  *)
(* execution_sessions.py (session_scope), order_intents.py (make_intent),  *)
(* order_dispatch.py and authorization.py to the one POST.                 *)
(*                                                                         *)
(* Cycles follow each other (the lease: module CycleLease), each served by *)
(* a dry-run batch or by an execution session.  Time passes at every       *)
(* await.  Prices are cents, so an ask is also the maximum loss in dollars.*)
(* The paper mode and endpoint gates are constant: Settings refuses to     *)
(* start otherwise.                                                        *)
(***************************************************************************)
EXTENDS Integers, Sequences, FiniteSetsExt, SequencesExt

CONSTANTS
    Universe,     \* the sequence of underlyings of the provider
    Views,        \* [underlying -> what a refresh may show of it]
    Missing,      \* no features, no contract, no proposal
    Freshness,    \* 120 seconds, in ticks
    Horizon,      \* 60 minutes, in ticks
    MarkAge,      \* 60 seconds, in ticks
    ShadowWindow, \* the 100 shadows and the 500 marks that history() reads
    MarkWindow,
    Session,      \* the bounds of the execution sessions
    MaxCycles,    \* bound: cycles
    MaxClock      \* bound: ticks

\* What the models of the code accept as a chain of options, and as a market state.
Contracts(options) ==
    /\ IsFiniteSet(options)
    /\ \A o \in options : /\ o # Missing /\ o.bid \in Nat \ {0} /\ o.ask \in Nat \ {0}
                          /\ o.distance \in Nat
Features == [volatility: Int, trend: Int, return: Int, rsi: 0..100]
MarketState(v) ==
    /\ {"underlying", "at", "quoted", "features", "options", "errors"} \subseteq DOMAIN v
    /\ v.features \in Features \cup {Missing}
    /\ Contracts(v.options) /\ Contracts(v.observations) /\ IsFiniteSet(v.positions)
    /\ v.equity \in Int /\ v.cash \in Int

ASSUME ResearchConstants ==
    /\ Freshness \in Nat /\ Horizon \in Nat /\ MarkAge \in Nat
    /\ ShadowWindow \in Nat /\ MarkWindow \in Nat /\ MaxCycles \in Nat /\ MaxClock \in Nat
    /\ Universe \in Seq({"SPY", "QQQ"}) /\ Universe # <<>>
    /\ \A u \in Range(Universe) : u \in DOMAIN Views /\ \A v \in Views[u] : MarketState(v)
    /\ Session.max_new_risk \in Nat /\ Session.max_positions \in Nat

VARIABLES
    clock,
    cycles,  \* cycles begun so far
    run,     \* the cycle at work
    shadows, \* tables, in the order of created_at
    marks,
    posted,  \* orders on their way to the broker
    tape     \* external: time of the newest quote

vars2 == <<clock, cycles, run, shadows, marks, posted, tape>>

Agents == {"TREND", "RANGE", "DEFENSIVE"}
Runners == {"batch", "session"}
Phases == {"idle", "refresh", "work", "dispatch", "final", "save"}
Fresh(age) == age \in 0..Freshness
Recent(seq, n) == SubSeq(seq, Max({1, Len(seq) - n + 1}), Len(seq))

-----------------------------------------------------------------------------
(* Features and agents                                                     *)

\* features: volatility in percent, trend in hundredths, the sign of return_20m, rsi.
classify(s, t) ==
    LET f == s.features IN
    IF f = Missing \/ ~Fresh(t - s.quoted) THEN "UNCERTAIN"
    ELSE IF f.volatility >= 40 THEN "HIGH_VOLATILITY"
    ELSE IF f.trend >= 45 /\ f.return > 0 THEN "TREND_UP"
    ELSE IF f.trend <= -45 /\ f.return < 0 THEN "TREND_DOWN"
    ELSE IF f.volatility < 8 THEN "LOW_VOLATILITY"
    ELSE IF f.trend \in -44..44 THEN "RANGE" ELSE "UNCERTAIN"

confidence(s, regime) ==
    CASE regime \in {"TREND_UP", "TREND_DOWN"} ->
            Min({90, 55 + (15 * Max({s.features.trend, -s.features.trend})) \div 100})
      [] regime = "HIGH_VOLATILITY" -> 80
      [] regime = "LOW_VOLATILITY" -> 60
      [] regime = "RANGE" -> 65
      [] OTHER -> 0

Signal(agent, s, regime) ==
    CASE agent = "TREND" /\ regime = "TREND_UP" -> "call"
      [] agent = "TREND" /\ regime = "TREND_DOWN" -> "put"
      [] agent = "RANGE" /\ regime \in {"RANGE", "LOW_VOLATILITY"} ->
            IF s.features.rsi < 35 THEN "call" ELSE IF s.features.rsi > 65 THEN "put" ELSE "none"
      [] agent = "DEFENSIVE" /\ regime \in {"TREND_DOWN", "HIGH_VOLATILITY"} ->
            IF s.features.return < 0 THEN "put" ELSE "none"
      [] OTHER -> "none"

\* Spread within 10% of the midpoint and 15 cents; quote sizes or open interest.
liquid(o) == 20 * (o.ask - o.bid) <= o.ask + o.bid /\ o.ask - o.bid <= 15 /\ o.deep
OneDayToSeven(o) == o.hours \in 24..168
PerTrade(s, policy) == Min({policy.per_trade_dollars, s.equity \div 200})

propose(agent, s, regime, policy, t) ==
    LET candidates == {o \in s.options :
            /\ o.underlying = s.underlying /\ o.kind = Signal(agent, s, regime) /\ o.tradable
            /\ Fresh(t - s.quoted) /\ OneDayToSeven(o)
            /\ o.ask <= PerTrade(s, policy) /\ liquid(o)}
    IN [agent |-> agent, underlying |-> s.underlying, at |-> t,
        contract |-> IF candidates = {} THEN Missing
                     ELSE CHOOSE o \in candidates : \A q \in candidates : o.distance <= q.distance]

Proposed(proposals) == {p \in proposals : p.contract # Missing}
Concentrated(s) == \E p \in s.positions : p.underlying = s.underlying
CostBasis(s) == MapThenSumSet(LAMBDA p : p.cost, s.positions)

severity(s, regime) ==
    IF Concentrated(s) THEN 95 ELSE IF regime = "HIGH_VOLATILITY" THEN 60 ELSE 25

\* In hundredths of a percent; 5000 is the floor of 0.5.
Score(p, s, regime, quality, policy) ==
    LET c == p.contract
        conf == confidence(s, regime)
        spread == Max({0, 100 - (2000 * (c.ask - c.bid)) \div (c.ask + c.bid)})
        budget == Max({0, 100 - (100 * c.ask) \div Max({1, policy.per_trade_dollars})})
    IN 20 * Min({85, conf}) + 20 * conf + 20 * spread + 15 * quality[p.agent] + 10 * budget
       + 15 * (100 - severity(s, regime))

\* Ties go to the last name.
ByName == [TREND |-> 3, RANGE |-> 2, DEFENSIVE |-> 1]

allocate(proposals, s, regime, quality, policy) ==
    LET score(p) == Score(p, s, regime, quality, policy)
        eligible == {p \in Proposed(proposals) :
                        /\ severity(s, regime) < 80 /\ ~Concentrated(s)
                        /\ p.contract.ask <= s.equity \div 50 - CostBasis(s)}
        best == {p \in eligible : \A q \in eligible : score(q) <= score(p)}
    IN IF \/ Cardinality({p.contract.kind : p \in Proposed(proposals)}) > 1
          \/ \A p \in eligible : score(p) < 5000
       THEN Missing
       ELSE CHOOSE p \in best : \A q \in best : ByName[q.agent] <= ByName[p.agent]

-----------------------------------------------------------------------------
(* Gates                                                                   *)

validate(p, s, policy, flags, t) ==
    LET c == p.contract
        c_ok == c # Missing
    IN [dry_run_gate        |-> ~flags,
        account             |-> s.account,
        competition_window  |-> s.official,
        market              |-> s.open /\ Fresh(t - s.at),
        state_fresh         |-> Fresh(t - s.at),
        data_fresh          |-> c_ok /\ s.features # Missing /\ Fresh(t - s.quoted),
        valid_options       |-> c_ok /\ c.tradable /\ c.underlying = p.underlying
                                     /\ p.underlying = s.underlying,
        proposal            |-> c_ok /\ c \in s.options /\ Fresh(t - p.at),
        max_new_risk        |-> c_ok /\ c.ask <= PerTrade(s, policy),
        liquidity           |-> c_ok /\ liquid(c),
        expiry              |-> c_ok /\ OneDayToSeven(c),
        buying_power        |-> c_ok /\ c.ask <= s.cash,
        positions_limit     |-> Cardinality(s.positions) < policy.max_positions,
        aggregate_risk      |-> c_ok /\ CostBasis(s) + c.ask <= s.equity \div 50,
        underlying_exposure |-> ~Concentrated(s),
        conflicting_order   |-> ~s.working,
        known_exposure      |-> \A x \in s.positions : x.known,
        cooldown            |-> ~s.recent,
        daily_loss          |-> s.drawdown < policy.drawdown]

Approved(gates) == \A name \in DOMAIN gates : gates[name]

\* Only the research gate is replaced, by the flags and the token.
execution_preflight(p, s, policy, flags, t) ==
    LET research == validate(p, s, policy, flags, t)
    IN flags /\ \A name \in DOMAIN research \ {"dry_run_gate"} : research[name]

Policy == [per_trade_dollars |-> 500, max_positions |-> 3, drawdown |-> 100]
session_policy == [per_trade_dollars |-> Max({1, Session.max_new_risk}),
                   max_positions |-> Session.max_positions, drawdown |-> Session.drawdown]
AggregateCap(s) == Min({Session.max_aggregate, s.equity \div 50})

kill_condition(s, t) ==
    \/ ~s.account \/ ~s.official \/ ~s.open
    \/ s.errors \/ s.features = Missing \/ s.options = {} \/ ~Fresh(t - s.at) \/ ~Fresh(t - s.quoted)
    \/ s.drawdown >= Session.drawdown \/ CostBasis(s) > AggregateCap(s)
    \/ Cardinality(s.positions) >= Session.max_positions

\* The reservation is already part of the risk consumed.
session_scope(intent, s, active) ==
    /\ active
    /\ intent.underlying \in Session.underlyings /\ intent.contract.kind \in Session.kinds
    /\ Session.entry
    /\ Cardinality(s.positions) + 1 <= Session.max_positions
    /\ intent.contract.ask <= Min({Session.max_new_risk, s.equity \div 200})
    /\ CostBasis(s) + intent.contract.ask <= AggregateCap(s)

-----------------------------------------------------------------------------
(* Shadows, marks and scores                                               *)

\* Later bids of the contracts of the shadows, from the observations and the chain.
\* No shadow gets as old as 72 hours within MaxClock, where the code stops to mark it.
mark_shadows(history, s, t) ==
    LET mark(h, o) == [shadow |-> h.id, agent |-> h.agent, at |-> s.quoted, loss |-> h.ask,
                       pnl |-> o.bid - h.ask, complete |-> s.quoted - h.at >= Horizon]
    IN {mark(x[1], x[2]) : x \in {y \in Range(history) \X (s.observations \cup s.options) :
            y[2].symbol = y[1].symbol /\ s.quoted - y[1].at >= MarkAge /\ s.quoted <= t}}

\* The first completed mark of each shadow.
FirstOf(pool) == {m \in pool : m.complete
                     /\ \A n \in pool : n.complete /\ n.shadow = m.shadow => m.at <= n.at}

\* Mutant: neither clipped nor shrunk.
ScoreUnshrunk(samples) ==
    IF samples = {} THEN 50
    ELSE 50 + (10 * MapThenSumSet(LAMBDA m : (100 * m.pnl) \div m.loss, samples)) \div 100
         + 5 * (2 * Cardinality({m \in samples : m.pnl > 0}) - Cardinality(samples))
\* 50 + n/(n+20) * (10 * mean clipped return + 5 * hit balance), clipped at +-100%.
ScoreOf(samples) ==
    LET return == [m \in samples |-> Max({-100, Min({100, (100 * m.pnl) \div m.loss})})]
    IN 50 + (10 * MapThenSumSet(LAMBDA m : return[m], samples)
             + 500 * (2 * Cardinality({m \in samples : m.pnl > 0}) - Cardinality(samples)))
            \div (100 * (Cardinality(samples) + 20))

score_agents(samples) == [a \in Agents |-> ScoreOf({m \in samples : m.agent = a})]

\* Mutant: every rejected proposal becomes a shadow.
SuppressedNever(p, history, t) == FALSE
Suppressed(p, history, t) ==
    \E h \in Range(history) : /\ h.agent = p.agent /\ h.symbol = p.contract.symbol
                              /\ t - h.at \in 0..(Horizon - 1)

-----------------------------------------------------------------------------
(* One cycle                                                               *)

run_cycle(s, policy, history, samples, t) ==
    LET regime == classify(s, t)
        proposals == {propose(a, s, regime, policy, t) : a \in Agents}
        quality == score_agents(samples)
        winner == allocate(proposals, s, regime, quality, policy)
        selected == IF winner # Missing /\ Approved(validate(winner, s, policy, FALSE, t))
                    THEN winner ELSE Missing
    IN [state |-> s, selected |-> selected,
        score |-> IF selected = Missing THEN -1 ELSE Score(selected, s, regime, quality, policy),
        shadows |-> {p \in Proposed(proposals) \ {selected} : ~Suppressed(p, history, t)}]

Name == [SPY |-> 2, QQQ |-> 1]
\* The best selected thesis, ties to the last name; the first state if there is none.
run_multi_underlying_cycle(candidates) ==
    IF \A i \in DOMAIN candidates : candidates[i].selected = Missing THEN candidates[1]
    ELSE CHOOSE c \in Range(candidates) : \A d \in Range(candidates) :
            \/ d.score < c.score
            \/ d.score = c.score /\ Name[d.state.underlying] <= Name[c.state.underlying]

-----------------------------------------------------------------------------
(* The runners                                                             *)

Idle2 == [phase |-> "idle", runner |-> "batch", now |-> 0, history |-> <<>>, old |-> <<>>,
          states |-> <<>>, cycle |-> Missing, marks |-> {}, samples |-> {}, intent |-> Missing]

Init2 ==
    /\ clock = 0 /\ cycles = 0 /\ run = Idle2
    /\ shadows = <<>> /\ marks = <<>> /\ posted = {} /\ tape = 0

Phase(phase) == run.phase = phase
Later == clock < MaxClock /\ clock' = clock + 1
Pass == Later /\ Phase("idle") /\ UNCHANGED <<cycles, run, shadows, marks, posted, tape>>

\* The batch reads history and then the clock; the session has no history.
Begin(runner) ==
    /\ Phase("idle") /\ cycles < MaxCycles
    /\ run' = [Idle2 EXCEPT !.phase = "refresh", !.runner = runner, !.now = clock,
                            !.history = IF runner = "batch" THEN Recent(shadows, ShadowWindow) ELSE <<>>,
                            !.old = IF runner = "batch" THEN Recent(marks, MarkWindow) ELSE <<>>]
    /\ cycles' = cycles + 1
    /\ UNCHANGED <<clock, shadows, marks, posted, tape>>

\* External: account, clock and quotes as the broker answers at this time.
Read(u, v, quoted) == [v EXCEPT !.underlying = u, !.at = clock', !.quoted = quoted]
\* A failed or stale data read leaves the observations, and nothing to propose.
Degraded(s) == [s EXCEPT !.features = Missing, !.options = {}, !.errors = TRUE]
Readings(u, quoted) == LET read == {Read(u, v, quoted) : v \in Views[u]}
                       IN {Degraded(s) : s \in read}
                          \cup (IF Fresh(clock' - quoted) THEN read ELSE {})

Refresh ==
    /\ Phase("refresh") /\ Later
    /\ \E quoted \in tape..clock' :
         /\ tape' = quoted
         /\ \E states \in [DOMAIN Universe -> UNION {Readings(u, quoted) : u \in Range(Universe)}] :
              /\ \A i \in DOMAIN Universe : states[i] \in Readings(Universe[i], quoted)
              /\ run' = [run EXCEPT !.phase = "work", !.states = states]
    /\ UNCHANGED <<cycles, shadows, marks, posted>>

\* A read of the account fails, or the work takes too long: the cycle is abandoned.
Abandoned ==
    /\ ~Phase("idle")
    /\ run' = Idle2
    /\ UNCHANGED <<clock, cycles, shadows, marks, posted, tape>>

\* _run_batch reads the clock before it refreshes, the coordinator after.
EvaluatedAt == IF run.runner = "batch" THEN run.now ELSE clock

ShadowRow(p) == [id |-> <<cycles, p.agent>>, agent |-> p.agent, symbol |-> p.contract.symbol,
                 at |-> p.at, ask |-> p.contract.ask, runner |-> run.runner]

\* The terms that the dispatcher compares later, and the proposal they come from.
make_intent(p, t) == [contract |-> p.contract, underlying |-> p.underlying, at |-> t, proposal |-> p]

\* What the work makes at time t of what it has read.
MarkedNow(s, t) == mark_shadows(run.history, s, t)
SamplesNow(s, t) == FirstOf(Range(run.old) \cup MarkedNow(s, t))
Evaluation(t) ==
    LET policy == IF run.runner = "batch" THEN Policy ELSE session_policy IN
    run_multi_underlying_cycle([i \in DOMAIN Universe |->
        run_cycle(run.states[i], policy, run.history, SamplesNow(run.states[i], t), t)])

Evaluate ==
    LET t == EvaluatedAt
        cycle == Evaluation(t)
        p == cycle.selected
    IN
    /\ Phase("work")
    /\ run.runner = "session" => \A i \in DOMAIN Universe : ~kill_condition(run.states[i], clock)
    /\ run' = [Idle2 EXCEPT !.phase = IF run.runner = "session" /\ p # Missing /\ Session.entry
                                      THEN "dispatch" ELSE "save",
                            !.runner = run.runner, !.cycle = cycle, !.marks = MarkedNow(cycle.state, t),
                            !.samples = SamplesNow(cycle.state, t),
                            !.intent = IF p = Missing THEN Missing ELSE make_intent(p, t)]
    /\ UNCHANGED <<clock, cycles, shadows, marks, posted, tape>>

\* release_lease COMPLETED inserts the rows of the cycle.
Complete ==
    /\ Phase("save")
    /\ shadows' = shadows \o SetToSeq({ShadowRow(p) : p \in run.cycle.shadows})
    /\ marks' = marks \o SetToSeq(run.marks)
    /\ run' = Idle2
    /\ UNCHANGED <<clock, cycles, posted, tape>>

\* Intent, claim, reservation and lookup (module Dispatch), then a fresh state.
Reread ==
    /\ Phase("dispatch") /\ Later
    /\ \E quoted \in tape..clock' : \E s \in Readings(run.intent.underlying, quoted) :
         /\ tape' = quoted
         /\ run' = [run EXCEPT !.phase = "final", !.states = <<s>>]
    /\ UNCHANGED <<cycles, shadows, marks, posted>>

\* The first fresh quote of the intent's contract, and whether it keeps the terms.
Current(intent, s) == CHOOSE o \in s.options : o.symbol = intent.contract.symbol
\* Mutant: the terms of the intent are not compared with the fresh contract.
TermsAny(intent, s) == \E o \in s.options : o.symbol = intent.contract.symbol
TermsOk(intent, s) == /\ \E o \in s.options : o.symbol = intent.contract.symbol
                      /\ Current(intent, s).ask = intent.contract.ask

\* dispatch after the refresh: the session may have lapsed meanwhile.
Dispatch2 ==
    LET s == run.states[1]
        intent == run.intent
        current == Current(intent, s)
        p == [intent.proposal EXCEPT !.contract = current]
    IN
    /\ Phase("final")
    /\ \E active \in BOOLEAN : session_scope(intent, s, active)
    /\ Fresh(clock - intent.at)
    /\ TermsOk(intent, s)
    /\ execution_preflight(p, s, session_policy, TRUE, clock)
    /\ posted' = posted \cup {[contract |-> current, limit |-> intent.contract.ask, at |-> clock,
                               final |-> s, research |-> run.cycle.state]}
    /\ run' = [run EXCEPT !.phase = "save"]
    /\ UNCHANGED <<clock, cycles, shadows, marks, tape>>

\* Any check of the dispatcher fails: the intent is REJECTED, the cycle completes.
Rejected ==
    /\ run.phase \in {"dispatch", "final"}
    /\ run' = [run EXCEPT !.phase = "save"]
    /\ UNCHANGED <<clock, cycles, shadows, marks, posted, tape>>

Next2 ==
    \/ Pass \/ Refresh \/ Abandoned \/ Evaluate \/ Complete \/ Reread \/ Dispatch2 \/ Rejected
    \/ \E runner \in Runners : Begin(runner)

Spec2 == Init2 /\ [][Next2]_vars2

-----------------------------------------------------------------------------
(* Properties                                                              *)

ResearchTypeOK ==
    /\ clock \in 0..MaxClock /\ tape \in 0..clock /\ cycles \in 0..MaxCycles
    /\ run.phase \in Phases /\ run.runner \in Runners /\ run.now \in 0..clock
    /\ \A i \in DOMAIN shadows : shadows[i].agent \in Agents /\ shadows[i].at \in 0..clock
    /\ \A i \in DOMAIN marks : marks[i].at \in 0..clock
    /\ Cardinality(posted) <= cycles
    /\ score_agents(run.samples) \in [Agents -> 35..65]

\* However the market moves between the research that selected it and the request, the
\* order sent is in both moments the same contract at the same ask, in an open market
\* of a sound account, from fresh quotes, the only exposure to its underlying, within the
\* caps of the policy; and the premium paid for everything stays within the cap of the
\* session as well when it is sent.
OrderIsJustified == \A order \in posted :
    /\ order.limit = order.contract.ask /\ Fresh(order.at - order.final.quoted)
    /\ CostBasis(order.final) + order.limit <= AggregateCap(order.final)
    /\ \A s \in {order.final, order.research} :
         /\ \E o \in s.options : o.symbol = order.contract.symbol /\ o.ask = order.limit
         /\ s.account /\ s.open /\ s.official /\ ~s.working /\ ~s.recent
         /\ \A x \in s.positions : x.underlying # order.contract.underlying
         /\ Cardinality(s.positions) + 1 <= Session.max_positions
         /\ CostBasis(s) + order.limit <= s.equity \div 50
         /\ order.limit <= Min({Session.max_new_risk, s.equity \div 200, s.cash})

\* A batch adds no shadow to the same agent and contract within the horizon of an earlier
\* one, whoever made that.  (Cycles of a session do: they are given no history.)
ShadowsApart == \A i, j \in DOMAIN shadows :
    i < j /\ shadows[j].runner = "batch"
          /\ shadows[i].agent = shadows[j].agent /\ shadows[i].symbol = shadows[j].symbol
          /\ Len(shadows) <= ShadowWindow
      => shadows[j].at - shadows[i].at >= Horizon

\* "Selected-but-approved means DRY_RUN_CANDIDATE" (docs/PHASE-2-ARCHITECTURE.md:67): a
\* thesis that the allocator ranks first and every gate approves at the time it is evaluated
\* is the candidate of the cycle.
EligibleIsSelected == [][
    Phase("work") /\ run'.cycle # Missing /\ Evaluation(clock).selected # Missing
        => run'.cycle.selected # Missing]_vars2
=============================================================================

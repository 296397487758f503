# ThesisCircuit: formal models

TLA+ models of the parts of ThesisCircuit that decide and coordinate: the Postgres RPCs that hand
out cycles, fence orders and spend session budgets, the asynchronous workers that call
them, the supervisor that takes the authority away again, the one-shot order of Phase 1, and
the research that selects a thesis. TLC checks the models on small instances; TLAPS proves the
theorems below for every value of the constants.

## 1. Inventory

| Component | State | Operations | Interacts with | Hard because of |
|---|---|---|---|---|
| Cycle lease, `004_phase2_cycle_lease.sql`, `003_phase2_dry_run.sql` | one lease row (owner, cycle, expiry, `next_allowed_at`, attempts), recorded cycles | acquire, release as COMPLETED / FAILED / CANCELED | batch runner, coordinator, order intents (its owner fences orders) | expiry under a slow worker, lost acknowledgments, restarts |
| Batch runner, `phase2/engine.py` `_run_batch` | sequence number, owner token | skip, acquire, work, complete, fail, sleep | lease RPCs | overlapping deployments with the same deterministic cycle ids |
| Order intents, `005_phase2_order_intents.sql` | rows: status, claim, attempt count, broker order, evidence | create, claim, advance | lease row, dispatcher, gate | orphans, recovery, the account-wide barrier |
| Execution sessions, `006_...`, `007_...` | rows: status, budgets, reservations, failures, cycle ledger | create, control (6 actions), order gate (3 actions) | intents in the same transaction, coordinator | limits, lapse, UNKNOWN orders, competing sessions |
| Dispatcher and reconciliation, `phase2/order_dispatch.py` | where each worker is, what it read | dispatch, reconcile, recover | all of the above, the broker | every `await`: crash, cancellation, timeout, stale answers |
| Broker (external) | order per client id, requests on the wire | accept, refuse, end, answer lookups | dispatcher, Phase 1 | delay, loss, a 404 for a request on its way |
| Coordinator, `phase2/execution_coordinator.py` | session loop, sequence number, cadence wait | run, wait, clean up | sessions, lease, dispatcher | restart, partial failure, what eventually happens |
| Activation, `phase2/activation.py`, lifespan of `main.py` | local flags, Railway flags, start-up jobs | activate, time out, be cancelled, shut down, prove the shutdown | sessions, coordinator, control plane | each clean-up step may fail; order of local and remote flags; the redeploy it causes |
| Phase 1 preflight and submission, `services/preflight.py`, `services/alpaca.py`, `/phase1` routes | receipts, one-use claim, process-local gate | readiness, execution, submission, reconcile | audit table, broker | races for the claim, timeout of the one POST |
| SDK adapter, `services/alpaca_sdk.py` | request budgets, a lock | get, post | broker | a thread and the event loop share the budget |
| Policy, allocation, risk, features, outcomes | shadows, marks | classify, propose, allocate, validate, mark, score | engine, coordinator, dispatcher | data that age or move between two checks, windows of the history |
| Exercisers, configuration, frontend, replay, strategy stubs | none of their own | - | - | - |

What makes the components correct:

- a recorded cycle is the work of the latest grant; attempts and the cooldown hold across
  deployments;
- an intent is sent at most once, and while it may still trade no other one is sent;
- a row is closed only on evidence, or if nothing was ever sent;
- budgets are a ledger of the reservations, a fenced order was paid for by one session, and
  an ended session spends nothing;
- a run of the coordinator ends, and leaves no lease and no open session behind unless the call
  that should have ended it failed or was cancelled;
- local authority is gone before the control plane is asked, and a report of shutdown is true;
- Phase 1 posts one order, as it was approved twice;
- an order that is sent is justified by the data at research and by those at dispatch.

The hazards, each at its line and with the properties aimed at it, are in `PROJECT.json`.

## 2. Modules

    CycleLease <- OrderIntents <- ExecutionSessions <- Dispatch      (EXTENDS)
                                  ExecutionSessions <- Coordinator
    CycleLease <- BatchRunner
    Activation, Phase1, Research                                     (on their own)
    OneOrderAtATime   abstract; implemented by OrderIntents and by Dispatch
    *_proofs          theorems about the module of that name; those about OrderIntents
                      open ExecutionSessions_proofs, which builds on them
    MC*               instances for TLC

Each SQL module adds its tables to the ones below it. Its specification lets any client
call any RPC in any order, so that what it shows is what SQL promises on its own; `Dispatch`,
`Coordinator` and `BatchRunner` put the Python workers on top. Conventions:

- *One RPC, one action.* Each RPC locks what it reads (`FOR UPDATE` on the lease row, advisory
  locks 725025 and 726026 to the end of the transaction), so it is atomic. An RPC that raises
  changes nothing: its action is disabled. One that returns false or `allowed=false` is an
  action of its own where a caller goes on from it.
- *One await, one step.* Between two awaits a coroutine runs alone in its process. A call of
  a worker fails unapplied, takes effect and answers, or takes effect and loses its answer.
- *Time.* A timestamp is the number of ticks until it passes (`Elapse`); a tick lets every
  countdown of the tables and the workers fall at once. There is no clock value and so no
  bound on time. Lengths in ticks are CONSTANTS; the properties depend only on the order in
  which deadlines pass, and each order arises as ticks interleave with every step. `Research` has a
  clock, since it compares ages; `Activation` and `Phase1` have only "it lapsed".
- *Identities.* Documents are immutable and ids derive from them, so an id stands for its
  document; what is kept is the classification, the cycle, the direction and the risk.
- *Mutants.* An operator commented `Mutant:` is the definition after it with a plausible
  bug. No specification uses it; `PROJECT.json` lists which property detects which one.

| Module | Models | Correspondence |
|---|---|---|
| `CycleLease` | 004, and `phase2_save_cycle` | `lease` is the row, `savedBy` the cycle table; `granted` is a history variable |
| `BatchRunner` | `_run_batch` run by several processes | `runner[r].pc` is the await a process is at; `worked`, `quiet` are history |
| `OrderIntents` | 005 | `intents[i]` is the row; `Write` holds the constraints and indexes, `Fence` is SUBMITTING, `Settle` the statuses that need broker evidence |
| `OneOrderAtATime` | the promise to the account | `Send`, `End` |
| `ExecutionSessions` | 006 as 007 changes it | `sessions[s]` is the row; `Gate*` are the branches of the order gate, in the order of its checks |
| `Dispatch` | `order_dispatch.py`, the broker | `worker[w].pc` names the call that comes next; `wire` holds POSTs that may still arrive after their sender gave up |
| `Coordinator` | `BoundedExecutionCoordinator.run` and `_wait_for_cadence` | `run.pc` is the await the run is at, `run.known` the cycles that were used when it began, `run.lost` what went wrong on the way; `Exception` says where a failure goes from each await, `Cancelled` that a cancellation leaves an except clause at once, since `suppress(Exception)` does not hold it |
| `Activation` | `ActivationSupervisor.run`, `force_disabled`, `verify_production_shutdown_control`, the lifespan | `proc[p].pc` is the await of the supervisor, `.force` that of the shielded shutdown, `.check` that of the proof; `railway` holds the gates whose variable is true, `queued` the variables of the deployment to be started; `FirstPcs` says how an activation begins, `unbuilt` being the end of one whose services cannot be built; `wrote` is history |
| `Phase1` | the `/phase1` routes with `preflight.py`, `OrderService`, `supabase.py` | `request[c].pc` is the await of a handler; `row` holds the receipts (upserts), `claim` the immutable insert; `sent`, `posts`, `issued` are history |
| `Research` | `engine.run_cycle`, `run_multi_underlying_cycle`, `policy.py`, `agents.py`, `risk.py`, `outcomes.py`, `session_scope`, the checks of `dispatch` | `run.phase` is where the batch or the session is; operators have the names of the functions; `Evaluation(t)` is the work of a cycle at time t; `posted` is history: each order with the two states that justified it |

`Dispatch` starts dispatches and recoveries at any time under an arbitrary environment: leases
and sessions move freely, which includes everything the coordinator's cleanup does. `Abort`
stands for a crash, the cancellation by `wait_for`, and any uncaught exception, a lost RPC
acknowledgment included. The broker may refuse, accept, end or lose an order at any time,
and orders of an earlier database may exist at the start.

`Coordinator` goes the other way: the dispatcher is any client of the order RPCs that works under
the run's claim. Its processes follow each other (`Starts`), each one meeting what the
previous one left, so `RestartSkipsUsed` is about restarts. Overlapping runs are not modelled: there a run
that has passed line 121 may still take up a cycle of another run that died, once that one's lease has
lapsed, and `phase2_acquire_lease` allows a cycle two attempts (`AttemptCap`); that an intent is sent
at most once whoever works on it is shown by `Dispatch`. `Activation` in turn takes a whole run of the coordinator as one step with every
outcome. `Research` has one intent at a time, since `Dispatch` shows that only one can be open.

## 3. Runs

| Run | Instance | Distinct states | Shows |
|---|---|---|---|
| `batch` | 2 processes started twice each, 2 cycles, lease 3 ticks, cooldown and interval 1, 2 attempts | 24,064 | `FencedSave`, `AttemptCap`, `Cadence` |
| `order_intents` | 2 PAPER intents, 2 workers, 2 cycles, 2 broker orders, lease 2 ticks of which 2 must be left to send, other deadlines 1 | 647,866 | `LedgerKeepsPromise`, `UnsentClosure`, `OrderBinding`, `Irreversible`, `TerminalFinal` |
| `synthetic_session` | 1 session with budget for both of 2 intents, 1 of 2 cycles, 2 failures; session 3 ticks, 2 must be left to send | 1,109,657 | `FencedOnlyWhenSafe` where one intent can be UNKNOWN and another about to be fenced, `FailuresKill` at the second failure, `BudgetLedger` at the limit of cycles |
| `paper_sessions` | 2 PAPER sessions with budget for 1 order each, 2 intents; session 2 ticks, start delayed by 1 | 895,038 | `BudgetLedger` at the limit of orders, `OneActiveSession`, `FencedIsBudgeted`, `EndedIsFinal` |
| `dispatch` | 2 workers, 2 intents, 1 session, every deadline 1 tick; a working order ends FILLED or EXPIRED (`Endings`), a new one may be refused as REJECTED | 895,076 | `AtMostOnePost`, `SingleWorkingOrder`, `TruthfulTerminal`, `AccountKeepsPromise` |
| `coordinator` | 1 session of 2 cycles and 1 order, 2 starts of the process, cadence 2 of a session of 3 ticks, slices, leases and work of 1 tick | 289,418 | `CleanEnd`, `RestartSkipsUsed`, `NotEndedEarly`, `RunsEnd` |
| `orphan` | 2 sessions of 1 cycle, 2 starts, every deadline 1 tick | - | violation of `OrphanLetsGo` |
| `activation` | 2 processes, 2 deployments after the first configuration, each with or without the job that proves the shutdown | 629,631 | `LocalFirst`, `ShutdownReport`, `AuthorityEnds` |
| `activation_cancelled` | the same | - | violation of `ShutdownTried` |
| `phase1` | 1 replica, 2 requests at a time, 2 contracts, prices 1 and 2, 3 receipts | 1,285,646 | `OneOrder`, `SentAsApproved`, `GateStaysOff` |
| `research` | 2 underlyings in 7 market situations, 3 cycles, clock up to 4, freshness 1, horizon 2 | 291,692 | `OrderIsJustified`, `ShadowsApart` |
| `batch_selects` | the same | - | violation of `EligibleIsSelected` |

Why the bounds are enough. The hazards are races of two actors over one row or of two orders
over the barrier, so two of each are needed and let all of them happen. A deadline of one
tick can be met or missed by every step. The lease of three ticks in `batch` outlives the
cooldown, so a live lease and an open cooldown both occur. Two starts of two processes
reach the third attempt that the cap must refuse. `dispatch` has two owner ids, each used for one
dispatch or one recovery: an owner and the worker that recovers its row, or two owners
of two intents. `Endings` leaves out CANCELED, and REJECTED of an order that was accepted, which
the code treats alike; EXPIRED stays, being also the status of a swept orphan. SYNTHETIC intents need no
cycle lease, which leaves `synthetic_session` room for a second cycle and for the margin that a session must still run;
`paper_sessions` puts the competition on the smallest deadlines. In `coordinator` the
cadence outlasts a slice and may or may not leave room for the second cycle, and the second
start meets a cycle that was used, ended or in flight. In `activation` a deployment that the
shutdown itself causes follows the one that the operator made. In `phase1` three receipts are the
least with which a stage can be approved again between a request and the one that overtakes it;
one replica is enough because nothing but the process-local gate distinguishes replicas (the theorems
hold for any number). The clock of `research` lets a quote be fresh, just stale, and
marked before and after the horizon. Its account holds, in one situation, a position that leaves room
for an order under the cap of the policy and none under the lower cap of the session.

State constraints are not used. Bounds appear as guards and are CONSTANTS with a comment
`bound`: `MaxRuns`, `Starts`, `MaxDeploys`, `MaxReceipts`, `MaxCycles`, `MaxClock`. Constants with
model values that the specification does not tell apart are symmetric (owners, cycles, intents,
sessions or requests as the MC modules say); no run with symmetry checks liveness.

Deadlock checking stays on where time always passes (`batch`, `order_intents`, the two session
runs, `dispatch`). It is off for `coordinator` and `orphan` (in the end nothing has a countdown left and no
start is left), `activation` (every process may have stopped and the deployments be used up),
`phase1` (the flow is over once receipts are used up and the gate is off), `research` and `batch_selects`
(clock and cycles are used up): there the system may stop.

Fairness. `CoordinatorSpec` assumes weak fairness of time and of a step of the run: the event loop
is not blocked for ever, every HTTP call has a timeout, `wait_for` limits the work, and a clock that
stalls ends the wait by itself. Nobody has to start a run. `ActivationSpec` assumes weak fairness of
the work of each living process for the same reasons; nothing is assumed of Railway, the
operator or the window of the session. `RunsEnd`, `AuthorityEnds` and the violated
`OrphanLetsGo` are checked under it. All other properties are safety properties.

### Disagreements of code and documents

- `orphan`. `005_phase2_order_intents.sql:95` says that a never-sent orphan must not permanently hold
  the account-wide barrier. The sweep that closes orphans runs only when somebody claims that very
  intent (or creates it again), and after a restart the coordinator skips every used cycle
  (`execution_coordinator.py:121`), so nobody does; `recover()` is not called in production. TLC shows
  a run that dispatches an order of its own again and again in the way of such an orphan.
- `activation_cancelled`. `docs/PHASE-2.7-FINAL-READINESS.md:23-26` says that process cancellation
  enters the path that removes local authority and then updates the Railway variables. The finally
  block suppresses `httpx.HTTPError`, `RuntimeError`, `ValueError`, `TypeError` and `KeyError` only; a
  `CancelledError` that arrives while it awaits the session (`activation.py:192-195`) leaves it before
  `force_disabled` is called.
- `batch_selects`. `docs/PHASE-2-ARCHITECTURE.md:67-68` says that selected and approved means
  DRY_RUN_CANDIDATE. The batch reads its clock before it refreshes (`engine.py:126`), so that everything
  it evaluates is newer than its clock and is refused as not fresh. The run shows a batch that drops a thesis which
  every gate approves at the time of the evaluation; theorem `BatchSelectsNothing` is that no batch ever
  selects any.

Disagreements that no run shows:

- An activation that cannot be built. `docs/ALPACA-TECH-STORY.md:45-47` says that every completion, expiry, kill
  and competition-window closure drives both local gates false, and `docs/PHASE-2.7-FINAL-READINESS.md:23-26` the like. The
  services are constructed before the supervisor's `try` (`activation.py:219-227`); an `AlpacaClient`
  or a Supabase service without credentials raises there, `config.py:61-90` does not demand those
  (it does demand the Railway token), and `main.py:58-63` catches nothing. The task is over and both
  local gates stay true as long as the process lives, though no dispatcher exists that would use them. It is
  `unbuilt` in `Activation`, and the one exception that `AuthorityEnds` makes.
- Shadows of a session. `docs/PHASE-2-ARCHITECTURE.md:74` says that overlapping entries of the same agent and
  contract are suppressed for 60 minutes. The coordinator passes no history to the cycle
  (`execution_coordinator.py:144`), so shadows of a session may overlap with each other and with those of a batch.
  `ShadowsApart` is about batches, and holds within the window of shadows that `history()` reads (100 rows).
- Which mark counts. `docs/PHASE-2-ARCHITECTURE.md:74-75` says one latest completed mark per shadow;
  `outcomes.py:39-43` takes the first, and its comment says so. Nor is it always the first: `history()` reads
  the last 500 marks, and when polls have pushed the first completed mark of a shadow out, a later one takes its place.
  `FirstOf` and `MarkWindow` model that; no property is stated, since the sources do not agree on what should hold.

Observations that contradict no document, and that the properties allow for:

- A cancellation during the KILL of a cleanup of the coordinator (`execution_coordinator.py:173-180`) skips the
  release, since `suppress(Exception)` does not hold `CancelledError`: the lease stays until it expires, and the
  session until it lapses or the supervisor ends it. `CleanEnd` excepts exactly the runs to which that happened.
- A local clock outside the window of the session while the database's is inside ends the loop
  (`execution_coordinator.py:125`), and the session with FINISH; `NotEndedEarly` allows for it. The other way round
  the database decides again in every call.
- The research of a session is gated by the policy's cap on all premium (2% of the equity); the lower
  `max_aggregate_premium_risk` of the session is compared before the cycle (`kill_condition`, without the new
  order) and at the dispatch (`session_scope`, with it). So a thesis may be selected, and an intent
  created, that the session's cap refuses later; `OrderIsJustified` claims that cap for the state of the dispatch only.
- `CYCLE_START` for a session that has ended is acknowledged unchanged, so one research cycle may
  still be worked after the end; no order can come out of it, since the gate refuses.
- A POST of Phase 1 that was accepted may be answered by a timeout; one lookup decides, and the order
  may still appear. `OneOrder` shows that this cannot lead to a second one.
- Two overlapping `phase1_reconcile` calls may write an older order status over a newer one.

## 4. Proofs

| Theorem | Statement | Argument |
|---|---|---|
| `LeaseTypeCorrect`, `LeaseFencesSave` | `LeaseSpec => []LeaseTypeOK`, `[]FencedSave` | invariant `LeaseInv`: besides the two, the owner in the row is the latest grantee of its cycle (`OwnerIsLatest`); without it a release could record for an older grant |
| `BatchImplementsLease` | `BatchSpec => LeaseSpec` | each step of a process is an RPC or leaves the lease alone |
| `BatchFencesSave` | `BatchSpec => []FencedSave` | from the two above |
| `BatchTypeCorrect`, `BatchCapsAttempts`, `BatchKeepsCadence` | type, `[]AttemptCap`, `Cadence` | invariant relating `worked` to the attempts in the row and `quiet` to its rest |
| `IntentTypeCorrect`, `ClosesOnlyUnsent`, `BindsOrders` | type, `[]UnsentClosure`, `[]OrderBinding` | inductive invariant `IntentInv` over status, attempts, evidence and order |
| `FenceIsIrreversible`, `TerminalIsFinal` | the action properties | the same invariant, action by action |
| `IntentsKeepPromise` | `IntentSpec => LedgerKeepsPromise` | refinement: `Fence` is `Send`, settling a fenced row is `End`, all else stutters; needs that a fenced, unsettled row is in an active status, so the index sees it |
| `SessionTypeCorrect`, `SessionsImplementIntents` | type; `SessionSpec => IntentSpec` | `SessionInv`: `IntentInv`, each row within its limits (`RowsInv`), and a fenced PAPER intent reserved by one session (`PaperReserved`); each gate branch is a step of `OrderIntents` or leaves the intents alone |
| `BudgetIsLedger` | `SessionSpec => []BudgetLedger` | `LedgerInv`: also the sets reserved are finite; RESERVE adds to the sum an intent that was not in it (`TotalTakes`), no other call touches the budget |
| `FencedPaidOnce`, `FailuresEnd`, `ActiveAlone` | `[]FencedIsBudgeted`, `[]FailuresKill`, `[]OneActiveSession` | consequences of `SessionInv` |
| `FencesSafely`, `EndedStaysEnded` | the action properties | `SessionInv`, action by action |
| `DispatchTypeCorrect`, `DispatchImplementsSessions` | type; `DispatchSpec => SessionSpec` | `DispatchInv`: what a worker knows at each await (`WorkerOK`), at most one worker about to send an intent (`SenderAlone`), and how row, wire and broker agree (`IntentOK`) |
| `PostsAtMostOnce`, `OneWorkingOrder`, `TerminalTellsTruth` | `[]AtMostOnePost`, `[]SingleWorkingOrder`, `[]TruthfulTerminal` | from `DispatchInv`: an order that is on its way or works has a fenced, unsettled row, and of those there is one |
| `BrokerWithinBudget` | `DispatchSpec => []SpendWithinLimits`: each POST was paid for by one session, and the POSTs of a session keep its four limits | from `DispatchInv` and, by refinement, `LedgerInv`; a part of what was reserved costs no more than all of it (`SubtotalAtMost`). Stated in `Dispatch_proofs`; no run checks it on its own |
| `AccountKept` | `DispatchSpec => AccountKeepsPromise` | refinement at the broker: a POST is `Send`, a working order that ends is `End` |
| `CoordinatorTypeCorrect`, `CoordinatorImplementsSessions` | type; `CoordinatorSpec => SessionSpec` | `CoordinatorInv`: `SessionInv`, and what each await of a run implies of its session, its cycle (`RunOK`, `UsedOK`, `EndOK`), of the lease (`HeldOK`, `PastOwners`) and of the cycles begun (`BegunOK`: such a cycle is in the ledger, or its session is over, and no run goes back to it); failures go through one lemma (`ExceptionGoes`), calls of the session RPCs through another (`CallGoes`) |
| `CleanEnds`, `UsedAreSkipped`, `NeverEndedEarly` | `[]CleanEnd`, `RestartSkipsUsed`, `NotEndedEarly` | from `CoordinatorInv`: a run past its release holds no lease unless `lost` says why (`EndOK`); a cycle that a run is about to begin is not in the ledger of an active session, so by `BegunOK` no run began it. The last one also needs that a row is completed by FINISH alone |
| `ActivationTypes`, `LocalAuthorityFirst`, `TruthfulReport` | type, `[]LocalFirst`, `[]ShutdownReport` | `ActivationInv`: what each await of the supervisor implies of its flags, its report and the session |
| `Phase1Types`, `OnePost`, `PostedAsApproved`, `GateOff` | type, `[]OneOrder`, `[]SentAsApproved`, `[]GateStaysOff` | `Phase1Inv`: the claim is written once, its holder alone is past it, and what a handler remembers of a receipt was issued |
| `OrdersJustified` | `Spec2 => []OrderIsJustified` | `ResearchInv`; in `ThesisInv` the thesis has passed the gates in the state kept with it. `Approved` gates promise what they look at (`ApprovedIsSound`), once for the research and once, with the fresh contract, for the dispatch; the scope of the session adds its caps |
| `ShadowsStayApart` | `[]ShadowsApart` | `ReadInv`: what a batch read is still the table while it works, so the distances that it computed hold when the rows are inserted (`CycleInv`); the agents of one cycle differ (`RunCycleOK`) |
| `BatchSelectsNothing` | `[]BatchNeverSelects`, stated in `Research_proofs`: a batch that has evaluated has no candidate | `StatesInv`: the states of the refresh are later than the clock of the batch, so no thesis is `Sound`, and `MultiIsOne` returns a cycle without one |
| `ResearchTypeCorrect` | `[]ResearchTypeOK` | scores from 35 to 65: a sum of n returns clipped at 100% and a hit balance of n, divided by n + 20 (`TotalBounds`, `ScoreBounds`); one order per cycle (`PostedInv`) |

By the chains `DispatchSpec => SessionSpec => IntentSpec` and `CoordinatorSpec => SessionSpec => IntentSpec` every
theorem about intents and sessions holds of the dispatcher with its network and of the runs with
their crashes too.

The assumptions are the named ASSUMEs of the modules (`LeaseConstants`, `BatchConstants`, `IntentConstants`,
`SessionConstants`, `DispatchConstants`, `CoordinatorConstants`, `ActivationConstants`, `Phase1Constants`, `ResearchConstants`): sentinels are not ids, TTLs are
natural numbers (positive where the SQL has them so), limits are in the ranges of the SQL checks,
`Paper` is a subset of the intents, broker ids are unique. `ResearchConstants` says of the market what the models of `phase2/models.py` accept:
finite chains with positive bids and asks, an RSI from 0 to 100, whole cents, the two underlyings, at least
one of them in the universe. Nothing is assumed of how the market moves, of how deep, wide or long-dated a
contract is, of the positions held but that they are finitely many, or of the bounds of a session but that
they are not negative. TLC evaluates the assumptions on every run.

Sums and best elements. The library's induction theorems take an operator, which none of the provers can
instantiate. What holds of every finite set is proved by a least counterexample instead: among the subsets
of a finite set that lack the property there is one without a smaller one (`LeastSet`, from
the well-foundedness of strict inclusion). So a sum over a set unrolls at any element (`TotalUnrolls`, `TotalTakes`), stays
within bounds (`TotalBounds`) or below that of a larger set (`SubtotalAtMost`), and a score has a greatest value
(`Greatest`, `BestOfBoth`), which the `CHOOSE` of the allocator and of the best cycle take. The lemmas on sums
stand in `ExecutionSessions_proofs` and in `Research_proofs`, whose modules share nothing.

Only model-checked: liveness (`RunsEnd`, `AuthorityEnds`), out of the prover's reach like ENABLED. Every
safety property of the passing runs is a theorem.

## 5. Not modelled, and what is left out

- `save_cycle` fills audit tables in the transaction that inserts the cycle; the insert stands for them,
  `Research` keeps the shadows and marks.
- In the modules about coordination the research cycle is one step; in `Dispatch` market terms,
  staleness and the final risk preflight are one nondeterministic decision, and `authorize()` is left
  out: it can only stop a dispatch, as `Abort` does. `Research` has those decisions.
- A late effect of an RPC whose caller gave up is covered by the caller giving up after it, since the
  environment already releases leases and ends sessions at any time.
- Documents that do not validate, and PostgreSQL or PostgREST failures other than "did nothing" and
  "committed, answer lost".
- `features()`, statistics over bars, is represented by its results, the values of `Views`; scores are
  integers where the code has floats.
- Exit proposals and exit reviews (`review_positions`), since no code creates an `ExitProposal`;
  `reflect()`, a report that nothing acts on. The execution preflight of Phase 1 builds its proposal
  with the default underlying.
- The request budgets of the SDK's HTTP sessions: a budget that is used up is an exception, and so
  any failing call. The synchronous POST and the recheck of the gate at the transport are in `Phase1`,
  where `sdk` chooses between the adapter and an injected client; only the latter tells a timeout
  from other failures.
- `PHASE1_RETIRED` is true in production, where every `/phase1` route that could order refuses;
  the instance has `Retired = FALSE`, the flow the routes still contain.
- In `Activation` the deployment of a restart reads the variables of the moment it was created; SIGTERM
  and crashes come at any time. Status routes only read.
- The components marked `not_modelled` in `PROJECT.json`: the exercisers drive the RPCs through fixed
  sequences, each a behaviour of `ExecutionSessions`; frontend, replay and strategy stubs hold no state of
  the system.

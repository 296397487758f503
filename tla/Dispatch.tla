------------------------------- MODULE Dispatch -------------------------------
(***************************************************************************)
(* backend/app/phase2/order_dispatch.py: PaperOrderDispatcher.dispatch and *)
(* OrderReconciliationService, run by concurrent workers against the three *)
(* tables and against the broker.  Every await is a point where other      *)
(* workers, the broker and the clock move, and where the worker may stop.  *)
(*                                                                         *)
(* What surrounds the dispatcher is arbitrary: leases are granted and      *)
(* released, sessions are controlled and results reported at any time.     *)
(***************************************************************************)
EXTENDS ExecutionSessions

CONSTANTS
    BrokerId,       \* the id the broker gives to the order of each intent
    Endings,        \* bound: the statuses in which the broker ends a working order
    PreflightTTL,   \* the 2 seconds of the final preflight and the send window
    None            \* no intent, and the session of a worker that runs recover()

ASSUME DispatchConstants ==
    /\ BrokerId \in [Intents -> OrderIds]
    /\ \A i, j \in Intents : BrokerId[i] = BrokerId[j] => i = j
    /\ Endings \subseteq Terminal
    /\ PreflightTTL \in Nat \ {0}
    /\ None \notin Sessions \cup Intents

VARIABLES
    worker,    \* per owner id, drawn fresh for one dispatch or one recovery
    orders,    \* the broker: state of the order with the client id of each intent
    wire,      \* the POSTs on their way to the broker
    posts      \* history: POSTs sent for each intent

brokerVars == <<orders, wire, posts>>
dispatchVars == <<sessionVars, worker, brokerVars>>

\* The step a worker takes next, named after the call in the source.
DispatchPcs == {"idle", "persist", "claim", "reserve", "lookup", "refresh", "validate", "preflight",
        "submit", "window", "post", "response", "reconcile", "get", "record", "unknown",
        "reject", "done"}

\* open stands for every non-terminal broker status.
OrderStates == {"none", "open"} \cup Terminal

\* seen: the order as last answered; preflight: ticks the local `now` of the preflight
\* stays fresh.
Worker == [pc: DispatchPcs, intent: Intents \cup {None}, session: Sessions \cup {None},
           seen: OrderStates, preflight: 0..PreflightTTL]

DispatchTypeOK ==
    /\ SessionTypeOK
    /\ worker \in [Owners -> Worker]
    /\ orders \in [Intents -> OrderStates]
    /\ wire \subseteq Intents
    /\ posts \in [Intents -> Nat]

AtRest(pc) == [pc |-> pc, intent |-> None, session |-> None, seen |-> "none", preflight |-> 0]

DispatchInit ==
    /\ SessionInit
    /\ worker = [w \in Owners |-> AtRest("idle")]
    /\ \E old \in SUBSET Intents :    \* orders that an earlier database has left behind
          orders = [i \in Intents |-> IF i \in old THEN "open" ELSE "none"]
    /\ wire = {}
    /\ posts = [i \in Intents |-> 0]

I(w) == worker[w].intent
S(w) == worker[w].session
Is(w, pc) == worker[w].pc = pc
GoTo(w, pc) == worker' =
    [worker EXCEPT ![w] = IF pc = "done" THEN AtRest("done") ELSE [@ EXCEPT !.pc = pc]]

-----------------------------------------------------------------------------
(* dispatch                                                                *)

\* The caller names an intent, under its cycle's lease, and the session that pays.
StartDispatch(w, i, s) ==
    /\ Is(w, "idle")
    /\ i \in Paper
    /\ lease.owner = w
    /\ worker' = [worker EXCEPT ![w].pc = "persist", ![w].intent = i, ![w].session = s]
    /\ UNCHANGED <<sessionVars, brokerVars>>

Persist(w) ==
    /\ Is(w, "persist")
    /\ \E c \in Cycles : CreateIntent(I(w), w, c, IntentTTL) \/ ReplayCreate(I(w), c)
    /\ GoTo(w, IF intents'[I(w)].status \in Terminal THEN "done" ELSE "claim")
    /\ UNCHANGED <<sessions, brokerVars>>

\* A SPENT row (order_intents.py:13) is only reconciled, which ends at once when it is
\* terminal.  recover() leaves an unspent one to its cycle.
AfterClaim(w, row) ==
    IF row.status \in Terminal THEN "done"
    ELSE IF row.status # "CLAIMED" THEN "reconcile"
    ELSE IF S(w) = None THEN "done" ELSE "reserve"

ClaimIntent(w) ==
    /\ Is(w, "claim")
    /\ Claim(I(w), w)
    /\ GoTo(w, AfterClaim(w, intents'[I(w)]))
    /\ UNCHANGED <<sessions, brokerVars>>

Reserve(w) ==
    /\ Is(w, "reserve")
    /\ GateReserve(S(w), I(w), w) \/ GateReplay(S(w), I(w), w)
    /\ GoTo(w, "lookup")
    /\ UNCHANGED brokerVars

\* SessionDenied: the gate answers allowed=false.
ReserveDenied(w) ==
    /\ Is(w, "reserve")
    /\ GateDeniesReserve(S(w), I(w), w)
    /\ GoTo(w, "reject")
    /\ UNCHANGED brokerVars

\* The broker is asked for an order with the client id before anything is sent.
Lookup(w) ==
    /\ Is(w, "lookup")
    /\ GoTo(w, IF orders[I(w)] = "none" THEN "refresh" ELSE "reconcile")
    /\ UNCHANGED <<sessionVars, brokerVars>>

LookupFails(w) ==
    /\ Is(w, "lookup")
    /\ GoTo(w, "unknown")
    /\ UNCHANGED <<sessionVars, brokerVars>>

\* Fresh market state, and the `now` the preflight is stamped with.
Refresh(w) ==
    /\ Is(w, "refresh")
    /\ worker' = [worker EXCEPT ![w].pc = "validate", ![w].preflight = PreflightTTL]
    /\ UNCHANGED <<sessionVars, brokerVars>>

\* session_gate.validate: inspecting a lapsed session expires it, and it must be active.
Validate(w) ==
    /\ Is(w, "validate")
    /\ \/ ExpireSession(S(w)) /\ GoTo(w, "done")
       \/ /\ Has(S(w), "ACTIVE")
          /\ ~Lapsed(S(w))
          /\ sessions[S(w)].starts = 0
          /\ GoTo(w, "preflight")
          /\ UNCHANGED sessionVars
    /\ UNCHANGED brokerVars

\* Staleness, changed terms, duplicates in the market state and the final risk
\* preflight are decided on data left out here: either outcome.
Preflight(w) ==
    /\ Is(w, "preflight")
    /\ \E pc \in {"submit", "reject"} : GoTo(w, pc)
    /\ UNCHANGED <<sessionVars, brokerVars>>

Submit(w) ==
    /\ Is(w, "submit")
    /\ GateSubmit(S(w), I(w), w, worker[w].preflight)
    /\ GoTo(w, "window")
    /\ UNCHANGED brokerVars

\* SessionDenied leaves the row as it is and the dispatch with an exception.
SubmitDenied(w) ==
    /\ Is(w, "submit")
    /\ GateDeniesSubmit(S(w), I(w), w)
    /\ GoTo(w, "done")
    /\ UNCHANGED brokerVars

\* The last local check; the process may still be suspended after it.
SendWindow(w) ==
    /\ Is(w, "window")
    /\ GoTo(w, IF worker[w].preflight > 0 THEN "post" ELSE "unknown")
    /\ UNCHANGED <<sessionVars, brokerVars>>

Post(w) ==
    /\ Is(w, "post")
    /\ wire' = wire \cup {I(w)}
    /\ posts' = [posts EXCEPT ![I(w)] = @ + 1]
    /\ GoTo(w, "response")
    /\ UNCHANGED <<sessionVars, orders>>

\* The broker's answer describes the order as it was when it answered.
Response(w) ==
    /\ Is(w, "response")
    /\ I(w) \notin wire
    /\ orders[I(w)] # "none"
    /\ worker' = [worker EXCEPT ![w].pc = "record", ![w].seen = orders[I(w)]]
    /\ UNCHANGED <<sessionVars, brokerVars>>

\* A timeout, an HTTP error or an answer that does not fit the intent.
\* Mutant: the request is sent again.
AfterNoResponseRetry(w) == "post"
AfterNoResponse(w) == "reconcile"

NoResponse(w) ==
    /\ Is(w, "response")
    /\ GoTo(w, AfterNoResponse(w))
    /\ UNCHANGED <<sessionVars, brokerVars>>

RejectIntent(w) ==
    /\ Is(w, "reject")
    /\ RejectLocally(I(w), w)
    /\ GoTo(w, "done")
    /\ UNCHANGED <<sessions, brokerVars>>

MarkUncertain(w) ==
    /\ Is(w, "unknown")
    /\ MarkUnknown(I(w), w, NoOrder)
    /\ GoTo(w, "done")
    /\ UNCHANGED <<sessions, brokerVars>>

-----------------------------------------------------------------------------
(* reconcile and recover                                                   *)

\* recover(): a listed row that is neither terminal nor under a live claim.
StartRecover(w, i) ==
    /\ Is(w, "idle")
    /\ i \in Paper
    /\ lease.owner # w
    /\ intents[i].status \notin Terminal \cup {"ABSENT"}
    /\ ~ClaimLive(i)
    /\ worker' = [worker EXCEPT ![w].pc = "claim", ![w].intent = i, ![w].session = None]
    /\ UNCHANGED <<sessionVars, brokerVars>>

Reconcile(w) ==
    /\ Is(w, "reconcile")
    /\ BeginReconcile(I(w), w)
    /\ GoTo(w, "get")
    /\ UNCHANGED <<sessions, brokerVars>>

\* An absent order proves nothing: the request may still be on its way.
\* Mutant: a 404 is taken as a rejection by the broker.
AbsentAsRejected(seen) == IF seen = "none" THEN "REJECTED" ELSE seen
Answered(seen) == seen

Get(w) ==
    /\ Is(w, "get")
    /\ LET seen == Answered(orders[I(w)]) IN
       worker' = [worker EXCEPT ![w].pc = IF seen = "none" THEN "unknown" ELSE "record",
                                ![w].seen = seen]
    /\ UNCHANGED <<sessionVars, brokerVars>>

GetFails(w) ==
    /\ Is(w, "get")
    /\ GoTo(w, "unknown")
    /\ UNCHANGED <<sessionVars, brokerVars>>

\* advance with the normalized order.  A status normalize_order does not know becomes
\* UNKNOWN, with the order as evidence.
Record(w) ==
    /\ Is(w, "record")
    /\ LET order == BrokerId[I(w)] IN
       IF worker[w].seen = "open"
       THEN Settle(I(w), w, "SUBMITTED", order) \/ MarkUnknown(I(w), w, order)
       ELSE Settle(I(w), w, worker[w].seen, order)
    /\ GoTo(w, "done")
    /\ UNCHANGED <<sessions, brokerVars>>

\* Crash, cancellation by wait_for, any exception, and any lost acknowledgment of an
\* RPC: the worker takes no further step.
Abort(w) ==
    /\ worker[w].pc \notin {"idle", "done"}
    /\ GoTo(w, "done")
    /\ UNCHANGED <<sessionVars, brokerVars>>

-----------------------------------------------------------------------------
(* The broker and the surroundings                                         *)

\* The request arrives: a new order, which may be refused at once, an HTTP error
\* without an order, or an error because the client id is taken.
Deliver(i) ==
    /\ i \in wire
    /\ wire' = wire \ {i}
    /\ \/ orders[i] = "none" /\ \E o \in {"open", "REJECTED"} : orders' = [orders EXCEPT ![i] = o]
       \/ UNCHANGED orders
    /\ UNCHANGED <<sessionVars, worker, posts>>

BrokerEnds(i, o) ==
    /\ orders[i] = "open"
    /\ orders' = [orders EXCEPT ![i] = o]
    /\ UNCHANGED <<sessionVars, worker, wire, posts>>

\* A lease goes to a fresh owner; anybody's release is accepted from the holder.
LeaseMoves ==
    /\ \E w \in Owners : \/ Is(w, "idle") /\ \E c \in Cycles : Grant(w, c)
                         \/ ReleaseFailed(w)
    /\ UNCHANGED <<intents, sessions, worker, brokerVars>>

SessionMoves ==
    /\ \E s \in Sessions : SessionControl(s) \/ \E i \in Intents : GateResult(s, i)
    /\ UNCHANGED <<worker, brokerVars>>

DispatchTick ==
    /\ SessionTick
    /\ worker' = [w \in Owners |-> [worker[w] EXCEPT !.preflight = Elapse(@)]]
    /\ UNCHANGED brokerVars

DispatchStep(w) ==
    \/ Persist(w) \/ ClaimIntent(w) \/ Reserve(w) \/ ReserveDenied(w) \/ Lookup(w) \/ LookupFails(w)
    \/ Refresh(w) \/ Validate(w) \/ Preflight(w) \/ Submit(w) \/ SubmitDenied(w) \/ SendWindow(w)
    \/ Post(w) \/ Response(w) \/ NoResponse(w) \/ RejectIntent(w) \/ MarkUncertain(w)
    \/ Reconcile(w) \/ Get(w) \/ GetFails(w) \/ Record(w)

DispatchNext ==
    \/ \E w \in Owners, i \in Intents : StartRecover(w, i) \/ \E s \in Sessions : StartDispatch(w, i, s)
    \/ \E w \in Owners : DispatchStep(w) \/ Abort(w)
    \/ \E i \in Intents : Deliver(i) \/ \E o \in Endings : BrokerEnds(i, o)
    \/ LeaseMoves
    \/ SessionMoves
    \/ DispatchTick

DispatchSpec == DispatchInit /\ [][DispatchNext]_dispatchVars

-----------------------------------------------------------------------------
\* "An irreversible DB SUBMITTING transition authorizes at most ONE HTTP attempt"
\* (order_dispatch.py:3): however workers crash, stall, recover and race, an intent is
\* posted at most once, and only after it was fenced.
AtMostOnePost == \A i \in Intents : posts[i] <= intents[i].attempts

\* The order of i that this program sent can still trade.
Working(i) == posts[i] > 0 /\ (i \in wire \/ orders[i] = "open")

\* At the broker, across all workers and sessions: at most one order sent by the
\* program is on its way or working, and its row is still unsettled.
SingleWorkingOrder == \A i \in Intents : Working(i) =>
    /\ intents[i].status \notin Terminal
    /\ \A j \in Intents : Working(j) => i = j

\* What really happens at the broker implements the promise to the account.
Account == INSTANCE OneOrderAtATime WITH
    Orders <- Intents,
    sent <- {i \in Intents : posts[i] > 0},
    working <- {i \in Intents : Working(i)}
AccountKeepsPromise == Account!Spec

\* A terminal row tells the truth about the broker: its status is that of the order
\* when there is evidence, and nothing was ever sent when there is none.
TruthfulTerminal == \A i \in Intents : intents[i].status \in Terminal =>
    IF intents[i].evidence THEN orders[i] = intents[i].status ELSE posts[i] = 0
=============================================================================

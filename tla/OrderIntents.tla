----------------------------- MODULE OrderIntents -----------------------------
(***************************************************************************)
(* The durable order intents of database/migrations/                       *)
(* 005_phase2_order_intents.sql: the table with its constraints and unique *)
(* indexes, and the three RPCs that write it.  Every RPC holds the advisory*)
(* lock 725025 to the end of its transaction, so each is one atomic action.*)
(* An RPC that raises changes nothing: it is the action being disabled.    *)
(*                                                                         *)
(* An intent id stands for its immutable document; what the properties     *)
(* tell apart is its classification (Paper) and the cycle it is bound to,  *)
(* which is stored at the insert.                                          *)
(***************************************************************************)
EXTENDS CycleLease

CONSTANTS
    Intents,        \* intent ids (uuid5 of classification, proposal and action)
    Paper,          \* those classified PAPER; the others are SYNTHETIC
    OrderIds,       \* ids the broker may give to orders
    NoOrder,        \* the NULL of alpaca_order_id, and of the broker argument
    ClaimTTL,       \* 30 seconds of claim_expires_at
    IntentTTL,      \* 120 seconds: how long intent and risk approval are fresh
    SendMargin      \* 15 seconds the cycle lease must still run at SUBMITTING

ASSUME IntentConstants ==
    /\ Paper \subseteq Intents
    /\ NoOrder \notin OrderIds
    /\ ClaimTTL \in Nat \ {0}
    /\ IntentTTL \in Nat \ {0}
    /\ SendMargin \in Nat \ {0}

VARIABLE intents    \* the rows of phase2_order_intents

intentVars == <<leaseVars, intents>>

Terminal == {"FILLED", "CANCELED", "REJECTED", "EXPIRED"}
\* The statuses of the partial index phase2_one_active_paper_intent.
Active == {"CLAIMED", "SUBMITTING", "SUBMITTED", "RECONCILING", "UNKNOWN"}
\* ABSENT: no row yet.
Status == {"ABSENT", "PENDING"} \cup Active \cup Terminal
\* Statuses whose update clears the claim.
Released == Terminal \cup {"SUBMITTED", "UNKNOWN"}

\* claim: ticks until claim_expires_at; fresh: ticks until the 120 s lapse;
\* evidence: broker_state is not null.
Row == [status: Status, cycle: Cycles \cup {NoCycle}, owner: Owners \cup {NoOwner},
        claim: 0..ClaimTTL, fresh: 0..IntentTTL, attempts: 0..1,
        order: OrderIds \cup {NoOrder}, evidence: BOOLEAN]

IntentTypeOK == LeaseTypeOK /\ intents \in [Intents -> Row]

\* A row without any history; its columns' defaults.
FreshRow(status, c, f) ==
    [status |-> status, cycle |-> c, owner |-> NoOwner, claim |-> 0, fresh |-> f,
     attempts |-> 0, order |-> NoOrder, evidence |-> FALSE]
NoRow == FreshRow("ABSENT", NoCycle, 0)

Unsent(i) == intents[i].status \in {"PENDING", "CLAIMED"}
ClaimLive(i) == intents[i].owner # NoOwner /\ intents[i].claim > 0

\* phase2_advance_order_intent raises 'Order claim lost' or 'Terminal replay denied' otherwise.
HoldsClaim(i, w) ==
    /\ intents[i].owner = w
    /\ intents[i].claim > 0
    /\ intents[i].status \notin Terminal

\* The partial unique index: one PAPER intent in an active status, account-wide.
\* Mutant: UNKNOWN is left out of the index, as if it were settled.
OneActiveWithoutUnknown(i, row) ==
    i \in Paper /\ row.status \in Active =>
        \A j \in Paper \ {i} : intents[j].status \notin Active \ {"UNKNOWN"}
OneActive(i, row) ==
    i \in Paper /\ row.status \in Active => \A j \in Paper \ {i} : intents[j].status \notin Active

\* alpaca_order_id unique.
OrderUnbound(i, row) ==
    row.order # NoOrder => \A j \in Intents \ {i} : intents[j].order # row.order

\* An insert or update: it commits when the table's constraints accept the row.
Write(i, row) ==
    /\ row.attempts <= 1
    /\ OneActive(i, row)
    /\ OrderUnbound(i, row)
    /\ intents' = [intents EXCEPT ![i] = row]
    /\ UNCHANGED leaseVars

-----------------------------------------------------------------------------
IntentInit == LeaseInit /\ intents = [i \in Intents |-> NoRow]

\* phase2_create_order_intent inserting a document bound to cycle c, with f
\* ticks of freshness left.
CreateIntent(i, w, c, f) ==
    /\ intents[i].status = "ABSENT"
    /\ f > 0
    /\ i \in Paper => HoldsLease(w, c)
    /\ Write(i, FreshRow("PENDING", c, f))

\* The same document again: the row as it is.  A different one raises.
ReplayCreate(i, c) ==
    /\ intents[i].status # "ABSENT"
    /\ intents[i].cycle = c
    /\ UNCHANGED intentVars

\* The row a claim writes.
\* Mutant: every claim sets CLAIMED, also on a recovered row.
ReclaimedRow(i, w) == [intents[i] EXCEPT !.owner = w, !.claim = ClaimTTL, !.status = "CLAIMED"]
ClaimedRow(i, w) ==
    [intents[i] EXCEPT !.owner = w, !.claim = ClaimTTL,
                       !.status = IF @ = "PENDING" THEN "CLAIMED" ELSE @]

\* phase2_claim_order_intent taking a row nobody holds.  A never-sent PAPER intent is
\* only taken by the worker that holds the lease on its cycle.
TakeClaim(i, w) ==
    /\ intents[i].status \notin Terminal \cup {"ABSENT"}
    /\ ~ClaimLive(i)
    /\ Unsent(i) /\ i \in Paper => HoldsLease(w, intents[i].cycle)
    /\ Write(i, ClaimedRow(i, w))

\* phase2_claim_order_intent of a never-sent PAPER orphan: the lease on its cycle is
\* gone, so it is closed (CYCLE_LEASE_LOST).  Anyone may call it.
\* Mutant: the status of the row is not looked at.
OrphanedAnyStatus(i) ==
    i \in Paper /\ intents[i].status # "ABSENT" /\ ~LeasedTo(intents[i].cycle)
Orphaned(i) == Unsent(i) /\ i \in Paper /\ ~LeasedTo(intents[i].cycle)

ExpireOrphan(i) ==
    /\ Orphaned(i)
    /\ ~ClaimLive(i)
    /\ Write(i, [intents[i] EXCEPT !.status = "EXPIRED", !.owner = NoOwner, !.claim = 0])

\* A claim of a terminal row, or of one's own live claim: the row as it is.
KeepClaim(i, w) ==
    /\ \/ intents[i].status \in Terminal
       \/ ClaimLive(i) /\ intents[i].owner = w
    /\ UNCHANGED intentVars

-----------------------------------------------------------------------------
(* phase2_advance_order_intent, by target.                                 *)

\* The update: the claim is renewed, or cleared when the target needs no worker.
\* Broker evidence b binds the row to the order's id (a SYNTHETIC row keeps none).
\* Mutant: the claim is extended from its own deadline instead of from now.
AdvancedRowExtended(i, target, b) ==
    [intents[i] EXCEPT
        !.status = target,
        !.owner = IF target \in Released THEN NoOwner ELSE @,
        !.claim = IF target \in Released THEN 0 ELSE @ + ClaimTTL,
        !.evidence = @ \/ b # NoOrder,
        !.order = IF i \in Paper /\ @ = NoOrder THEN b ELSE @]
\* Mutant: the bound order is overwritten, as without the coalesce.
AdvancedRowUnbound(i, target, b) ==
    [intents[i] EXCEPT
        !.status = target,
        !.owner = IF target \in Released THEN NoOwner ELSE @,
        !.claim = IF target \in Released THEN 0 ELSE ClaimTTL,
        !.evidence = @ \/ b # NoOrder,
        !.order = IF i \in Paper THEN b ELSE @]
AdvancedRow(i, target, b) ==
    [intents[i] EXCEPT
        !.status = target,
        !.owner = IF target \in Released THEN NoOwner ELSE @,
        !.claim = IF target \in Released THEN 0 ELSE ClaimTTL,
        !.evidence = @ \/ b # NoOrder,
        !.order = IF i \in Paper /\ @ = NoOrder THEN b ELSE @]

\* 'Broker identity mismatch' otherwise.
EvidenceFits(i, b) == b = NoOrder \/ intents[i].order \in {NoOrder, b}

\* SUBMITTING, the irreversible mark before the one HTTP request; p: ticks the
\* final preflight stays fresh.
Fence(i, w, p) ==
    /\ HoldsClaim(i, w)
    /\ intents[i].status = "CLAIMED"
    /\ intents[i].attempts = 0
    /\ intents[i].fresh > 0
    /\ p > 0
    /\ i \in Paper => /\ lease.owner = w
                      /\ lease.cycle = intents[i].cycle
                      /\ lease.ttl >= SendMargin
    /\ Write(i, [AdvancedRow(i, "SUBMITTING", NoOrder) EXCEPT !.attempts = @ + 1])

BeginReconcile(i, w) ==
    /\ HoldsClaim(i, w)
    /\ intents[i].status \in Active
    /\ Write(i, AdvancedRow(i, "RECONCILING", NoOrder))

MarkUnknown(i, w, b) ==
    /\ HoldsClaim(i, w)
    /\ intents[i].status # "PENDING"
    /\ EvidenceFits(i, b)
    /\ Write(i, AdvancedRow(i, "UNKNOWN", b))

\* The local rejection before the fence: an error code and no broker evidence.
\* Mutant: it is accepted in any active status.
RejectableAnywhere(i) == intents[i].status \in Active
Rejectable(i) == intents[i].status = "CLAIMED"

RejectLocally(i, w) ==
    /\ HoldsClaim(i, w)
    /\ Rejectable(i)
    /\ Write(i, AdvancedRow(i, "REJECTED", NoOrder))

\* SUBMITTED or a terminal status, on broker evidence.
Settle(i, w, target, b) ==
    /\ HoldsClaim(i, w)
    /\ intents[i].status \in Active \ {"CLAIMED"}
    /\ b # NoOrder
    /\ EvidenceFits(i, b)
    /\ Write(i, AdvancedRow(i, target, b))

IntentTick ==
    /\ LeaseTick
    /\ intents' = [i \in Intents |->
                      [intents[i] EXCEPT !.claim = Elapse(@), !.fresh = Elapse(@)]]

-----------------------------------------------------------------------------
\* Any client calling any RPC in any order, with any arguments.
LeaseStep ==
    /\ \E w \in Owners : \/ ReleaseFailed(w)
                         \/ \E c \in Cycles : Grant(w, c) \/ ReleaseCompleted(w, c)
    /\ UNCHANGED intents

Claim(i, w) == TakeClaim(i, w) \/ ExpireOrphan(i) \/ KeepClaim(i, w)

Create(i, w) == \E c \in Cycles : (\E f \in 0..IntentTTL : CreateIntent(i, w, c, f))
                                  \/ ReplayCreate(i, c)

Advance(i, w) ==
    \/ \E p \in 0..1 : Fence(i, w, p)
    \/ BeginReconcile(i, w)
    \/ RejectLocally(i, w)
    \/ \E b \in OrderIds \cup {NoOrder} : MarkUnknown(i, w, b)
    \/ \E b \in OrderIds, target \in Terminal \cup {"SUBMITTED"} : Settle(i, w, target, b)

IntentNext ==
    \/ LeaseStep
    \/ IntentTick
    \/ \E i \in Intents, w \in Owners : Create(i, w) \/ Claim(i, w) \/ Advance(i, w)

IntentSpec == IntentInit /\ [][IntentNext]_intentVars

-----------------------------------------------------------------------------
Exposed(i) == intents[i].attempts = 1 /\ intents[i].status \notin Terminal

\* The account-wide barrier: whatever workers crash, expire, recover or reconcile, an
\* intent is fenced at most once, and none while another one is fenced and not yet
\* settled (005:21 "UNKNOWN remains an account-wide barrier until real broker state
\* is reconciled").  Fencing is sending, and a fenced row works until it is terminal.
Ledger == INSTANCE OneOrderAtATime WITH
    Orders <- Paper,
    sent <- {i \in Paper : intents[i].attempts = 1},
    working <- {i \in Paper : Exposed(i)}
LedgerKeepsPromise == Ledger!Spec

\* A row closed without broker evidence was never fenced, so no order of it can
\* exist: neither the orphan sweep nor a local rejection closes a sent intent.
UnsentClosure == \A i \in Intents :
    intents[i].status \in Terminal /\ ~intents[i].evidence => intents[i].attempts = 0

\* No broker order is bound to two intents, and no settled or reconciled PAPER row
\* lacks the order that its evidence came from.
OrderBinding ==
    /\ \A i, j \in Intents : intents[i].order = intents[j].order /\ intents[i].order # NoOrder => i = j
    /\ \A i \in Paper : intents[i].evidence <=> intents[i].order # NoOrder

\* A fenced intent stays fenced: no claim, recovery or reconciliation brings it back to
\* where a request could be authorized again, and a bound order is never replaced.
Irreversible == [][\A i \in Intents :
    /\ intents[i].attempts = 1 =>
          /\ intents'[i].attempts = 1
          /\ intents'[i].status \notin {"ABSENT", "PENDING", "CLAIMED"}
          /\ intents'[i].status = "SUBMITTING" => intents[i].status = "SUBMITTING"
    /\ intents[i].order # NoOrder => intents'[i].order = intents[i].order]_intentVars

\* A terminal row is final; an intent is never rebound to another cycle.
TerminalFinal == [][\A i \in Intents :
    /\ intents[i].status \in Terminal =>
          /\ intents'[i].status = intents[i].status
          /\ intents'[i].attempts = intents[i].attempts
    /\ intents[i].status # "ABSENT" => intents'[i].cycle = intents[i].cycle]_intentVars
=============================================================================

------------------------------- MODULE Phase1 -------------------------------
(***************************************************************************)
(* The one-shot order of Phase 1: services/preflight.py, OrderService in   *)
(* services/alpaca.py, services/supabase.py and the /phase1 routes of      *)
(* main.py.  Any number of replicas serve the requests; the audit table    *)
(* holds the two receipts (upserts) and the one claim (immutable insert);  *)
(* the broker is behind a network.                                         *)
(*                                                                         *)
(* Every await is a step.  The reads of a preflight are one step, at the   *)
(* duplicate lookup that decides it.  A request may fail at any await, and *)
(* a write that failed may have taken effect.                              *)
(***************************************************************************)
EXTENDS Naturals

CONSTANTS
    Replicas,    \* server processes
    Requests,    \* requests in flight, at most
    Symbols,     \* option contracts
    NoSymbol,
    Nowhere,     \* the replica of no request
    MaxPrice,    \* limit prices are 1..MaxPrice
    MaxReceipts, \* bound: receipts ever issued
    Retired      \* PHASE1_RETIRED

ASSUME Phase1Constants ==
    /\ MaxPrice \in Nat /\ MaxReceipts \in Nat /\ Retired \in BOOLEAN
    /\ NoSymbol \notin Symbols /\ Nowhere \notin Replicas

VARIABLES
    replica, \* the settings of each process
    sdk,     \* services talk through the official adapter, else an injected client
    issued,  \* receipts stored so far
    row,     \* the rows -2 and -1 of the trace: the latest receipt of each stage
    claim,   \* row 0 of the trace
    orders,  \* the row of the order, by status
    broker,  \* the order as the broker has it
    wire,    \* a POST is on its way
    sent,    \* history: the documents posted, with their number
    posts,
    request

vars1 == <<replica, sdk, issued, row, claim, orders, broker, wire, sent, posts, request>>

Stages == {"readiness", "execution"}
OrderStatus == {"none", "new", "filled"}
\* A Phase1Preflight: its receipt, the readiness it belongs to, the exact order.
Document == [id: 0..MaxReceipts, readiness: 0..MaxReceipts,
             symbol: Symbols \cup {NoSymbol}, price: 0..MaxPrice]
Blank == [id |-> 0, readiness |-> 0, symbol |-> NoSymbol, price |-> 0]
Pcs == {"idle", "unclaimed", "ready", "approved", "build", "store", "claim", "audit", "lookup",
        "post", "answer", "lost", "record", "latest", "claimed", "find", "by_id", "persist"}
\* readiness, execution: the ids the caller gave; ready, approved, fresh: local variables.
Call == [pc: Pcs, kind: Stages \cup {"submission", "reconcile"}, at: Replicas \cup {Nowhere},
         readiness: 0..MaxReceipts, execution: 0..MaxReceipts,
         ready: Document, approved: Document, fresh: Document, seen: OrderStatus]

Phase1TypeOK ==
    /\ sdk \in BOOLEAN /\ wire \in BOOLEAN
    /\ replica \in [Replicas -> [configured: BOOLEAN, enabled: BOOLEAN, attempted: BOOLEAN]]
    /\ issued \in SUBSET (Document \X Stages) /\ row \in [Stages -> [doc: Document, live: BOOLEAN]]
    /\ claim \in Document /\ sent \subseteq Document /\ posts \in 0..1
    /\ orders \in OrderStatus /\ broker \in OrderStatus
    /\ request \in [Requests -> Call]

Idle == [pc |-> "idle", kind |-> "readiness", at |-> Nowhere, readiness |-> 0, execution |-> 0,
          ready |-> Blank, approved |-> Blank, fresh |-> Blank, seen |-> "none"]

Init1 ==
    /\ sdk \in BOOLEAN
    /\ replica = [p \in Replicas |-> [configured |-> FALSE, enabled |-> FALSE, attempted |-> FALSE]]
    /\ issued = {} /\ row = [s \in Stages |-> [doc |-> Blank, live |-> FALSE]]
    /\ claim = Blank /\ orders = "none" /\ broker = "none" /\ wire = FALSE
    /\ sent = {} /\ posts = 0
    /\ request = [c \in Requests |-> Idle]

-----------------------------------------------------------------------------
(* What happens around the requests                                        *)

\* A crash or a deployment: the requests are lost and the settings are read
\* again, with EXECUTION_ENABLED as the operator has set it at Railway by then.
Restart(p) ==
    /\ \E on \in BOOLEAN :
         replica' = [replica EXCEPT ![p] = [configured |-> on, enabled |-> on, attempted |-> FALSE]]
    /\ request' = [c \in Requests |-> IF request[c].at = p THEN Idle ELSE request[c]]
    /\ UNCHANGED <<sdk, issued, row, claim, orders, broker, wire, sent, posts>>

Lapse(s) ==
    /\ row[s].live
    /\ row' = [row EXCEPT ![s].live = FALSE]
    /\ UNCHANGED <<replica, sdk, issued, claim, orders, broker, wire, sent, posts, request>>

\* External: the broker takes the order, refuses it or never gets it, and fills it.
BrokerStep ==
    /\ \/ wire /\ wire' = FALSE /\ broker' \in {broker, "new"}
       \/ broker = "new" /\ broker' = "filled" /\ UNCHANGED wire
    /\ UNCHANGED <<replica, sdk, issued, row, claim, orders, sent, posts, request>>

-----------------------------------------------------------------------------
(* Requests                                                                *)

Audit == <<issued, row, claim, orders>>
Outside == <<sdk, broker>>

\* submit_order of the SDK runs in the event loop: nothing else of its process moves.
At(c, pc) ==
    /\ request[c].pc = pc
    /\ sdk => \A d \in Requests \ {c} : ~(request[d].at = request[c].at /\ request[d].pc = "answer")
Set1(c, r) == request' = [request EXCEPT ![c] = r]
Goto(c, pc) == Set1(c, [request[c] EXCEPT !.pc = pc])
Enabled(c) == replica[request[c].at].enabled
\* Mutant: only the execution preflight closes the gate on failure.
OrdererPreflight(c) == request[c].kind = "execution"
Orderer(c) == request[c].kind \in {"execution", "submission"}

\* The handler ends; shut: it leaves with the process-local gate off.
Ends(c, shut) ==
    LET p == request[c].at
        s == replica[p]
    IN
    /\ Set1(c, Idle)
    /\ replica' = [replica EXCEPT ![p] = [configured |-> s.configured, enabled |-> s.enabled /\ ~shut,
                            attempted |-> s.attempted \/ request[c].kind = "submission"]]
Off(c) == replica' = [replica EXCEPT ![request[c].at].enabled = FALSE]

\* Any check or call that raises: the routes that could order switch the gate off.
Raise(c) ==
    /\ At(c, request[c].pc) /\ request[c].pc # "idle"
    /\ Ends(c, Orderer(c))
    /\ UNCHANGED <<Outside, Audit, wire, sent, posts>>

Arrive(c, p, kind, pc, r, e) ==
    /\ At(c, "idle")
    /\ Set1(c, [Idle EXCEPT !.at = p, !.pc = pc, !.kind = kind, !.readiness = r, !.execution = e])
    /\ UNCHANGED <<Outside, Audit, replica, wire, sent, posts>>

\* A caller names receipts that exist; any other id is refused like one of the wrong stage.
Receipts == {d[1].id : d \in issued}
_authorize_execution(p) == ~Retired /\ replica[p].enabled
ReadinessArrives(c, p) ==
    /\ ~Retired /\ ~replica[p].configured
    /\ Arrive(c, p, "readiness", "unclaimed", 0, 0)
ExecutionArrives(c, p) ==
    /\ _authorize_execution(p)
    /\ \E r \in Receipts : Arrive(c, p, "execution", "unclaimed", r, 0)
SubmissionArrives(c, p) ==
    /\ _authorize_execution(p)
    /\ \E r, e \in Receipts : Arrive(c, p, "submission", "unclaimed", r, e)
ReconcileArrives(c, p) == Arrive(c, p, "reconcile", "latest", 0, 0)

unclaimed(c) ==
    /\ At(c, "unclaimed") /\ claim = Blank
    /\ Goto(c, IF request[c].kind = "readiness" THEN "build" ELSE "ready")
    /\ UNCHANGED <<Outside, Audit, replica, wire, sent, posts>>

\* A receipt of the stage, with the id the caller named, not expired.
receipt(s, id) == id # 0 /\ row[s].doc.id = id /\ row[s].live

Ready(c) ==
    /\ At(c, "ready") /\ receipt("readiness", request[c].readiness)
    /\ Set1(c, [request[c] EXCEPT !.ready = row["readiness"].doc,
                  !.pc = IF request[c].kind = "execution" THEN "build" ELSE "approved"])
    /\ UNCHANGED <<Outside, Audit, replica, wire, sent, posts>>

Approved(c) ==
    /\ At(c, "approved") /\ receipt("execution", request[c].execution)
    /\ row["execution"].doc.readiness = request[c].readiness
    /\ Set1(c, [request[c] EXCEPT !.approved = row["execution"].doc, !.pc = "build"])
    /\ UNCHANGED <<Outside, Audit, replica, wire, sent, posts>>

\* Mutant: a cheaper quote of any other contract will do.
same_candidate_price(before, after) == after.price <= before.price
same_candidate(before, after) == after.symbol = before.symbol /\ after.price <= before.price

\* Any call of the chain that the budget allows, at its ask.
build_deterministic_proposal == [symbol: Symbols, price: 1..MaxPrice]

\* The gates that depend on this program's state.  Those on the account, the market, the
\* contract, its quote and the trading window may refuse at any time (Raise).
validate_execution(c) ==
    /\ Enabled(c) = (request[c].kind # "readiness") \* execution_gate
    /\ broker = "none" \* unique_client_order_id, no_conflicting_order

_build_preflight(c, proposal) ==
    [id |-> IF request[c].kind = "submission" THEN request[c].execution ELSE 0,
     readiness |-> request[c].readiness, symbol |-> proposal.symbol, price |-> proposal.price]

\* A passed preflight of the current quote, no worse than what was approved.
BuildApproved(c) ==
    LET q == request[c] IN
    /\ At(c, "build") /\ validate_execution(c)
    /\ \E proposal \in build_deterministic_proposal :
         LET fresh == _build_preflight(c, proposal)
         IN /\ q.kind # "readiness" => same_candidate(q.ready, fresh)
            /\ q.kind = "submission" => same_candidate(q.approved, fresh)
            /\ Set1(c, [Idle EXCEPT !.at = q.at, !.kind = q.kind, !.fresh = fresh,
                                    !.pc = IF q.kind = "submission" THEN "claim" ELSE "store"])
    /\ UNCHANGED <<Outside, Audit, replica, wire, sent, posts>>

\* The receipt replaces the row of its stage; the handler may not learn that it did.
store(c) ==
    LET q == request[c] IN
    /\ At(c, "store")
    /\ \E id \in 1..MaxReceipts :
         /\ id \notin Receipts /\ \A i \in 1..(id - 1) : i \in Receipts
         /\ LET doc == [q.fresh EXCEPT !.id = id]
            IN /\ issued' = issued \cup {<<doc, q.kind>>}
               /\ row' = [row EXCEPT ![q.kind] = [doc |-> doc, live |-> TRUE]]
    /\ \E lost \in BOOLEAN : Ends(c, lost /\ Orderer(c))
    /\ UNCHANGED <<Outside, claim, orders, wire, sent, posts>>

\* Mutant: the claim is an upsert like the other audit rows.
ClaimableByUpsert == TRUE
Claimable == claim = Blank
\* The immutable insert of row 0.  Without its answer nothing is submitted.
Claim1(c) ==
    /\ At(c, "claim") /\ Claimable
    /\ claim' = request[c].fresh
    /\ \/ Goto(c, "audit") /\ UNCHANGED replica
       \/ Ends(c, TRUE)
    /\ UNCHANGED <<Outside, issued, row, orders, wire, sent, posts>>

\* Proposal, risk checks, decision and events 1 and 2 are written; submit_once
\* checks the gate (and the age of the quote) once more.
AuditWritten(c) ==
    /\ At(c, "audit") /\ Enabled(c)
    /\ Goto(c, "lookup")
    /\ UNCHANGED <<Outside, Audit, replica, wire, sent, posts>>

Found(c) ==
    /\ broker # "none"
    /\ Set1(c, [request[c] EXCEPT !.pc = "record", !.seen = broker])
    /\ Off(c)

Lookup(c) ==
    /\ At(c, "lookup")
    /\ IF broker = "none" THEN Goto(c, "post") /\ UNCHANGED replica ELSE Found(c)
    /\ UNCHANGED <<Outside, Audit, wire, sent, posts>>

\* GuardedSession looks at the gate when the request leaves.
Guarded(c) == sdk => Enabled(c)

Post(c) ==
    /\ At(c, "post") /\ Guarded(c)
    /\ wire' = TRUE /\ sent' = sent \cup {request[c].fresh} /\ posts' = posts + 1
    /\ Goto(c, "answer")
    /\ UNCHANGED <<Outside, Audit, replica>>

Answered(c) ==
    /\ At(c, "answer") /\ ~wire
    /\ Found(c)
    /\ UNCHANGED <<Outside, Audit, wire, sent, posts>>

\* Only the injected client tells a timeout from other failures.
TimedOut(c) ==
    /\ At(c, "answer") /\ ~sdk
    /\ Off(c) /\ Goto(c, "lost")
    /\ UNCHANGED <<Outside, Audit, wire, sent, posts>>

LookAgain(c) ==
    /\ At(c, "lost")
    /\ Found(c)
    /\ UNCHANGED <<Outside, Audit, wire, sent, posts>>

\* The order row and event 3; phase1_execute ends with the gate off.
Record(c) ==
    /\ At(c, "record")
    /\ orders' = request[c].seen
    /\ Ends(c, TRUE)
    /\ UNCHANGED <<Outside, issued, row, claim, wire, sent, posts>>

-----------------------------------------------------------------------------
(* phase1_reconcile                                                        *)

Latest(c) ==
    /\ At(c, "latest")
    /\ Goto(c, IF orders = "none" THEN "claimed" ELSE "by_id")
    /\ UNCHANGED <<Outside, Audit, replica, wire, sent, posts>>

\* No claim: "empty".
Claimed(c) ==
    /\ At(c, "claimed")
    /\ IF claim = Blank THEN Ends(c, FALSE) ELSE Goto(c, "find") /\ UNCHANGED replica
    /\ UNCHANGED <<Outside, Audit, wire, sent, posts>>

\* No order: "uncertain"; else its record is written first.
Find(c) ==
    /\ At(c, "find")
    /\ IF broker = "none" THEN Ends(c, FALSE) /\ UNCHANGED orders
       ELSE orders' = broker /\ Goto(c, "by_id") /\ UNCHANGED replica
    /\ UNCHANGED <<Outside, issued, row, claim, wire, sent, posts>>

ById(c) ==
    /\ At(c, "by_id") /\ broker # "none"
    /\ Set1(c, [request[c] EXCEPT !.pc = "persist", !.seen = broker])
    /\ UNCHANGED <<Outside, Audit, replica, wire, sent, posts>>

\* The order, its fill, the position and events 4 and 5.
Persist(c) ==
    /\ At(c, "persist")
    /\ orders' = request[c].seen
    /\ Ends(c, FALSE)
    /\ UNCHANGED <<Outside, issued, row, claim, wire, sent, posts>>

Handler(c) ==
    \/ \E p \in Replicas : \/ ReadinessArrives(c, p) \/ ExecutionArrives(c, p)
                           \/ SubmissionArrives(c, p) \/ ReconcileArrives(c, p)
    \/ unclaimed(c) \/ Ready(c) \/ Approved(c) \/ BuildApproved(c) \/ store(c)
    \/ Claim1(c) \/ AuditWritten(c) \/ Lookup(c) \/ Post(c) \/ Answered(c) \/ TimedOut(c)
    \/ LookAgain(c) \/ Record(c) \/ Raise(c)
    \/ Latest(c) \/ Claimed(c) \/ Find(c) \/ ById(c) \/ Persist(c)

Next1 ==
    \/ BrokerStep
    \/ \E p \in Replicas : Restart(p)
    \/ \E s \in Stages : Lapse(s)
    \/ \E c \in Requests : Handler(c)

Spec1 == Init1 /\ [][Next1]_vars1

-----------------------------------------------------------------------------
(* Properties                                                              *)

\* However requests overlap over replicas, restarts, timeouts and late arrivals, one
\* POST leaves, it is the claimed order, and the books show no order or fill that
\* the broker does not have.
OneOrder ==
    /\ posts <= 1
    /\ \A doc \in sent : doc = claim
    /\ orders # "none" => broker # "none"
    /\ orders = "filled" => broker = "filled"

\* What is posted was approved twice under the receipts its caller named: the same
\* contract, never dearer, the second approval given for the first.
SentAsApproved ==
    \A doc \in sent : \E e, r \in issued :
        /\ e[2] = "execution" /\ e[1].id = doc.id /\ e[1].readiness = r[1].id
        /\ r[2] = "readiness"
        /\ doc.symbol = e[1].symbol /\ e[1].symbol = r[1].symbol
        /\ doc.price <= e[1].price /\ e[1].price <= r[1].price

\* A process in which a submission ended, however it ended, has its gate off until it
\* starts again.
GateStaysOff == \A p \in Replicas : replica[p].attempted => ~replica[p].enabled
=============================================================================

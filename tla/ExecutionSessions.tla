-------------------------- MODULE ExecutionSessions --------------------------
(***************************************************************************)
(* The finite execution sessions of database/migrations/                   *)
(* 006_phase2_execution_sessions.sql (its create function as 007 replaces  *)
(* it): status, order and risk budgets, cycle ledger and broker failures,  *)
(* and the order gate that spends the budget and fences the submission in  *)
(* one transaction with the intent.  Every RPC holds the advisory lock     *)
(* 726026 (the gate: 725025 first), so each is one atomic action.          *)
(*                                                                         *)
(* A session id stands for its immutable document.                         *)
(***************************************************************************)
EXTENDS OrderIntents, FiniteSetsExt

CONSTANTS
    Sessions,       \* session ids
    PaperSessions,  \* those classified PAPER
    Limits,         \* per session: the bounds of its document (see Limit)
    Opening,        \* the intents that OPEN a position; the others CLOSE one
    Risk,           \* expected_max_loss of each intent
    InScope,        \* [s, i]: underlying, strategy and permissions of s cover i
    SessionTTL,     \* ticks from the creation of a session to its expires_at
    SessionDelay,   \* ticks from the creation of a session to its starts_at
    Cadence         \* cadence_seconds

Limit == [opening: 0..1, closing: 0..3, total: 0..4, risk: Nat, cycles: 1..3, failures: 1..2]

ASSUME SessionConstants ==
    /\ PaperSessions \subseteq Sessions
    /\ Limits \in [Sessions -> Limit]
    /\ \A s \in Sessions : Limits[s].total <= Limits[s].opening + Limits[s].closing
    /\ Opening \subseteq Intents
    /\ Risk \in [Intents -> Nat]
    /\ InScope \subseteq Sessions \X Intents
    /\ SessionDelay \in Nat /\ SessionTTL \in Nat /\ SessionDelay < SessionTTL
    /\ Cadence \in Nat

VARIABLE sessions   \* the rows of phase2_execution_sessions

sessionVars == <<intentVars, sessions>>

SessionStatus == {"ABSENT", "DRAFT", "ACTIVE", "EXPIRED", "KILLED", "COMPLETED"}
Open == {"DRAFT", "ACTIVE"}

\* starts, ttl, next: ticks until starts_at, expires_at, next_cycle_at;
\* cycles: the ids in the cycle ledger, and those of them already ended.
Session == [status: SessionStatus, starts: 0..SessionDelay, ttl: 0..SessionTTL,
            next: 0..Cadence, opening: Nat, closing: Nat, risk: Nat,
            reserved: SUBSET Intents, failed: SUBSET Intents,
            cycles: SUBSET Cycles, ended: SUBSET Cycles]

SessionTypeOK == IntentTypeOK /\ sessions \in [Sessions -> Session]

NoSession == [status |-> "ABSENT", starts |-> 0, ttl |-> 0, next |-> 0,
              opening |-> 0, closing |-> 0, risk |-> 0,
              reserved |-> {}, failed |-> {}, cycles |-> {}, ended |-> {}]

Has(s, status) == sessions[s].status = status
Lapsed(s) == sessions[s].status \in Open /\ sessions[s].ttl = 0
OrdersConsumed(s) == sessions[s].opening + sessions[s].closing
SameClass(s, i) == s \in PaperSessions <=> i \in Paper

-----------------------------------------------------------------------------
SessionInit == IntentInit /\ sessions = [s \in Sessions |-> NoSession]

\* phase2_create_execution_session: a DRAFT without any budget spent.  Creating the
\* same document again returns the row as it is.
CreateSession(s) ==
    /\ Has(s, "ABSENT")
    /\ sessions' = [sessions EXCEPT ![s] = [NoSession EXCEPT
           !.status = "DRAFT", !.starts = SessionDelay, !.ttl = SessionTTL]]
    /\ UNCHANGED intentVars

(* phase2_session_control.  Any call first expires a lapsed session, and does no more. *)

Expired(s) == [sessions[s] EXCEPT !.status = "EXPIRED"]

ExpireSession(s) ==
    /\ Lapsed(s)
    /\ sessions' = [sessions EXCEPT ![s] = Expired(s)]
    /\ UNCHANGED intentVars

\* ACTIVATE expires the other lapsed ACTIVE sessions, and the unique index allows one
\* ACTIVE PAPER session.
Activated(s) == [t \in Sessions |->
    IF t = s THEN [sessions[t] EXCEPT !.status = "ACTIVE"]
    ELSE IF Has(t, "ACTIVE") /\ Lapsed(t) THEN Expired(t)
    ELSE sessions[t]]

\* Mutant: the unique index is missing.
NoOtherPaperActive(s) == FALSE
OtherPaperActive(s) == s \in PaperSessions /\
    \E t \in PaperSessions \ {s} : Has(t, "ACTIVE") /\ ~Lapsed(t)

Activate(s) ==
    /\ Has(s, "DRAFT")
    /\ ~Lapsed(s)
    /\ sessions[s].starts = 0
    /\ ~OtherPaperActive(s)
    /\ sessions' = Activated(s)
    /\ UNCHANGED intentVars

\* KILL and FINISH end a DRAFT or ACTIVE session for good; a lapsed one ends EXPIRED.
\* Mutant: the kill does not look at the status it replaces.
KilledAnyRow(row) == [row EXCEPT !.status = "KILLED"]
KilledRow(row) ==
    IF row.status \notin Open THEN row
    ELSE [row EXCEPT !.status = IF row.ttl = 0 THEN "EXPIRED" ELSE "KILLED"]

Kill(s) ==
    /\ sessions[s].status \in Open
    /\ ~Lapsed(s)
    /\ sessions' = [sessions EXCEPT ![s] = KilledRow(@)]
    /\ UNCHANGED intentVars

Finish(s) ==
    /\ sessions[s].status \in Open
    /\ ~Lapsed(s)
    /\ sessions' = [sessions EXCEPT ![s].status = "COMPLETED"]
    /\ UNCHANGED intentVars

\* CYCLE_START of a new key; a key that is there already changes nothing.
\* Mutant: the limit is looked at before the new key is added.
CycleAllowedLate(s) == Cardinality(sessions[s].cycles) <= Limits[s].cycles
CycleAllowed(s) == Cardinality(sessions[s].cycles) < Limits[s].cycles

CycleStart(s, c) ==
    /\ Has(s, "ACTIVE")
    /\ ~Lapsed(s)
    /\ c \notin sessions[s].cycles
    /\ CycleAllowed(s)
    /\ sessions[s].next = 0
    /\ sessions' = [sessions EXCEPT ![s].cycles = @ \cup {c}, ![s].next = Cadence]
    /\ UNCHANGED intentVars

CycleEnd(s, c) ==
    /\ sessions[s].status \in Open
    /\ ~Lapsed(s)
    /\ c \in sessions[s].cycles
    /\ sessions' = [sessions EXCEPT ![s].ended = @ \cup {c}]
    /\ UNCHANGED intentVars

-----------------------------------------------------------------------------
(* phase2_session_order_gate.                                              *)

\* RESULT, after a dispatch: an UNKNOWN order kills the session; a broker rejection is
\* counted once per intent, and the last allowed one kills it too.
\* Mutant: a rejection is counted only while it stays under the limit.
FailureLimitLate(s, failed) == Cardinality(failed) > Limits[s].failures
FailureLimit(s, failed) == Cardinality(failed) >= Limits[s].failures

ResultRow(s, i) ==
    LET row == sessions[s]
        failed == row.failed \cup {i}
    IN IF intents[i].status = "UNKNOWN" THEN KilledRow(row)
       ELSE IF intents[i].status = "REJECTED" /\ intents[i].attempts > 0 /\ i \notin row.failed
            THEN LET counted == [row EXCEPT !.failed = failed]
                 IN IF FailureLimit(s, failed) THEN KilledRow(counted) ELSE counted
            ELSE row

GateResult(s, i) ==
    /\ SameClass(s, i)
    /\ i \in sessions[s].reserved
    /\ sessions' = [sessions EXCEPT ![s] = ResultRow(s, i)]
    /\ UNCHANGED intentVars

\* What RESERVE and SUBMIT check first, in the order of the code: the session is active
\* and running, the intent's cycle was started in it, the worker holds the claim.
GateRunning(s, i) ==
    /\ Has(s, "ACTIVE")
    /\ sessions[s].ttl > 0
    /\ sessions[s].starts = 0
    /\ intents[i].cycle \in sessions[s].cycles

GateOpen(s, i, w) ==
    /\ SameClass(s, i)
    /\ GateRunning(s, i)
    /\ intents[i].owner = w
    /\ intents[i].claim > 0

\* Any UNKNOWN PAPER intent counts, for a SYNTHETIC session only its own.
\* Mutant: the gate does not look for UNKNOWN orders.
NoUnknownOrder(s) == FALSE
UnknownOrder(s) == \E j \in Intents :
    /\ intents[j].status = "UNKNOWN"
    /\ SameClass(s, j)
    /\ s \in PaperSessions \/ j \in sessions[s].reserved

\* The gate meets an UNKNOWN order: it denies and kills the session.
GateKill(s, i, w) ==
    /\ GateOpen(s, i, w)
    /\ UnknownOrder(s)
    /\ sessions' = [sessions EXCEPT ![s] = KilledRow(@)]
    /\ UNCHANGED intentVars

GatePasses(s, i, w) == GateOpen(s, i, w) /\ ~UnknownOrder(s) /\ <<s, i>> \in InScope

\* Mutant: the total is compared one too late.
BudgetLeftLate(s, i) ==
    /\ OrdersConsumed(s) <= Limits[s].total
    /\ i \in Opening => sessions[s].opening < Limits[s].opening
    /\ i \notin Opening => sessions[s].closing < Limits[s].closing
    /\ sessions[s].risk + Risk[i] <= Limits[s].risk
BudgetLeft(s, i) ==
    /\ OrdersConsumed(s) < Limits[s].total
    /\ i \in Opening => sessions[s].opening < Limits[s].opening
    /\ i \notin Opening => sessions[s].closing < Limits[s].closing
    /\ sessions[s].risk + Risk[i] <= Limits[s].risk

\* Mutant: the reservations of other sessions are not looked at.
BudgetedNowhere(s, i) == FALSE
BudgetedElsewhere(s, i) == \E t \in Sessions \ {s} : i \in sessions[t].reserved

ReservedRow(s, i) == [sessions[s] EXCEPT
    !.opening = IF i \in Opening THEN @ + 1 ELSE @,
    !.closing = IF i \in Opening THEN @ ELSE @ + 1,
    !.risk = @ + Risk[i],
    !.reserved = @ \cup {i}]

\* RESERVE spends the budget of a never-sent claimed intent.
GateReserve(s, i, w) ==
    /\ GatePasses(s, i, w)
    /\ i \notin sessions[s].reserved
    /\ intents[i].status = "CLAIMED"
    /\ intents[i].attempts = 0
    /\ ~BudgetedElsewhere(s, i)
    /\ BudgetLeft(s, i)
    /\ sessions' = [sessions EXCEPT ![s] = ReservedRow(s, i)]
    /\ UNCHANGED intentVars

\* A reservation that is there already is allowed again, and spends nothing.
GateReplay(s, i, w) ==
    /\ GatePasses(s, i, w)
    /\ i \in sessions[s].reserved
    /\ UNCHANGED sessionVars

\* SUBMIT needs the reservation and enough session left, and fences the intent in the
\* same transaction.
Submittable(s, i) == i \in sessions[s].reserved /\ sessions[s].ttl >= SendMargin

GateSubmit(s, i, w, p) ==
    /\ GatePasses(s, i, w)
    /\ Submittable(s, i)
    /\ Fence(i, w, p)
    /\ UNCHANGED sessions

\* allowed=false, for RESERVE as for SUBMIT.  A lapsed session is expired on the way,
\* and an UNKNOWN order kills it.
GateDenies(s, i, w) ==
    /\ SameClass(s, i)
    /\ \/ ExpireSession(s)
       \/ ~Lapsed(s) /\ ~GateRunning(s, i) /\ UNCHANGED sessionVars
       \/ GateKill(s, i, w)
       \/ /\ GateOpen(s, i, w)
          /\ ~UnknownOrder(s)
          /\ <<s, i>> \notin InScope
          /\ UNCHANGED sessionVars

\* RESERVE also denies for a reservation in another session, or for the budget.
GateDeniesReserve(s, i, w) ==
    \/ GateDenies(s, i, w)
    \/ /\ GatePasses(s, i, w)
       /\ i \notin sessions[s].reserved
       /\ intents[i].status = "CLAIMED" /\ intents[i].attempts = 0
       /\ BudgetedElsewhere(s, i) \/ ~BudgetLeft(s, i)
       /\ UNCHANGED sessionVars

\* SUBMIT also denies near the end of the session.
GateDeniesSubmit(s, i, w) ==
    \/ GateDenies(s, i, w)
    \/ /\ GatePasses(s, i, w)
       /\ i \in sessions[s].reserved
       /\ ~Submittable(s, i)
       /\ UNCHANGED sessionVars

SessionTick ==
    /\ IntentTick
    /\ sessions' = [s \in Sessions |-> [sessions[s] EXCEPT
           !.starts = Elapse(@), !.ttl = Elapse(@), !.next = Elapse(@)]]

-----------------------------------------------------------------------------
(* Any client calling any RPC in any order, but for the one rule the Python code   *)
(* keeps: a PAPER intent, and one that a session budgets, is advanced to           *)
(* SUBMITTING only through the gate (execution_sessions.py, SessionOrderGate).     *)

SessionControl(s) ==
    \/ CreateSession(s) \/ ExpireSession(s) \/ Activate(s) \/ Kill(s) \/ Finish(s)
    \/ \E c \in Cycles : CycleStart(s, c) \/ CycleEnd(s, c)

Gate(s, i, w) ==
    \/ GateKill(s, i, w) \/ GateReserve(s, i, w) \/ GateReplay(s, i, w)
    \/ \E p \in 0..1 : GateSubmit(s, i, w, p)

AdvanceOutsideGate(i, w) ==
    \/ /\ i \notin Paper
       /\ \A s \in Sessions : i \notin sessions[s].reserved
       /\ Fence(i, w, 1)
    \/ BeginReconcile(i, w) \/ RejectLocally(i, w)
    \/ \E b \in OrderIds \cup {NoOrder} : MarkUnknown(i, w, b)
    \/ \E b \in OrderIds, target \in Terminal \cup {"SUBMITTED"} : Settle(i, w, target, b)

SessionNext ==
    \/ LeaseStep /\ UNCHANGED sessions
    \/ SessionTick
    \/ \E i \in Intents, w \in Owners :
          (Create(i, w) \/ Claim(i, w) \/ AdvanceOutsideGate(i, w)) /\ UNCHANGED sessions
    \/ \E s \in Sessions : SessionControl(s)
    \/ \E s \in Sessions, i \in Intents : GateResult(s, i)
    \/ \E s \in Sessions, i \in Intents, w \in Owners : Gate(s, i, w)

SessionSpec == SessionInit /\ [][SessionNext]_sessionVars

-----------------------------------------------------------------------------
\* The budget is a ledger of the reservations: every counter is what was reserved, and
\* stays within its bound, as does the cycle ledger; nothing is refunded after a
\* rejection, an UNKNOWN order or a crash.
BudgetLedger == \A s \in Sessions :
    LET row == sessions[s] IN
    /\ row.opening = Cardinality(row.reserved \cap Opening)
    /\ row.closing = Cardinality(row.reserved \ Opening)
    /\ row.risk = MapThenSumSet(LAMBDA i : Risk[i], row.reserved)
    /\ row.opening <= Limits[s].opening
    /\ row.closing <= Limits[s].closing
    /\ OrdersConsumed(s) <= Limits[s].total
    /\ row.risk <= Limits[s].risk
    /\ Cardinality(row.cycles) <= Limits[s].cycles

\* Every fenced PAPER intent was paid for by exactly one session, so that session's
\* total bounds the broker requests made under it.
FencedIsBudgeted == \A i \in Paper : intents[i].attempts = 1 =>
    Cardinality({s \in Sessions : i \in sessions[s].reserved}) = 1

\* No PAPER order is fenced but by an ACTIVE session with time left that reserved it;
\* and no session of either kind fences an order while one of its own is UNKNOWN.
FencedOnlyWhenSafe == [][\A i \in Intents :
    intents[i].attempts = 0 /\ intents'[i].attempts = 1 =>
        /\ i \in Paper => \E s \in PaperSessions : i \in sessions[s].reserved
        /\ \A s \in Sessions : i \in sessions[s].reserved =>
              /\ Has(s, "ACTIVE")
              /\ sessions[s].ttl >= SendMargin
              /\ \A j \in sessions[s].reserved : intents[j].status # "UNKNOWN"]_sessionVars

\* A session that reached its broker failure limit is no longer active.
FailuresKill == \A s \in Sessions :
    Cardinality(sessions[s].failed) >= Limits[s].failures => ~Has(s, "ACTIVE")

\* At most one PAPER session is ACTIVE, however activations and expiries interleave.
OneActiveSession == \A s, t \in PaperSessions : Has(s, "ACTIVE") /\ Has(t, "ACTIVE") => s = t

\* An ended session never comes back, and never spends again.
EndedIsFinal == [][\A s \in Sessions : sessions[s].status \in {"EXPIRED", "KILLED", "COMPLETED"} =>
    /\ sessions'[s].status = sessions[s].status
    /\ sessions'[s].reserved = sessions[s].reserved
    /\ sessions'[s].cycles = sessions[s].cycles]_sessionVars
=============================================================================

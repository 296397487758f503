----------------------------- MODULE Coordinator -----------------------------
(***************************************************************************)
(* backend/app/phase2/execution_coordinator.py: the bounded PAPER runs of  *)
(* BoundedExecutionCoordinator, each by a server process of its own; the   *)
(* processes follow each other.                                            *)
(*                                                                         *)
(* Every await is a step.  A call to the database may fail unapplied, or   *)
(* take effect and lose its acknowledgment; the run may be cancelled at    *)
(* any await, more than once; a process may die anywhere.                  *)
(* The dispatcher is any client of the order RPCs that works under the     *)
(* run's owner id; Dispatch has its own steps.                             *)
(***************************************************************************)
EXTENDS ExecutionSessions

CONSTANTS
    Starts,     \* bound: how often the server process is started
    WorkTTL,    \* the 150 seconds of wait_for
    Slice,      \* the 60 seconds slept at most before looking again
    Off         \* the session of a run that has not started

ASSUME CoordinatorConstants ==
    /\ Cycles = UNION {{s} \X (1..Limits[s].cycles) : s \in Sessions}
    /\ Starts \in Nat /\ (1..Starts) \X (1..3) \subseteq Owners
    /\ Intents \subseteq Cycles /\ Intents \subseteq OrderIds    \* the cycles that may select an order
    /\ Paper = Intents /\ PaperSessions = Sessions
    /\ WorkTTL \in Nat \ {0} /\ Slice \in Nat \ {0}
    /\ Off \notin Sessions

VARIABLES
    run,          \* the run of the present process: where it is and what it knows
    authorized,   \* settings and token pass paper_configuration and authorization_gates
    begun         \* history: how often the work of each cycle was begun

coordinatorVars == <<sessionVars, run, authorized, begun>>

\* Outside the try block, inside it, and in the two except clauses.
OutsidePcs == {"enter", "refuse", "look", "scan", "wait", "nap", "kill", "finish", "final", "close"}
WorkPcs == {"refresh", "halt", "dispatch", "reread", "report"}
TryPcs == {"acquire", "start", "complete", "end", "abandon"} \cup WorkPcs
CleanupPcs == {"denied", "denied release", "failed", "failed release"}
EndPcs == {"off", "returned", "raised", "crashed"}

\* start: which start of the process it is; timer: of the sleep or of wait_for;
\* known: the cycles used when the run began; lost: what went wrong on the way: cleanup
\* that failed or was cancelled, an exception outside the try block, a skewed local clock.
Losses == {"kill", "release", "cancelled", "outside", "clock"}
Run == [pc: OutsidePcs \cup TryPcs \cup CleanupPcs \cup EndPcs, session: Sessions \cup {Off},
        start: 0..Starts, seq: 1..3, timer: Nat, known: SUBSET Cycles, lost: SUBSET Losses]

CoordinatorTypeOK ==
    /\ SessionTypeOK
    /\ run \in Run
    /\ authorized \in BOOLEAN
    /\ begun \in [Cycles -> Nat]

S == run.session
C == <<S, run.seq>>        \* uuid5 of the session and the sequence number
I == C                        \* the intent the cycle selects
W == <<run.start, run.seq>>           \* owner = uuid4(), drawn once per sequence number
Is(pc) == run.pc = pc
GoTo(pc) == run' = [run EXCEPT !.pc = pc]
Running(s) == sessions'[s].status = "ACTIVE"
Lose(pc, what) == run' = [run EXCEPT !.pc = pc, !.lost = @ \cup what]
Only(vars) == UNCHANGED <<vars, authorized, begun>>

-----------------------------------------------------------------------------
CoordinatorInit ==
    /\ SessionInit
    /\ run = [pc |-> "off", session |-> Off, start |-> 0, seq |-> 1, timer |-> 0,
              known |-> {}, lost |-> {}]
    /\ authorized = TRUE
    /\ begun = [c \in Cycles |-> 0]

\* Where an exception goes: a run may lose its KILL or its release, each on its own.
\* Mutant: one suppress covers both cleanup calls, so a failed KILL skips the release.
ExceptionSkipsRelease ==
    \/ run.pc \in OutsidePcs /\ Lose("raised", {"outside"})
    \/ run.pc \in TryPcs /\ GoTo("failed")
    \/ Is("denied") /\ Lose("final", {"kill"})
    \/ Is("failed") /\ Lose("raised", {"kill"})
    \/ Is("denied release") /\ Lose("final", {"release"})
    \/ Is("failed release") /\ Lose("raised", {"release"})
Exception ==
    \/ run.pc \in OutsidePcs /\ Lose("raised", {"outside"})
    \/ run.pc \in TryPcs /\ GoTo("failed")
    \/ Is("denied") /\ Lose("denied release", {"kill"})
    \/ Is("failed") /\ Lose("failed release", {"kill"})
    \/ Is("denied release") /\ Lose("final", {"release"})
    \/ Is("failed release") /\ Lose("raised", {"release"})

\* suppress(Exception) lets a cancellation through: it leaves an except clause at once, the
\* release and the break included.  Anywhere else a cancellation goes the way of an exception.
Cancelled == run.pc \in CleanupPcs /\ Lose("raised", {"cancelled"})

\* The answer to a call that took effect, its loss, or a cancellation instead.
Reply(pc) == GoTo(pc) \/ Exception \/ Cancelled

(* session.control, as the coordinator calls it: a row that has ended is answered as it is. *)
Ended(s) == sessions[s].status \notin Open
Inspect(s) == IF Lapsed(s) THEN ExpireSession(s) ELSE UNCHANGED sessionVars
KillCall(s) == ExpireSession(s) \/ Kill(s) \/ (Ended(s) /\ UNCHANGED sessionVars)
FinishCall(s) == ExpireSession(s) \/ Finish(s) \/ (Ended(s) /\ UNCHANGED sessionVars)

\* A started process activates the session, or finds it activated, and runs it.
StartRun(s) ==
    /\ run.pc \in EndPcs
    /\ run.start < Starts
    /\ Has(s, "ACTIVE")
    /\ run' = [pc |-> "enter", session |-> s, start |-> run.start + 1, seq |-> 1, timer |-> 0,
               known |-> sessions[s].cycles, lost |-> {}]
    /\ Only(sessionVars)

Enter ==
    /\ Is("enter")
    /\ Inspect(S)
    /\ Reply(IF ~authorized THEN "refuse" ELSE IF Running(S) THEN "look" ELSE "returned")
    /\ UNCHANGED <<authorized, begun>>

\* AUTHORIZATION_DENIED, then SessionDenied to the caller.
Refuse ==
    /\ Is("refuse")
    /\ KillCall(S)
    /\ GoTo("raised")
    /\ UNCHANGED <<authorized, begun>>

NextSequence ==
    IF run.seq < Limits[S].cycles
    THEN run' = [run EXCEPT !.pc = "look", !.seq = @ + 1]
    ELSE GoTo("final")

Look ==
    /\ Is("look")
    /\ Inspect(S)
    /\ Reply(IF Running(S) THEN "scan" ELSE "final")
    /\ UNCHANGED <<authorized, begun>>

\* "Never restore a used cycle after restart."
\* Mutant: a cycle that was started and not ended is taken up again.
UsedAndEnded == C \in sessions[S].ended
Used == C \in sessions[S].cycles

\* What the loop does with the row and with the unresolved PAPER intents.
AfterScan ==
    LET row == sessions[S] IN
    IF (\E i \in Paper : intents[i].status = "UNKNOWN") \/ ~authorized THEN "kill"
    ELSE IF OrdersConsumed(S) >= Limits[S].total /\ Limits[S].total > 0 THEN "finish"
    ELSE IF row.ttl = 0 THEN "final"
    ELSE IF row.next > 0 THEN "wait" ELSE "acquire"

\* A used cycle is passed over before the order budget is looked at; a local clock that
\* is outside the window of the session while the database's is not ends the loop.
Scan ==
    /\ Is("scan")
    /\ \/ IF AfterScan # "kill" /\ Used THEN NextSequence ELSE GoTo(AfterScan)
       \/ ~Used /\ AfterScan \in {"wait", "acquire"} /\ Lose("final", {"clock"})
    /\ Only(sessionVars)

\* _wait_for_cadence, one slice.
\* Mutant: a wait longer than one slice ends the session.
CadenceEndsSlice(s) == sessions[s].next > Slice
CadenceEnds(s) == sessions[s].next >= sessions[s].ttl

AfterWait ==
    IF ~Running(S) THEN "final" ELSE IF ~authorized THEN "kill"
    ELSE IF sessions[S].next = 0 THEN "acquire"
    ELSE IF CadenceEnds(S) THEN "finish" ELSE "nap"

Smaller(a, b) == IF a < b THEN a ELSE b

Wait ==
    /\ Is("wait")
    /\ Inspect(S)
    /\ \/ run' = [run EXCEPT !.pc = AfterWait, !.timer = Smaller(sessions[S].next, Slice)]
       \/ Exception
    /\ UNCHANGED <<authorized, begun>>

\* The slice is over: look again.  A local clock that stalled, went back or left the
\* session's window ends the session.
WakeUp ==
    /\ Is("nap")
    /\ run.timer = 0
    /\ \E pc \in {"wait", "kill"} : GoTo(pc)
    /\ Only(sessionVars)

\* KILL or FINISH ahead of a break.
Stop ==
    /\ \/ Is("kill") /\ KillCall(S)
       \/ Is("finish") /\ FinishCall(S)
    /\ Reply("final")
    /\ UNCHANGED <<authorized, begun>>

Acquire ==
    /\ Is("acquire")
    /\ Grant(W, C)
    /\ Reply("start")
    /\ UNCHANGED <<intents, sessions, authorized, begun>>

\* "Cycle lock unavailable"
AcquireRefused ==
    /\ Is("acquire")
    /\ ~GrantOpen(C)
    /\ GoTo("failed")
    /\ Only(sessionVars)

\* CYCLE_START is acknowledged without any change for a session that has ended and for a
\* cycle that was started already; the answer is not looked at.
StartCall(s, c) ==
    \/ CycleStart(s, c)
    \/ ExpireSession(s)
    \/ (Ended(s) \/ (~Lapsed(s) /\ c \in sessions[s].cycles)) /\ UNCHANGED sessionVars

StartCycle ==
    /\ Is("start")
    /\ StartCall(S, C)
    /\ \/ /\ run' = [run EXCEPT !.pc = "refresh", !.timer = WorkTTL]
          /\ begun' = [begun EXCEPT ![C] = @ + 1]
       \/ Exception /\ UNCHANGED begun
    /\ UNCHANGED authorized

\* The market state, kill_condition, the research cycle and its decision.
Refresh ==
    /\ Is("refresh")
    /\ \E pc \in {"halt", "complete"} \cup {d \in {"dispatch"} : C \in Intents} : GoTo(pc)
    /\ Only(sessionVars)

Halt ==
    /\ Is("halt")
    /\ KillCall(S)
    /\ Reply("abandon")
    /\ UNCHANGED <<authorized, begun>>

\* wait_for cancels the work when its time is over.
\* Mutant: the work is awaited without a limit.
Unlimited == TRUE
InTime == run.timer > 0

\* The order RPCs under the claim of this run; authorize() precedes the fence.
OrderRpc(i, w, s) ==
    \/ /\ \/ CreateIntent(i, w, i, IntentTTL) \/ TakeClaim(i, w) \/ ExpireOrphan(i)
          \/ RejectLocally(i, w) \/ BeginReconcile(i, w) \/ MarkUnknown(i, w, NoOrder)
          \/ \E target \in {"SUBMITTED", "FILLED"} : Settle(i, w, target, i)
       /\ UNCHANGED sessions
    \/ GateReserve(s, i, w) \/ GateKill(s, i, w)
    \/ authorized /\ GateSubmit(s, i, w, 1)

DispatchRpc ==
    /\ Is("dispatch")
    /\ InTime
    /\ OrderRpc(I, W, S)
    /\ UNCHANGED <<run, authorized, begun>>

\* It returns a row that needs no worker, or lets a SessionDenied of the gate through.
DispatchEnds ==
    /\ Is("dispatch")
    /\ \/ intents[I].status \in Released /\ GoTo("reread")
       \/ intents[I].status = "CLAIMED" /\ GoTo("denied")
    /\ Only(sessionVars)

Reread ==
    /\ Is("reread")
    /\ Inspect(S)
    /\ Reply(IF I \in sessions[S].reserved THEN "report" ELSE "complete")
    /\ UNCHANGED <<authorized, begun>>

Report ==
    /\ Is("report")
    /\ GateResult(S, I)
    /\ Reply("complete")
    /\ UNCHANGED <<authorized, begun>>

TimesOut ==
    /\ run.pc \in WorkPcs
    /\ run.timer = 0
    /\ GoTo("failed")
    /\ Only(sessionVars)

Complete ==
    /\ Is("complete")
    /\ ReleaseCompleted(W, C)
    /\ Reply("end")
    /\ UNCHANGED <<intents, sessions, authorized, begun>>

EndCycle ==
    /\ Is("end")
    /\ \/ CycleEnd(S, C)
       \/ ExpireSession(S)
       \/ Ended(S) /\ UNCHANGED sessionVars
    /\ NextSequence \/ Exception
    /\ UNCHANGED <<authorized, begun>>

\* No cycle came out of the work: release as FAILED and break.
Abandon ==
    /\ Is("abandon")
    /\ ReleaseFailed(W)
    /\ Reply("final")
    /\ UNCHANGED <<intents, sessions, authorized, begun>>

\* The except clauses: SESSION_SCOPE and break, or DATABASE_FAILURE and raise.
CleanupKill ==
    /\ \/ Is("denied") /\ Reply("denied release")
       \/ Is("failed") /\ Reply("failed release")
    /\ KillCall(S)
    /\ UNCHANGED <<authorized, begun>>

CleanupRelease ==
    /\ \/ Is("denied release") /\ Reply("final")
       \/ Is("failed release") /\ Reply("raised")
    /\ IF Releasable(W) THEN ReleaseFailed(W) ELSE UNCHANGED leaseVars
    /\ UNCHANGED <<intents, sessions, authorized, begun>>

Final ==
    /\ Is("final")
    /\ Inspect(S)
    /\ Reply(IF Running(S) THEN "close" ELSE "returned")
    /\ UNCHANGED <<authorized, begun>>

Close ==
    /\ Is("close")
    /\ FinishCall(S)
    /\ Reply("returned")
    /\ UNCHANGED <<authorized, begun>>

\* A call that fails unapplied, is refused, or is cancelled before it is applied.
Fails ==
    /\ Exception \/ Cancelled
    /\ Only(sessionVars)

Crash ==
    /\ run.pc \notin EndPcs
    /\ GoTo("crashed")
    /\ Only(sessionVars)

-----------------------------------------------------------------------------
Operator ==
    /\ \/ /\ \E s \in Sessions : CreateSession(s) \/ Activate(s) \/ Kill(s)
          /\ UNCHANGED authorized
       \/ authorized /\ authorized' = FALSE /\ UNCHANGED sessionVars
    /\ UNCHANGED <<run, begun>>

Tick ==
    /\ SessionTick
    /\ run' = [run EXCEPT !.timer = Elapse(@)]
    /\ UNCHANGED <<authorized, begun>>

\* What a run does by itself, failures of its calls included.
RunStep ==
    \/ Enter \/ Refuse \/ Look \/ Scan \/ Wait \/ WakeUp \/ Stop
    \/ Acquire \/ AcquireRefused \/ StartCycle \/ Refresh \/ Halt
    \/ DispatchRpc \/ DispatchEnds \/ Reread \/ Report \/ TimesOut
    \/ Complete \/ EndCycle \/ Abandon
    \/ CleanupKill \/ CleanupRelease \/ Final \/ Close \/ Fails

CoordinatorNext ==
    \/ RunStep
    \/ Crash
    \/ \E s \in Sessions : StartRun(s)
    \/ Operator
    \/ Tick

\* Time passes, and a run that can take a step takes one: the event loop is not blocked
\* for ever, and every call has an HTTP timeout.  Nobody has to start a run.
Fairness == WF_coordinatorVars(Tick) /\ WF_coordinatorVars(RunStep)

CoordinatorSpec == CoordinatorInit /\ [][CoordinatorNext]_coordinatorVars /\ Fairness

-----------------------------------------------------------------------------
\* "Never restore a used cycle after restart" (execution_coordinator.py:121): whatever
\* failed or died in the middle of a cycle, a run works on no cycle that was used before
\* it began, and no cycle is worked on twice, however many runs follow each other.
RestartSkipsUsed == [][\A c \in Cycles : begun'[c] # begun[c] =>
    begun[c] = 0 /\ c \notin run.known]_coordinatorVars

\* The cleanup calls fail separately: a run that is over without its process having died
\* holds a lease only if its release failed or a cancellation cut the cleanup short, and has
\* left its session open only if its KILL failed, the cleanup was cut short, or it
\* raised outside the try block, where no lease is held.
HoldsAnyLease == LeaseLive /\ \E n \in 1..3 : lease.owner = <<run.start, n>>
CleanEnd ==
    /\ run.pc \in {"returned", "raised"} /\ run.lost \cap {"release", "cancelled"} = {} => ~HoldsAnyLease
    /\ run.pc = "returned" => Ended(S)
    /\ run.pc = "raised" /\ run.lost \cap {"kill", "cancelled", "outside"} = {} => Ended(S)

\* "Wait in <=60s slices without ending a longer-cadence session early"
\* (execution_coordinator.py:67): a session is completed only when its cycles or orders
\* are used up, when no further cycle would be due before it expires, after a denial
\* whose KILL was lost, or when a local clock is outside its window (line 125).
NotEndedEarly == [][\A s \in Sessions :
    Has(s, "ACTIVE") /\ sessions'[s].status = "COMPLETED" =>
        \/ Cardinality(sessions[s].cycles) = Limits[s].cycles
        \/ OrdersConsumed(s) >= Limits[s].total
        \/ sessions[s].next >= sessions[s].ttl
        \/ S = s /\ run.lost \cap {"kill", "clock"} # {}]_coordinatorVars

\* "never spins" (execution_coordinator.py:70), and waits for nobody: every run comes to
\* its end, through cadence waits, lost leases, failing calls and work that hangs.
RunsEnd == run.pc \notin EndPcs ~> run.pc \in EndPcs

\* "A never-sent orphan must not permanently hold the account-wide barrier"
\* (005_phase2_order_intents.sql:95): when a later run dispatches an order of its own, a
\* claimed intent that was never sent, and that no live claim or lease covers any
\* more, sooner or later stops standing in its way.
OrphanHolds(i) == intents[i].status = "CLAIMED" /\ ~ClaimLive(i) /\ ~LeasedTo(intents[i].cycle)
OrphanLetsGo == \A i \in Intents :
    OrphanHolds(i) /\ Is("dispatch") /\ I # i ~> ~OrphanHolds(i)
=============================================================================

----------------------------- MODULE BatchRunner -----------------------------
(***************************************************************************)
(* backend/app/phase2/engine.py, _run_batch: the finite dry-run batch that *)
(* a deployment starts.  Deployments overlap (the old process drains while *)
(* the new one starts), crash, and lose acknowledgments; all share the     *)
(* lease row, and all use the same deterministic cycle ids.                *)
(***************************************************************************)
EXTENDS CycleLease

CONSTANTS
    Runners,    \* server processes that may run the batch at the same time
    Count,      \* cycles of the batch; cycle id n is uuid5(batch:n)
    Interval,   \* ticks slept between two cycles
    MaxRuns     \* bound: how often a process is started

ASSUME BatchConstants ==
    /\ Count \in Nat \ {0}
    /\ Cycles = 1..Count
    /\ Interval \in Nat
    /\ MaxRuns \in Nat \ {0}
    /\ Runners \X (1..MaxRuns) \X Cycles \subseteq Owners

VARIABLES
    runner,    \* each process: where it is, its sequence number, its run
    worked,    \* history: how often the work of a cycle was started
    quiet      \* history: ticks since the last start or recorded end, up to Cooldown

batchVars == <<leaseVars, runner, worked, quiet>>

Pcs == {"check", "acquire", "work", "complete", "fail", "sleep", "done", "dead"}

BatchTypeOK ==
    /\ LeaseTypeOK
    /\ runner \in [Runners -> [pc: Pcs, seq: Cycles, run: 1..MaxRuns, nap: 0..Interval]]
    /\ worked \in [Cycles -> Nat]
    /\ quiet \in 0..Cooldown

\* owner = str(uuid4()): one per acquisition, and a run tries each sequence once.
Token(r) == <<r, runner[r].run, runner[r].seq>>

At(r, pc) == runner[r].pc = pc
Goto(r, pc) == runner' = [runner EXCEPT ![r].pc = pc]
AfterSequence(p) == IF p.seq < Count THEN [p EXCEPT !.seq = @ + 1, !.pc = "check"]
                                     ELSE [p EXCEPT !.pc = "done"]
NextSequence(r) == runner' = [runner EXCEPT ![r] = AfterSequence(@)]

BatchInit ==
    /\ LeaseInit
    /\ runner = [r \in Runners |-> [pc |-> "check", seq |-> 1, run |-> 1, nap |-> 0]]
    /\ worked = [c \in Cycles |-> 0]
    /\ quiet = Cooldown

\* repository.completed(cycle_id): a recorded cycle is skipped.
CheckCompleted(r) ==
    /\ At(r, "check")
    /\ IF runner[r].seq \in Saved THEN NextSequence(r) ELSE Goto(r, "acquire")
    /\ UNCHANGED <<leaseVars, worked, quiet>>

\* repository.acquire_lease returned true: the work of the cycle starts.
Acquire(r) ==
    /\ At(r, "acquire")
    /\ Grant(Token(r), runner[r].seq)
    /\ Goto(r, "work")
    /\ worked' = [worked EXCEPT ![runner[r].seq] = @ + 1]
    /\ quiet' = 0

\* It returned false: the batch raises, outside the try, with nothing to release.
AcquireRefused(r) ==
    /\ At(r, "acquire")
    /\ ~GrantOpen(runner[r].seq)
    /\ Goto(r, "dead")
    /\ UNCHANGED <<leaseVars, worked, quiet>>

\* The pure research work ends within wait_for, or fails, times out, is cancelled.
FinishWork(r) ==
    /\ At(r, "work")
    /\ Goto(r, "complete")
    /\ UNCHANGED <<leaseVars, worked, quiet>>

FailWork(r) ==
    /\ At(r, "work")
    /\ Goto(r, "fail")
    /\ UNCHANGED <<leaseVars, worked, quiet>>

\* release_lease(owner, "COMPLETED", cycle); no sleep after the last cycle.
Complete(r) ==
    /\ At(r, "complete")
    /\ ReleaseCompleted(Token(r), runner[r].seq)
    /\ runner' = [runner EXCEPT ![r].pc = IF runner[r].seq < Count THEN "sleep" ELSE "done",
                                ![r].nap = Interval]
    /\ quiet' = 0
    /\ UNCHANGED worked

\* The release took effect and its acknowledgment was lost: the except clause runs.
CompleteUnacknowledged(r) ==
    /\ At(r, "complete")
    /\ ReleaseCompleted(Token(r), runner[r].seq)
    /\ Goto(r, "fail")
    /\ quiet' = 0
    /\ UNCHANGED worked

\* release_lease answered false ("Lease lost or expired") or failed unapplied.
CompleteRefused(r) ==
    /\ At(r, "complete")
    /\ Goto(r, "fail")
    /\ UNCHANGED <<leaseVars, worked, quiet>>

\* The except clause: release as FAILED, whatever comes of it, and raise.
ReportFailure(r) ==
    /\ At(r, "fail")
    /\ \/ ReleaseFailed(Token(r)) /\ quiet' = 0
       \/ UNCHANGED <<leaseVars, quiet>>
    /\ Goto(r, "dead")
    /\ UNCHANGED worked

WakeUp(r) ==
    /\ At(r, "sleep")
    /\ runner[r].nap = 0
    /\ NextSequence(r)
    /\ UNCHANGED <<leaseVars, worked, quiet>>

\* The process is killed, or an RPC outside the try raises.
Crash(r) ==
    /\ runner[r].pc \notin {"done", "dead"}
    /\ Goto(r, "dead")
    /\ UNCHANGED <<leaseVars, worked, quiet>>

\* A later deployment runs the same batch from its first cycle.
Redeploy(r) ==
    /\ runner[r].pc \in {"done", "dead"}
    /\ runner[r].run < MaxRuns
    /\ runner' = [runner EXCEPT ![r] = [pc |-> "check", seq |-> 1, run |-> @.run + 1, nap |-> 0]]
    /\ UNCHANGED <<leaseVars, worked, quiet>>

Tick ==
    /\ LeaseTick
    /\ runner' = [r \in Runners |-> [runner[r] EXCEPT !.nap = Elapse(@)]]
    /\ quiet' = IF quiet < Cooldown THEN quiet + 1 ELSE quiet
    /\ UNCHANGED worked

Step(r) ==
    \/ CheckCompleted(r) \/ Acquire(r) \/ AcquireRefused(r)
    \/ FinishWork(r) \/ FailWork(r)
    \/ Complete(r) \/ CompleteUnacknowledged(r) \/ CompleteRefused(r)
    \/ ReportFailure(r) \/ WakeUp(r)

BatchNext == Tick \/ \E r \in Runners : Step(r) \/ Crash(r) \/ Redeploy(r)

BatchSpec == BatchInit /\ [][BatchNext]_batchVars

-----------------------------------------------------------------------------
\* However often deployments crash, overlap and restart, the work of a cycle is
\* started at most MaxAttempts times (engine.py:138: "SQL caps total attempts").
AttemptCap == \A c \in Cycles : worked[c] <= MaxAttempts

\* No process starts work before Cooldown has passed since the last start and the
\* last recorded end of any process, whichever deployment that was.
Cadence == [][(\E c \in Cycles : worked'[c] # worked[c]) => quiet = Cooldown]_batchVars
=============================================================================

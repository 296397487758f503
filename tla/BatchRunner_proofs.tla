-------------------------- MODULE BatchRunner_proofs --------------------------
(***************************************************************************)
(* The batch keeps the lease's promises, never exceeds the attempts of a   *)
(* cycle and keeps the cadence, for any number of processes, cycles and    *)
(* deployments and for all durations.                                      *)
(***************************************************************************)
EXTENDS BatchRunner, CycleLease_proofs

\* The work a process starts is the attempt the row has counted, and the row's
\* cooldown lasts as long as the time since the last start or end requires.
BatchInv ==
    /\ BatchTypeOK
    /\ worked = lease.attempts
    /\ lease.rest + quiet >= Cooldown

LEMMA BatchTokens ==
    ASSUME NEW r \in Runners, BatchTypeOK
    PROVE  Token(r) \in Owners /\ runner[r].seq \in Cycles
BY BatchConstants DEF BatchTypeOK, Token

\* Every step of the batch is a step of the lease, or leaves it alone.
LEMMA StepIsLeaseStep == BatchTypeOK /\ [BatchNext]_batchVars => [LeaseNext]_leaseVars
<1>. SUFFICES ASSUME BatchTypeOK, [BatchNext]_batchVars
             PROVE  [LeaseNext]_leaseVars
  OBVIOUS
<1>1. ASSUME NEW r \in Runners, Step(r) \/ Crash(r) \/ Redeploy(r)
      PROVE  [LeaseNext]_leaseVars
  <2>. Token(r) \in Owners /\ runner[r].seq \in Cycles
    BY BatchTokens
  <2>1. CASE Acquire(r)
    BY <2>1 DEF Acquire, LeaseNext
  <2>2. CASE Complete(r) \/ CompleteUnacknowledged(r)
    BY <2>2 DEF Complete, CompleteUnacknowledged, LeaseNext
  <2>3. CASE ReportFailure(r)
    BY <2>3 DEF ReportFailure, LeaseNext
  <2>4. CASE CheckCompleted(r) \/ AcquireRefused(r) \/ FinishWork(r) \/ FailWork(r)
             \/ CompleteRefused(r) \/ WakeUp(r) \/ Crash(r) \/ Redeploy(r)
    BY <2>4 DEF CheckCompleted, AcquireRefused, FinishWork, FailWork, CompleteRefused,
                WakeUp, Crash, Redeploy
  <2>. QED BY <1>1, <2>1, <2>2, <2>3, <2>4 DEF Step
<1>2. CASE Tick
  BY <1>2 DEF Tick, LeaseNext
<1>3. CASE UNCHANGED batchVars
  BY <1>3 DEF batchVars
<1>. QED BY <1>1, <1>2, <1>3 DEF BatchNext

LEMMA BatchInitInv == BatchInit => BatchInv
<1>. SUFFICES ASSUME BatchInit PROVE BatchInv
  OBVIOUS
<1>1. LeaseTypeOK
  BY LeaseInitInv DEF BatchInit, LeaseInv
<1>2. 1 \in Cycles /\ 1 \in 1..MaxRuns /\ 0 \in 0..Interval
  BY BatchConstants
<1>3. runner \in [Runners -> [pc: Pcs, seq: Cycles, run: 1..MaxRuns, nap: 0..Interval]]
  BY <1>2 DEF BatchInit, Pcs
<1>4. worked \in [Cycles -> Nat] /\ quiet \in 0..Cooldown
  BY LeaseConstants DEF BatchInit
<1>5. worked = lease.attempts /\ lease.rest + quiet >= Cooldown
  BY LeaseConstants DEF BatchInit, LeaseInit
<1>. QED BY <1>1, <1>3, <1>4, <1>5 DEF BatchInv, BatchTypeOK

-----------------------------------------------------------------------------
(* The processes stay typed.                                               *)

Process == [pc: Pcs, seq: Cycles, run: 1..MaxRuns, nap: 0..Interval]

LEMMA GotoTyped ==
    ASSUME runner \in [Runners -> Process], NEW r \in Runners, NEW pc \in Pcs, Goto(r, pc)
    PROVE  runner' \in [Runners -> Process]
BY DEF Goto, Process

LEMMA NextSequenceTyped ==
    ASSUME runner \in [Runners -> Process], NEW r \in Runners, NextSequence(r)
    PROVE  runner' \in [Runners -> Process]
<1>1. runner[r] \in Process /\ "check" \in Pcs /\ "done" \in Pcs
  BY DEF Process, Pcs
<1>2. runner[r].seq < Count => runner[r].seq + 1 \in Cycles
  BY <1>1, BatchConstants DEF Process
<1>3. [runner[r] EXCEPT !.pc = "done"] \in Process
  BY <1>1 DEF Process
<1>4. ASSUME runner[r].seq < Count
      PROVE  [runner[r] EXCEPT !.seq = @ + 1, !.pc = "check"] \in Process
  <2>1. runner[r].seq + 1 \in Cycles
    BY <1>2, <1>4
  <2>2. [runner[r] EXCEPT !.seq = runner[r].seq + 1] \in Process
    BY <1>1, <2>1 DEF Process
  <2>. QED BY <1>1, <2>2 DEF Process
<1>. QED BY <1>3, <1>4 DEF NextSequence, AfterSequence

\* Every step of a process keeps the processes' types.
LEMMA StepTyped ==
    ASSUME BatchTypeOK, NEW r \in Runners, Step(r) \/ Crash(r) \/ Redeploy(r)
    PROVE  runner' \in [Runners -> Process]
<1>. runner \in [Runners -> Process]
  BY DEF BatchTypeOK, Process
<1>1. CASE CheckCompleted(r)
  <2>1. CASE NextSequence(r)
    BY <2>1, NextSequenceTyped
  <2>2. CASE Goto(r, "acquire")
    BY <2>2, GotoTyped DEF Pcs
  <2>. QED BY <1>1, <2>1, <2>2 DEF CheckCompleted
<1>2. CASE WakeUp(r)
  BY <1>2, NextSequenceTyped DEF WakeUp
<1>3. CASE Acquire(r)
  BY <1>3, GotoTyped DEF Acquire, Pcs
<1>4. CASE AcquireRefused(r) \/ Crash(r) \/ ReportFailure(r)
  BY <1>4, GotoTyped DEF AcquireRefused, Crash, ReportFailure, Pcs
<1>5. CASE FinishWork(r)
  BY <1>5, GotoTyped DEF FinishWork, Pcs
<1>6. CASE FailWork(r) \/ CompleteUnacknowledged(r) \/ CompleteRefused(r)
  BY <1>6, GotoTyped DEF FailWork, CompleteUnacknowledged, CompleteRefused, Pcs
<1>7. CASE Complete(r)
  <2>1. Interval \in 0..Interval /\ "sleep" \in Pcs /\ "done" \in Pcs
    BY BatchConstants DEF Pcs
  <2>. QED BY <1>7, <2>1 DEF Complete, Process
<1>8. CASE Redeploy(r)
  <2>1. 1 \in Cycles /\ 0 \in 0..Interval /\ "check" \in Pcs
    BY BatchConstants DEF Pcs
  <2>2. runner[r].run + 1 \in 1..MaxRuns
    BY <1>8, BatchConstants DEF Redeploy, Process
  <2>. QED BY <1>8, <2>1, <2>2 DEF Redeploy, Process
<1>. QED BY <1>1, <1>2, <1>3, <1>4, <1>5, <1>6, <1>7, <1>8 DEF Step

-----------------------------------------------------------------------------
\* What a step of a process does to the counters: a grant counts the attempt and
\* restarts both the cooldown and the quiet time, a release restarts both, and
\* nothing else touches them.
LEMMA StepCounts ==
    ASSUME BatchInv, NEW r \in Runners, Step(r) \/ Crash(r) \/ Redeploy(r)
    PROVE  /\ worked' = lease'.attempts
           /\ \/ quiet' = 0 /\ lease'.rest = Cooldown
              \/ quiet' = quiet /\ lease'.rest = lease.rest
<1>. lease \in Lease /\ worked = lease.attempts /\ runner[r].seq \in Cycles
  BY BatchTokens DEF BatchInv, BatchTypeOK, LeaseTypeOK
<1>1. FreedLease.attempts = lease.attempts /\ FreedLease.rest = Cooldown
  BY DEF Lease, FreedLease
<1>2. CASE Acquire(r)
  BY <1>2 DEF Acquire, Grant, AttemptOn, Lease
<1>3. CASE Complete(r) \/ CompleteUnacknowledged(r)
  BY <1>1, <1>3 DEF Complete, CompleteUnacknowledged, ReleaseCompleted
<1>4. CASE ReportFailure(r)
  BY <1>1, <1>4 DEF ReportFailure, ReleaseFailed, leaseVars
<1>5. CASE CheckCompleted(r) \/ AcquireRefused(r) \/ FinishWork(r) \/ FailWork(r)
           \/ CompleteRefused(r) \/ WakeUp(r) \/ Crash(r) \/ Redeploy(r)
  BY <1>5 DEF CheckCompleted, AcquireRefused, FinishWork, FailWork, CompleteRefused, WakeUp,
              Crash, Redeploy, leaseVars
<1>. QED BY <1>2, <1>3, <1>4, <1>5, Step(r) \/ Crash(r) \/ Redeploy(r) DEF Step

LEMMA StepKeepsInv ==
    ASSUME BatchInv, LeaseInv, NEW r \in Runners, Step(r) \/ Crash(r) \/ Redeploy(r)
    PROVE  BatchInv'
<1>1. LeaseTypeOK'
  <2>1. [LeaseNext]_leaseVars
    BY StepIsLeaseStep DEF BatchInv, BatchNext
  <2>. QED BY <2>1, LeaseNextInv DEF LeaseInv
<1>2. runner' \in [Runners -> Process]
  BY StepTyped DEF BatchInv
<1>3. worked' = lease'.attempts /\ worked' \in [Cycles -> Nat]
  BY <1>1, StepCounts, LeaseConstants DEF LeaseTypeOK, Lease
<1>4. quiet' \in 0..Cooldown /\ lease'.rest + quiet' >= Cooldown
  BY StepCounts, LeaseConstants DEF BatchInv, BatchTypeOK, LeaseTypeOK, Lease
<1>. QED BY <1>1, <1>2, <1>3, <1>4 DEF BatchInv, BatchTypeOK, Process

LEMMA TickKeepsInv ==
    ASSUME BatchInv, LeaseInv, Tick
    PROVE  BatchInv'
<1>1. LeaseTypeOK'
  BY LeaseTickInv DEF Tick, LeaseInv
<1>2. \A r \in Runners : [runner[r] EXCEPT !.nap = Elapse(@)] \in Process
  <2>1. ASSUME NEW r \in Runners PROVE Elapse(runner[r].nap) \in 0..Interval
    BY ElapseBound, BatchConstants DEF BatchInv, BatchTypeOK
  <2>. QED BY <2>1 DEF BatchInv, BatchTypeOK, Process
<1>3. runner' \in [Runners -> Process]
  BY <1>2 DEF Tick
<1>4. lease'.attempts = lease.attempts /\ lease'.rest = Elapse(lease.rest)
  BY DEF Tick, LeaseTick, BatchInv, BatchTypeOK, LeaseTypeOK, Lease
<1>5. quiet' \in 0..Cooldown /\ lease'.rest + quiet' >= Cooldown
  BY <1>4, LeaseConstants DEF Tick, Elapse, BatchInv, BatchTypeOK, LeaseTypeOK, Lease
<1>. QED BY <1>1, <1>3, <1>4, <1>5 DEF Tick, BatchInv, BatchTypeOK, Process

LEMMA BatchNextInv == BatchInv /\ LeaseInv /\ [BatchNext]_batchVars => BatchInv' /\ LeaseInv'
<1>. SUFFICES ASSUME BatchInv, LeaseInv, [BatchNext]_batchVars
             PROVE  BatchInv' /\ LeaseInv'
  OBVIOUS
<1>1. LeaseInv'
  BY StepIsLeaseStep, LeaseNextInv DEF BatchInv
<1>2. BatchInv'
  <2>1. CASE UNCHANGED batchVars
    BY <2>1 DEF batchVars, leaseVars, BatchInv, BatchTypeOK, LeaseTypeOK
  <2>. QED BY <2>1, StepKeepsInv, TickKeepsInv DEF BatchNext
<1>. QED BY <1>1, <1>2

LEMMA BatchAlways == BatchSpec => [](BatchInv /\ LeaseInv)
<1>1. BatchInit => BatchInv /\ LeaseInv
  BY BatchInitInv, LeaseInitInv DEF BatchInit
<1>. QED BY <1>1, BatchNextInv, PTL DEF BatchSpec

\* Every reachable state of the batch is well typed.
THEOREM BatchTypeCorrect == BatchSpec => []BatchTypeOK
<1>1. BatchInv => BatchTypeOK
  BY DEF BatchInv
<1>. QED BY <1>1, BatchAlways, PTL

\* _run_batch is a client of the lease: it uses the row through its two RPCs only.
THEOREM BatchImplementsLease == BatchSpec => LeaseSpec
<1>1. BatchInit => LeaseInit
  BY DEF BatchInit
<1>2. BatchInv => BatchTypeOK
  BY DEF BatchInv
<1>. QED BY <1>1, <1>2, BatchAlways, StepIsLeaseStep, PTL DEF BatchSpec, LeaseSpec

\* A recorded cycle is the work of its latest attempt, in every batch.
THEOREM BatchFencesSave == BatchSpec => []FencedSave
BY BatchImplementsLease, LeaseFencesSave, PTL

\* The work of a cycle is started at most MaxAttempts times, whatever crashes.
THEOREM BatchCapsAttempts == BatchSpec => []AttemptCap
<1>1. BatchInv => AttemptCap
  BY LeaseConstants DEF BatchInv, BatchTypeOK, LeaseTypeOK, Lease, AttemptCap
<1>. QED BY <1>1, BatchAlways, PTL

\* No work is started before the cooldown has passed since the last start or end.
THEOREM BatchKeepsCadence == BatchSpec => Cadence
<1>1. ASSUME BatchInv, [BatchNext]_batchVars, NEW c \in Cycles, worked'[c] # worked[c]
      PROVE  quiet = Cooldown
  <2>1. PICK r \in Runners : Acquire(r)
    BY <1>1 DEF BatchNext, batchVars, Tick, Crash, Redeploy, Step, CheckCompleted,
       AcquireRefused, FinishWork, FailWork, Complete, CompleteUnacknowledged,
       CompleteRefused, ReportFailure, WakeUp
  <2>2. lease.rest = 0
    BY <2>1 DEF Acquire, Grant, GrantOpen
  <2>. QED BY <1>1, <2>2, LeaseConstants DEF BatchInv, BatchTypeOK
<1>2. BatchInv /\ [BatchNext]_batchVars =>
        [(\E c \in Cycles : worked'[c] # worked[c]) => quiet = Cooldown]_batchVars
  BY <1>1
<1>. QED BY <1>2, BatchAlways, PTL DEF BatchSpec, Cadence
=============================================================================

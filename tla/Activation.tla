------------------------------ MODULE Activation ------------------------------
(***************************************************************************)
(* backend/app/phase2/activation.py and the lifespan of backend/app/main.py*)
(* : server processes that Railway starts and stops, the supervisor of the *)
(* one approved session, and the shutdown that takes both gates away,      *)
(* first in the process and then at Railway.                               *)
(*                                                                         *)
(* Every await is a step.  A call fails unapplied, or takes effect and     *)
(* loses its answer; SIGTERM cancels the tasks at the await they are at;   *)
(* processes overlap, crash, and start with the variables of the moment    *)
(* their deployment was created.  The run of the coordinator is one step   *)
(* with every outcome it can have (module Coordinator).                    *)
(***************************************************************************)
EXTENDS Naturals

CONSTANTS
    Procs,      \* server processes
    Batches,    \* the sets of start-up jobs that deployments may configure
    MaxDeploys, \* bound: deployments ever created
    NoDeploy    \* nothing is waiting to be started

Gates == {"execution", "autonomous"}
Jobs == {"research", "intents", "sessions", "shutdown"}

ASSUME ActivationConstants ==
    /\ MaxDeploys \in Nat /\ Batches \subseteq SUBSET Jobs
    /\ NoDeploy \notin [gates: SUBSET Gates, jobs: SUBSET Jobs]

VARIABLES
    railway,    \* the gates whose Railway variable is "true"
    queued,     \* the variables of the deployment that is to be started
    deploys,    \* deployments created so far
    session,    \* status of the approved session
    window,     \* its expires_at has not passed
    proc,       \* the processes
    wrote       \* history: living processes whose false-only write took effect

activationVars == <<railway, queued, deploys, session, window, proc, wrote>>

Open == {"DRAFT", "ACTIVE"}

\* The awaits of ActivationSupervisor.run before and in its finally block.
BodyPcs == {"scope", "flags", "find", "activate", "run", "finish"}
FinallyPcs == {"inspect", "kill", "force", "audit"}
\* none: no execution deployment; unbuilt: it ended before it was under way.
SupervisorEnds == {"none", "unbuilt", "done", "cancelled"}
\* force_disabled: the scope, the write, the read-back.
ForcePcs == {"idle", "scope", "write", "read", "ok", "failed"}
\* verify_production_shutdown_control.
CheckPcs == {"off", "event", "scope", "before", "force", "after", "insert", "done", "failed"}

\* stopping: the cancellation is on its way, draining: it was delivered;
\* local: the gates in its settings; jobs: start-up jobs still running;
\* activated: it got the session ACTIVE; lost: calls of the finally block that failed.
Process == [state: {"unborn", "up", "stopping", "draining", "down"}, local: SUBSET Gates,
            pc: BodyPcs \cup FinallyPcs \cup SupervisorEnds, force: ForcePcs, check: CheckPcs,
            jobs: SUBSET Jobs, activated: BOOLEAN, lost: SUBSET {"session", "control plane"}]

Unborn == [state |-> "unborn", local |-> {}, pc |-> "none", force |-> "idle", check |-> "off",
           jobs |-> {}, activated |-> FALSE, lost |-> {}]
Dead == [Unborn EXCEPT !.state = "down"]

ActivationTypeOK ==
    /\ railway \subseteq Gates
    /\ queued = NoDeploy \/ queued \in [gates: SUBSET Gates, jobs: SUBSET Jobs]
    /\ deploys \in 0..MaxDeploys
    /\ session \in Open \cup {"EXPIRED", "KILLED", "COMPLETED"}
    /\ window \in BOOLEAN
    /\ proc \in [Procs -> Process]
    /\ wrote \subseteq Procs
    /\ \A p \in Procs : proc[p].pc # "none" => proc[p].jobs = {}

ActivationInit ==
    /\ railway = {} /\ queued = NoDeploy /\ deploys = 0
    /\ session = "DRAFT" /\ window = TRUE
    /\ proc = [p \in Procs |-> Unborn]
    /\ wrote = {}

At(p, pc) == proc[p].pc = pc
Alive(p) == proc[p].state \in {"up", "stopping", "draining"}
Set(p, row) == proc' = [proc EXCEPT ![p] = row]
GoTo(p, pc) == Set(p, [proc[p] EXCEPT !.pc = pc])
Others == UNCHANGED <<queued, deploys, window, wrote>>
Outside == UNCHANGED <<railway, session>> /\ Others

-----------------------------------------------------------------------------
(* Railway and the operator                                                *)

Deploy(gates, jobs) ==
    /\ queued = NoDeploy /\ deploys < MaxDeploys
    /\ queued' = [gates |-> gates, jobs |-> jobs]
    /\ deploys' = deploys + 1

Configure == \E gates \in {{}, {"execution"}, Gates}, jobs \in Batches :
    /\ Deploy(gates, jobs)
    /\ railway' = gates
    /\ UNCHANGED <<session, window, proc, wrote>>

\* Mutant: an execution deployment may have other jobs.
StartableAnyway(env) == env.gates \in {{}, Gates}
\* What the lifespan refuses to start with: gates that differ, and an execution
\* deployment with any research or synthetic job.
Startable(env) == env.gates = {} \/ (env.gates = Gates /\ env.jobs = {})

\* The activation builds its services before the supervisor's try block, with no await in
\* between: one that lacks its credentials raises, and the task is over with the gates on.
FirstPcs(gates) == IF gates = Gates THEN {"scope", "unbuilt"} ELSE {"none"}

Start(p) ==
    /\ proc[p].state = "unborn" /\ queued # NoDeploy
    /\ \E pc \in FirstPcs(queued.gates) :
          Set(p, IF Startable(queued)
                 THEN [Unborn EXCEPT !.state = "up", !.local = queued.gates, !.jobs = queued.jobs, !.pc = pc,
                                     !.check = IF "shutdown" \in queued.jobs THEN "event" ELSE "off"]
                 ELSE Dead)
    /\ queued' = NoDeploy
    /\ UNCHANGED <<railway, deploys, session, window, wrote>>

\* SIGTERM, which Railway sends to the process a deployment replaces.
Terminate(p) ==
    /\ proc[p].state = "up"
    /\ Set(p, [proc[p] EXCEPT !.state = "stopping"])
    /\ Outside

Dies(p) ==
    /\ Set(p, Dead)
    /\ wrote' = wrote \ {p}
    /\ UNCHANGED <<railway, queued, deploys, session, window>>

Crash(p) ==
    /\ Alive(p)
    /\ Dies(p)

Lapse == window /\ window' = FALSE /\
    UNCHANGED <<railway, queued, deploys, session, proc, wrote>>

-----------------------------------------------------------------------------
(* The supervisor                                                          *)

\* Every call of sessions.control expires the lapsed session first.
Looked == IF session \in Open /\ ~window THEN "EXPIRED" ELSE session

\* settings.execution_enabled = False, settings.autonomous_trading_enabled = False
\* Mutant: the gates are taken from a copy of the settings.
DisarmedCopy(row) == row
Disarmed(row) == [row EXCEPT !.local = {}]

\* Into the finally block, whose first statements take the local gates.
InFinally(row) == [Disarmed(row) EXCEPT !.pc = "inspect"]
Finally(p) == Set(p, InFinally(proc[p]))

CheckScope(p) ==
    /\ Alive(p) /\ At(p, "scope")
    /\ GoTo(p, "flags") \/ Finally(p)
    /\ Outside

CheckFlags(p) ==
    /\ Alive(p) /\ At(p, "flags")
    /\ (railway = Gates /\ GoTo(p, "find")) \/ Finally(p)
    /\ Outside

\* The session's immutable bounds match the configuration and the window is open.
Find(p) ==
    /\ Alive(p) /\ At(p, "find")
    /\ (window /\ GoTo(p, "activate")) \/ Finally(p)
    /\ Outside

Activate(p) ==
    /\ Alive(p) /\ At(p, "activate")
    /\ session' = IF Looked = "DRAFT" THEN "ACTIVE" ELSE Looked
    /\ \/ session' = "ACTIVE" /\ Set(p, [proc[p] EXCEPT !.pc = "run", !.activated = TRUE])
       \/ Finally(p)
    /\ UNCHANGED railway /\ Others

\* coordinator.run under wait_for: it returns, raises, or is cancelled by the timeout,
\* and has ended the session or not; only COMPLETED is finished once more.
RunEnds(p) ==
    /\ Alive(p) /\ At(p, "run")
    /\ session' \in {Looked} \cup (IF Looked = "ACTIVE" THEN {"KILLED", "COMPLETED"} ELSE {})
    /\ (session' = "COMPLETED" /\ GoTo(p, "finish")) \/ Finally(p)
    /\ UNCHANGED railway /\ Others

Finish(p) ==
    /\ Alive(p) /\ At(p, "finish")
    /\ Finally(p)
    /\ session' = Looked
    /\ UNCHANGED railway /\ Others

\* The control plane is tried whatever came of the session.
ToForce(p, lost) ==
    Set(p, [Disarmed(proc[p]) EXCEPT !.pc = "force", !.force = "scope",
                                     !.lost = IF lost THEN @ \cup {"session"} ELSE @])

\* Mutant: a session that is still open is left to its expiry.
LeavesOpen(status) == FALSE
MustKill(status) == status = "ACTIVE"

Inspect(p) ==
    /\ Alive(p) /\ At(p, "inspect")
    /\ \/ session' = Looked /\ IF MustKill(session') THEN GoTo(p, "kill") ELSE ToForce(p, FALSE)
       \/ session' \in {session, Looked} /\ ToForce(p, TRUE)
    /\ UNCHANGED railway /\ Others

Kill(p) ==
    /\ Alive(p) /\ At(p, "kill")
    /\ LET killed == IF Looked \in Open THEN "KILLED" ELSE Looked IN
       \/ session' = killed /\ ToForce(p, FALSE)
       \/ session' \in {session, killed} /\ ToForce(p, TRUE)
    /\ UNCHANGED railway /\ Others

\* The shielded task has ended: what it verified is recorded in the report.
Forced(p) ==
    /\ Alive(p) /\ At(p, "force") /\ proc[p].force \in {"ok", "failed"}
    /\ Set(p, [proc[p] EXCEPT !.pc = "audit",
                              !.lost = IF proc[p].force = "ok" THEN @ ELSE @ \cup {"control plane"}])
    /\ Outside

\* The phase2_execution_shutdown event says what the report says, if it can be inserted.
Audit(p) ==
    /\ Alive(p) /\ At(p, "audit")
    /\ GoTo(p, "done")
    /\ Outside

\* lifespan cancels the activation, once.  The coordinator may kill the session on its
\* way out.  No except clause of the finally block catches the cancellation there; the
\* shielded task goes on, but its HTTP client closes with the supervisor's exit stack.
Cancelled(p) ==
    /\ proc[p].state = "stopping"
    /\ LET row == [proc[p] EXCEPT !.state = "draining"] IN
       Set(p, IF proc[p].pc \in BodyPcs THEN InFinally(row)
              ELSE IF proc[p].pc \in FinallyPcs THEN [row EXCEPT !.pc = "cancelled"] ELSE row)
    /\ session' \in {session} \cup (IF At(p, "run") /\ Looked = "ACTIVE" THEN {"KILLED"} ELSE {})
    /\ UNCHANGED railway /\ Others

-----------------------------------------------------------------------------
(* RailwayShutdownController.force_disabled, for the supervisor and for the proof of *)
(* verify_production_shutdown_control, which skips the deployment.                   *)

ForceStep(p, now, next) ==
    /\ Alive(p) /\ proc[p].force = now
    /\ \E then \in {"failed"} \cup (IF At(p, "cancelled") THEN {} ELSE {next}) :
          Set(p, [proc[p] EXCEPT !.force = then])

ForceScope(p) == ForceStep(p, "scope", "write") /\ Outside

\* The upsert sets both variables to false, and makes Railway deploy them.
ForceWrite(p) ==
    /\ Alive(p) /\ proc[p].force = "write"
    /\ \/ /\ railway' = {} /\ wrote' = wrote \cup {p}
          /\ ForceStep(p, "write", "read")
          /\ \/ proc[p].check = "off" /\ Deploy({}, {})
             \/ UNCHANGED <<queued, deploys>>
       \/ /\ ForceStep(p, "write", "failed")
          /\ UNCHANGED <<railway, wrote, queued, deploys>>
    /\ UNCHANGED <<session, window>>

ForceRead(p) == ForceStep(p, "read", IF railway = {} THEN "ok" ELSE "failed") /\ Outside

\* The proof: no event yet, the scope, both gates already down, the write without a
\* deployment, the read-back, the event; any failure ends it.
Check(p, now, next) ==
    /\ Alive(p) /\ proc[p].check = now
    /\ \E then \in {next, "failed"} :
          Set(p, [proc[p] EXCEPT !.check = then, !.force = IF then = "force" THEN "scope" ELSE @])
    /\ Outside

Verify(p) ==
    \/ Check(p, "event", "scope") \/ Check(p, "event", "done") \/ Check(p, "scope", "before")
    \/ Check(p, "before", IF railway = {} THEN "force" ELSE "failed")
    \/ proc[p].force \in {"ok", "failed"} /\
          Check(p, "force", IF proc[p].force = "ok" THEN "after" ELSE "failed")
    \/ Check(p, "after", IF railway = {} THEN "insert" ELSE "failed")
    \/ Check(p, "insert", "done")

-----------------------------------------------------------------------------
\* The other jobs end by themselves, or are cancelled once the activation has ended.
JobEnds(p, j) ==
    /\ Alive(p) /\ j \in proc[p].jobs
    /\ j = "shutdown" => proc[p].check \in {"done", "failed"} \/ proc[p].state = "draining"
    /\ proc[p].state = "draining" => proc[p].pc \in SupervisorEnds
    /\ Set(p, [proc[p] EXCEPT !.jobs = @ \ {j},
                              !.check = IF j = "shutdown" /\ @ # "done" THEN "failed" ELSE @])
    /\ Outside

Stop(p) ==
    /\ proc[p].state = "draining"
    /\ proc[p].pc \in SupervisorEnds /\ proc[p].jobs = {}
    /\ Dies(p)

Work(p) ==
    \/ CheckScope(p) \/ CheckFlags(p) \/ Find(p) \/ Activate(p) \/ RunEnds(p) \/ Finish(p)
    \/ Inspect(p) \/ Kill(p) \/ Forced(p) \/ Audit(p) \/ Cancelled(p)
    \/ ForceScope(p) \/ ForceWrite(p) \/ ForceRead(p) \/ Verify(p) \/ Stop(p)
    \/ \E j \in Jobs : JobEnds(p, j)

ActivationNext ==
    \/ Configure \/ Lapse
    \/ \E p \in Procs : Start(p) \/ Terminate(p) \/ Crash(p) \/ Work(p)

\* The event loop of a living process runs, every HTTP call ends by its timeout, and
\* wait_for ends the coordinator.  Nothing is assumed of Railway or of the operator.
ActivationSpec == ActivationInit /\ [][ActivationNext]_activationVars
                  /\ \A p \in Procs : WF_activationVars(Work(p))

-----------------------------------------------------------------------------
\* "Local authority disappears before the control-plane request is attempted"
\* (activation.py:73): no process still has a gate of its own when its write reaches
\* Railway, or ever after; and none with a gate runs another start-up job.
LocalFirst == \A p \in Procs :
    /\ p \in wrote => proc[p].local = {}
    /\ proc[p].local # {} => proc[p].jobs = {} /\ proc[p].check = "off"

\* The parts of the finally block fail separately: a supervisor that got to its end has
\* ended the session it had activated unless that call failed, and has had the gates
\* taken at Railway unless that failed; and it claims no write that did not happen.
ShutdownReport == \A p \in Procs :
    /\ At(p, "done") /\ proc[p].activated /\ "session" \notin proc[p].lost => session \notin Open
    /\ At(p, "done") /\ "control plane" \notin proc[p].lost => p \in wrote
    /\ At(p, "done") /\ proc[p].force = "ok" => p \in wrote

\* No supervisor keeps its authority, and no process goes on once it was told to stop:
\* whatever hangs, fails, lapses or is cancelled, again and again all gates are down in all
\* processes but those whose activation could not be built (activation.py:219-227): these
\* never reach the supervisor, and keep both local gates for as long as they live.
AuthorityEnds == []<>(\A p \in Procs :
    /\ proc[p].local # {} => At(p, "unbuilt")
    /\ proc[p].state \notin {"stopping", "draining"})

\* "process cancellation all enter this finally path" that updates the variables
\* (docs/PHASE-2.7-FINAL-READINESS.md:26): a supervisor that has ended in a living
\* process has tried to take the gates at Railway.
ShutdownTried == \A p \in Procs :
    proc[p].pc \in {"done", "cancelled"} => proc[p].force # "idle"
=============================================================================

--------------------------- MODULE Activation_proofs ---------------------------
(***************************************************************************)
(* The shutdown of the execution runtime for any number of processes,      *)
(* deployments and jobs: local authority goes first, and a supervisor that *)
(* reports a clean end has one.                                            *)
(***************************************************************************)
EXTENDS Activation, TLAPS

SessionStatus == Open \cup {"EXPIRED", "KILLED", "COMPLETED"}

\* What holds of each process; written: its write to Railway took effect.
ProcOK(q, written, status) ==
    /\ written => q.state \in {"up", "stopping", "draining"} /\ q.local = {}
    /\ q.pc # "none" \/ q.local # {} => q.check = "off" /\ q.jobs = {}
    /\ q.force # "idle" => q.local = {}
    /\ q.force \in {"read", "ok"} => written
    /\ q.pc \in {"audit", "done"} =>
          q.force \in {"ok", "failed"} /\ ("control plane" \notin q.lost => q.force = "ok")
    /\ q.activated => status # "DRAFT"
    /\ q.pc \in {"force", "audit", "done"} /\ q.activated /\ "session" \notin q.lost =>
          status \notin Open

ActivationInv ==
    /\ ActivationTypeOK
    /\ \A p \in Procs : ProcOK(proc[p], p \in wrote, session)

\* The session never goes back: not to DRAFT, and not from closed to open.
Forward(status, later) ==
    /\ later \in SessionStatus
    /\ status # "DRAFT" => later # "DRAFT"
    /\ status \notin Open => later \notin Open

-----------------------------------------------------------------------------
LEMMA ProcLasts ==
    ASSUME NEW q, NEW written, NEW status, NEW later, ProcOK(q, written, status),
           Forward(status, later)
    PROVE  ProcOK(q, written, later)
BY DEF ProcOK, Forward

LEMMA UnbornOK ==
    /\ Unborn \in Process /\ Dead \in Process
    /\ \A s : ProcOK(Unborn, FALSE, s) /\ ProcOK(Dead, FALSE, s)
<1>1. Unborn \in Process /\ Dead \in Process
  BY DEF Unborn, Dead, Process, BodyPcs, FinallyPcs, SupervisorEnds, ForcePcs, CheckPcs
<1>. QED BY <1>1 DEF ProcOK, Unborn, Dead

LEMMA ActivationInitInv == ActivationInit => ActivationInv
<1>. SUFFICES ASSUME ActivationInit PROVE ActivationInv
  OBVIOUS
<1>1. proc \in [Procs -> Process] /\ \A p \in Procs : proc[p] = Unborn
  BY UnbornOK DEF ActivationInit
<1>2. 0 \in 0..MaxDeploys
  BY ActivationConstants
<1>3. ActivationTypeOK
  BY <1>1, <1>2 DEF ActivationInit, ActivationTypeOK, Open, Unborn
<1>4. ASSUME NEW p \in Procs PROVE ProcOK(proc[p], p \in wrote, session)
  <2>1. (p \in wrote) = FALSE
    BY DEF ActivationInit
  <2>. QED BY <1>1, <2>1, UnbornOK
<1>. QED BY <1>3, <1>4 DEF ActivationInv

\* A step of one process.
LEMMA ProcStep ==
    ASSUME ActivationInv, NEW p \in Procs, NEW q \in Process, Set(p, q),
           wrote' \subseteq Procs, wrote' \ {p} = wrote \ {p},
           ProcOK(q, p \in wrote', session'), Forward(session, session'),
           railway' \subseteq Gates, window' \in BOOLEAN, deploys' \in 0..MaxDeploys,
           queued' = NoDeploy \/ queued' \in [gates: SUBSET Gates, jobs: SUBSET Jobs]
    PROVE  ActivationInv'
<1>1. proc \in [Procs -> Process]
  BY DEF ActivationInv, ActivationTypeOK
<1>2. proc' = [proc EXCEPT ![p] = q]
  BY DEF Set
<1>3. proc' \in [Procs -> Process] /\ \A r \in Procs : proc'[r] = IF r = p THEN q ELSE proc[r]
  BY <1>1, <1>2
<1>4. session' \in Open \cup {"EXPIRED", "KILLED", "COMPLETED"}
  BY DEF Forward, SessionStatus
<1>5. ASSUME NEW r \in Procs PROVE ProcOK(proc'[r], r \in wrote', session')
  <2>1. CASE r = p
    BY <1>3, <2>1
  <2>2. CASE r # p
    <3>1. (r \in wrote') = (r \in wrote)
      BY <2>2
    <3>2. ProcOK(proc[r], r \in wrote, session')
      BY ProcLasts DEF ActivationInv
    <3>. QED BY <1>3, <2>2, <3>1, <3>2
  <2>. QED BY <2>1, <2>2
<1>6. \A r \in Procs : proc'[r].pc # "none" => proc'[r].jobs = {}
  BY <1>5 DEF ProcOK
<1>7. ActivationTypeOK'
  BY <1>3, <1>4, <1>6 DEF ActivationTypeOK
<1>. QED BY <1>5, <1>7 DEF ActivationInv

\* Most steps leave everything around the process but the session as it is.
LEMMA CalmStep ==
    ASSUME ActivationInv, NEW p \in Procs, NEW q \in Process, Set(p, q),
           ProcOK(q, p \in wrote, session'), Forward(session, session'),
           UNCHANGED railway, Others
    PROVE  ActivationInv'
BY ProcStep DEF Others, ActivationInv, ActivationTypeOK

LEMMA SessionForward ==
    ASSUME ActivationInv
    PROVE  /\ Forward(session, session) /\ Forward(session, Looked)
           /\ session \in SessionStatus /\ Looked \in SessionStatus
BY DEF ActivationInv, ActivationTypeOK, SessionStatus, Forward, Looked, Open

LEMMA RowFacts ==
    ASSUME ActivationInv, NEW p \in Procs
    PROVE  proc[p] \in Process /\ ProcOK(proc[p], p \in wrote, session)
BY DEF ActivationInv, ActivationTypeOK

-----------------------------------------------------------------------------
(* The supervisor.                                                         *)

Early == BodyPcs \cup {"inspect", "kill"}

LEMMA GoesTo ==
    ASSUME ActivationInv, NEW p \in Procs, NEW pc \in Early, GoTo(p, pc), proc[p].pc # "none",
           Forward(session, session'), UNCHANGED railway, Others
    PROVE  ActivationInv'
<1>. DEFINE q == [proc[p] EXCEPT !.pc = pc]
<1>1. proc[p] \in Process /\ ProcOK(proc[p], p \in wrote, session)
  BY RowFacts
<1>2. /\ q \in Process /\ q.pc = pc /\ q.state = proc[p].state /\ q.local = proc[p].local
      /\ q.check = proc[p].check /\ q.jobs = proc[p].jobs /\ q.force = proc[p].force
      /\ q.activated = proc[p].activated /\ q.lost = proc[p].lost
  BY <1>1 DEF Process, Early, FinallyPcs
<1>3. Set(p, q)
  BY DEF GoTo
<1>. HIDE DEF q
<1>4. ProcOK(q, p \in wrote, session')
  BY <1>1, <1>2 DEF ProcOK, Forward, Early, BodyPcs
<1>. QED BY <1>2, <1>3, <1>4, CalmStep

LEMMA FinallyOK ==
    ASSUME ActivationInv, NEW p \in Procs, Finally(p), proc[p].pc # "none",
           Forward(session, session'), UNCHANGED railway, Others
    PROVE  ActivationInv'
<1>. DEFINE q == InFinally(proc[p])
<1>1. proc[p] \in Process /\ ProcOK(proc[p], p \in wrote, session)
  BY RowFacts
<1>2. /\ q \in Process /\ q.pc = "inspect" /\ q.state = proc[p].state /\ q.local = {}
      /\ q.check = proc[p].check /\ q.jobs = proc[p].jobs /\ q.force = proc[p].force
      /\ q.activated = proc[p].activated /\ q.lost = proc[p].lost
  BY <1>1 DEF InFinally, Disarmed, Process, FinallyPcs
<1>3. Set(p, q)
  BY DEF Finally
<1>. HIDE DEF q
<1>4. ProcOK(q, p \in wrote, session')
  BY <1>1, <1>2 DEF ProcOK, Forward
<1>. QED BY <1>2, <1>3, <1>4, CalmStep

LEMMA BodyInv ==
    ASSUME ActivationInv, NEW p \in Procs, CheckScope(p) \/ CheckFlags(p) \/ Find(p)
    PROVE  ActivationInv'
<1>1. /\ proc[p].pc # "none" /\ session' = session /\ UNCHANGED railway /\ Others
      /\ \/ Finally(p) \/ \E pc \in Early : GoTo(p, pc)
  BY DEF CheckScope, CheckFlags, Find, At, Outside, Early, BodyPcs
<1>2. Forward(session, session')
  BY <1>1, SessionForward
<1>. QED BY <1>1, <1>2, GoesTo, FinallyOK

LEMMA ActivateInv ==
    ASSUME ActivationInv, NEW p \in Procs, Activate(p)
    PROVE  ActivationInv'
<1>1. /\ proc[p].pc = "activate" /\ UNCHANGED railway /\ Others
      /\ session' = IF Looked = "DRAFT" THEN "ACTIVE" ELSE Looked
  BY DEF Activate, At
<1>2. Forward(session, session')
  BY <1>1, SessionForward DEF Forward, SessionStatus, Open, Looked
<1>3. CASE Finally(p)
  BY <1>1, <1>2, <1>3, FinallyOK
<1>4. CASE session' = "ACTIVE" /\ Set(p, [proc[p] EXCEPT !.pc = "run", !.activated = TRUE])
  <2>. DEFINE q == [proc[p] EXCEPT !.pc = "run", !.activated = TRUE]
  <2>1. proc[p] \in Process /\ ProcOK(proc[p], p \in wrote, session)
    BY RowFacts
  <2>2. /\ q \in Process /\ q.pc = "run" /\ q.state = proc[p].state /\ q.local = proc[p].local
        /\ q.check = proc[p].check /\ q.jobs = proc[p].jobs /\ q.force = proc[p].force
    BY <2>1 DEF Process, BodyPcs
  <2>3. Set(p, q)
    BY <1>4
  <2>. HIDE DEF q
  <2>4. ProcOK(q, p \in wrote, session')
    BY <1>1, <1>4, <2>1, <2>2 DEF ProcOK
  <2>. QED BY <1>1, <1>2, <2>2, <2>3, <2>4, CalmStep
<1>. QED BY <1>3, <1>4 DEF Activate

LEMMA RunInv ==
    ASSUME ActivationInv, NEW p \in Procs, RunEnds(p) \/ Finish(p)
    PROVE  ActivationInv'
<1>1. proc[p].pc # "none" /\ UNCHANGED railway /\ Others
  BY DEF RunEnds, Finish, At
<1>2. Forward(session, session')
  BY SessionForward DEF RunEnds, Finish, Forward, SessionStatus, Open
<1>3. Finally(p) \/ GoTo(p, "finish")
  BY DEF RunEnds, Finish
<1>. QED BY <1>1, <1>2, <1>3, GoesTo, FinallyOK DEF Early, BodyPcs

\* Towards the control plane, with the session closed or its loss noted.
LEMMA ToForceOK ==
    ASSUME ActivationInv, NEW p \in Procs, NEW lost \in BOOLEAN, ToForce(p, lost),
           proc[p].pc # "none", Forward(session, session'), UNCHANGED railway, Others,
           ~lost /\ proc[p].activated => session' \notin Open
    PROVE  ActivationInv'
<1>. DEFINE q == [Disarmed(proc[p]) EXCEPT !.pc = "force", !.force = "scope",
                     !.lost = IF lost THEN proc[p].lost \cup {"session"} ELSE proc[p].lost]
<1>1. proc[p] \in Process /\ ProcOK(proc[p], p \in wrote, session)
  BY RowFacts
<1>2. /\ q \in Process /\ q.pc = "force" /\ q.state = proc[p].state /\ q.local = {}
      /\ q.check = proc[p].check /\ q.jobs = proc[p].jobs /\ q.force = "scope"
      /\ q.activated = proc[p].activated
      /\ q.lost = IF lost THEN proc[p].lost \cup {"session"} ELSE proc[p].lost
  BY <1>1 DEF Disarmed, Process, FinallyPcs, ForcePcs
<1>3. Set(p, q)
  BY <1>1 DEF ToForce, Disarmed, Process
<1>. HIDE DEF q
<1>4. ProcOK(q, p \in wrote, session')
  BY <1>1, <1>2 DEF ProcOK, Forward
<1>. QED BY <1>2, <1>3, <1>4, CalmStep

LEMMA InspectInv ==
    ASSUME ActivationInv, NEW p \in Procs, Inspect(p)
    PROVE  ActivationInv'
<1>1. proc[p].pc = "inspect" /\ UNCHANGED railway /\ Others
  BY DEF Inspect, At
<1>2. Forward(session, session') /\ session' \in {session, Looked}
  BY SessionForward DEF Inspect
<1>3. CASE GoTo(p, "kill")
  BY <1>1, <1>2, <1>3, GoesTo DEF Early
<1>4. CASE ToForce(p, TRUE)
  BY <1>1, <1>2, <1>4, ToForceOK
<1>5. CASE session' = Looked /\ ~MustKill(session') /\ ToForce(p, FALSE)
  <2>1. proc[p].activated => session' # "DRAFT"
    BY <1>2, RowFacts DEF ProcOK, Forward
  <2>2. proc[p].activated => session' \notin Open
    BY <1>5, <2>1 DEF MustKill, Open
  <2>. QED BY <1>1, <1>2, <1>5, <2>2, ToForceOK
<1>. QED BY <1>3, <1>4, <1>5 DEF Inspect

LEMMA KillInv ==
    ASSUME ActivationInv, NEW p \in Procs, Kill(p)
    PROVE  ActivationInv'
<1>. DEFINE killed == IF Looked \in Open THEN "KILLED" ELSE Looked
<1>1. proc[p].pc = "kill" /\ UNCHANGED railway /\ Others
  BY DEF Kill, At
<1>2. killed \notin Open /\ Forward(session, killed)
  BY SessionForward DEF Open, Forward, SessionStatus
<1>3. CASE session' = killed /\ ToForce(p, FALSE)
  BY <1>1, <1>2, <1>3, ToForceOK
<1>4. CASE session' \in {session, killed} /\ ToForce(p, TRUE)
  BY <1>1, <1>2, <1>4, SessionForward, ToForceOK
<1>. QED BY <1>3, <1>4 DEF Kill

LEMMA ReportInv ==
    ASSUME ActivationInv, NEW p \in Procs, Forced(p) \/ Audit(p)
    PROVE  ActivationInv'
<1>1. UNCHANGED railway /\ session' = session /\ Others
  BY DEF Forced, Audit, Outside
<1>2. Forward(session, session')
  BY <1>1, SessionForward
<1>3. proc[p] \in Process /\ ProcOK(proc[p], p \in wrote, session)
  BY RowFacts
<1>4. CASE Forced(p)
  <2>. DEFINE lost == IF proc[p].force = "ok" THEN proc[p].lost ELSE proc[p].lost \cup {"control plane"}
              q == [proc[p] EXCEPT !.pc = "audit", !.lost = lost]
  <2>1. proc[p].pc = "force" /\ proc[p].force \in {"ok", "failed"} /\ Set(p, q)
    BY <1>4 DEF Forced, At
  <2>2. /\ q \in Process /\ q.pc = "audit" /\ q.state = proc[p].state /\ q.local = proc[p].local
        /\ q.check = proc[p].check /\ q.jobs = proc[p].jobs /\ q.force = proc[p].force
        /\ q.activated = proc[p].activated /\ q.lost = lost
    BY <1>3 DEF Process, FinallyPcs
  <2>. HIDE DEF q
  <2>3. ProcOK(q, p \in wrote, session')
    BY <1>1, <1>3, <2>1, <2>2 DEF ProcOK
  <2>. QED BY <1>1, <1>2, <2>1, <2>2, <2>3, CalmStep
<1>5. CASE Audit(p)
  <2>. DEFINE q == [proc[p] EXCEPT !.pc = "done"]
  <2>1. proc[p].pc = "audit" /\ Set(p, q)
    BY <1>5 DEF Audit, At, GoTo
  <2>2. /\ q \in Process /\ q.pc = "done" /\ q.state = proc[p].state /\ q.local = proc[p].local
        /\ q.check = proc[p].check /\ q.jobs = proc[p].jobs /\ q.force = proc[p].force
        /\ q.activated = proc[p].activated /\ q.lost = proc[p].lost
    BY <1>3 DEF Process, SupervisorEnds
  <2>. HIDE DEF q
  <2>3. ProcOK(q, p \in wrote, session')
    BY <1>1, <1>3, <2>1, <2>2 DEF ProcOK
  <2>. QED BY <1>1, <1>2, <2>1, <2>2, <2>3, CalmStep
<1>. QED BY <1>4, <1>5

LEMMA CancelledInv ==
    ASSUME ActivationInv, NEW p \in Procs, Cancelled(p)
    PROVE  ActivationInv'
<1>1. UNCHANGED railway /\ Others /\ proc[p].state = "stopping"
  BY DEF Cancelled
<1>2. Forward(session, session')
  BY SessionForward DEF Cancelled, Forward, SessionStatus, Open
<1>3. proc[p] \in Process /\ ProcOK(proc[p], p \in wrote, session)
  BY RowFacts
<1>. DEFINE row == [proc[p] EXCEPT !.state = "draining"]
<1>4. /\ row \in Process /\ row.state = "draining" /\ row.pc = proc[p].pc
      /\ row.local = proc[p].local /\ row.check = proc[p].check /\ row.jobs = proc[p].jobs
      /\ row.force = proc[p].force /\ row.activated = proc[p].activated /\ row.lost = proc[p].lost
  BY <1>3 DEF Process
<1>5. Set(p, IF proc[p].pc \in BodyPcs THEN InFinally(row)
             ELSE IF proc[p].pc \in FinallyPcs THEN [row EXCEPT !.pc = "cancelled"] ELSE row)
  BY DEF Cancelled
<1>. HIDE DEF row
<1>6. CASE proc[p].pc \in BodyPcs
  <2>. DEFINE q == InFinally(row)
  <2>1. /\ q \in Process /\ q.pc = "inspect" /\ q.state = "draining" /\ q.local = {}
        /\ q.check = row.check /\ q.jobs = row.jobs /\ q.force = row.force
        /\ q.activated = row.activated /\ q.lost = row.lost
    BY <1>4 DEF InFinally, Disarmed, Process, FinallyPcs
  <2>. HIDE DEF q
  <2>2. proc[p].pc # "none"
    BY <1>6 DEF BodyPcs
  <2>3. ProcOK(q, p \in wrote, session')
    BY <1>2, <1>3, <1>4, <2>1, <2>2 DEF ProcOK, Forward
  <2>. QED BY <1>1, <1>2, <1>5, <1>6, <2>1, <2>3, CalmStep DEF q
<1>7. CASE proc[p].pc \in FinallyPcs \ BodyPcs
  <2>. DEFINE q == [row EXCEPT !.pc = "cancelled"]
  <2>1. /\ q \in Process /\ q.pc = "cancelled" /\ q.state = "draining" /\ q.local = row.local
        /\ q.check = row.check /\ q.jobs = row.jobs /\ q.force = row.force
        /\ q.activated = row.activated /\ q.lost = row.lost
    BY <1>4 DEF Process, SupervisorEnds
  <2>. HIDE DEF q
  <2>2. proc[p].pc # "none"
    BY <1>7 DEF FinallyPcs
  <2>3. ProcOK(q, p \in wrote, session')
    BY <1>2, <1>3, <1>4, <2>1, <2>2 DEF ProcOK, Forward
  <2>. QED BY <1>1, <1>2, <1>5, <1>7, <2>1, <2>3, CalmStep DEF q
<1>8. CASE proc[p].pc \notin BodyPcs \cup FinallyPcs
  <2>1. ProcOK(row, p \in wrote, session')
    BY <1>2, <1>3, <1>4 DEF ProcOK, Forward
  <2>. QED BY <1>1, <1>2, <1>4, <1>5, <1>8, <2>1, CalmStep
<1>. QED BY <1>6, <1>7, <1>8

-----------------------------------------------------------------------------
(* The control plane, the shutdown proof and the other jobs.               *)

\* A step of force_disabled; only one that wrote may read back.
LEMMA ForceStepOK ==
    ASSUME ActivationInv, NEW p \in Procs, NEW now \in {"scope", "write", "read"},
           NEW next \in {"write", "read", "ok", "failed"}, ForceStep(p, now, next),
           next \in {"read", "ok"} => p \in wrote',
           wrote' = wrote \/ wrote' = wrote \cup {p},
           session' = session, window' = window, railway' \subseteq Gates,
           deploys' \in 0..MaxDeploys,
           queued' = NoDeploy \/ queued' \in [gates: SUBSET Gates, jobs: SUBSET Jobs]
    PROVE  ActivationInv'
<1>1. proc[p] \in Process /\ ProcOK(proc[p], p \in wrote, session)
  BY RowFacts
<1>2. PICK then \in {"failed", next} : Set(p, [proc[p] EXCEPT !.force = then])
  BY DEF ForceStep
<1>. DEFINE q == [proc[p] EXCEPT !.force = then]
<1>3. Alive(p) /\ proc[p].force = now
  BY DEF ForceStep
<1>4. /\ q \in Process /\ q.force = then /\ q.pc = proc[p].pc /\ q.state = proc[p].state
      /\ q.local = proc[p].local /\ q.check = proc[p].check /\ q.jobs = proc[p].jobs
      /\ q.activated = proc[p].activated /\ q.lost = proc[p].lost
  BY <1>1 DEF Process, ForcePcs
<1>5. Set(p, q)
  BY <1>2
<1>. HIDE DEF q
<1>6. p \in wrote => p \in wrote'
  OBVIOUS
<1>7. ProcOK(q, p \in wrote', session')
  BY <1>1, <1>3, <1>4, <1>6 DEF ProcOK, Alive
<1>8. wrote' \subseteq Procs /\ wrote' \ {p} = wrote \ {p} /\ window' \in BOOLEAN
  BY DEF ActivationInv, ActivationTypeOK
<1>9. Forward(session, session')
  BY SessionForward
<1>. QED BY <1>4, <1>5, <1>7, <1>8, <1>9, ProcStep

LEMMA ForceInv ==
    ASSUME ActivationInv, NEW p \in Procs, ForceScope(p) \/ ForceWrite(p) \/ ForceRead(p)
    PROVE  ActivationInv'
<1>1. /\ railway \subseteq Gates /\ deploys \in 0..MaxDeploys
      /\ queued = NoDeploy \/ queued \in [gates: SUBSET Gates, jobs: SUBSET Jobs]
      /\ ProcOK(proc[p], p \in wrote, session)
  BY RowFacts DEF ActivationInv, ActivationTypeOK
<1>2. CASE ForceScope(p)
  BY <1>1, <1>2, ForceStepOK DEF ForceScope, Outside, Others
<1>3. CASE ForceRead(p)
  <2>1. p \in wrote
    BY <1>1, <1>3 DEF ForceRead, ForceStep, ProcOK
  <2>. QED BY <1>1, <1>3, <2>1, ForceStepOK DEF ForceRead, Outside, Others
<1>4. CASE /\ railway' = {} /\ wrote' = wrote \cup {p} /\ ForceStep(p, "write", "read")
           /\ Deploy({}, {}) \/ UNCHANGED <<queued, deploys>>
           /\ UNCHANGED <<session, window>>
  <2>1. deploys' \in 0..MaxDeploys
    BY <1>1, <1>4, ActivationConstants DEF Deploy
  <2>2. queued' = NoDeploy \/ queued' \in [gates: SUBSET Gates, jobs: SUBSET Jobs]
    BY <1>1, <1>4 DEF Deploy
  <2>. QED BY <1>4, <2>1, <2>2, ForceStepOK
<1>5. CASE /\ ForceStep(p, "write", "failed")
           /\ UNCHANGED <<railway, wrote, queued, deploys>> /\ UNCHANGED <<session, window>>
  BY <1>1, <1>5, ForceStepOK
<1>. QED BY <1>2, <1>3, <1>4, <1>5 DEF ForceWrite

LEMMA CheckOK ==
    ASSUME ActivationInv, NEW p \in Procs, NEW now \in CheckPcs \ {"off"}, NEW next \in CheckPcs,
           Check(p, now, next)
    PROVE  ActivationInv'
<1>1. proc[p] \in Process /\ ProcOK(proc[p], p \in wrote, session)
  BY RowFacts
<1>2. PICK then \in CheckPcs :
         Set(p, [proc[p] EXCEPT !.check = then,
                                !.force = IF then = "force" THEN "scope" ELSE proc[p].force])
  BY <1>1 DEF Check, CheckPcs, Process
<1>. DEFINE force == IF then = "force" THEN "scope" ELSE proc[p].force
            q == [proc[p] EXCEPT !.check = then, !.force = force]
<1>3. proc[p].check = now /\ UNCHANGED railway /\ session' = session /\ Others
  BY DEF Check, Outside
<1>4. /\ q \in Process /\ q.check = then /\ q.force = force /\ q.pc = proc[p].pc
      /\ q.state = proc[p].state /\ q.local = proc[p].local /\ q.jobs = proc[p].jobs
      /\ q.activated = proc[p].activated /\ q.lost = proc[p].lost
  BY <1>1 DEF Process, ForcePcs
<1>5. Set(p, q)
  BY <1>2
<1>. HIDE DEF q
<1>6. ProcOK(q, p \in wrote, session')
  BY <1>1, <1>3, <1>4 DEF ProcOK
<1>. QED BY <1>3, <1>4, <1>5, <1>6, SessionForward, CalmStep

LEMMA VerifyInv == ASSUME ActivationInv, NEW p \in Procs, Verify(p) PROVE ActivationInv'
<1>1. PICK now \in CheckPcs \ {"off"}, next \in CheckPcs : Check(p, now, next)
  <2>1. CASE Check(p, "event", "scope") \/ Check(p, "event", "done") \/ Check(p, "scope", "before")
    BY <2>1 DEF CheckPcs
  <2>2. CASE Check(p, "before", IF railway = {} THEN "force" ELSE "failed")
    BY <2>2 DEF CheckPcs
  <2>3. CASE Check(p, "force", IF proc[p].force = "ok" THEN "after" ELSE "failed")
    BY <2>3 DEF CheckPcs
  <2>4. CASE Check(p, "after", IF railway = {} THEN "insert" ELSE "failed")
    BY <2>4 DEF CheckPcs
  <2>5. CASE Check(p, "insert", "done")
    BY <2>5 DEF CheckPcs
  <2>. QED BY <2>1, <2>2, <2>3, <2>4, <2>5 DEF Verify
<1>. QED BY <1>1, CheckOK

LEMMA JobInv == ASSUME ActivationInv, NEW p \in Procs, NEW j \in Jobs, JobEnds(p, j)
                PROVE  ActivationInv'
<1>1. proc[p] \in Process /\ ProcOK(proc[p], p \in wrote, session)
  BY RowFacts
<1>. DEFINE check == IF j = "shutdown" /\ proc[p].check # "done" THEN "failed" ELSE proc[p].check
            q == [proc[p] EXCEPT !.jobs = proc[p].jobs \ {j}, !.check = check]
<1>2. j \in proc[p].jobs /\ UNCHANGED railway /\ session' = session /\ Others
  BY DEF JobEnds, Outside
<1>3. Set(p, q)
  BY DEF JobEnds
<1>4. /\ q \in Process /\ q.check = check /\ q.jobs \subseteq proc[p].jobs /\ q.pc = proc[p].pc
      /\ q.state = proc[p].state /\ q.local = proc[p].local /\ q.force = proc[p].force
      /\ q.activated = proc[p].activated /\ q.lost = proc[p].lost
  BY <1>1 DEF Process, CheckPcs
<1>. HIDE DEF q
<1>5. ProcOK(q, p \in wrote, session')
  BY <1>1, <1>2, <1>4 DEF ProcOK
<1>. QED BY <1>2, <1>3, <1>4, <1>5, SessionForward, CalmStep

-----------------------------------------------------------------------------
(* Processes start and stop.                                               *)

LEMMA DiesInv == ASSUME ActivationInv, NEW p \in Procs, Dies(p) PROVE ActivationInv'
<1>1. /\ Set(p, Dead) /\ wrote' = wrote \ {p}
      /\ UNCHANGED <<railway, queued, deploys, session, window>>
  BY DEF Dies
<1>2. (p \in wrote') = FALSE
  BY <1>1
<1>3. ProcOK(Dead, p \in wrote', session')
  BY <1>2, UnbornOK
<1>. QED BY <1>1, <1>3, UnbornOK, SessionForward, ProcStep DEF ActivationInv, ActivationTypeOK

LEMMA StartInv == ASSUME ActivationInv, NEW p \in Procs, Start(p) PROVE ActivationInv'
<1>0. PICK pc \in FirstPcs(queued.gates) :
         Set(p, IF Startable(queued)
                THEN [Unborn EXCEPT !.state = "up", !.local = queued.gates, !.jobs = queued.jobs, !.pc = pc,
                                    !.check = IF "shutdown" \in queued.jobs THEN "event" ELSE "off"]
                ELSE Dead)
  BY DEF Start
<1>. DEFINE up == [Unborn EXCEPT !.state = "up", !.local = queued.gates, !.jobs = queued.jobs, !.pc = pc,
                        !.check = IF "shutdown" \in queued.jobs THEN "event" ELSE "off"]
            q == IF Startable(queued) THEN up ELSE Dead
<1>1. /\ proc[p].state = "unborn" /\ Set(p, q) /\ queued' = NoDeploy
      /\ queued \in [gates: SUBSET Gates, jobs: SUBSET Jobs]
      /\ UNCHANGED <<railway, deploys, session, window, wrote>>
  BY <1>0 DEF Start, ActivationInv, ActivationTypeOK
<1>2. p \notin wrote
  BY <1>1, RowFacts DEF ProcOK
<1>3. /\ up \in Process /\ up.pc = pc /\ (pc = "none" \/ queued.gates = Gates)
      /\ pc \in {"none", "scope", "unbuilt"}
      /\ up.check = (IF "shutdown" \in queued.jobs THEN "event" ELSE "off")
      /\ up.local = queued.gates /\ up.jobs = queued.jobs /\ up.force = "idle"
      /\ up.activated = FALSE
  BY <1>1 DEF FirstPcs, Unborn, Process, BodyPcs, SupervisorEnds, ForcePcs, CheckPcs
<1>. HIDE DEF up
<1>4. CASE Startable(queued)
  <2>1. Gates # {}
    BY DEF Gates
  <2>2. ProcOK(up, FALSE, session')
    BY <1>3, <1>4, <2>1 DEF ProcOK, Startable
  <2>3. (p \in wrote') = FALSE
    BY <1>1, <1>2
  <2>4. ProcOK(up, p \in wrote', session')
    BY <2>2, <2>3
  <2>. QED BY <1>1, <1>3, <1>4, <2>4, SessionForward, ProcStep
              DEF ActivationInv, ActivationTypeOK
<1>5. CASE ~Startable(queued)
  <2>1. ProcOK(Dead, p \in wrote', session')
    <3>1. (p \in wrote') = FALSE
      BY <1>1, <1>2
    <3>. QED BY <3>1, UnbornOK
  <2>. QED BY <1>1, <1>5, <2>1, UnbornOK, SessionForward, ProcStep
              DEF ActivationInv, ActivationTypeOK
<1>. QED BY <1>4, <1>5

LEMMA TerminateInv == ASSUME ActivationInv, NEW p \in Procs, Terminate(p) PROVE ActivationInv'
<1>1. proc[p] \in Process /\ ProcOK(proc[p], p \in wrote, session)
  BY RowFacts
<1>. DEFINE q == [proc[p] EXCEPT !.state = "stopping"]
<1>2. UNCHANGED railway /\ session' = session /\ Others /\ Set(p, q)
  BY DEF Terminate, Outside
<1>3. /\ q \in Process /\ q.state = "stopping" /\ q.pc = proc[p].pc /\ q.local = proc[p].local
      /\ q.check = proc[p].check /\ q.jobs = proc[p].jobs /\ q.force = proc[p].force
      /\ q.activated = proc[p].activated /\ q.lost = proc[p].lost
  BY <1>1 DEF Process
<1>. HIDE DEF q
<1>4. ProcOK(q, p \in wrote, session')
  BY <1>1, <1>2, <1>3 DEF ProcOK
<1>. QED BY <1>2, <1>3, <1>4, SessionForward, CalmStep

LEMMA AroundInv == ASSUME ActivationInv, Configure \/ Lapse PROVE ActivationInv'
<1>1. UNCHANGED <<session, proc, wrote>>
  BY DEF Configure, Lapse
<1>2. railway' \subseteq Gates /\ window' \in BOOLEAN
  BY DEF Configure, Lapse, ActivationInv, ActivationTypeOK, Gates
<1>3. deploys' \in 0..MaxDeploys /\
         (queued' = NoDeploy \/ queued' \in [gates: SUBSET Gates, jobs: SUBSET Jobs])
  BY ActivationConstants DEF Configure, Deploy, Lapse, ActivationInv, ActivationTypeOK, Gates
<1>4. ActivationTypeOK'
  BY <1>1, <1>2, <1>3 DEF ActivationInv, ActivationTypeOK
<1>. QED BY <1>1, <1>4 DEF ActivationInv

LEMMA ActivationStepInv == ActivationInv /\ [ActivationNext]_activationVars => ActivationInv'
<1>. SUFFICES ASSUME ActivationInv, [ActivationNext]_activationVars PROVE ActivationInv'
  OBVIOUS
<1>1. CASE Configure \/ Lapse
  BY <1>1, AroundInv
<1>2. ASSUME NEW p \in Procs, Start(p) \/ Terminate(p) \/ Crash(p) \/ Stop(p)
      PROVE  ActivationInv'
  BY <1>2, StartInv, TerminateInv, DiesInv DEF Crash, Stop
<1>3. ASSUME NEW p \in Procs, Work(p) PROVE ActivationInv'
  BY <1>2, <1>3, BodyInv, ActivateInv, RunInv, InspectInv, KillInv, ReportInv, CancelledInv,
     ForceInv, VerifyInv, JobInv DEF Work
<1>4. CASE UNCHANGED activationVars
  <2>1. ActivationTypeOK'
    BY <1>4 DEF activationVars, ActivationInv, ActivationTypeOK
  <2>. QED BY <1>4, <2>1 DEF activationVars, ActivationInv
<1>. QED BY <1>1, <1>2, <1>3, <1>4 DEF ActivationNext

\* The inductive invariant holds in every reachable state.
THEOREM ActivationInvariant == ActivationSpec => []ActivationInv
<1>. QED BY ActivationInitInv, ActivationStepInv, PTL DEF ActivationSpec

\* The variables keep their types.
THEOREM ActivationTypes == ActivationSpec => []ActivationTypeOK
<1>1. ActivationInv => ActivationTypeOK
  BY DEF ActivationInv
<1>. QED BY <1>1, ActivationInvariant, PTL

\* No process still has a gate of its own once its write has reached Railway, and none
\* that has a gate runs another job.
THEOREM LocalAuthorityFirst == ActivationSpec => []LocalFirst
<1>1. ActivationInv => LocalFirst
  BY DEF ActivationInv, LocalFirst, ProcOK
<1>. QED BY <1>1, ActivationInvariant, PTL

\* A supervisor that reached its end has closed its session and taken the gates at
\* Railway, except for what it reports lost.
THEOREM TruthfulReport == ActivationSpec => []ShutdownReport
<1>1. ActivationInv => ShutdownReport
  BY DEF ActivationInv, ShutdownReport, ProcOK, At
<1>. QED BY <1>1, ActivationInvariant, PTL
=============================================================================
